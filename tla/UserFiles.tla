----------------------------- MODULE UserFiles -----------------------------
(***************************************************************************)
(* The files that the local file boundary (radishmemory-file-entry) shares *)
(* with the user.  Names of one directory lead to files.  The user and     *)
(* other programs edit the files under the names of Edited between any two *)
(* system calls, and remove names of Removable.  The directory itself      *)
(* stays where it is.  A change of a file changes its observation (device, *)
(* inode, length and times on Unix): two edits within one tick of the file *)
(* system's clock are not modelled.                                        *)
(*                                                                         *)
(* Content is a sequence of chunks; the chunk Bad stands for bytes that    *)
(* are not UTF-8 or are NUL.                                               *)
(***************************************************************************)
EXTENDS Naturals, Sequences

CONSTANTS Names,
          Edited,     \* names whose files other programs write and replace
          Removable,  \* names that other programs remove
          Writers,    \* who may write a file, besides the user
          User,
          Chunks,
          Bad,
          MaxBytes,   \* MAX_FILE_BYTES, in chunks
          MaxFiles,   \* bound on the files ever created
          MaxEdits    \* bound on the steps of other programs

ASSUME FilesAssumption ==
    /\ Edited \subseteq Names
    /\ Removable \subseteq Names
    /\ User \notin Writers
    /\ Bad \in Chunks
    /\ MaxBytes \in Nat \ {0}
    /\ MaxFiles \in Nat \ {0}
    /\ MaxEdits \in Nat

VARIABLES
    name,   \* the file that each name leads to, 0 for none
    file,   \* the files that were ever created
    edits   \* steps of other programs so far

fileVars == <<name, file, edits>>

Contents == UNION {[1..n -> Chunks] : n \in 0..(MaxBytes + 1)}
FileRecord == [content : Contents, changes : Nat, by : {User} \cup Writers]

(* FileObservation: which file, its length and how often it was changed.    *)
Observation == (0..MaxFiles) \X (0..(MaxBytes + 1)) \X Nat
Nothing == <<0, 0, 0>>

FilesTypeOK ==
    /\ name \in [Names -> 0..MaxFiles]
    /\ file \in Seq(FileRecord) /\ Len(file) <= MaxFiles
    /\ \A n \in Names : name[n] <= Len(file)
    /\ edits \in 0..MaxEdits

(* Mutant: the times of the file are left out.                              *)
ObserveLength(f) == <<f, Len(file[f].content), 0>>

Observe(f) == <<f, Len(file[f].content), file[f].changes>>

(* Some program changes the content of file f.                              *)
Write(f, content, who) ==
    file' = [file EXCEPT ![f] = [content |-> content, changes |-> @.changes + 1, by |-> who]]

(* remove_file for a name: the file loses a link.                           *)
Unlink(n) ==
    /\ name' = [name EXCEPT ![n] = 0]
    /\ file' = [file EXCEPT ![name[n]].changes = @ + 1]

-----------------------------------------------------------------------------
Edit ==
    /\ edits < MaxEdits
    /\ edits' = edits + 1

(* A file is rewritten in place: a chunk changed, cut or appended.          *)
UserWrites(n) ==
    /\ Edit
    /\ name[n] # 0
    /\ LET old == file[name[n]].content IN
       \/ \E i \in 1..Len(old), x \in Chunks :
            old[i] # x /\ Write(name[n], [old EXCEPT ![i] = x], User)
       \/ /\ Len(old) > 0
          /\ Write(name[n], SubSeq(old, 1, Len(old) - 1), User)
       \/ /\ Len(old) <= MaxBytes
          /\ \E x \in Chunks : Write(name[n], Append(old, x), User)
    /\ UNCHANGED name

(* A name is given to a new file, whatever it led to.                       *)
UserReplaces(n) ==
    /\ Edit
    /\ Len(file) < MaxFiles
    /\ \E c \in Contents :
         file' = Append(file, [content |-> c, changes |-> 0, by |-> User])
    /\ name' = [name EXCEPT ![n] = Len(file) + 1]

UserRemoves(n) ==
    /\ Edit
    /\ name[n] # 0
    /\ Unlink(n)

UserStep ==
    \/ \E n \in Edited : UserWrites(n) \/ UserReplaces(n)
    \/ \E n \in Removable : UserRemoves(n)
=============================================================================
