-------------------------------- MODULE PStore --------------------------------
(***************************************************************************)
(* Transactions on a store kept in a file (PStore#transaction of           *)
(* ruby/lib/pstore.rb, File.copy of ruby/lib/ftools.rb, IO#read and        *)
(* File#flock of ruby/io.c and ruby/file.c).                               *)
(*                                                                         *)
(* Processes open the file of the store, lock it and read the whole table; *)
(* after the block the old file is copied to the backup and the file is    *)
(* rewritten in place.  A process may be killed at any step; copying and   *)
(* writing may fail, and nobody looks at whether the copy has.  A file's   *)
(* content is the set of entries that Marshal finds in it, or Broken when  *)
(* Marshal.load raises: the empty file too, which IO#read gives as "" and  *)
(* not as nil, and a part of a copy.                                       *)
(***************************************************************************)
EXTENDS Naturals, FiniteSets

CONSTANTS Procs,        \* processes, each with a PStore object of its own
          Entries,      \* what a transaction adds to the table
          NoTable,      \* @table is nil
          Broken,       \* a content that Marshal.load raises for
          None,         \* no inode
          Inodes,       \* bound on the number of inodes
          SharedFaults, \* TRUE: writing may fail while others have the file
                        \* open, and several processes may create the file
          CopyFaults    \* TRUE: the process may be killed, and writing may
                        \* fail, also after its copy has failed

ASSUME InodeAssumption == None \notin Inodes
ASSUME TableAssumption == \A T \in SUBSET Entries : T # NoTable /\ T # Broken

VARIABLES
  file, backup,  \* the inodes that the two names refer to
  content,       \* content of an inode
  fd,            \* the inode a process has open
  lock,          \* "none", "SH" or "EX": the flock held on fd
  pc,            \* where in transaction the process is
  orig,          \* the file was opened with "rb+": it existed
  table,         \* @table
  md5            \* the content read, whose size and digest are kept

names == <<file, backup>>
procVars == <<fd, lock, pc, orig, table, md5>>
vars == <<names, content, procVars>>

Init ==
  /\ file = None /\ backup = None
  /\ content = [i \in Inodes |-> Broken]
  /\ fd = [p \in Procs |-> None]
  /\ lock = [p \in Procs |-> "none"]
  /\ pc = [p \in Procs |-> "out"]
  /\ orig = [p \in Procs |-> FALSE]
  /\ table = [p \in Procs |-> NoTable]
  /\ md5 = [p \in Procs |-> NoTable]

-----------------------------------------------------------------------------
\* Inodes that no name and no process refers to.
FreeInodes == Inodes \ ({file, backup} \cup {fd[p] : p \in Procs})

OthersIn(p) == \E q \in Procs \ {p} : pc[q] # "out"

\* Where a process waits for the lock of a mode.
Waiting == [SH |-> "flock_SH", EX |-> "flock_EX"]

\* File.open(@filename, "rb+").  ENOENT: raised again in a transaction that
\* only reads, otherwise the file is created by the next step.
Open(p) ==
  /\ pc[p] = "out"
  /\ \/ /\ file # None
        /\ fd' = [fd EXCEPT ![p] = file]
        /\ orig' = [orig EXCEPT ![p] = TRUE]
        /\ \E m \in {"flock_SH", "flock_EX"} : pc' = [pc EXCEPT ![p] = m]
     \/ /\ file = None
        /\ SharedFaults \/ ~ OthersIn(p)
        /\ pc' = [pc EXCEPT ![p] = "create"]
        /\ orig' = [orig EXCEPT ![p] = FALSE]
        /\ UNCHANGED fd
  /\ UNCHANGED <<names, content, lock, table, md5>>

\* File.open(@filename, "wb+") creates the file, or empties the one that
\* another process has created meanwhile.
Create(p) ==
  /\ pc[p] = "create"
  /\ \E i \in IF file # None THEN {file} ELSE FreeInodes :
       /\ file' = i
       /\ content' = [content EXCEPT ![i] = Broken]
       /\ fd' = [fd EXCEPT ![p] = i]
  /\ pc' = [pc EXCEPT ![p] = "flock_EX"]
  /\ UNCHANGED <<backup, lock, orig, table, md5>>

\* Mutant: the lock is taken without looking at those of other processes.
FlockAlways(p, mode) ==
  /\ pc[p] = Waiting[mode]
  /\ lock' = [lock EXCEPT ![p] = mode]
  /\ pc' = [pc EXCEPT ![p] = "read"]
  /\ UNCHANGED <<names, content, fd, orig, table, md5>>

\* file.flock waits for the locks on the same inode.
Flock(p, mode) ==
  /\ pc[p] = Waiting[mode]
  /\ \A q \in Procs \ {p} : fd[q] = fd[p] =>
       lock[q] = "none" \/ (mode = "SH" /\ lock[q] = "SH")
  /\ lock' = [lock EXCEPT ![p] = mode]
  /\ pc' = [pc EXCEPT ![p] = "read"]
  /\ UNCHANGED <<names, content, fd, orig, table, md5>>

\* Mutant: the table is empty in a file that exists too.
ReadEmpty(p) ==
  /\ pc[p] = "read"
  /\ pc' = [pc EXCEPT ![p] = IF orig[p] /\ content[fd[p]] = Broken
                             THEN "close" ELSE "block"]
  /\ table' = [table EXCEPT ![p] = {}]
  /\ md5' = [md5 EXCEPT ![p] = IF orig[p] /\ content[fd[p]] # Broken
                               THEN content[fd[p]] ELSE NoTable]
  /\ UNCHANGED <<names, content, fd, lock, orig>>

\* The table is loaded, or is empty in a file just created.  An exception of
\* Marshal.load leaves the transaction.
Read(p) ==
  /\ pc[p] = "read"
  /\ LET c == content[fd[p]] IN
     IF orig[p]
     THEN /\ pc' = [pc EXCEPT ![p] = IF c = Broken THEN "close" ELSE "block"]
          /\ table' = [table EXCEPT ![p] = IF c = Broken THEN NoTable ELSE c]
          /\ md5' = [md5 EXCEPT ![p] = table'[p]]
     ELSE /\ pc' = [pc EXCEPT ![p] = "block"]
          /\ table' = [table EXCEPT ![p] = {}]
          /\ md5' = [md5 EXCEPT ![p] = NoTable]
  /\ UNCHANGED <<names, content, fd, lock, orig>>

\* The block ends: by abort, by an exception or, in a transaction that only
\* reads, in any way; or by commit or at its end, having added an entry or
\* nothing.  An unchanged table is not written.
Block(p) ==
  /\ pc[p] = "block"
  /\ \/ /\ pc' = [pc EXCEPT ![p] = "close"]
        /\ UNCHANGED table
     \/ /\ lock[p] = "EX"
        /\ \E es \in {{}} \cup {{e} : e \in Entries} :
             table' = [table EXCEPT ![p] = @ \cup es]
        /\ pc' = [pc EXCEPT ![p] = IF table'[p] # md5[p] THEN "copy" ELSE "close"]
  /\ UNCHANGED <<names, content, fd, lock, orig, md5>>

\* File.copy @filename, backup: the copy is emptied, then written.  Opening the
\* files may raise an exception, and closing the copy or setting its mode too,
\* which leaves the transaction.  An error while the copy is written is rescued
\* by syscopy, whose result is ignored: a part of the file is taken for a copy.
Copy(p) ==
  \/ /\ pc[p] = "copy"
     /\ \E i \in IF backup # None THEN {backup} ELSE FreeInodes :
          /\ backup' = i
          /\ content' = [content EXCEPT ![i] = Broken]
     /\ pc' = [pc EXCEPT ![p] = "copying"]
     /\ UNCHANGED <<file, fd, lock, orig, table, md5>>
  \/ /\ pc[p] = "copy"
     /\ pc' = [pc EXCEPT ![p] = "close"]
     /\ UNCHANGED <<names, content, fd, lock, orig, table, md5>>
  \/ /\ pc[p] = "copying"
     /\ \E c \in {content[file], Broken} : content' = [content EXCEPT ![backup] = c]
     /\ \E next \in {"write", "close"} : pc' = [pc EXCEPT ![p] = next]
     /\ UNCHANGED <<names, fd, lock, orig, table, md5>>

\* file.write(content) and file.truncate(file.pos) have changed the file; the
\* end of the content is still in the buffer of the stream.
Write(p) ==
  /\ pc[p] = "write"
  /\ content' = [content EXCEPT ![fd[p]] = Broken]
  /\ pc' = [pc EXCEPT ![p] = "written"]
  /\ UNCHANGED <<names, fd, lock, orig, table, md5>>

Whole(i) == i # None /\ content[i] # Broken

\* There was a table, and the copy that has been made of it is no good.
CopyFailed(p) == md5[p] # NoTable /\ ~Whole(backup)

\* The file is being rewritten and its old content is nowhere.
Unsaved(p) == pc[p] = "written" /\ CopyFailed(p)

\* An error in write or truncate: the backup, whatever is in it, takes the name
\* of the file.
WriteFails(p) ==
  /\ pc[p] = "write"
  /\ CopyFaults \/ ~CopyFailed(p)
  /\ SharedFaults \/ ~ OthersIn(p)
  /\ content' = [content EXCEPT ![fd[p]] = Broken]
  /\ file' = IF backup # None THEN backup ELSE file
  /\ backup' = None
  /\ pc' = [pc EXCEPT ![p] = "close"]
  /\ UNCHANGED <<fd, lock, orig, table, md5>>

\* The process is out of the transaction and has the file no longer open.
Left(p) ==
  /\ pc' = [pc EXCEPT ![p] = "out"]
  /\ fd' = [fd EXCEPT ![p] = None]
  /\ lock' = [lock EXCEPT ![p] = "none"]
  /\ table' = [table EXCEPT ![p] = NoTable]
  /\ md5' = [md5 EXCEPT ![p] = NoTable]
  /\ UNCHANGED orig

\* file.close flushes the buffer.
Close(p) ==
  /\ pc[p] \in {"close", "written"}
  /\ content' = IF pc[p] = "written"
                THEN [content EXCEPT ![fd[p]] = table[p]] ELSE content
  /\ Left(p)
  /\ UNCHANGED names

\* The process is killed at any step, or the flush of file.close fails: the
\* file stays as it is on the disk.
Crash(p) ==
  /\ pc[p] # "out"
  /\ CopyFaults \/ ~Unsaved(p)
  /\ Left(p)
  /\ UNCHANGED <<names, content>>

Next == \E p \in Procs :
  \/ Open(p) \/ Create(p) \/ Flock(p, "SH") \/ Flock(p, "EX")
  \/ Read(p) \/ Block(p) \/ Copy(p) \/ Write(p) \/ WriteFails(p)
  \/ Close(p) \/ Crash(p)

Spec == Init /\ [][Next]_vars

-----------------------------------------------------------------------------
TypeOK ==
  /\ {file, backup} \subseteq Inodes \cup {None}
  /\ \A i \in Inodes : content[i] = Broken \/ content[i] \subseteq Entries
  /\ lock \in [Procs -> {"none", "SH", "EX"}]
  /\ \A p \in Procs : lock[p] # "none" => fd[p] \in Inodes

\* The entries that the file gives or, when it is broken, its backup.
Stored == IF Whole(file) THEN content[file]
          ELSE IF Whole(backup) THEN content[backup] ELSE {}

\* The table that a transaction has read.
InTransaction(p) == pc[p] \in {"block", "copy", "copying", "write", "written"}
Snapshot(p) == IF md5[p] = NoTable THEN {} ELSE md5[p]

\* Nobody changes the store under a transaction, a crash or a failed write of
\* another process included: until it ends, the table that it has read, which
\* decides whether there is something to write, is the table stored.  A process
\* whose copy has failed has it nowhere while it rewrites the file.
SnapshotCurrent == \A p \in Procs :
  InTransaction(p) => Unsaved(p) \/ Stored = Snapshot(p)

\* The committed entries: those stored, and those that the process rewriting the
\* file without a copy has taken from the disk.
Committed == Stored \cup UNION {Snapshot(p) : p \in {q \in Procs : Unsaved(q)}}

View == [p \in Procs |-> IF InTransaction(p) THEN Snapshot(p) ELSE NoTable]
Abstract == <<Committed, View>>

Atomic == INSTANCE TxStore WITH table <- Committed, view <- View

\* The store is a store with transactions: what has been committed is in the
\* file or can be taken from its backup, at every step of a transaction and
\* after a crash or a failed write at any of them, and a transaction writes
\* what it has made of the table as it is, not of an older one.  A failed copy
\* alone loses nothing either.  One that a crash or a failed write follows loses
\* the table, and is left to CopyFaults.
StoreAtomic == Atomic!Spec
=============================================================================
