---------------------------- MODULE StorageProofs ----------------------------
(* PStore implements TxStore, for any number of processes, entries and      *)
(* inodes, when writing fails and the file is created only while no other   *)
(* process is in a transaction, and no process is killed after its copy has *)
(* failed; and the arrays of RubyArray are sound, for   *)
(* any number of arrays, elements, buffers and operations of any length,     *)
(* when the blocks of map! and delete_if do not share the array.             *)
EXTENDS PStore, RubyArray, FiniteSetTheorems, SequenceTheorems, WellFoundedInduction, TLAPS

(* Transactions of PStore.                                                    *)

Tables == SUBSET Entries
Working == {"block", "copy", "copying", "write", "written"}
Writing == {"copy", "copying", "write", "written"}
Opened == {"flock_SH", "flock_EX", "read"} \cup Working
Points == Opened \cup {"out", "create", "close"}

Types ==
  /\ file \in Inodes \cup {None} /\ backup \in Inodes \cup {None}
  /\ content \in [Inodes -> Tables \cup {Broken}]
  /\ fd \in [Procs -> Inodes \cup {None}]
  /\ lock \in [Procs -> {"none", "SH", "EX"}]
  /\ pc \in [Procs -> Points]
  /\ orig \in [Procs -> BOOLEAN]
  /\ table \in [Procs -> Tables \cup {NoTable}]
  /\ md5 \in [Procs -> Tables \cup {NoTable}]

\* The two names never refer to one inode, and there is a backup only of a file.
Names == (file = None => backup = None) /\ (file = backup => file = None)

\* A process that is past the opening and has not failed has the file open; the
\* file is created by a process that is alone.
FileOpen == \A p \in Procs : /\ pc[p] \in Opened => file # None /\ fd[p] = file
                             /\ pc[p] = "close" => fd[p] # None
Creating == \A p \in Procs : pc[p] = "create" =>
              file = None /\ \A q \in Procs \ {p} : pc[q] = "out"

\* Who holds a lock, in which mode, and who else cannot.
LockPoints == \A p \in Procs :
  /\ lock[p] # "none" <=> pc[p] \in {"read", "close"} \cup Working
  /\ pc[p] \in Writing => lock[p] = "EX"
Exclusive == \A p, q \in Procs :
  p # q /\ lock[p] = "EX" /\ lock[q] # "none" => fd[p] # fd[q]

\* The process that has created the file finds it as it left it: what the others
\* read until then is broken.
Fresh == \A p \in Procs : pc[p] \in {"flock_SH", "flock_EX", "read"} /\ ~orig[p] =>
  /\ ~Whole(file) /\ backup = None
  /\ \A q \in Procs \ {p} : /\ pc[q] = "out" \/ orig[q]
                            /\ ~InTransaction(q)

\* What a transaction has made of the table it has read.
Worked == \A p \in Procs :
  /\ pc[p] = "block" => table[p] = Snapshot(p)
  /\ pc[p] \in Writing => \/ table[p] = Snapshot(p)
                          \/ \E e \in Entries : table[p] = Snapshot(p) \cup {e}

\* At every point the old table is in the file or in its backup, unless the copy
\* has failed.
Recoverable == \A p \in Procs :
  /\ pc[p] \in {"block", "copy"} => Whole(file) \/ backup = None
  /\ pc[p] = "copying" => backup # None /\ ~Whole(backup)
  /\ pc[p] = "write" => backup # None /\ content[backup] \in {content[file], Broken}
  /\ pc[p] = "written" => ~Whole(file)

StoreInv == /\ Types /\ Names /\ FileOpen /\ Creating /\ LockPoints /\ Exclusive
            /\ Fresh /\ Worked /\ Recoverable /\ SnapshotCurrent
\* Nobody else is in a transaction while a process writes.
LEMMA SoleWriter ==
  ASSUME Types, FileOpen, LockPoints, Exclusive, NEW p \in Procs, pc[p] \in Writing
  PROVE  \A q \in Procs \ {p} : ~InTransaction(q) /\ pc[q] # "read"
BY DEF Types, FileOpen, LockPoints, Exclusive, Writing, Working, Opened, InTransaction

\* A step that leaves the two files alone.
LEMMA SameStore ==
  ASSUME UNCHANGED <<names, content>>
  PROVE  /\ Stored' = Stored /\ (Whole(file))' = Whole(file)
         /\ (Whole(backup))' = Whole(backup)
BY DEF names, Stored, Whole

LEMMA OpenKeeps ==
  ASSUME ~SharedFaults, ~CopyFaults, StoreInv, NEW p \in Procs, Open(p)
  PROVE  StoreInv'
<1> USE InodeAssumption, TableAssumption DEF names, StoreInv, Points, Opened, Working, Writing, Tables, Open
<1>1. Types'
  BY ZenonT(30) DEF Types
<1>2. Names'
  BY DEF Types, Names
<1>3. FileOpen'
  BY DEF Types, FileOpen
<1>4. Creating'
  BY DEF Types, FileOpen, Creating, OthersIn
<1>5. LockPoints'
  BY DEF Types, LockPoints
<1>6. Exclusive'
  BY DEF Types, LockPoints, Exclusive
<1>7. Fresh'
  <2>1. CASE file = None
    BY <2>1 DEF Types, FileOpen, Fresh
  <2>2. CASE file # None
    <3>1. /\ orig'[p] = TRUE /\ pc'[p] \in {"flock_SH", "flock_EX"}
          /\ \A q \in Procs \ {p} : pc'[q] = pc[q] /\ orig'[q] = orig[q]
      BY <2>2 DEF Types
    <3>2. ~InTransaction(p)' /\ \A q \in Procs \ {p} : InTransaction(q)' = InTransaction(q)
      BY <3>1 DEF InTransaction
    <3>3. UNCHANGED <<names, content>>
      OBVIOUS
    <3>4. QED
      BY <3>1, <3>2, <3>3, SameStore DEF Fresh
  <2>3. QED
    BY <2>1, <2>2
<1>8. Worked'
  BY DEF Types, Worked, Snapshot
<1>9. Recoverable'
  BY DEF Types, Recoverable, Whole
<1>10. SnapshotCurrent'
  BY DEF Types, SnapshotCurrent, Stored, Whole, InTransaction, Snapshot, Unsaved, CopyFailed
<1>11. QED
  BY <1>1, <1>2, <1>3, <1>4, <1>5, <1>6, <1>7, <1>8, <1>9, <1>10

LEMMA CreateKeeps ==
  ASSUME ~SharedFaults, ~CopyFaults, StoreInv, NEW p \in Procs, Create(p)
  PROVE  StoreInv'
<1> USE InodeAssumption, TableAssumption DEF names, StoreInv, Points, Opened, Working, Writing, Tables, Create, FreeInodes
<1>1. Types'
  BY DEF Types
<1>2. Names'
  BY DEF Types, Names
<1>3. FileOpen'
  BY DEF Types, FileOpen
<1>4. Creating'
  BY DEF Types, FileOpen, Creating
<1>5. LockPoints'
  BY DEF Types, LockPoints
<1>6. Exclusive'
  BY DEF Types, LockPoints, Exclusive
<1>7. Fresh'
  <2>1. /\ file = None /\ backup = None /\ backup' = None
        /\ \A q \in Procs \ {p} : pc[q] = "out" /\ pc'[q] = "out"
    BY DEF Types, Names, Creating
  <2>2. content'[file'] = Broken
    BY <2>1 DEF Types
  <2>3. QED
    BY <2>1, <2>2 DEF Fresh, Whole, InTransaction
<1>8. Worked'
  BY DEF Types, Worked, Snapshot
<1>9. Recoverable'
  BY DEF Types, Creating, Recoverable
<1>10. SnapshotCurrent'
  BY DEF Types, Creating, SnapshotCurrent, InTransaction
<1>11. QED
  BY <1>1, <1>2, <1>3, <1>4, <1>5, <1>6, <1>7, <1>8, <1>9, <1>10

LEMMA FlockKeeps ==
  ASSUME ~SharedFaults, ~CopyFaults, StoreInv, NEW p \in Procs, NEW m \in {"SH", "EX"}, Flock(p, m)
  PROVE  StoreInv'
<1> USE InodeAssumption, TableAssumption DEF names, StoreInv, Points, Opened, Working, Writing, Tables, Flock, Waiting
<1>1. Types'
  BY DEF Types
<1>2. Names'
  BY DEF Types, Names
<1>3. FileOpen'
  BY DEF Types, FileOpen
<1>4. Creating'
  BY DEF Types, FileOpen, Creating
<1>5. LockPoints'
  BY DEF Types, LockPoints
<1>6. Exclusive'
  BY DEF Types, LockPoints, Exclusive
<1>7. Fresh'
  BY DEF Types, Fresh, Whole, InTransaction
<1>8. Worked'
  BY DEF Types, Worked, Snapshot
<1>9. Recoverable'
  BY DEF Types, Recoverable, Whole
<1>10. SnapshotCurrent'
  BY DEF Types, SnapshotCurrent, Stored, Whole, InTransaction, Snapshot, Unsaved, CopyFailed
<1>11. QED
  BY <1>1, <1>2, <1>3, <1>4, <1>5, <1>6, <1>7, <1>8, <1>9, <1>10

LEMMA ReadKeeps ==
  ASSUME ~SharedFaults, ~CopyFaults, StoreInv, NEW p \in Procs, Read(p)
  PROVE  StoreInv'
<1> USE InodeAssumption, TableAssumption DEF names, StoreInv, Points, Opened, Working, Writing, Tables, Read
<1>a. fd[p] = file /\ file \in Inodes /\ content[file] \in Tables \cup {Broken}
  BY DEF Types, FileOpen
<1>b. \/ /\ orig[p] /\ content[file] = Broken
         /\ pc'[p] = "close" /\ table'[p] = NoTable /\ md5'[p] = NoTable
      \/ /\ orig[p] /\ content[file] # Broken
         /\ pc'[p] = "block" /\ table'[p] = content[file] /\ md5'[p] = content[file]
      \/ /\ ~orig[p]
         /\ pc'[p] = "block" /\ table'[p] = {} /\ md5'[p] = NoTable
  BY <1>a DEF Types
<1>c. /\ \A q \in Procs \ {p} : pc'[q] = pc[q] /\ table'[q] = table[q] /\ md5'[q] = md5[q]
      /\ UNCHANGED <<names, content, fd, lock, orig>>
  BY DEF Types
<1>d. /\ pc' = [pc EXCEPT ![p] = pc'[p]] /\ table' = [table EXCEPT ![p] = table'[p]]
      /\ md5' = [md5 EXCEPT ![p] = md5'[p]]
  BY DEF Types
<1>e. \A q \in Procs \ {p} : /\ InTransaction(q)' = InTransaction(q)
                             /\ Snapshot(q)' = Snapshot(q)
  BY <1>c DEF InTransaction, Snapshot
<1>f. pc'[p] = "block" => /\ Snapshot(p)' = Stored /\ table'[p] = Stored
                          /\ Whole(file) \/ backup = None
  BY <1>a, <1>b DEF Fresh, Stored, Whole, Snapshot
<1>g. pc[p] = "read"
  OBVIOUS
<1> HIDE DEF Read
<1>1. Types'
  BY <1>a, <1>b, <1>c, <1>d DEF Types
<1>2. Names'
  BY <1>c DEF Names
<1>3. FileOpen'
  BY <1>b, <1>c, <1>g DEF FileOpen
<1>4. Creating'
  BY <1>b, <1>c, <1>g DEF Creating
<1>5. LockPoints'
  BY <1>b, <1>c, <1>g DEF LockPoints
<1>6. Exclusive'
  BY <1>c DEF Exclusive
<1>7. Fresh'
  <2> SUFFICES ASSUME NEW x \in Procs, pc'[x] \in {"flock_SH", "flock_EX", "read"},
                      ~orig'[x]
               PROVE  /\ ~Whole(file)' /\ backup' = None
                      /\ \A q \in Procs \ {x} : /\ pc'[q] = "out" \/ orig'[q]
                                                /\ ~InTransaction(q)'
    BY DEF Fresh
  <2>1. x # p /\ pc[x] = pc'[x] /\ ~orig[x]
    BY <1>b, <1>c
  <2>2. /\ ~Whole(file) /\ backup = None
        /\ \A q \in Procs \ {x} : (pc[q] = "out" \/ orig[q]) /\ ~InTransaction(q)
    BY <2>1 DEF Fresh
  <2>3. pc'[p] = "close"
    BY <1>a, <1>b, <1>g, <2>1, <2>2 DEF Whole
  <2>4. QED
    BY <1>c, <1>e, <1>g, <2>1, <2>2, <2>3, SameStore DEF InTransaction, names
<1>8. Worked'
  BY <1>b, <1>c, <1>e, <1>f DEF Worked
<1>9. Recoverable'
  BY <1>b, <1>c, <1>f, SameStore DEF Recoverable
<1>10. SnapshotCurrent'
  BY <1>b, <1>c, <1>e, <1>f, SameStore DEF SnapshotCurrent, InTransaction, Unsaved, CopyFailed
<1>11. QED
  BY <1>1, <1>2, <1>3, <1>4, <1>5, <1>6, <1>7, <1>8, <1>9, <1>10

LEMMA BlockKeeps ==
  ASSUME ~SharedFaults, ~CopyFaults, StoreInv, NEW p \in Procs, Block(p)
  PROVE  StoreInv'
<1> USE InodeAssumption, TableAssumption DEF names, StoreInv, Points, Opened, Working, Writing, Tables, Block
<1>a. /\ pc'[p] = "close" \/ (lock[p] = "EX" /\ pc'[p] \in {"copy", "close"})
      /\ \/ table'[p] = table[p] \/ \E e \in Entries : table'[p] = table[p] \cup {e}
      /\ \A q \in Procs \ {p} : pc'[q] = pc[q] /\ table'[q] = table[q]
      /\ pc' = [pc EXCEPT ![p] = pc'[p]] /\ table' = [table EXCEPT ![p] = table'[p]]
  <2>1. CASE pc' = [pc EXCEPT ![p] = "close"] /\ UNCHANGED table
    BY <2>1 DEF Types
  <2>2. CASE /\ lock[p] = "EX"
             /\ \E es \in {{}} \cup {{e} : e \in Entries} :
                  table' = [table EXCEPT ![p] = @ \cup es]
             /\ pc' = [pc EXCEPT ![p] = IF table'[p] # md5[p] THEN "copy" ELSE "close"]
    <3>1. PICK es \in {{}} \cup {{e} : e \in Entries} :
            table' = [table EXCEPT ![p] = table[p] \cup es]
      BY <2>2
    <3>2. es = {} \/ \E e \in Entries : es = {e}
      BY <3>1
    <3>3. table'[p] = table[p] \/ \E e \in Entries : table'[p] = table[p] \cup {e}
      BY <3>1, <3>2 DEF Types
    <3>4. \A q \in Procs \ {p} : table'[q] = table[q]
      BY <3>1 DEF Types
    <3>5. table' = [table EXCEPT ![p] = table'[p]]
      BY <3>1 DEF Types
    <3> HIDE DEF Block
    <3>6. QED
      BY <2>2, <3>3, <3>4, <3>5 DEF Types
  <2>3. QED
    BY <2>1, <2>2
<1>b. table[p] = Snapshot(p) /\ Snapshot(p) \in Tables
  BY DEF Types, Worked, Snapshot
<1>1. Types'
  <2>1. table'[p] \in Tables
    BY <1>a, <1>b
  <2>2. QED
    BY <1>a, <2>1 DEF Types
<1>2. Names'
  BY DEF Types, Names
<1>3. FileOpen'
  BY DEF Types, FileOpen
<1>4. Creating'
  BY DEF Types, FileOpen, Creating
<1>5. LockPoints'
  BY DEF Types, LockPoints
<1>6. Exclusive'
  BY DEF Types, LockPoints, Exclusive
<1>7. Fresh'
  BY DEF Types, Fresh, Whole, InTransaction
<1>8. Worked'
  <2>1. \A q \in Procs : Snapshot(q)' = Snapshot(q)
    BY DEF Snapshot
  <2> HIDE DEF Block
  <2>2. QED
    BY <1>a, <1>b, <2>1 DEF Worked
<1>9. Recoverable'
  BY DEF Types, Recoverable, Whole
<1>10. SnapshotCurrent'
  BY DEF Types, SnapshotCurrent, Stored, Whole, InTransaction, Snapshot, Unsaved, CopyFailed
<1>11. QED
  BY <1>1, <1>2, <1>3, <1>4, <1>5, <1>6, <1>7, <1>8, <1>9, <1>10

LEMMA CopyKeeps ==
  ASSUME ~SharedFaults, ~CopyFaults, StoreInv, NEW p \in Procs, Copy(p)
  PROVE  StoreInv'
<1> USE InodeAssumption, TableAssumption DEF names, StoreInv, Points, Opened, Working, Writing, Tables, Copy, FreeInodes
<1>a. /\ fd[p] = file /\ file \in Inodes /\ UNCHANGED <<file, fd, lock, orig, table, md5>>
      /\ \/ pc[p] = "copy" /\ pc'[p] = "copying" /\ backup' \in Inodes /\ backup' # file
            /\ content' = [content EXCEPT ![backup'] = Broken]
         \/ pc[p] = "copy" /\ pc'[p] = "close" /\ backup' = backup /\ content' = content
         \/ /\ pc[p] = "copying" /\ pc'[p] \in {"write", "close"}
            /\ backup' = backup /\ backup \in Inodes /\ backup # file
            /\ \E c \in {content[file], Broken} : content' = [content EXCEPT ![backup] = c]
      /\ \A q \in Procs \ {p} : pc'[q] = pc[q]
      /\ pc' = [pc EXCEPT ![p] = pc'[p]]
  BY DEF Types, FileOpen, Names, Recoverable
<1>b. \A q \in Procs \ {p} : ~InTransaction(q) /\ pc[q] # "read"
  BY SoleWriter
<1>c. /\ content'[file] = content[file]
      /\ content'[backup'] \in {Broken, content[file]} \/ UNCHANGED <<names, content>>
  BY <1>a DEF Types
<1>1. Types'
  BY <1>a, <1>c DEF Types
<1>2. Names'
  BY <1>a DEF Names
<1>3. FileOpen'
  BY DEF Types, FileOpen
<1>4. Creating'
  BY DEF Types, FileOpen, Creating
<1>5. LockPoints'
  BY DEF Types, LockPoints
<1>6. Exclusive'
  BY DEF Types, LockPoints, Exclusive
<1>7. Fresh'
  BY DEF Types, Fresh, Whole, InTransaction
<1>8. Worked'
  BY DEF Types, Worked, Snapshot
<1>9. Recoverable'
  <2> HIDE DEF Copy
  <2>1. pc'[p] = "copying" => content'[backup'] = Broken
    BY <1>a DEF Types
  <2>2. pc'[p] = "write" => content'[backup'] \in {content[file], Broken}
    BY <1>a DEF Types
  <2>3. QED
    BY <1>a, <1>b, <1>c, <2>1, <2>2 DEF Recoverable, Whole, InTransaction, Types
<1>10. SnapshotCurrent'
  <2> HIDE DEF Copy
  <2>1. Stored = Snapshot(p) /\ \A q \in Procs : Snapshot(q)' = Snapshot(q)
    BY <1>a DEF SnapshotCurrent, InTransaction, Snapshot, Unsaved
  <2>2. Whole(file) \/ ~Whole(backup)
    BY <1>a DEF Recoverable, Whole
  <2>3. Stored' = Stored
    BY <1>a, <1>c, <2>2 DEF Stored, Whole
  <2>4. QED
    BY <1>a, <1>b, <2>1, <2>3 DEF SnapshotCurrent, InTransaction, Unsaved, CopyFailed
<1>11. QED
  BY <1>1, <1>2, <1>3, <1>4, <1>5, <1>6, <1>7, <1>8, <1>9, <1>10

LEMMA WriteKeeps ==
  ASSUME ~SharedFaults, ~CopyFaults, StoreInv, NEW p \in Procs, Write(p)
  PROVE  StoreInv'
<1> USE InodeAssumption, TableAssumption DEF names, StoreInv, Points, Opened, Working, Writing, Tables, Write
<1>a. /\ fd[p] = file /\ file \in Inodes /\ backup \in Inodes /\ backup # file
      /\ content[backup] \in {content[file], Broken}
  BY DEF Types, FileOpen, Names, Recoverable
<1>b. \A q \in Procs \ {p} : ~InTransaction(q) /\ pc[q] # "read" /\ pc'[q] = pc[q]
  BY SoleWriter DEF Types
<1>c. /\ content'[file] = Broken /\ content'[backup] = content[backup]
      /\ file' = file /\ pc'[p] = "written"
  BY <1>a DEF Types
<1>1. Types'
  BY <1>a DEF Types
<1>2. Names'
  BY DEF Types, Names
<1>3. FileOpen'
  BY DEF Types, FileOpen
<1>4. Creating'
  BY DEF Types, FileOpen, Creating
<1>5. LockPoints'
  BY DEF Types, LockPoints
<1>6. Exclusive'
  BY DEF Types, LockPoints, Exclusive
<1>7. Fresh'
  BY DEF Types, Fresh, Whole, InTransaction
<1>8. Worked'
  BY DEF Types, Worked, Snapshot
<1>9. Recoverable'
  <2> HIDE DEF Write
  <2>1. pc'[p] = "written" /\ ~Whole(file)'
    BY <1>a, <1>c DEF Whole
  <2>2. \A q \in Procs \ {p} : pc'[q] \notin {"block", "copy", "copying", "write", "written"}
    BY <1>b DEF InTransaction
  <2>3. QED
    BY <2>1, <2>2 DEF Recoverable
<1>10. SnapshotCurrent'
  <2>1. Stored = Snapshot(p) /\ \A q \in Procs : Snapshot(q)' = Snapshot(q)
    BY DEF SnapshotCurrent, InTransaction, Snapshot, Unsaved, CopyFailed
  <2>2. Unsaved(p)' \/ Stored' = Stored
    <3>1. CASE content[backup] = Broken /\ md5[p] # NoTable
      BY <1>a, <1>c, <3>1 DEF Unsaved, CopyFailed, Whole
    <3>2. CASE content[backup] = Broken /\ md5[p] = NoTable
      <4>1. Stored = {}
        BY <2>1, <3>2 DEF Snapshot
      <4>2. QED
        BY <1>a, <1>c, <3>2, <4>1 DEF Stored, Whole
    <3>3. CASE content[backup] # Broken
      BY <1>a, <1>c, <3>3 DEF Stored, Whole
    <3>4. QED
      BY <3>1, <3>2, <3>3
  <2> HIDE DEF Write
  <2>3. QED
    BY <1>b, <1>c, <2>1, <2>2 DEF SnapshotCurrent, InTransaction, Unsaved, CopyFailed
<1>11. QED
  BY <1>1, <1>2, <1>3, <1>4, <1>5, <1>6, <1>7, <1>8, <1>9, <1>10

LEMMA WriteFailsKeeps ==
  ASSUME ~SharedFaults, ~CopyFaults, StoreInv, NEW p \in Procs, WriteFails(p)
  PROVE  StoreInv'
<1> USE InodeAssumption, TableAssumption DEF names, StoreInv, Points, Opened, Working, Writing, Tables, WriteFails, OthersIn, CopyFailed
<1>1. Types'
  BY DEF Types
<1>2. Names'
  BY DEF Types, Names
<1>3. FileOpen'
  BY DEF Types, FileOpen
<1>4. Creating'
  BY DEF Types, FileOpen, Creating
<1>5. LockPoints'
  BY DEF Types, LockPoints
<1>6. Exclusive'
  BY DEF Types, LockPoints, Exclusive
<1>7. Fresh'
  BY DEF Types, Fresh, Whole, InTransaction
<1>8. Worked'
  BY DEF Types, Worked, Snapshot
<1>9. Recoverable'
  BY DEF Types, Recoverable, Whole
<1>10. SnapshotCurrent'
  BY DEF Types, SnapshotCurrent, Stored, Whole, InTransaction, Snapshot, Unsaved, CopyFailed
<1>11. QED
  BY <1>1, <1>2, <1>3, <1>4, <1>5, <1>6, <1>7, <1>8, <1>9, <1>10

LEMMA CloseKeeps ==
  ASSUME ~SharedFaults, ~CopyFaults, StoreInv, NEW p \in Procs, Close(p)
  PROVE  StoreInv'
<1> USE InodeAssumption, TableAssumption DEF names, StoreInv, Points, Opened, Working, Writing, Tables, Close, Left
<1>a. pc[p] = "written" => /\ fd[p] = file /\ file \in Inodes /\ table[p] \in Tables
                           /\ \A q \in Procs \ {p} : ~InTransaction(q) /\ pc[q] # "read"
  <2>1. pc[p] = "written" => fd[p] = file /\ file \in Inodes
    BY DEF Types, FileOpen
  <2>2. pc[p] = "written" => table[p] \in Tables
    BY DEF Types, Worked, Snapshot
  <2>3. QED
    BY <2>1, <2>2, SoleWriter
<1>b. pc'[p] = "out" /\ \A q \in Procs \ {p} : pc'[q] = pc[q] /\ md5'[q] = md5[q]
  BY DEF Types
<1>1. Types'
  BY <1>a DEF Types
<1>2. Names'
  BY DEF Types, Names
<1>3. FileOpen'
  BY DEF Types, FileOpen
<1>4. Creating'
  BY DEF Types, FileOpen, Creating
<1>5. LockPoints'
  BY DEF Types, LockPoints
<1>6. Exclusive'
  BY DEF Types, LockPoints, Exclusive
<1>7. Fresh'
  BY DEF Types, Fresh, Whole, InTransaction
<1>8. Worked'
  BY DEF Types, Worked, Snapshot
<1>9. Recoverable'
  <2>1. CASE pc[p] = "written"
    <3> HIDE DEF Close
    <3>1. QED
      BY <1>a, <1>b, <2>1 DEF Recoverable, InTransaction
  <2>2. CASE pc[p] # "written"
    <3>1. UNCHANGED <<names, content>>
      BY <2>2
    <3> HIDE DEF Close
    <3>2. QED
      BY <1>b, <3>1, SameStore DEF Recoverable
  <2>3. QED
    BY <2>1, <2>2
<1>10. SnapshotCurrent'
  <2>1. CASE pc[p] = "written"
    <3> HIDE DEF Close
    <3>1. QED
      BY <1>a, <1>b, <2>1 DEF SnapshotCurrent, InTransaction, Unsaved, CopyFailed
  <2>2. CASE pc[p] # "written"
    <3>1. UNCHANGED <<names, content>>
      BY <2>2
    <3> HIDE DEF Close
    <3>2. QED
      BY <1>b, <3>1, SameStore DEF SnapshotCurrent, InTransaction, Snapshot, Unsaved, CopyFailed
  <2>3. QED
    BY <2>1, <2>2
<1>11. QED
  BY <1>1, <1>2, <1>3, <1>4, <1>5, <1>6, <1>7, <1>8, <1>9, <1>10

LEMMA CrashKeeps ==
  ASSUME ~SharedFaults, ~CopyFaults, StoreInv, NEW p \in Procs, Crash(p)
  PROVE  StoreInv'
<1> USE InodeAssumption, TableAssumption DEF names, StoreInv, Points, Opened, Working, Writing, Tables, Crash, Left
<1>1. Types'
  BY DEF Types
<1>2. Names'
  BY DEF Types, Names
<1>3. FileOpen'
  BY DEF Types, FileOpen
<1>4. Creating'
  BY DEF Types, FileOpen, Creating
<1>5. LockPoints'
  BY DEF Types, LockPoints
<1>6. Exclusive'
  BY DEF Types, LockPoints, Exclusive
<1>7. Fresh'
  BY DEF Types, Fresh, Whole, InTransaction
<1>8. Worked'
  BY DEF Types, Worked, Snapshot
<1>9. Recoverable'
  BY DEF Types, Recoverable, Whole
<1>10. SnapshotCurrent'
  BY DEF Types, SnapshotCurrent, Stored, Whole, InTransaction, Snapshot, Unsaved, CopyFailed
<1>11. QED
  BY <1>1, <1>2, <1>3, <1>4, <1>5, <1>6, <1>7, <1>8, <1>9, <1>10

LEMMA StoreInit == Init => StoreInv
BY InodeAssumption, TableAssumption
   DEF Init, StoreInv, Types, Names, FileOpen, Creating, LockPoints, Exclusive, Fresh,
       Worked, Recoverable, SnapshotCurrent, InTransaction, Points, Opened, Working,
       Writing, Tables

LEMMA StoreStep ==
  ASSUME ~SharedFaults, ~CopyFaults
  PROVE  StoreInv /\ [Next]_vars => StoreInv'
<1> SUFFICES ASSUME StoreInv, [Next]_vars PROVE StoreInv'
  OBVIOUS
<1>1. CASE UNCHANGED vars
  <2>1. UNCHANGED <<file, backup, content, fd, lock, pc, orig, table, md5>>
    BY <1>1 DEF vars, names, procVars
  <2>2. /\ UNCHANGED Stored
        /\ \A q \in Procs : UNCHANGED <<InTransaction(q), Snapshot(q), Unsaved(q)>>
    BY <2>1 DEF Stored, Whole, InTransaction, Snapshot, Unsaved, CopyFailed
  <2>3. QED
    BY <2>1, <2>2
       DEF StoreInv, Types, Names, FileOpen, Creating, LockPoints, Exclusive, Fresh,
           Worked, Recoverable, SnapshotCurrent, Whole
<1>2. CASE Next
  BY <1>2, OpenKeeps, CreateKeeps, FlockKeeps, ReadKeeps, BlockKeeps, CopyKeeps,
     WriteKeeps, WriteFailsKeeps, CloseKeeps, CrashKeeps DEF Next
<1>3. QED
  BY <1>1, <1>2

-----------------------------------------------------------------------------
(* The refinement.  A transaction begins in TxStore when the table is read    *)
(* and ends, by Commit or by End, when the file is closed or the process      *)
(* fails; every other step leaves the stored table and the views alone.       *)

\* Nobody has the table off the disk.
LEMMA AllSaved ==
  ASSUME \A q \in Procs : ~Unsaved(q)
  PROVE  Committed = Stored
BY DEF Committed

\* A process that writes is the only one that can have it so.
LEMMA OthersSaved ==
  ASSUME Types, FileOpen, LockPoints, Exclusive, NEW p \in Procs, pc[p] \in Writing,
         \A q \in Procs \ {p} : pc'[q] = pc[q]
  PROVE  \A q \in Procs \ {p} : ~Unsaved(q) /\ ~Unsaved(q)'
BY SoleWriter DEF Unsaved, InTransaction

LEMMA SameCommitted ==
  ASSUME UNCHANGED <<names, content>>,
         \A q \in Procs : Unsaved(q)' <=> Unsaved(q),
         \A q \in Procs : Unsaved(q) => Snapshot(q)' = Snapshot(q)
  PROVE  Committed' = Committed
BY SameStore DEF Committed

\* The snapshot of a transaction is what has been committed.
LEMMA SnapshotCommitted ==
  ASSUME StoreInv, NEW p \in Procs, InTransaction(p)
  PROVE  Committed = Snapshot(p)
<1> USE DEF StoreInv
<1>1. CASE Unsaved(p)
  <2>1. Stored = {}
    BY <1>1 DEF Unsaved, CopyFailed, Recoverable, Stored
  <2>2. \A q \in Procs \ {p} : ~Unsaved(q)
    BY <1>1, SoleWriter DEF Unsaved, InTransaction, Writing
  <2>3. QED
    BY <1>1, <2>1, <2>2 DEF Committed
<1>2. CASE ~Unsaved(p)
  <2>1. \A q \in Procs : ~Unsaved(q)
    <3>1. ASSUME NEW q \in Procs \ {p}, Unsaved(q) PROVE FALSE
      <4>1. pc[q] \in Writing
        BY <3>1 DEF Unsaved, Writing
      <4>2. QED
        BY <3>1, <4>1, SoleWriter
    <3>2. QED
      BY <1>2, <3>1
  <2>2. QED
    BY <1>2, <2>1, AllSaved DEF SnapshotCurrent
<1>3. QED
  BY <1>1, <1>2

\* What the steps of p look like to TxStore.
LEMMA Quiet ==
  ASSUME Committed' = Committed,
         \A q \in Procs : UNCHANGED <<InTransaction(q), Snapshot(q)>>
  PROVE  UNCHANGED Abstract
BY DEF Abstract, View

LEMMA ViewOne ==
  ASSUME NEW p \in Procs,
         \A q \in Procs \ {p} : UNCHANGED <<InTransaction(q), Snapshot(q)>>
  PROVE  View' = [View EXCEPT ![p] = View'[p]]
BY DEF View

LEMMA Begins ==
  ASSUME Types, NEW p \in Procs, ~InTransaction(p), InTransaction(p)', Committed' = Committed,
         Snapshot(p)' = Committed,
         \A q \in Procs \ {p} : UNCHANGED <<InTransaction(q), Snapshot(q)>>
  PROVE  Atomic!Begin(p)
<1>1. View[p] = NoTable /\ View'[p] = Committed
  BY DEF View
<1>2. QED
  BY <1>1, ViewOne DEF Atomic!Begin

LEMMA SnapshotTable ==
  ASSUME Types, NEW p \in Procs
  PROVE  Snapshot(p) \in Tables /\ Snapshot(p) # NoTable
<1>1. Snapshot(p) \in Tables
  BY DEF Types, Snapshot, Tables
<1>2. QED
  BY <1>1, TableAssumption DEF Tables

LEMMA Finishes ==
  ASSUME Types, NEW p \in Procs, InTransaction(p), ~InTransaction(p)', Committed' = Committed,
         \A q \in Procs \ {p} : UNCHANGED <<InTransaction(q), Snapshot(q)>>
  PROVE  Atomic!End(p)
<1>1. View[p] # NoTable /\ View'[p] = NoTable
  BY SnapshotTable DEF View
<1>2. QED
  BY <1>1, ViewOne DEF Atomic!End

LEMMA Commits ==
  ASSUME Types, NEW p \in Procs, InTransaction(p), ~InTransaction(p)',
         Committed = Snapshot(p), NEW e \in Entries, Committed' = Committed \cup {e},
         \A q \in Procs \ {p} : UNCHANGED <<InTransaction(q), Snapshot(q)>>
  PROVE  Atomic!Commit(p) \/ Atomic!End(p)
<1>1. CASE e \in Committed
  BY <1>1, Finishes
<1>2. CASE e \notin Committed
  <2>1. View[p] = Committed /\ View'[p] = NoTable
    BY DEF View
  <2>2. QED
    BY <1>2, <2>1, ViewOne DEF Atomic!Commit
<1>3. QED
  BY <1>1, <1>2

\* Copying changes what is stored as little as it changes the file.
LEMMA CopyStored ==
  ASSUME StoreInv, NEW p \in Procs, Copy(p)
  PROVE  Stored' = Stored
<1> USE InodeAssumption, TableAssumption
        DEF names, StoreInv, Opened, Working, Writing, Tables, FreeInodes
<1>1. /\ file' = file /\ file \in Inodes
      /\ \/ pc[p] = "copy" /\ backup' \in Inodes /\ backup' # file
            /\ content' = [content EXCEPT ![backup'] = Broken]
         \/ UNCHANGED <<names, content>>
         \/ /\ pc[p] = "copying" /\ backup' = backup /\ backup \in Inodes /\ backup # file
            /\ \E c \in {content[file], Broken} : content' = [content EXCEPT ![backup] = c]
  BY DEF Types, FileOpen, Names, Recoverable, Copy
<1>2. Whole(file) \/ ~Whole(backup)
  BY DEF Recoverable, Whole, Copy
<1>3. QED
  BY <1>1, <1>2 DEF Types, Stored, Whole

LEMMA StoreRefines ==
  ASSUME ~SharedFaults, ~CopyFaults, StoreInv, StoreInv', Next
  PROVE  Atomic!Next \/ UNCHANGED Abstract
<1> USE InodeAssumption, TableAssumption DEF StoreInv
<1>1. PICK p \in Procs : \/ Open(p) \/ Create(p) \/ Flock(p, "SH") \/ Flock(p, "EX")
                         \/ Read(p) \/ Block(p) \/ Copy(p) \/ Write(p) \/ WriteFails(p)
                         \/ Close(p) \/ Crash(p)
  BY DEF Next
<1> DEFINE Same == \A q \in Procs \ {p} : UNCHANGED <<InTransaction(q), Snapshot(q)>>
           Goal == Atomic!Begin(p) \/ Atomic!Commit(p) \/ Atomic!End(p) \/ UNCHANGED Abstract
<1>a. \A q \in Procs \ {p} : pc'[q] = pc[q] /\ md5'[q] = md5[q]
  BY <1>1 DEF Types, Open, Create, Flock, Read, Block, Copy, Write, WriteFails, Close,
              Crash, Left
<1>2. Same
  <2>1. QED
    BY <1>a DEF InTransaction, Snapshot
\* A step outside the rewriting of the file, which leaves the files alone.
<1>b. ASSUME UNCHANGED <<names, content>>, ~Unsaved(p), pc'[p] # "written"
      PROVE  Committed' = Committed
  <2>1. \A q \in Procs : /\ Unsaved(q)' <=> Unsaved(q)
                         /\ Unsaved(q) => Snapshot(q)' = Snapshot(q)
    BY <1>a, <1>b, SameStore DEF Unsaved, CopyFailed, Snapshot
  <2>2. QED
    BY <1>b, <2>1, SameCommitted
\* A step of the only process in a transaction that writes.
<1>c. ASSUME Stored' = Stored, pc[p] \in Writing, pc[p] # "written", pc'[p] # "written"
      PROVE  Committed' = Committed
  <2>1. \A q \in Procs : ~Unsaved(q) /\ ~Unsaved(q)'
    BY <1>a, <1>c, OthersSaved DEF Unsaved
  <2>2. Committed = Stored /\ Committed' = Stored'
    BY <2>1, AllSaved DEF Committed
  <2>3. QED
    BY <1>c, <2>2
<1> SUFFICES Goal
  BY DEF Atomic!Next
<1> HIDE DEF Same
\* Before and after a transaction, and inside it.
<1>3. ASSUME Committed' = Committed, InTransaction(p)' = InTransaction(p), md5' = md5 PROVE Goal
  BY <1>2, <1>3, Quiet DEF Same, Snapshot
<1>4. ASSUME Committed' = Committed, ~InTransaction(p), ~InTransaction(p)' PROVE Goal
  <2>1. UNCHANGED Abstract
    BY <1>2, <1>4 DEF Same, Abstract, View
  <2>2. QED
    BY <2>1
<1>5. ASSUME Committed' = Committed, InTransaction(p), ~InTransaction(p)' PROVE Goal
  BY <1>2, <1>5, Finishes DEF Same
<1>6. CASE Open(p) \/ Flock(p, "SH") \/ Flock(p, "EX")
  <2>1. /\ UNCHANGED <<names, content>> /\ ~InTransaction(p) /\ ~InTransaction(p)'
        /\ pc[p] # "written" /\ pc'[p] # "written"
    BY <1>6 DEF Open, Flock, Waiting, InTransaction, Types
  <2>2. QED
    BY <1>4, <1>b, <2>1 DEF Unsaved
<1>7. CASE Create(p)
  <2>1. /\ ~InTransaction(p) /\ ~InTransaction(p)'
        /\ pc[p] # "written" /\ pc'[p] # "written"
    BY <1>7 DEF Create, InTransaction, Types
  <2>2. /\ file = None /\ backup = None /\ backup' = None /\ content'[file'] = Broken
        /\ \A q \in Procs \ {p} : pc[q] = "out"
    BY <1>7 DEF Create, Creating, Names, Types, FreeInodes
  <2>3. Stored' = Stored
    BY <2>2 DEF Stored, Whole
  <2>4. \A q \in Procs : ~Unsaved(q) /\ ~Unsaved(q)'
    BY <1>a, <2>1, <2>2 DEF Unsaved
  <2>5. Committed' = Committed
    BY <2>3, <2>4, AllSaved DEF Committed
  <2>6. QED
    BY <1>4, <2>1, <2>5
<1>8. CASE Read(p)
  <2>1. /\ UNCHANGED <<names, content>> /\ pc[p] = "read"
        /\ pc'[p] \in {"close", "block"}
    BY <1>8 DEF Read, Types
  <2>2. Committed' = Committed
    BY <1>b, <2>1 DEF Unsaved
  <2>3. CASE pc'[p] = "close"
    BY <1>4, <2>1, <2>2, <2>3 DEF InTransaction
  <2>4. CASE pc'[p] = "block"
    <3>1. InTransaction(p)'
      BY <2>4 DEF InTransaction
    <3>2. \A q \in Procs : ~Unsaved(q) /\ ~Unsaved(q)'
      <4>1. ASSUME NEW q \in Procs \ {p}, pc[q] = "written" PROVE FALSE
        <5>1. pc[q] \in Writing
          BY <4>1 DEF Writing
        <5>2. QED
          BY <2>1, <5>1, SoleWriter
      <4>2. QED
        BY <1>a, <2>1, <4>1 DEF Unsaved
    <3>3. Committed' = Stored'
      BY <3>2 DEF Committed
    <3>4. Snapshot(p)' = Stored'
      BY <3>1, <3>2 DEF SnapshotCurrent
    <3>5. QED
      BY <1>2, <2>1, <2>2, <3>1, <3>3, <3>4, Begins DEF Same, InTransaction
  <2>5. QED
    BY <2>1, <2>3, <2>4
<1>9. CASE Block(p)
  <2>1. /\ UNCHANGED <<names, content, md5>> /\ pc[p] = "block"
        /\ pc'[p] \in {"close", "copy"}
    BY <1>9 DEF Block, Types
  <2>2. Committed' = Committed
    BY <1>b, <2>1 DEF Unsaved
  <2>3. CASE pc'[p] = "close"
    BY <1>5, <2>1, <2>2, <2>3 DEF InTransaction
  <2>4. CASE pc'[p] = "copy"
    BY <1>3, <2>1, <2>2, <2>4 DEF InTransaction
  <2>5. QED
    BY <2>1, <2>3, <2>4
<1>10. CASE Copy(p)
  <2>1. /\ md5' = md5 /\ pc[p] \in {"copy", "copying"}
        /\ pc'[p] \in {"copying", "write", "close"}
    BY <1>10 DEF Copy, Types
  <2>2. InTransaction(p) /\ pc[p] \in Writing /\ pc[p] # "written" /\ pc'[p] # "written"
    BY <2>1 DEF InTransaction, Writing
  <2>3. Stored' = Stored
    BY <1>10, CopyStored
  <2>4. Committed' = Committed
    BY <1>c, <2>2, <2>3
  <2>5. CASE pc'[p] = "close"
    BY <1>5, <2>2, <2>4, <2>5 DEF InTransaction
  <2>6. CASE pc'[p] # "close"
    BY <1>3, <2>1, <2>2, <2>4, <2>6 DEF InTransaction
  <2>7. QED
    BY <2>5, <2>6
<1>11. CASE Write(p)
  <2>1. md5' = md5 /\ pc[p] = "write" /\ pc'[p] = "written"
    BY <1>11 DEF Write, Types
  <2>2. InTransaction(p) /\ InTransaction(p)'
    BY <2>1 DEF InTransaction
  <2>3. Committed = Snapshot(p)
    BY <2>2, SnapshotCommitted
  <2>4. Committed' = Snapshot(p)'
    <3>1. \A q \in Procs \ {p} : ~Unsaved(q)'
      BY <1>a, <2>1, OthersSaved DEF Writing
    <3>2. CASE Unsaved(p)'
      <4>1. Stored' = {}
        BY <2>1, <3>2 DEF Unsaved, CopyFailed, Recoverable, Stored
      <4>2. QED
        BY <3>1, <3>2, <4>1 DEF Committed
    <3>3. CASE ~Unsaved(p)'
      <4>1. Stored' = Snapshot(p)'
        BY <2>2, <3>3 DEF SnapshotCurrent
      <4>2. QED
        BY <3>1, <3>3, <4>1 DEF Committed
    <3>4. QED
      BY <3>2, <3>3
  <2>5. QED
    BY <1>3, <2>1, <2>2, <2>3, <2>4 DEF Snapshot
<1>12. CASE WriteFails(p)
  <2>1. /\ InTransaction(p) /\ ~InTransaction(p)' /\ pc[p] = "write" /\ pc'[p] = "close"
        /\ pc[p] \in Writing
    BY <1>12 DEF WriteFails, InTransaction, Types, Writing
  <2>2. /\ fd[p] = file /\ backup \in Inodes /\ backup # file
        /\ content[backup] \in {content[file], Broken} /\ ~CopyFailed(p)
    BY <1>12 DEF WriteFails, Types, FileOpen, Names, Recoverable, Opened, Working
  <2>3. file' = backup /\ backup' = None /\ content'[backup] = content[backup]
    BY <1>12, <2>2 DEF WriteFails, Types
  <2>4. Stored' = Stored
    <3>1. CASE Whole(backup)
      BY <2>2, <2>3, <3>1 DEF Stored, Whole, Types
    <3>2. CASE ~Whole(backup)
      <4>1. Stored = {}
        BY <2>1, <2>2, <3>2 DEF SnapshotCurrent, Snapshot, CopyFailed, Unsaved
      <4>2. QED
        BY <2>2, <2>3, <3>2, <4>1 DEF Stored, Whole
    <3>3. QED
      BY <3>1, <3>2
  <2>5. QED
    BY <1>5, <1>c, <2>1, <2>4
<1>13. CASE Close(p)
  <2>1. pc'[p] = "out" /\ ~InTransaction(p)' /\ UNCHANGED names
    BY <1>13 DEF Close, Left, InTransaction, Types
  <2>2. CASE pc[p] = "close"
    <3>1. content' = content
      BY <1>13, <2>2 DEF Close
    <3>2. QED
      BY <1>4, <1>b, <2>1, <2>2, <3>1 DEF InTransaction, Unsaved
  <2>3. CASE pc[p] = "written"
    <3>1. fd[p] = file /\ file \in Inodes
      BY <2>3 DEF FileOpen, Opened, Working, Types
    <3>2. InTransaction(p) /\ pc[p] \in Writing
      BY <2>3 DEF InTransaction, Writing
    <3>3. /\ \/ table[p] = Snapshot(p) \/ \E e \in Entries : table[p] = Snapshot(p) \cup {e}
          /\ table[p] \in SUBSET Entries
      BY <3>2, SnapshotTable DEF Worked, Tables
    <3>4. content'[file'] = table[p] /\ file' = file
      BY <1>13, <2>1, <2>3, <3>1 DEF Close, Types, names
    <3>5. Stored' = table[p]
      BY <3>1, <3>3, <3>4 DEF Stored, Whole
    <3>6. Committed = Snapshot(p)
      BY <3>2, SnapshotCommitted
    <3>7. \A q \in Procs : ~Unsaved(q)'
      BY <1>a, <2>1, <3>2, OthersSaved DEF Unsaved
    <3>8. Committed' = table[p]
      BY <3>5, <3>7 DEF Committed
    <3>9. QED
      BY <1>2, <1>5, <2>1, <3>2, <3>3, <3>6, <3>8, Commits DEF Same
  <2>4. QED
    BY <1>13, <2>2, <2>3 DEF Close
<1>14. CASE Crash(p)
  <2>1. /\ pc'[p] = "out" /\ ~InTransaction(p)' /\ UNCHANGED <<names, content>>
        /\ ~Unsaved(p)
    BY <1>14 DEF Crash, Left, InTransaction, Types
  <2>2. QED
    BY <1>4, <1>5, <1>b, <2>1
<1>15. QED
  BY <1>1, <1>6, <1>7, <1>8, <1>9, <1>10, <1>11, <1>12, <1>13, <1>14

-----------------------------------------------------------------------------
\* The state of the store and of its transactions is well typed.
THEOREM StoreTypes ==
  ASSUME ~SharedFaults, ~CopyFaults
  PROVE  Spec => []TypeOK
<1>1. StoreInv => TypeOK
  BY DEF StoreInv, Types, TypeOK, LockPoints, FileOpen, Opened, Working, Tables
<1>2. QED
  BY <1>1, StoreInit, StoreStep, PTL DEF Spec

\* Nobody changes the store under a transaction of PStore, whoever is killed and
\* whatever write fails.
THEOREM SnapshotsCurrent ==
  ASSUME ~SharedFaults, ~CopyFaults
  PROVE  Spec => []SnapshotCurrent
<1>1. StoreInv => SnapshotCurrent
  BY DEF StoreInv
<1>2. QED
  BY <1>1, StoreInit, StoreStep, PTL DEF Spec

\* PStore implements TxStore: its transactions are atomic, also for a process
\* that is killed between the copy, the write and the close.
THEOREM StoreIsAtomic ==
  ASSUME ~SharedFaults, ~CopyFaults
  PROVE  Spec => StoreAtomic
<1>1. Init => Atomic!Init
  BY DEF Init, Atomic!Init, Committed, Stored, Whole, View, InTransaction, Unsaved
<1>2. StoreInv /\ StoreInv' /\ [Next]_vars => [Atomic!Next]_Abstract
  <2>1. UNCHANGED vars => UNCHANGED Abstract
    BY DEF vars, names, procVars, Abstract, Committed, Stored, View, Whole, InTransaction,
           Snapshot, Unsaved, CopyFailed
  <2>2. QED
    BY <2>1, StoreRefines
<1>3. QED
  BY <1>1, <1>2, StoreInit, StoreStep, PTL DEF Spec, StoreAtomic, Atomic!Spec, Abstract

-----------------------------------------------------------------------------
(* Arrays (RubyArray).  A heap is sound when every array has its buffer, alone *)
(* or through a hidden array, and nothing else is allocated.                  *)

Arrayed == [buf : 0..MaxBufs, off : Nat, len : Nat, aux : Nat, shared : BOOLEAN]
Heaps == [arr : [Arrays -> Arrayed], mem : [Bufs -> Seq(Cell) \cup {Nil}],
          root : [Bufs -> 0..MaxBufs \cup {Nil}]]

\* The whole buffer of an array.
Body(h, a) == Cells(h, h.arr[a].buf)

Alone(h, a) == h.arr[a].buf # 0 =>
  /\ \A b \in Arrays \ {a} : h.arr[b].buf # h.arr[a].buf
  /\ \A r \in Bufs : h.root[r] # h.arr[a].buf

Holds(h, a) ==
  /\ h.arr[a].buf # 0 => h.mem[h.arr[a].buf] # Nil
  /\ h.arr[a].off + h.arr[a].len <= Len(Body(h, a))
  /\ h.arr[a].shared => h.arr[a].aux \in Bufs /\ h.root[h.arr[a].aux] = h.arr[a].buf
  /\ ~h.arr[a].shared => /\ h.arr[a].off = 0 /\ h.arr[a].aux = Len(Body(h, a))
                         /\ Alone(h, a)

\* Hidden arrays have allocated buffers, no two the same.
RootHolds(h, r) == h.root[r] # Nil /\ h.root[r] # 0 =>
  /\ h.mem[h.root[r]] # Nil
  /\ \A s \in Bufs \ {r} : h.root[s] # h.root[r]

Reached(h, b) == \/ \E a \in Arrays : h.arr[a].buf = b
                 \/ \E r \in Bufs : h.root[r] = b

Sound(h) == /\ h \in Heaps
            /\ \A a \in Arrays : Holds(h, a)
            /\ \A r \in Bufs : RootHolds(h, r)
            /\ \A b \in Bufs : h.mem[b] # Nil => Reached(h, b)

LEMMA BufsNat == Bufs \subseteq Nat /\ 0 \notin Bufs /\ 0..MaxBufs = Bufs \cup {0}
                 /\ Nil \notin Bufs /\ Nil # 0
BY ArrayAssumption, NilAssumption DEF Bufs

\* The buffer of an array is a sequence, and the words of the array have their types.
LEMMA BodyType ==
  ASSUME NEW h, Sound(h), NEW a \in Arrays
  PROVE  /\ Body(h, a) \in Seq(Cell)
         /\ h.arr[a].buf # 0 => h.arr[a].buf \in Bufs /\ Body(h, a) = h.mem[h.arr[a].buf]
         /\ h.arr[a].buf = 0 => Body(h, a) = <<>>
         /\ h.arr[a] \in Arrayed
         /\ h.arr[a].off \in Nat /\ h.arr[a].len \in Nat /\ h.arr[a].aux \in Nat
         /\ h.arr[a].buf \in Nat /\ h.arr[a].shared \in BOOLEAN
<1>1. /\ h.arr \in [Arrays -> Arrayed] /\ h.mem \in [Bufs -> Seq(Cell) \cup {Nil}]
      /\ Holds(h, a)
  BY DEF Sound, Heaps
<1>2. /\ h.arr[a] \in Arrayed /\ h.arr[a].buf \in 0..MaxBufs
      /\ h.arr[a].off \in Nat /\ h.arr[a].len \in Nat /\ h.arr[a].aux \in Nat
      /\ h.arr[a].shared \in BOOLEAN
  BY <1>1 DEF Arrayed
<1>3. CASE h.arr[a].buf = 0
  BY <1>2, <1>3 DEF Body, Cells
<1>4. CASE h.arr[a].buf # 0
  <2>1. h.arr[a].buf \in Bufs /\ h.mem[h.arr[a].buf] \in Seq(Cell)
    BY <1>1, <1>2, <1>4, BufsNat DEF Holds
  <2>2. QED
    BY <1>2, <1>4, <2>1, BufsNat DEF Body, Cells
<1>5. QED
  BY <1>3, <1>4

\* The parts of a sequence.
LEMMA Part ==
  ASSUME NEW s \in Seq(Cell), NEW i \in Nat, NEW n \in Nat, i + n <= Len(s)
  PROVE  /\ SubSeq(s, i + 1, i + n) \in Seq(Cell)
         /\ Len(SubSeq(s, i + 1, i + n)) = n
         /\ \A k \in 1..n : SubSeq(s, i + 1, i + n)[k] = s[i + k] /\ i + k \in 1..Len(s)
OBVIOUS

LEMMA Alike ==
  ASSUME NEW s \in Seq(Cell), NEW t \in Seq(Cell), Len(s) = Len(t),
         \A k \in 1..Len(s) : s[k] = t[k]
  PROVE  s = t
OBVIOUS

\* An array has len elements, which are those of its buffer from off on.
LEMMA WindowType ==
  ASSUME NEW h, Sound(h), NEW a \in Arrays
  PROVE  /\ Window(h, a) \in Seq(Cell) /\ Len(Window(h, a)) = h.arr[a].len
         /\ \A k \in 1..h.arr[a].len : /\ Window(h, a)[k] = Body(h, a)[h.arr[a].off + k]
                                       /\ h.arr[a].off + k \in 1..Len(Body(h, a))
<1> DEFINE s == Body(h, a)
           i == h.arr[a].off
           n == h.arr[a].len
<1>1. s \in Seq(Cell) /\ i \in Nat /\ n \in Nat /\ i + n <= Len(s)
  BY BodyType DEF Sound, Holds
<1>2. Window(h, a) = SubSeq(s, i + 1, i + n)
  BY DEF Window, Body
<1> HIDE DEF s, i, n
<1>3. /\ SubSeq(s, i + 1, i + n) \in Seq(Cell) /\ Len(SubSeq(s, i + 1, i + n)) = n
      /\ \A k \in 1..n : SubSeq(s, i + 1, i + n)[k] = s[i + k] /\ i + k \in 1..Len(s)
  BY <1>1, Part
<1>4. /\ Window(h, a) \in Seq(Cell) /\ Len(Window(h, a)) = n
      /\ \A k \in 1..n : Window(h, a)[k] = s[i + k] /\ i + k \in 1..Len(s)
  BY <1>2, <1>3, Zenon
<1>5. QED
  BY <1>4 DEF s, i, n

\* Two heaps in which an array has the same buffer with the same contents.
LEMMA SameWindow ==
  ASSUME NEW h, NEW g, NEW a, g.arr[a] = h.arr[a], Body(g, a) = Body(h, a)
  PROVE  Window(g, a) = Window(h, a)
BY DEF Window, Body

(* Changes of a heap.                                                         *)

\* Array a has the buffer b with contents s to itself, and what it had alone
\* before is freed.
Renewed(h, g, a, b, s, len) ==
  /\ g.arr = [h.arr EXCEPT ![a] = [buf |-> b, off |-> 0, len |-> len, aux |-> Len(s),
                                   shared |-> FALSE]]
  /\ g.root = h.root /\ g = [arr |-> g.arr, mem |-> g.mem, root |-> g.root]
  /\ g.mem \in [Bufs -> Seq(Cell) \cup {Nil}]
  /\ g.mem[b] = s
  /\ h.mem[b] = Nil \/ (b = h.arr[a].buf /\ ~h.arr[a].shared)
  /\ \A x \in Bufs \ {b} :
       g.mem[x] = IF x = h.arr[a].buf /\ ~h.arr[a].shared THEN Nil ELSE h.mem[x]

\* All arrays but a are what they were.
Others(h, g, a) == \A c \in Arrays \ {a} : g.arr[c] = h.arr[c] /\ Window(g, c) = Window(h, c)

\* Array a has the buffer contents s to itself, and n elements.
Owns(g, a, s, n) == Sound(g) /\ ~g.arr[a].shared /\ Body(g, a) = s /\ g.arr[a].len = n

\* An array that gets a buffer of its own leaves the heap sound, and the others alone.
LEMMA RenewedOwns ==
  ASSUME NEW h, Sound(h), NEW a \in Arrays, NEW b \in Bufs, NEW s \in Seq(Cell),
         NEW len \in Nat, len <= Len(s), NEW g, Renewed(h, g, a, b, s, len)
  PROVE  Owns(g, a, s, len) /\ Others(h, g, a) /\ g.arr[a].buf = b
<1>0. b # 0 /\ b \in Nat /\ b \in 0..MaxBufs /\ s # Nil /\ Len(s) \in Nat
  BY BufsNat, NilAssumption
<1>1. /\ h.arr \in [Arrays -> Arrayed] /\ h.root \in [Bufs -> 0..MaxBufs \cup {Nil}]
      /\ h.mem \in [Bufs -> Seq(Cell) \cup {Nil}]
  BY DEF Sound, Heaps
<1>2. /\ g.arr[a] = [buf |-> b, off |-> 0, len |-> len, aux |-> Len(s), shared |-> FALSE]
      /\ \A c \in Arrays \ {a} : g.arr[c] = h.arr[c]
      /\ g.root = h.root /\ g.mem[b] = s
  BY <1>1 DEF Renewed
<1>3. g.arr[a].buf = b /\ g.arr[a].off = 0 /\ g.arr[a].len = len /\ g.arr[a].aux = Len(s)
      /\ ~g.arr[a].shared
  BY <1>2
<1>4. g \in Heaps
  <2>1. [buf |-> b, off |-> 0, len |-> len, aux |-> Len(s), shared |-> FALSE] \in Arrayed
    BY <1>0 DEF Arrayed
  <2>2. g.arr \in [Arrays -> Arrayed]
    BY <1>1, <2>1 DEF Renewed
  <2>3. QED
    BY <1>1, <2>2 DEF Renewed, Heaps
<1>5. Body(g, a) = s
  BY <1>0, <1>2, <1>3 DEF Body, Cells
<1>6. ASSUME NEW c \in Arrays \ {a}
      PROVE  /\ h.arr[c].buf # b /\ (h.arr[c].buf # 0 => g.mem[h.arr[c].buf] = h.mem[h.arr[c].buf])
             /\ ~h.arr[a].shared /\ h.arr[a].buf # 0 => h.arr[c].buf # h.arr[a].buf
  <2>1. Holds(h, c) /\ Holds(h, a) /\ h.arr[c].buf \in Nat
        /\ (h.arr[c].buf # 0 => h.arr[c].buf \in Bufs)
    BY BodyType DEF Sound
  <2>2. ~h.arr[a].shared /\ h.arr[a].buf # 0 => h.arr[c].buf # h.arr[a].buf
    BY <2>1 DEF Holds, Alone
  <2>3. h.arr[c].buf # b
    BY <1>0, <2>1, <2>2 DEF Holds, Renewed
  <2>4. h.arr[c].buf # 0 => g.mem[h.arr[c].buf] = h.mem[h.arr[c].buf]
    BY <2>1, <2>2, <2>3 DEF Renewed
  <2>5. QED
    BY <2>2, <2>3, <2>4
<1>7. ASSUME NEW r \in Bufs, h.root[r] # Nil, h.root[r] # 0
      PROVE  h.root[r] \in Bufs /\ h.root[r] # b /\ g.mem[h.root[r]] = h.mem[h.root[r]]
  <2>1. RootHolds(h, r) /\ Holds(h, a) /\ h.root[r] \in Bufs
    BY <1>1, <1>7, BufsNat DEF Sound
  <2>2. ~h.arr[a].shared /\ h.arr[a].buf # 0 => h.root[r] # h.arr[a].buf
    BY <2>1 DEF Holds, Alone
  <2>3. h.root[r] # b
    BY <1>0, <1>7, <2>1, <2>2 DEF RootHolds, Renewed
  <2>4. QED
    BY <2>1, <2>2, <2>3, BufsNat DEF Renewed
<1>8. \A c \in Arrays \ {a} : Body(g, c) = Body(h, c)
  BY <1>2, <1>6 DEF Body, Cells
<1>9. \A c \in Arrays : Holds(g, c)
  <2>1. Holds(g, a)
    <3>1. \A c \in Arrays \ {a} : g.arr[c].buf # b
      BY <1>2, <1>6
    <3>2. \A r \in Bufs : g.root[r] # b
      BY <1>0, <1>2, <1>7, NilAssumption
    <3>3. Alone(g, a)
      BY <1>3, <3>1, <3>2 DEF Alone
    <3>4. QED
      BY <1>0, <1>2, <1>3, <1>5, <3>3 DEF Holds
  <2>2. ASSUME NEW c \in Arrays \ {a} PROVE Holds(g, c)
    <3>1. Holds(h, c) /\ g.arr[c] = h.arr[c] /\ Body(g, c) = Body(h, c)
      BY <1>2, <1>8 DEF Sound
    <3>2. Alone(h, c) => Alone(g, c)
      <4>1. SUFFICES ASSUME Alone(h, c), h.arr[c].buf # 0
                     PROVE  /\ \A d \in Arrays \ {c} : g.arr[d].buf # h.arr[c].buf
                            /\ \A r \in Bufs : g.root[r] # h.arr[c].buf
        BY <3>1 DEF Alone
      <4>2. QED
        BY <1>2, <1>3, <1>6, <4>1 DEF Alone
    <3>3. QED
      BY <1>2, <1>6, <3>1, <3>2 DEF Holds
  <2>3. QED
    BY <2>1, <2>2
<1>10. \A r \in Bufs : RootHolds(g, r)
  BY <1>2, <1>7 DEF Sound, RootHolds
<1>11. ASSUME NEW x \in Bufs, g.mem[x] # Nil PROVE Reached(g, x)
  <2>1. CASE x = b
    BY <1>3, <2>1 DEF Reached
  <2>2. CASE x # b
    <3>1. h.mem[x] # Nil /\ g.mem[x] = h.mem[x] /\ (h.arr[a].shared \/ x # h.arr[a].buf)
      BY <1>11, <2>2 DEF Renewed
    <3>2. Reached(h, x)
      BY <3>1 DEF Sound
    <3>3. CASE \E r \in Bufs : h.root[r] = x
      BY <1>2, <3>3 DEF Reached
    <3>4. CASE \E c \in Arrays \ {a} : h.arr[c].buf = x
      BY <1>2, <3>4 DEF Reached
    <3>5. CASE h.arr[a].buf = x
      <4>1. h.arr[a].aux \in Bufs /\ h.root[h.arr[a].aux] = x
        BY <3>1, <3>5 DEF Sound, Holds
      <4>2. QED
        BY <1>2, <4>1 DEF Reached
    <3>6. QED
      BY <3>2, <3>3, <3>4, <3>5 DEF Reached
  <2>3. QED
    BY <2>1, <2>2
<1>12. Sound(g)
  BY <1>4, <1>9, <1>10, <1>11 DEF Sound
<1>13. Others(h, g, a)
  BY <1>2, <1>8, SameWindow DEF Others
<1>14. QED
  BY <1>3, <1>5, <1>12, <1>13 DEF Owns

(* Primitives.                                                                *)

OneFree(h) == \E x \in Bufs : h.mem[x] = Nil
TwoFree(h) == \E x, y \in Bufs : x # y /\ h.mem[x] = Nil /\ h.mem[y] = Nil

\* What Room leaves: two free buffers, and a hidden array.
LEMMA RoomIsTwo ==
  ASSUME Room
  PROVE  TwoFree(heap) /\ OneFree(heap) /\ \E r \in Bufs : heap.root[r] = Nil
<1> DEFINE S == {b \in Bufs : heap.mem[b] = Nil}
<1>1. Cardinality(S) >= 2 /\ \E r \in Bufs : heap.root[r] = Nil
  BY DEF Room
<1>2. IsFiniteSet(S)
  <2>1. IsFiniteSet(Bufs)
    BY FS_Interval, ArrayAssumption DEF Bufs
  <2>2. QED
    BY <2>1, FS_Subset
<1>3. PICK x \in S : TRUE
  BY <1>1, FS_EmptySet
<1>4. PICK y \in S : y # x
  <2>1. SUFFICES ASSUME S = {x} PROVE FALSE
    BY <1>3
  <2>2. QED
    BY <1>1, <2>1, FS_Singleton
<1>5. QED
  BY <1>1, <1>3, <1>4 DEF TwoFree, OneFree

\* The least buffer of a set.
LEMMA LeastOf ==
  ASSUME NEW S \in SUBSET Bufs, S # {}
  PROVE  Least(S) \in S
<1>1. S \subseteq Nat
  BY BufsNat
<1>2. PICK x \in S : \A y \in S : <<y, x>> \notin OpToRel(<, Nat)
  BY <1>1, NatLessThanWellFounded, WFMin
<1>3. ASSUME NEW y \in S PROVE x <= y
  <2>1. ~(y < x)
    BY <1>1, <1>2 DEF OpToRel
  <2>2. QED
    BY <1>1, <2>1
<1>4. QED
  BY <1>3 DEF Least

FreeBufs(h) == {x \in Bufs : h.mem[x] = Nil}

\* Array a gets the buffer b with contents s.
Afresh(h, a, b, s, len, n) ==
  [arr |-> [h.arr EXCEPT ![a] = [buf |-> b, off |-> 0, len |-> len, aux |-> n, shared |-> FALSE]],
   mem |-> [h.mem EXCEPT ![b] = s], root |-> h.root]

LEMMA OwningFields ==
  ASSUME NEW h \in Heaps, NEW a, NEW s, NEW len, NEW n
  PROVE  Owning(h, a, s, len, n) = Afresh(h, a, Least(FreeBufs(h)), s, len, n)
<1> DEFINE b == Least(FreeBufs(h))
           e == [buf |-> b, off |-> 0, len |-> len, aux |-> n, shared |-> FALSE]
           g == [h EXCEPT !.mem[b] = s, !.arr[a] = e]
           M == [h.mem EXCEPT ![b] = s]
           A == [h.arr EXCEPT ![a] = e]
           R == [arr |-> A, mem |-> M, root |-> h.root]
<1>1. Owning(h, a, s, len, n) = g
  BY DEF Owning, FreeBufs
<1> HIDE DEF b, e
<1>2. g.mem = M /\ g.root = h.root
  BY DEF Heaps
<1>3. g.arr = A
  BY DEF Heaps
<1>4. DOMAIN g = {"arr", "mem", "root"} /\ g = [i \in DOMAIN g |-> g[i]]
  BY DEF Heaps
<1> HIDE DEF g, M, A
<1>5. R = [i \in {"arr", "mem", "root"} |-> R[i]]
  OBVIOUS
<1>6. \A i \in {"arr", "mem", "root"} : g[i] = R[i]
  BY <1>2, <1>3
<1>7. g = R
  BY <1>4, <1>5, <1>6, Zenon
<1>8. QED
  BY <1>1, <1>7 DEF A, M, e, b, Afresh

LEMMA FreeLeast ==
  ASSUME NEW h, OneFree(h)
  PROVE  Least(FreeBufs(h)) \in Bufs /\ h.mem[Least(FreeBufs(h))] = Nil
<1>1. FreeBufs(h) # {} /\ FreeBufs(h) \in SUBSET Bufs
  BY DEF OneFree, FreeBufs
<1>2. Least(FreeBufs(h)) \in FreeBufs(h)
  BY <1>1, LeastOf
<1>3. QED
  BY <1>2 DEF FreeBufs

\* Owning, Realloc, rb_ary_modify and Written leave the array alone in its buffer.
LEMMA OwningOwns ==
  ASSUME NEW h, Sound(h), NEW a \in Arrays, h.arr[a].shared \/ h.arr[a].buf = 0,
         OneFree(h), NEW s \in Seq(Cell), NEW len \in Nat, len <= Len(s)
  PROVE  /\ Owns(Owning(h, a, s, len, Len(s)), a, s, len)
         /\ Others(h, Owning(h, a, s, len, Len(s)), a)
         /\ TwoFree(h) => OneFree(Owning(h, a, s, len, Len(s)))
<1> DEFINE b == Least(FreeBufs(h))
           g == Owning(h, a, s, len, Len(s))
<1>1. b \in Bufs /\ h.mem[b] = Nil
  BY FreeLeast
<1>2. /\ h \in Heaps /\ h.arr \in [Arrays -> Arrayed]
      /\ h.mem \in [Bufs -> Seq(Cell) \cup {Nil}]
  BY DEF Sound, Heaps
<1>3. g = Afresh(h, a, b, s, len, Len(s))
  BY <1>2, OwningFields
<1> HIDE DEF b, g
<1>4. Renewed(h, g, a, b, s, len)
  BY <1>1, <1>2, <1>3, BufsNat DEF Renewed, Afresh
<1>5. TwoFree(h) => OneFree(g)
  BY <1>1, <1>2, <1>3 DEF TwoFree, OneFree, Afresh
<1>6. QED
  BY <1>1, <1>4, <1>5, RenewedOwns DEF g

LEMMA ReallocOwns ==
  ASSUME NEW h, Sound(h), NEW a \in Arrays, ~h.arr[a].shared, OneFree(h),
         NEW n \in Nat, h.arr[a].len <= n
  PROVE  /\ Owns(Realloc(h, a, n), a, Resized(Body(h, a), n), h.arr[a].len)
         /\ Others(h, Realloc(h, a, n), a)
<1> DEFINE b == Least(FreeBufs(h))
           s == Resized(Body(h, a), n)
           o == Owning(h, a, s, h.arr[a].len, n)
           g == Realloc(h, a, n)
           old == h.arr[a].buf
<1>1. b \in Bufs /\ h.mem[b] = Nil
  BY FreeLeast
<1>2. /\ h \in Heaps /\ h.arr \in [Arrays -> Arrayed]
      /\ h.mem \in [Bufs -> Seq(Cell) \cup {Nil}] /\ Holds(h, a)
  BY DEF Sound, Heaps
<1>3. s \in Seq(Cell) /\ Len(s) = n /\ h.arr[a].len \in Nat /\ old \in Nat
  BY BodyType DEF Resized, Cell
<1>4. g = Freed(o, old)
  BY DEF Realloc, Body
<1>5. o = Afresh(h, a, b, s, h.arr[a].len, n)
  BY <1>2, OwningFields
<1> HIDE DEF b, s, o, g
<1>6. /\ g.arr = o.arr /\ g.root = o.root /\ g = [arr |-> g.arr, mem |-> g.mem, root |-> g.root]
      /\ g.mem = IF old = 0 THEN o.mem ELSE [o.mem EXCEPT ![old] = Nil]
  BY <1>4, <1>5 DEF Freed, Afresh
<1>7. old # 0 => old # b /\ old \in Bufs
  BY <1>1, <1>2, BodyType DEF Holds
<1>8. /\ o.mem = [h.mem EXCEPT ![b] = s] /\ o.root = h.root
      /\ o.arr = [h.arr EXCEPT ![a] = [buf |-> b, off |-> 0, len |-> h.arr[a].len, aux |-> n,
                                       shared |-> FALSE]]
  BY <1>5 DEF Afresh
<1>9. Renewed(h, g, a, b, s, h.arr[a].len)
  <2>1. g.mem \in [Bufs -> Seq(Cell) \cup {Nil}] /\ g.mem[b] = s
    BY <1>1, <1>2, <1>3, <1>6, <1>7, <1>8
  <2>2. \A x \in Bufs \ {b} : g.mem[x] = IF x = old THEN Nil ELSE h.mem[x]
    BY <1>1, <1>2, <1>3, <1>6, <1>7, <1>8, BufsNat
  <2>3. QED
    BY <1>1, <1>3, <1>6, <1>8, <2>1, <2>2 DEF Renewed
<1>10. QED
  BY <1>1, <1>3, <1>9, RenewedOwns DEF g, s

LEMMA OwnsWindow ==
  ASSUME NEW g, NEW a \in Arrays, NEW s, NEW n, Owns(g, a, s, n)
  PROVE  /\ s \in Seq(Cell) /\ n \in Nat /\ n <= Len(s)
         /\ Window(g, a) \in Seq(Cell) /\ Len(Window(g, a)) = n
         /\ \A k \in 1..n : Window(g, a)[k] = s[k]
<1>1. /\ Sound(g) /\ ~g.arr[a].shared /\ Body(g, a) = s /\ g.arr[a].len = n
      /\ s \in Seq(Cell) /\ n \in Nat
  BY BodyType DEF Owns
<1>2. g.arr[a].off = 0 /\ n <= Len(s)
  BY <1>1 DEF Sound, Holds
<1>3. QED
  BY <1>1, <1>2, WindowType

LEMMA OwnsAll ==
  ASSUME NEW g, Sound(g), NEW a \in Arrays, ~g.arr[a].shared
  PROVE  Owns(g, a, Body(g, a), g.arr[a].len)
BY DEF Owns

LEMMA OthersOthers ==
  ASSUME NEW h, NEW g, NEW f, NEW a, Others(h, g, a), Others(g, f, a)
  PROVE  Others(h, f, a)
BY DEF Others

LEMMA ModifyOwns ==
  ASSUME NEW h, Sound(h), NEW a \in Arrays, OneFree(h)
  PROVE  /\ Owns(rb_ary_modify(h, a), a, Body(rb_ary_modify(h, a), a), h.arr[a].len)
         /\ Window(rb_ary_modify(h, a), a) = Window(h, a)
         /\ Others(h, rb_ary_modify(h, a), a)
         /\ TwoFree(h) => OneFree(rb_ary_modify(h, a))
<1> DEFINE g == rb_ary_modify(h, a)
           s == Window(h, a)
<1>1. s \in Seq(Cell) /\ Len(s) = h.arr[a].len /\ h.arr[a].len \in Nat
  BY WindowType, BodyType
<1>2. CASE h.arr[a].shared
  <2>1. g = Owning(h, a, s, Len(s), Len(s))
    BY <1>1, <1>2 DEF rb_ary_modify
  <2> HIDE DEF g, s
  <2>2. Owns(g, a, s, Len(s)) /\ Others(h, g, a) /\ (TwoFree(h) => OneFree(g))
    BY <1>1, <1>2, <2>1, OwningOwns
  <2>3. Window(g, a) = s
    BY <1>1, <2>2, OwnsWindow, Alike
  <2>4. QED
    BY <1>1, <2>2, <2>3 DEF Owns, s, g
<1>3. CASE ~h.arr[a].shared
  <2>1. g = h
    BY <1>3 DEF rb_ary_modify
  <2>2. QED
    BY <1>3, <2>1, OwnsAll DEF Others, TwoFree, OneFree
<1>4. QED
  BY <1>2, <1>3

\* The cells after Overwritten and Resized.
LEMMA OverwrittenSeq ==
  ASSUME NEW s \in Seq(Cell), NEW i \in Nat, NEW r \in Seq(Cell)
  PROVE  /\ Overwritten(s, i, r) \in Seq(Cell) /\ Len(Overwritten(s, i, r)) = Len(s)
         /\ \A k \in 1..Len(s) :
              Overwritten(s, i, r)[k] = IF i < k /\ k <= i + Len(r) THEN r[k - i] ELSE s[k]
<1>1. DOMAIN s = 1..Len(s) /\ Len(s) \in Nat /\ Len(r) \in Nat /\ \A k \in 1..Len(s) : s[k] \in Cell
  OBVIOUS
<1>2. \A k \in 1..Len(s) : i < k /\ k <= i + Len(r) => r[k - i] \in Cell
  OBVIOUS
<1>3. Overwritten(s, i, r)
        = [k \in 1..Len(s) |-> IF i < k /\ k <= i + Len(r) THEN r[k - i] ELSE s[k]]
  BY <1>1 DEF Overwritten
<1>4. QED
  BY <1>1, <1>2, <1>3

LEMMA Resize ==
  ASSUME NEW v \in Arrayed, NEW n
  PROVE  [v EXCEPT !.len = n]
           = [buf |-> v.buf, off |-> v.off, len |-> n, aux |-> v.aux, shared |-> v.shared]
<1> DEFINE g == [v EXCEPT !.len = n]
           R == [buf |-> v.buf, off |-> v.off, len |-> n, aux |-> v.aux, shared |-> v.shared]
           D == {"buf", "off", "len", "aux", "shared"}
<1>1. DOMAIN g = D /\ g = [i \in DOMAIN g |-> g[i]]
  BY DEF Arrayed
<1>2. g.buf = v.buf /\ g.off = v.off /\ g.len = n /\ g.aux = v.aux /\ g.shared = v.shared
  BY DEF Arrayed
<1>3. R = [i \in D |-> R[i]]
  OBVIOUS
<1> HIDE DEF g
<1>4. \A i \in D : g[i] = R[i]
  BY <1>2
<1>5. g = R
  BY <1>1, <1>3, <1>4, Zenon
<1>6. QED
  BY <1>5 DEF g

\* One array of a heap is changed.
LEMMA OneArray ==
  ASSUME NEW h \in Heaps, NEW a, NEW n
  PROVE  [h EXCEPT !.arr[a].len = n]
           = [arr |-> [h.arr EXCEPT ![a] = [h.arr[a] EXCEPT !.len = n]],
              mem |-> h.mem, root |-> h.root]
<1> DEFINE g == [h EXCEPT !.arr[a].len = n]
           A == [h.arr EXCEPT ![a] = [h.arr[a] EXCEPT !.len = n]]
           R == [arr |-> A, mem |-> h.mem, root |-> h.root]
<1>1. g.mem = h.mem /\ g.root = h.root
  BY DEF Heaps
<1>2. g.arr = A
  BY DEF Heaps
<1>3. DOMAIN g = {"arr", "mem", "root"} /\ g = [i \in DOMAIN g |-> g[i]]
  BY DEF Heaps
<1> HIDE DEF g, A
<1>4. R = [i \in {"arr", "mem", "root"} |-> R[i]]
  OBVIOUS
<1>5. \A i \in {"arr", "mem", "root"} : g[i] = R[i]
  BY <1>1, <1>2
<1>6. g = R
  BY <1>3, <1>4, <1>5, Zenon
<1>7. QED
  BY <1>6 DEF g, A

LEMMA WrittenOwns ==
  ASSUME NEW h, NEW a \in Arrays, NEW s, NEW len, Owns(h, a, s, len),
         NEW i \in Nat, NEW r \in Seq(Cell), NEW n \in Nat, n <= Len(s),
         NEW g, g = Written(h, a, i, r, n)
  PROVE  Owns(g, a, Overwritten(s, i, r), n) /\ Others(h, g, a)
<1> DEFINE b == h.arr[a].buf
           t == Overwritten(s, i, r)
<1>1. /\ Sound(h) /\ h \in Heaps /\ h.arr \in [Arrays -> Arrayed]
      /\ h.mem \in [Bufs -> Seq(Cell) \cup {Nil}]
      /\ ~h.arr[a].shared /\ Body(h, a) = s /\ Holds(h, a) /\ s \in Seq(Cell)
  BY OwnsWindow DEF Owns, Sound, Heaps
<1>2. t \in Seq(Cell) /\ Len(t) = Len(s)
  BY <1>1, OverwrittenSeq
<1>3. h.arr[a].off = 0 /\ h.arr[a].aux = Len(s) /\ h.arr[a] \in Arrayed
  BY <1>1 DEF Holds
<1>4. CASE b = 0
  <2>1. s = <<>> /\ n = 0 /\ t = <<>>
    BY <1>1, <1>2, <1>4, BodyType
  <2>2. h.arr[a].len = 0
    BY <1>1, <1>3, <2>1, BodyType DEF Holds
  <2>3. g = [h EXCEPT !.arr[a].len = 0]
    BY <1>4, <2>1 DEF Written
  <2>4. [h EXCEPT !.arr[a].len = 0] = h
    <3>1. [h.arr[a] EXCEPT !.len = 0] = h.arr[a]
      BY <1>3, <2>2 DEF Arrayed
    <3>2. [h.arr EXCEPT ![a] = h.arr[a]] = h.arr
      BY <1>1
    <3>3. [h EXCEPT !.arr = h.arr] = h
      BY <1>1 DEF Heaps
    <3>4. QED
      BY <3>1, <3>2, <3>3
  <2>5. QED
    BY <1>1, <2>1, <2>2, <2>3, <2>4 DEF Owns, Others
<1>5. CASE b # 0
  <2>1. b \in Bufs /\ h.mem[b] = s
    BY <1>1, <1>5, BodyType
  <2> DEFINE w == [h EXCEPT !.arr[a].len = n]
  <2>2. w = [arr |-> [h.arr EXCEPT ![a] = [h.arr[a] EXCEPT !.len = n]],
             mem |-> h.mem, root |-> h.root]
    BY <1>1, OneArray
  <2>3. [h.arr[a] EXCEPT !.len = n]
          = [buf |-> b, off |-> 0, len |-> n, aux |-> Len(t), shared |-> FALSE]
    <3>1. h.arr[a].shared = FALSE
      BY <1>1, <1>3 DEF Arrayed
    <3>2. QED
      BY <1>2, <1>3, <3>1, Resize
  <2>4. g = [w EXCEPT !.mem[b] = Overwritten(h.mem[b], 0 + i, r)]
    BY <1>3, <1>5, <2>2 DEF Written
  <2>5. Overwritten(h.mem[b], 0 + i, r) = t
    BY <2>1
  <2> HIDE DEF w, t
  <2>6. /\ g.arr = w.arr /\ g.root = h.root /\ g.mem = [h.mem EXCEPT ![b] = t]
        /\ g = [arr |-> g.arr, mem |-> g.mem, root |-> g.root]
    BY <2>2, <2>4, <2>5
  <2>7. g.arr = [h.arr EXCEPT ![a] = [buf |-> b, off |-> 0, len |-> n, aux |-> Len(t),
                                       shared |-> FALSE]]
    BY <1>1, <2>2, <2>3, <2>6
  <2>8. Renewed(h, g, a, b, t, n)
    BY <1>1, <1>2, <2>1, <2>6, <2>7 DEF Renewed
  <2>9. QED
    BY <1>1, <1>2, <2>1, <2>8, RenewedOwns DEF t
<1>6. QED
  BY <1>4, <1>5

(* Sharing.                                                                   *)

\* Array a is changed to v, which shows part of the buffer of b; what another
\* array had alone before is freed.
Shows(h, g, a, b, v) ==
  /\ g \in Heaps /\ g.root = h.root /\ g.arr = [h.arr EXCEPT ![a] = v]
  /\ v.buf = h.arr[b].buf /\ v.aux = h.arr[b].aux /\ v.shared = h.arr[b].shared
  /\ v.off + v.len <= Len(Body(h, b))
  /\ b # a => h.arr[b].shared
  /\ ~v.shared => v.off = 0
  /\ \A x \in Bufs : g.mem[x] = IF b # a /\ x = h.arr[a].buf /\ ~h.arr[a].shared THEN Nil
                                ELSE h.mem[x]

\* An array may show what another one shares.
LEMMA ShowsSound ==
  ASSUME NEW h, Sound(h), NEW a \in Arrays, NEW b \in Arrays, NEW v \in Arrayed, NEW g,
         Shows(h, g, a, b, v)
  PROVE  Sound(g) /\ Others(h, g, a) /\ g.arr[a] = v /\ Body(g, a) = Body(h, b)
<1>1. /\ h.arr \in [Arrays -> Arrayed] /\ h.root \in [Bufs -> 0..MaxBufs \cup {Nil}]
      /\ h.mem \in [Bufs -> Seq(Cell) \cup {Nil}]
      /\ g.mem \in [Bufs -> Seq(Cell) \cup {Nil}] /\ g.root = h.root
  BY DEF Sound, Heaps, Shows
<1>2. /\ g.arr[a] = v /\ v.buf = h.arr[b].buf /\ v.aux = h.arr[b].aux
      /\ v.shared = h.arr[b].shared /\ \A c \in Arrays \ {a} : g.arr[c] = h.arr[c]
  BY <1>1 DEF Shows
<1>3. ASSUME NEW c \in Arrays, c # a \/ b = a
      PROVE  h.arr[c].buf # 0 => h.arr[c].buf \in Bufs /\ g.mem[h.arr[c].buf] = h.mem[h.arr[c].buf]
  <2>1. SUFFICES ASSUME h.arr[c].buf # 0
                 PROVE  h.arr[c].buf \in Bufs /\ g.mem[h.arr[c].buf] = h.mem[h.arr[c].buf]
    OBVIOUS
  <2>2. h.arr[c].buf \in Bufs
    BY <2>1, BodyType
  <2>3. ~(b # a /\ h.arr[c].buf = h.arr[a].buf /\ ~h.arr[a].shared)
    BY <1>3, <2>1 DEF Sound, Holds, Alone
  <2>4. QED
    BY <2>2, <2>3 DEF Shows
<1>4. \A c \in Arrays \ {a} : Body(g, c) = Body(h, c)
  BY <1>2, <1>3 DEF Body, Cells
<1>5. Body(g, a) = Body(h, b)
  BY <1>2, <1>3 DEF Body, Cells
<1>6. ASSUME NEW r \in Bufs, h.root[r] # Nil, h.root[r] # 0
      PROVE  h.root[r] \in Bufs /\ g.mem[h.root[r]] = h.mem[h.root[r]]
  <2>1. h.root[r] \in Bufs
    BY <1>1, <1>6, BufsNat
  <2>2. ~(h.root[r] = h.arr[a].buf /\ ~h.arr[a].shared)
    BY <1>6 DEF Sound, Holds, Alone
  <2>3. QED
    BY <2>1, <2>2 DEF Shows
<1>7. Holds(g, a)
  <2>1. Holds(h, b) /\ v.off + v.len <= Len(Body(h, b)) /\ (b # a => h.arr[b].shared)
        /\ (~v.shared => v.off = 0)
    BY DEF Sound, Shows
  <2>2. v.buf # 0 => g.mem[v.buf] # Nil
    BY <1>2, <1>3, <2>1 DEF Holds
  <2>3. ~v.shared => Alone(g, a)
    BY <1>2, <2>1, <1>1 DEF Holds, Alone
  <2>4. v.shared => v.aux \in Bufs /\ g.root[v.aux] = v.buf
    BY <1>1, <1>2, <2>1 DEF Holds
  <2>5. ~v.shared => v.aux = Len(Body(h, b))
    BY <1>2, <2>1 DEF Holds
  <2>6. QED
    BY <1>2, <1>5, <2>1, <2>2, <2>3, <2>4, <2>5 DEF Holds
<1>8. ASSUME NEW c \in Arrays \ {a} PROVE Holds(g, c)
  <2>1. Holds(h, c) /\ g.arr[c] = h.arr[c] /\ Body(g, c) = Body(h, c)
    BY <1>2, <1>4 DEF Sound
  <2>2. Alone(h, c) /\ ~h.arr[c].shared => Alone(g, c)
    <3>1. SUFFICES ASSUME Alone(h, c), h.arr[c].buf # 0, ~h.arr[c].shared
                   PROVE  /\ \A d \in Arrays \ {c} : g.arr[d].buf # h.arr[c].buf
                          /\ \A r \in Bufs : g.root[r] # h.arr[c].buf
      BY <2>1 DEF Alone
    <3>2. b # c
      BY <3>1 DEF Shows
    <3>3. QED
      BY <1>1, <1>2, <3>1, <3>2 DEF Alone
  <2>3. QED
    BY <1>1, <1>3, <2>1, <2>2 DEF Holds
<1>9. \A r \in Bufs : RootHolds(g, r)
  BY <1>1, <1>6 DEF Sound, RootHolds
<1>10. ASSUME NEW x \in Bufs, g.mem[x] # Nil PROVE Reached(g, x)
  <2>1. h.mem[x] # Nil /\ (b # a /\ x = h.arr[a].buf => h.arr[a].shared)
    BY <1>10 DEF Shows
  <2>2. Reached(h, x)
    BY <2>1 DEF Sound
  <2>3. CASE \E r \in Bufs : h.root[r] = x
    BY <1>1, <2>3 DEF Reached
  <2>4. CASE \E c \in Arrays \ {a} : h.arr[c].buf = x
    BY <1>2, <2>4 DEF Reached
  <2>5. CASE h.arr[a].buf = x /\ b = a
    BY <1>2, <2>5 DEF Reached
  <2>6. CASE h.arr[a].buf = x /\ b # a
    <3>1. h.arr[a].aux \in Bufs /\ h.root[h.arr[a].aux] = x
      BY <2>1, <2>6 DEF Sound, Holds
    <3>2. QED
      BY <1>1, <3>1 DEF Reached
  <2>7. QED
    BY <2>2, <2>3, <2>4, <2>5, <2>6 DEF Reached
<1>11. Sound(g)
  BY <1>7, <1>8, <1>9, <1>10 DEF Sound, Shows
<1>12. Others(h, g, a)
  BY <1>2, <1>4, SameWindow DEF Others
<1>13. QED
  BY <1>2, <1>5, <1>11, <1>12

\* Array a, which has its buffer alone, lets the hidden array r have it.
Hidden(h, g, a, r) ==
  /\ g \in Heaps /\ g.mem = h.mem /\ g.root = [h.root EXCEPT ![r] = h.arr[a].buf]
  /\ g.arr = [h.arr EXCEPT ![a] = [buf |-> h.arr[a].buf, off |-> h.arr[a].off,
                                   len |-> h.arr[a].len, aux |-> r, shared |-> TRUE]]

\* The buffer of an array may be moved to a hidden array.
LEMMA HiddenSound ==
  ASSUME NEW h, Sound(h), NEW a \in Arrays, ~h.arr[a].shared, NEW r \in Bufs,
         h.root[r] = Nil, NEW g, Hidden(h, g, a, r)
  PROVE  /\ Sound(g) /\ g.arr[a].shared
         /\ \A c \in Arrays : Body(g, c) = Body(h, c) /\ Window(g, c) = Window(h, c)
         /\ \A c \in Arrays \ {a} : g.arr[c] = h.arr[c]
         /\ g.arr[a].len = h.arr[a].len /\ g.arr[a].off = h.arr[a].off
<1>1. /\ h.arr \in [Arrays -> Arrayed] /\ h.root \in [Bufs -> 0..MaxBufs \cup {Nil}]
      /\ Holds(h, a) /\ Alone(h, a) /\ h.arr[a].buf \in 0..MaxBufs
      /\ h.arr[a].buf # Nil
  <2>1. h.arr \in [Arrays -> Arrayed] /\ h.root \in [Bufs -> 0..MaxBufs \cup {Nil}] /\ Holds(h, a)
    BY DEF Sound, Heaps
  <2>2. h.arr[a].buf \in 0..MaxBufs
    BY <2>1 DEF Arrayed
  <2>3. QED
    BY <2>1, <2>2, BufsNat DEF Holds
<1>2. /\ g.arr[a].buf = h.arr[a].buf /\ g.arr[a].off = h.arr[a].off
      /\ g.arr[a].len = h.arr[a].len /\ g.arr[a].aux = r /\ g.arr[a].shared
      /\ \A c \in Arrays \ {a} : g.arr[c] = h.arr[c]
      /\ g.root[r] = h.arr[a].buf /\ \A s \in Bufs \ {r} : g.root[s] = h.root[s]
      /\ g.mem = h.mem
  BY <1>1 DEF Hidden
<1>3. \A c \in Arrays : /\ g.arr[c].buf = h.arr[c].buf /\ g.arr[c].off = h.arr[c].off
                        /\ g.arr[c].len = h.arr[c].len
  BY <1>2
<1>4. \A c \in Arrays : Body(g, c) = Body(h, c)
  BY <1>2, <1>3 DEF Body, Cells
<1>5. \A c \in Arrays : Window(g, c) = Window(h, c)
  BY <1>3, <1>4 DEF Window, Body
<1>6. Holds(g, a)
  BY <1>1, <1>2, <1>4 DEF Holds
<1>7. ASSUME NEW c \in Arrays \ {a} PROVE Holds(g, c)
  <2>1. Holds(h, c) /\ g.arr[c] = h.arr[c] /\ Body(g, c) = Body(h, c) /\ h.arr[c].buf \in 0..MaxBufs
    BY <1>1, <1>2, <1>4 DEF Sound, Arrayed
  <2>2. h.arr[c].shared => g.root[h.arr[c].aux] = h.arr[c].buf
    BY <1>2, <2>1, BufsNat DEF Holds
  <2>3. Alone(h, c) => Alone(g, c)
    BY <1>1, <1>2, <1>3, <2>1 DEF Alone
  <2>4. QED
    BY <1>2, <2>1, <2>2, <2>3 DEF Holds
<1>8. ASSUME NEW s \in Bufs PROVE RootHolds(g, s)
  <2>1. RootHolds(h, s) /\ Alone(h, a)
    BY <1>1 DEF Sound
  <2>2. CASE s = r
    BY <1>1, <1>2, <2>2 DEF RootHolds, Holds, Alone
  <2>3. CASE s # r
    BY <1>1, <1>2, <2>1, <2>3 DEF RootHolds, Alone
  <2>4. QED
    BY <2>2, <2>3
<1>9. ASSUME NEW x \in Bufs, g.mem[x] # Nil PROVE Reached(g, x)
  <2>1. Reached(h, x) /\ x # Nil
    BY <1>2, <1>9, BufsNat DEF Sound
  <2>2. CASE \E c \in Arrays : h.arr[c].buf = x
    BY <1>3, <2>2 DEF Reached
  <2>3. CASE \E s \in Bufs : h.root[s] = x
    BY <1>2, <2>1, <2>3 DEF Reached
  <2>4. QED
    BY <2>1, <2>2, <2>3 DEF Reached
<1>10. QED
  BY <1>2, <1>4, <1>5, <1>6, <1>7, <1>8, <1>9 DEF Sound, Hidden

LEMMA Hide ==
  ASSUME NEW v \in Arrayed, NEW r, NEW x
  PROVE  [[v EXCEPT !.aux = r] EXCEPT !.shared = x]
           = [buf |-> v.buf, off |-> v.off, len |-> v.len, aux |-> r, shared |-> x]
<1> DEFINE f == [[v EXCEPT !.aux = r] EXCEPT !.shared = x]
           R == [buf |-> v.buf, off |-> v.off, len |-> v.len, aux |-> r, shared |-> x]
           D == {"buf", "off", "len", "aux", "shared"}
<1>1. DOMAIN f = D /\ f = [i \in DOMAIN f |-> f[i]]
  BY DEF Arrayed
<1>2. f.buf = v.buf /\ f.off = v.off /\ f.len = v.len /\ f.aux = r /\ f.shared = x
  BY DEF Arrayed
<1>3. R = [i \in D |-> R[i]]
  OBVIOUS
<1> HIDE DEF f
<1>4. \A i \in D : f[i] = R[i]
  BY <1>2
<1>5. f = R
  BY <1>1, <1>3, <1>4, Zenon
<1>6. QED
  BY <1>5 DEF f

LEMMA Fields ==
  ASSUME NEW g, DOMAIN g = {"arr", "mem", "root"}, g = [i \in DOMAIN g |-> g[i]]
  PROVE  g = [arr |-> g.arr, mem |-> g.mem, root |-> g.root]
<1> DEFINE Q == [arr |-> g.arr, mem |-> g.mem, root |-> g.root]
<1>1. Q = [i \in {"arr", "mem", "root"} |-> Q[i]] /\ \A i \in {"arr", "mem", "root"} : Q[i] = g[i]
  OBVIOUS
<1> HIDE DEF Q
<1>2. g = Q
  BY <1>1, Zenon
<1>3. QED
  BY <1>2 DEF Q

LEMMA HideFields ==
  ASSUME NEW h \in Heaps, NEW a \in Arrays, NEW r \in Bufs, ~h.arr[a].shared, NEW g,
         g = [h EXCEPT !.root[r] = h.arr[a].buf, !.arr[a].aux = r, !.arr[a].shared = TRUE]
  PROVE  Hidden(h, g, a, r)
<1> DEFINE v == h.arr[a]
           R == [buf |-> v.buf, off |-> v.off, len |-> v.len, aux |-> r, shared |-> TRUE]
<1>1. h.arr \in [Arrays -> Arrayed] /\ v \in Arrayed /\ v.buf \in 0..MaxBufs
      /\ h.root \in [Bufs -> 0..MaxBufs \cup {Nil}] /\ h.mem \in [Bufs -> Seq(Cell) \cup {Nil}]
  BY DEF Heaps, Arrayed
<1>2. [[v EXCEPT !.aux = r] EXCEPT !.shared = TRUE] = R
  BY <1>1, Hide
<1>3. R \in Arrayed
  BY <1>1, BufsNat DEF Arrayed
<1>4. g.mem = h.mem /\ g.root = [h.root EXCEPT ![r] = v.buf]
  BY DEF Heaps
<1>5. g.arr = [h.arr EXCEPT ![a] = [[v EXCEPT !.aux = r] EXCEPT !.shared = TRUE]]
  BY <1>1 DEF Heaps
<1>6. DOMAIN g = {"arr", "mem", "root"} /\ g = [i \in DOMAIN g |-> g[i]]
  BY DEF Heaps
<1>7. g = [arr |-> g.arr, mem |-> g.mem, root |-> g.root]
  BY <1>6, Fields
<1>8. g.arr = [h.arr EXCEPT ![a] = R]
  BY <1>2, <1>5
<1> HIDE DEF R
<1>9. /\ g.arr \in [Arrays -> Arrayed] /\ g.root \in [Bufs -> 0..MaxBufs \cup {Nil}]
      /\ g.mem \in [Bufs -> Seq(Cell) \cup {Nil}]
  BY <1>1, <1>3, <1>4, <1>8
<1>10. g \in Heaps
  BY <1>7, <1>9 DEF Heaps
<1>11. QED
  BY <1>4, <1>8, <1>10 DEF Hidden, R

\* ary_make_shared changes no elements.
LEMMA MadeShared ==
  ASSUME NEW h, Sound(h), NEW a \in Arrays, \E r \in Bufs : h.root[r] = Nil, NEW g,
         g = ary_make_shared(h, a)
  PROVE  /\ Sound(g) /\ g.arr[a].shared
         /\ \A c \in Arrays : Body(g, c) = Body(h, c) /\ Window(g, c) = Window(h, c)
         /\ \A c \in Arrays \ {a} : g.arr[c] = h.arr[c]
         /\ g.arr[a].len = h.arr[a].len /\ g.arr[a].off = h.arr[a].off
<1>1. CASE h.arr[a].shared
  BY <1>1 DEF ary_make_shared
<1>2. CASE ~h.arr[a].shared
  <2> DEFINE S == {x \in Bufs : h.root[x] = Nil}
             r == Least(S)
  <2>1. r \in Bufs /\ h.root[r] = Nil
    <3>1. S # {} /\ S \in SUBSET Bufs
      OBVIOUS
    <3>2. r \in S
      BY <3>1, LeastOf
    <3>3. QED
      BY <3>2
  <2>2. g = [h EXCEPT !.root[r] = h.arr[a].buf, !.arr[a].aux = r, !.arr[a].shared = TRUE]
    BY <1>2 DEF ary_make_shared
  <2> HIDE DEF r, S
  <2>3. Hidden(h, g, a, r)
    BY <1>2, <2>1, <2>2, HideFields DEF Sound
  <2>4. QED
    BY <1>2, <2>1, <2>3, HiddenSound
<1>3. QED
  BY <1>1, <1>2

\* One array of a heap is changed.
Put(h, a, v) == [arr |-> [h.arr EXCEPT ![a] = v], mem |-> h.mem, root |-> h.root]

\* Array a, shared or not, shows another part of its buffer.
LEMMA MovedSound ==
  ASSUME NEW h, Sound(h), NEW a \in Arrays, NEW v \in Arrayed,
         v.buf = h.arr[a].buf, v.aux = h.arr[a].aux, v.shared = h.arr[a].shared,
         v.off + v.len <= Len(Body(h, a)), ~v.shared => v.off = 0, NEW g, g = Put(h, a, v)
  PROVE  Sound(g) /\ Others(h, g, a) /\ g.arr[a] = v /\ Body(g, a) = Body(h, a)
<1>1. /\ h.arr \in [Arrays -> Arrayed] /\ h.root \in [Bufs -> 0..MaxBufs \cup {Nil}]
      /\ h.mem \in [Bufs -> Seq(Cell) \cup {Nil}]
  BY DEF Sound, Heaps
<1>2. g \in Heaps /\ g.root = h.root /\ g.mem = h.mem /\ g.arr = [h.arr EXCEPT ![a] = v]
  BY <1>1 DEF Put, Heaps
<1>3. Shows(h, g, a, a, v)
  BY <1>2 DEF Shows
<1>4. QED
  BY <1>3, ShowsSound

\* Array a of g shows n elements of array b of h, from the one at i on.
LEMMA PartWindow ==
  ASSUME NEW h, Sound(h), NEW g, Sound(g), NEW a \in Arrays, NEW b \in Arrays,
         Body(g, a) = Body(h, b), NEW i \in Nat, NEW n \in Nat,
         g.arr[a].off = h.arr[b].off + i, g.arr[a].len = n, i + n <= h.arr[b].len
  PROVE  Window(g, a) = SubSeq(Window(h, b), i + 1, i + n)
<1> DEFINE w == Window(h, b)
           u == Window(g, a)
           t == SubSeq(w, i + 1, i + n)
           s == Body(h, b)
           o == h.arr[b].off
           len == h.arr[b].len
<1>1. /\ w \in Seq(Cell) /\ Len(w) = len /\ \A k \in 1..len : w[k] = s[o + k]
      /\ o \in Nat /\ len \in Nat /\ i + n <= len
  BY WindowType, BodyType
<1>2. u \in Seq(Cell) /\ Len(u) = n /\ \A k \in 1..n : u[k] = s[(o + i) + k]
  <2>1. /\ u \in Seq(Cell) /\ Len(u) = g.arr[a].len
        /\ \A k \in 1..g.arr[a].len : u[k] = Body(g, a)[g.arr[a].off + k]
    BY WindowType
  <2>2. QED
    BY <2>1
<1> HIDE DEF w, u, s, o, len
<1>3. t \in Seq(Cell) /\ Len(t) = n /\ \A k \in 1..n : t[k] = w[i + k]
  BY <1>1, Part
<1> HIDE DEF t
<1>4. ASSUME NEW k \in 1..n PROVE u[k] = t[k]
  <2>1. i + k \in 1..len /\ (o + i) + k = o + (i + k)
    BY <1>1
  <2>2. QED
    BY <1>1, <1>2, <1>3, <2>1
<1>5. u = t
  BY <1>2, <1>3, <1>4, Alike
<1>6. QED
  BY <1>5 DEF u, t, w

\* Array a loses its last elements.
Cut(h, a, n) == [h EXCEPT !.arr[a].len = n]

\* An array is cut to its first n elements.
LEMMA Shortened ==
  ASSUME NEW h, Sound(h), NEW a \in Arrays, NEW n \in Nat, n <= h.arr[a].len, NEW g,
         g = Cut(h, a, n)
  PROVE  /\ Sound(g) /\ Others(h, g, a) /\ Body(g, a) = Body(h, a)
         /\ g.arr[a].shared = h.arr[a].shared /\ g.arr[a].len = n /\ g.mem = h.mem
         /\ Window(g, a) = SubSeq(Window(h, a), 1, n)
<1> DEFINE v == [h.arr[a] EXCEPT !.len = n]
<1>1. h \in Heaps /\ h.arr[a] \in Arrayed /\ Holds(h, a) /\ Body(h, a) \in Seq(Cell)
      /\ h.arr[a].off \in Nat /\ h.arr[a].len \in Nat
  BY BodyType DEF Sound
<1>2. g = Put(h, a, v)
  BY <1>1, OneArray DEF Put, Cut
<1>3. /\ v \in Arrayed /\ v.buf = h.arr[a].buf /\ v.aux = h.arr[a].aux /\ v.off = h.arr[a].off
      /\ v.shared = h.arr[a].shared /\ v.len = n
  BY <1>1 DEF Arrayed
<1> HIDE DEF v
<1>4. v.off + v.len <= Len(Body(h, a)) /\ (~v.shared => v.off = 0)
  BY <1>1, <1>3 DEF Holds
<1>5. Sound(g) /\ Others(h, g, a) /\ g.arr[a] = v /\ Body(g, a) = Body(h, a)
  BY <1>2, <1>3, <1>4, MovedSound
<1>6. Window(g, a) = SubSeq(Window(h, a), 1, n)
  <2> DEFINE i == 0
  <2>1. i \in Nat /\ i + n = n /\ i + 1 = 1 /\ g.arr[a].off = h.arr[a].off + i
        /\ g.arr[a].len = n /\ i + n <= h.arr[a].len /\ Sound(g) /\ Body(g, a) = Body(h, a)
    BY <1>1, <1>3, <1>5
  <2> HIDE DEF i
  <2>2. Window(g, a) = SubSeq(Window(h, a), i + 1, i + n)
    BY <2>1, PartWindow
  <2>3. QED
    BY <2>1, <2>2
<1>7. g.mem = h.mem
  BY <1>2 DEF Put
<1>8. QED
  BY <1>3, <1>5, <1>6, <1>7

(* Operations.  Array a gets the elements s; only those of T are changed.     *)

Becomes(h, g, T, a, s) ==
  /\ Sound(g) /\ Window(g, a) = s
  /\ \A c \in Arrays \ {a} : Window(g, c) = Window(h, c)
  /\ \A c \in Arrays \ T : g.arr[c] = h.arr[c]

\* An operation that leaves an array alone in its buffer, with the elements t.
LEMMA OwnsBecomes ==
  ASSUME NEW h, NEW g, NEW a \in Arrays, NEW s, NEW n, Owns(g, a, s, n), Others(h, g, a),
         NEW t \in Seq(Cell), Len(t) = n, \A k \in 1..n : s[k] = t[k]
  PROVE  Becomes(h, g, {a}, a, t)
<1>1. /\ Window(g, a) \in Seq(Cell) /\ Len(Window(g, a)) = n
      /\ \A k \in 1..n : Window(g, a)[k] = s[k]
  BY OwnsWindow
<1>2. Window(g, a) = t
  <2> DEFINE w == Window(g, a)
  <2>1. w \in Seq(Cell) /\ Len(w) = Len(t) /\ \A k \in 1..Len(w) : w[k] = t[k]
    BY <1>1
  <2> HIDE DEF w
  <2>2. w = t
    BY <2>1, Alike
  <2>3. QED
    BY <2>2 DEF w
<1>3. QED
  BY <1>2 DEF Becomes, Others, Owns

\* Parts, concatenations, and runs of Nil.
LEMMA Subs ==
  ASSUME NEW s \in Seq(Cell), NEW m \in Nat \ {0}, NEW n \in Nat, n <= Len(s)
  PROVE  /\ SubSeq(s, m, n) \in Seq(Cell)
         /\ Len(SubSeq(s, m, n)) = IF m <= n THEN n - m + 1 ELSE 0
         /\ \A k \in 1..(n - m + 1) : SubSeq(s, m, n)[k] = s[m + k - 1]
OBVIOUS

LEMMA Joins ==
  ASSUME NEW s \in Seq(Cell), NEW t \in Seq(Cell)
  PROVE  /\ s \o t \in Seq(Cell) /\ Len(s \o t) = Len(s) + Len(t)
         /\ \A k \in 1..Len(s) : (s \o t)[k] = s[k]
         /\ \A k \in (Len(s) + 1)..(Len(s) + Len(t)) : (s \o t)[k] = t[k - Len(s)]
OBVIOUS

LEMMA NilsSeq ==
  ASSUME NEW n \in Int
  PROVE  /\ Nils(n) \in Seq(Cell) /\ Len(Nils(n)) = IF n > 0 THEN n ELSE 0
         /\ \A k \in 1..n : Nils(n)[k] = Nil
<1>1. Nil \in Cell
  BY DEF Cell
<1>2. QED
  BY <1>1 DEF Nils

LEMMA PaddedSeq ==
  ASSUME NEW s \in Seq(Cell), NEW n \in Nat
  PROVE  /\ Values!Padded(s, n) \in Seq(Cell)
         /\ Len(Values!Padded(s, n)) = IF n > Len(s) THEN n ELSE Len(s)
         /\ \A k \in 1..Len(Values!Padded(s, n)) :
              Values!Padded(s, n)[k] = IF k <= Len(s) THEN s[k] ELSE Nil
<1> DEFINE t == [i \in 1..(IF n > Len(s) THEN n - Len(s) ELSE 0) |-> Nil]
<1>1. Nil \in Cell /\ Len(s) \in Nat
  BY DEF Cell
<1>2. /\ t \in Seq(Cell) /\ Len(t) = IF n > Len(s) THEN n - Len(s) ELSE 0
      /\ \A k \in 1..Len(t) : t[k] = Nil
  BY <1>1
<1>3. Values!Padded(s, n) = s \o t
  BY DEF Values!Padded
<1> HIDE DEF t
<1>4. /\ s \o t \in Seq(Cell) /\ Len(s \o t) = Len(s) + Len(t)
      /\ \A k \in 1..Len(s) : (s \o t)[k] = s[k]
      /\ \A k \in (Len(s) + 1)..(Len(s) + Len(t)) : (s \o t)[k] = t[k - Len(s)]
  BY <1>2, Joins
<1>5. \A k \in (Len(s) + 1)..(Len(s) + Len(t)) : k - Len(s) \in 1..Len(t)
  BY <1>1, <1>2
<1>6. QED
  BY <1>1, <1>2, <1>3, <1>4, <1>5

\* An array is made modifiable, and large enough for need elements.
LEMMA Prepared ==
  ASSUME NEW h, Sound(h), TwoFree(h), NEW a \in Arrays, NEW need \in Nat, h.arr[a].len <= need,
         NEW n, NEW m, m = rb_ary_modify(h, a), NEW r,
         \/ r = m /\ need <= m.arr[a].aux
         \/ n \in Nat /\ need <= n /\ r = Realloc(m, a, n)
  PROVE  /\ Owns(r, a, Body(r, a), h.arr[a].len) /\ Others(h, r, a)
         /\ need <= Len(Body(r, a)) /\ Body(r, a) \in Seq(Cell)
         /\ \A k \in 1..h.arr[a].len : Body(r, a)[k] = Window(h, a)[k]
         /\ Window(r, a) = Window(h, a)
<1> DEFINE len == h.arr[a].len
           w == Window(h, a)
<1>1. /\ Owns(m, a, Body(m, a), len) /\ Window(m, a) = w /\ Others(h, m, a) /\ OneFree(m)
  BY ModifyOwns DEF TwoFree, OneFree
<1>2. len \in Nat /\ w \in Seq(Cell) /\ Len(w) = len
  BY BodyType, WindowType
<1>3. Body(m, a) \in Seq(Cell) /\ \A k \in 1..len : Body(m, a)[k] = w[k]
  BY <1>1, OwnsWindow
<1>4. m.arr[a].aux = Len(Body(m, a)) /\ Sound(m) /\ ~m.arr[a].shared /\ m.arr[a].len = len
  BY <1>1 DEF Owns, Sound, Holds
<1> HIDE DEF w
<1>5. CASE r = m /\ need <= m.arr[a].aux
  BY <1>1, <1>3, <1>4, <1>5 DEF w
<1>6. CASE n \in Nat /\ need <= n /\ r = Realloc(m, a, n)
  <2> DEFINE s == Resized(Body(m, a), n)
  <2>1. len <= n
    BY <1>2, <1>6
  <2>2. Owns(r, a, s, len) /\ Others(m, r, a)
    BY <1>1, <1>4, <1>6, <2>1, ReallocOwns
  <2>3. Body(r, a) = s /\ s \in Seq(Cell)
    BY <2>2, OwnsWindow DEF Owns
  <2>4. Len(s) = n /\ \A k \in 1..len : s[k] = w[k]
    <3>1. len <= Len(Body(m, a))
      BY <1>1, OwnsWindow
    <3>2. QED
      BY <1>2, <1>3, <1>6, <2>1, <3>1 DEF Resized
  <2> HIDE DEF s
  <2>5. Others(h, r, a)
    BY <1>1, <2>2, OthersOthers
  <2>6. Becomes(h, r, {a}, a, w)
    BY <1>2, <2>2, <2>4, <2>5, OwnsBecomes
  <2>7. QED
    BY <1>6, <2>2, <2>3, <2>4, <2>5, <2>6 DEF Becomes, w
<1>7. QED
  BY <1>5, <1>6

LEMMA NilsWritten ==
  ASSUME NEW s \in Seq(Cell), NEW i \in Nat, NEW z \in Nat
  PROVE  /\ Overwritten(s, i, Nils(z)) \in Seq(Cell) /\ Len(Overwritten(s, i, Nils(z))) = Len(s)
         /\ \A k \in 1..Len(s) :
              Overwritten(s, i, Nils(z))[k] = IF i < k /\ k <= i + z THEN Nil ELSE s[k]
<1> DEFINE r == Nils(z)
           t == Overwritten(s, i, r)
<1>1. r \in Seq(Cell) /\ Len(r) = z /\ \A k \in 1..z : r[k] = Nil
  BY NilsSeq
<1> HIDE DEF r
<1>2. /\ t \in Seq(Cell) /\ Len(t) = Len(s)
      /\ \A k \in 1..Len(s) : t[k] = IF i < k /\ k <= i + Len(r) THEN r[k - i] ELSE s[k]
  BY <1>1, OverwrittenSeq
<1> HIDE DEF t
<1>3. ASSUME NEW k \in 1..Len(s)
      PROVE  t[k] = IF i < k /\ k <= i + z THEN Nil ELSE s[k]
  <2>1. i < k /\ k <= i + z => k - i \in 1..z
    OBVIOUS
  <2>2. QED
    BY <1>1, <1>2, <2>1
<1>4. QED
  BY <1>2, <1>3 DEF t, r

LEMMA OneWritten ==
  ASSUME NEW s \in Seq(Cell), NEW i \in Nat, NEW x \in Cell
  PROVE  /\ <<x>> \in Seq(Cell)
         /\ Overwritten(s, i, <<x>>) \in Seq(Cell) /\ Len(Overwritten(s, i, <<x>>)) = Len(s)
         /\ \A k \in 1..Len(s) : Overwritten(s, i, <<x>>)[k] = IF k = i + 1 THEN x ELSE s[k]
<1> DEFINE r == <<x>>
           t == Overwritten(s, i, r)
<1>1. r \in Seq(Cell) /\ Len(r) = 1 /\ r[1] = x
  OBVIOUS
<1> HIDE DEF r
<1>2. /\ t \in Seq(Cell) /\ Len(t) = Len(s)
      /\ \A k \in 1..Len(s) : t[k] = IF i < k /\ k <= i + Len(r) THEN r[k - i] ELSE s[k]
  BY <1>1, OverwrittenSeq
<1> HIDE DEF t
<1>3. ASSUME NEW k \in 1..Len(s)
      PROVE  t[k] = IF k = i + 1 THEN x ELSE s[k]
  <2>1. (i < k /\ k <= i + 1 <=> k = i + 1) /\ (k = i + 1 => k - i = 1)
    OBVIOUS
  <2>2. QED
    BY <1>1, <1>2, <2>1
<1>4. QED
  BY <1>1, <1>2, <1>3 DEF t, r

LEMMA Modified ==
  ASSUME NEW h, Sound(h), TwoFree(h), NEW a \in Arrays, NEW m, m = rb_ary_modify(h, a)
  PROVE  /\ m.arr[a].len = h.arr[a].len /\ h.arr[a].len \in Nat
         /\ m.arr[a].aux \in Nat /\ h.arr[a].len <= m.arr[a].aux
<1>1. Owns(m, a, Body(m, a), h.arr[a].len)
  BY ModifyOwns DEF TwoFree, OneFree
<1>2. Sound(m) /\ ~m.arr[a].shared /\ m.arr[a].len = h.arr[a].len
  BY <1>1 DEF Owns
<1>3. /\ m.arr[a].off = 0 /\ m.arr[a].aux = Len(Body(m, a))
      /\ m.arr[a].off + m.arr[a].len <= Len(Body(m, a))
  BY <1>2 DEF Sound, Holds
<1>4. m.arr[a].aux \in Nat /\ h.arr[a].len \in Nat
  BY <1>2, BodyType
<1>5. QED
  BY <1>2, <1>3, <1>4

\* Each operation gives the array what ArrayValues says.  Here rb_ary_store.
LEMMA StoreBecomes ==
  ASSUME NEW h, Sound(h), TwoFree(h), NEW a \in Arrays, NEW idx \in Nat, NEW x \in Cell,
         NEW g, g = rb_ary_store(h, a, idx, x)
  PROVE  Becomes(h, g, {a}, a, [Values!Padded(Window(h, a), idx + 1) EXCEPT ![idx + 1] = x])
<1> DEFINE m == rb_ary_modify(h, a)
           aux == m.arr[a].aux
           len == m.arr[a].len
           n == AtLeastDefault(aux \div 2) + idx
           r == IF idx >= aux THEN Realloc(m, a, n) ELSE m
           z == IF idx > len THEN idx - len + 1 ELSE 0
           l == IF idx >= len THEN idx + 1 ELSE len
           p == Written(r, a, len, Nils(z), l)
           w == Window(h, a)
           q == Values!Padded(w, idx + 1)
           t == [q EXCEPT ![idx + 1] = x]
           R == Body(r, a)
           P == Overwritten(R, len, Nils(z))
           G == Overwritten(P, idx, <<x>>)
<1>1. len = h.arr[a].len /\ len \in Nat /\ aux \in Nat /\ len <= aux
  BY Modified
<1>2. g = Written(p, a, idx, <<x>>, p.arr[a].len)
  BY DEF rb_ary_store
<1>3. w \in Seq(Cell) /\ Len(w) = len
  BY <1>1, WindowType
<1> HIDE DEF len, w
<1>4. aux \div 2 \in Nat
  BY <1>1
<1> HIDE DEF aux
<1>5. l \in Nat /\ len <= l /\ z \in Nat /\ idx + 1 <= l
      /\ \/ idx >= aux /\ n \in Nat /\ l <= n
         \/ ~(idx >= aux) /\ l <= aux
  BY <1>1, <1>4, ArrayAssumption DEF AtLeastDefault
<1> HIDE DEF l, n
<1>6. \/ r = m /\ l <= aux
      \/ n \in Nat /\ l <= n /\ r = Realloc(m, a, n)
  BY <1>5
<1> HIDE DEF m, r
<1>7. /\ Owns(r, a, R, len) /\ Others(h, r, a) /\ l <= Len(R) /\ R \in Seq(Cell)
      /\ \A k \in 1..len : R[k] = w[k]
  BY <1>1, <1>5, <1>6, Prepared DEF m, aux, w
<1> HIDE DEF z, R
<1>8. Nils(z) \in Seq(Cell)
  BY <1>5, NilsSeq
<1>9. Owns(p, a, P, l) /\ Others(r, p, a)
  BY <1>1, <1>5, <1>7, <1>8, WrittenOwns
<1>10. /\ P \in Seq(Cell) /\ Len(P) = Len(R)
       /\ \A k \in 1..Len(R) : P[k] = IF len < k /\ k <= len + z THEN Nil ELSE R[k]
  BY <1>1, <1>5, <1>7, NilsWritten, ZenonT(30)
<1> HIDE DEF p, P
<1>11. <<x>> \in Seq(Cell)
  BY <1>10, OneWritten
<1>12. Owns(g, a, G, l) /\ Others(p, g, a)
  <2>1. p.arr[a].len = l
    BY <1>9 DEF Owns
  <2>2. g = Written(p, a, idx, <<x>>, l) /\ l <= Len(P)
    BY <1>2, <1>7, <1>10, <2>1
  <2> HIDE DEF G
  <2>3. Owns(g, a, Overwritten(P, idx, <<x>>), l) /\ Others(p, g, a)
    BY <1>5, <1>9, <1>11, <2>2, WrittenOwns
  <2>4. QED
    BY <2>3 DEF G
<1>13. \A k \in 1..Len(R) : G[k] = IF k = idx + 1 THEN x ELSE P[k]
  BY <1>10, OneWritten, ZenonT(30)
<1>14. /\ q \in Seq(Cell) /\ Len(q) = IF idx + 1 > len THEN idx + 1 ELSE len
       /\ \A k \in 1..Len(q) : q[k] = IF k <= len THEN w[k] ELSE Nil
  BY <1>3, PaddedSeq
<1> HIDE DEF q, G
<1>15. /\ t \in Seq(Cell) /\ Len(t) = l
       /\ \A k \in 1..l : t[k] = IF k = idx + 1 THEN x ELSE q[k]
  <2>1. Len(q) = l /\ idx + 1 \in 1..Len(q)
    BY <1>1, <1>14 DEF l
  <2>2. QED
    BY <1>14, <2>1
<1>16. ASSUME NEW k \in 1..l PROVE G[k] = t[k]
  <2>1. k \in 1..Len(R) /\ k \in Nat /\ Len(q) = l
    BY <1>1, <1>5, <1>7, <1>14 DEF l
  <2>2. CASE k = idx + 1
    BY <1>13, <1>15, <2>1, <2>2
  <2>3. CASE k # idx + 1 /\ k <= len
    <3>1. k \in 1..len
      BY <1>1, <2>1, <2>3
    <3>2. ~(len < k) /\ R[k] = w[k]
      BY <1>1, <1>7, <2>1, <2>3, <3>1
    <3>3. G[k] = R[k]
      BY <1>10, <1>13, <2>1, <2>3, <3>2
    <3>4. QED
      BY <1>14, <1>15, <2>1, <2>3, <3>2, <3>3
  <2>4. CASE k # idx + 1 /\ ~(k <= len)
    <3>1. len < k /\ k <= len + z
      BY <1>1, <2>1, <2>4 DEF l, z
    <3>2. QED
      BY <1>10, <1>13, <1>14, <1>15, <2>1, <2>4, <3>1
  <2>5. QED
    BY <2>2, <2>3, <2>4
<1>17. Others(h, g, a)
  BY <1>7, <1>9, <1>12, OthersOthers
<1> HIDE DEF t
<1>18. Becomes(h, g, {a}, a, t)
  BY <1>12, <1>15, <1>16, <1>17, OwnsBecomes
<1>19. QED
  BY <1>18 DEF t, q, w

LEMMA ReallocKeeps ==
  ASSUME NEW h, Sound(h), NEW a \in Arrays, ~h.arr[a].shared, OneFree(h),
         NEW n \in Nat, h.arr[a].len <= n, NEW g, g = Realloc(h, a, n)
  PROVE  /\ Owns(g, a, Body(g, a), h.arr[a].len) /\ Others(h, g, a)
         /\ Window(g, a) = Window(h, a)
<1> DEFINE s == Resized(Body(h, a), n)
           w == Window(h, a)
           len == h.arr[a].len
<1>1. Owns(g, a, s, len) /\ Others(h, g, a)
  BY ReallocOwns
<1>2. /\ Owns(h, a, Body(h, a), len) /\ len \in Nat /\ len <= Len(Body(h, a))
      /\ w \in Seq(Cell) /\ Len(w) = len /\ \A k \in 1..len : Body(h, a)[k] = w[k]
      /\ Body(h, a) \in Seq(Cell)
  BY OwnsAll, OwnsWindow
<1> HIDE DEF w, len
<1>3. \A k \in 1..len : s[k] = w[k]
  BY <1>2 DEF Resized, len
<1> HIDE DEF s
<1>4. Becomes(h, g, {a}, a, w)
  BY <1>1, <1>2, <1>3, OwnsBecomes
<1>5. Body(g, a) = s
  BY <1>1 DEF Owns
<1>6. QED
  BY <1>1, <1>4, <1>5 DEF Becomes, w, len

LEMMA LiteralBecomes ==
  ASSUME NEW h, Sound(h), OneFree(h), NEW a \in Arrays, h.arr[a] = Empty, NEW s \in Seq(Cell),
         NEW g, g = rb_ary_s_create(h, a, s)
  PROVE  Becomes(h, g, {a}, a, s)
<1>1. h.arr[a].buf = 0 /\ h.arr[a].len = 0 /\ ~h.arr[a].shared
  BY DEF Empty
<1>2. CASE s = <<>>
  <2>1. [h EXCEPT !.arr[a] = Empty] = h
    <3>1. h.arr \in [Arrays -> Arrayed]
      BY DEF Sound, Heaps
    <3>2. [h.arr EXCEPT ![a] = Empty] = h.arr
      BY <3>1
    <3>3. [h EXCEPT !.arr = h.arr] = h
      BY DEF Sound, Heaps
    <3>4. QED
      BY <3>2, <3>3
  <2>2. g = h
    BY <1>2, <2>1 DEF rb_ary_s_create
  <2>3. Window(h, a) = <<>>
    BY <1>1, WindowType
  <2>4. QED
    BY <1>2, <2>2, <2>3 DEF Becomes
<1>3. CASE s # <<>>
  <2>1. g = Owning(h, a, s, Len(s), Len(s)) /\ Len(s) \in Nat
    BY <1>3 DEF rb_ary_s_create
  <2>2. Owns(g, a, s, Len(s)) /\ Others(h, g, a)
    BY <1>1, <2>1, OwningOwns
  <2>3. QED
    BY <2>1, <2>2, OwnsBecomes
<1>4. QED
  BY <1>2, <1>3

\* rb_ary_pop, which may give back half of the buffer.
LEMMA PopBecomes ==
  ASSUME NEW h, Sound(h), OneFree(h), NEW a \in Arrays, h.arr[a].len > 0,
         NEW g, g = rb_ary_pop(h, a)
  PROVE  Becomes(h, g, {a}, a, SubSeq(Window(h, a), 1, Len(Window(h, a)) - 1))
<1> DEFINE v == h.arr[a]
           r == IF ~v.shared /\ v.len * 2 < v.aux /\ v.aux > ARY_DEFAULT_SIZE
                THEN Realloc(h, a, v.len * 2) ELSE h
           w == Window(h, a)
<1>1. v.len \in Nat /\ Len(w) = v.len
  BY BodyType, WindowType
<1>2. g = Cut(r, a, r.arr[a].len - 1)
  <2>1. v.len # 0
    BY <1>1
  <2>2. g = [r EXCEPT !.arr[a].len = @ - 1]
    BY <2>1, Zenon DEF rb_ary_pop
  <2> HIDE DEF r
  <2>3. QED
    BY <2>2, Zenon DEF Cut
<1>3. Sound(r) /\ Others(h, r, a) /\ Window(r, a) = w /\ r.arr[a].len = v.len
  <2>1. CASE r = h
    BY <2>1 DEF Others
  <2>2. CASE r # h
    <3>1. ~v.shared /\ r = Realloc(h, a, v.len * 2)
      BY <2>2
    <3>2. v.len * 2 \in Nat /\ v.len <= v.len * 2
      BY <1>1
    <3> HIDE DEF r
    <3>3. /\ Owns(r, a, Body(r, a), v.len) /\ Others(h, r, a) /\ Window(r, a) = w
      BY <3>1, <3>2, ReallocKeeps
    <3>4. QED
      BY <3>3 DEF Owns
  <2>3. QED
    BY <2>1, <2>2
<1> HIDE DEF r
<1>4. v.len - 1 \in Nat /\ v.len - 1 <= r.arr[a].len
  BY <1>1, <1>3
<1>5. Sound(g) /\ Others(r, g, a) /\ Window(g, a) = SubSeq(w, 1, v.len - 1)
  BY <1>2, <1>3, <1>4, Shortened
<1>6. QED
  BY <1>1, <1>3, <1>5, OthersOthers DEF Becomes, Others

\* One array of a heap is changed to v.
LEMMA PutFields ==
  ASSUME NEW h \in Heaps, NEW a, NEW v
  PROVE  [h EXCEPT !.arr[a] = v] = Put(h, a, v)
<1> DEFINE g == [h EXCEPT !.arr[a] = v]
           A == [h.arr EXCEPT ![a] = v]
<1>1. g.mem = h.mem /\ g.root = h.root /\ g.arr = A
  BY DEF Heaps
<1>2. DOMAIN g = {"arr", "mem", "root"} /\ g = [i \in DOMAIN g |-> g[i]]
  BY DEF Heaps
<1> HIDE DEF g, A
<1>3. g = [arr |-> g.arr, mem |-> g.mem, root |-> g.root]
  BY <1>2, Fields
<1>4. g = [arr |-> A, mem |-> h.mem, root |-> h.root]
  BY <1>1, <1>3
<1>5. QED
  BY <1>4 DEF g, A, Put

\* The window of an array is moved.
Placed(v, o, n) == [buf |-> v.buf, off |-> o, len |-> n, aux |-> v.aux, shared |-> v.shared]

Positioned(v, o, n) == [[v EXCEPT !.off = o] EXCEPT !.len = n]

LEMMA Place ==
  ASSUME NEW v \in Arrayed, NEW o, NEW n
  PROVE  Positioned(v, o, n) = Placed(v, o, n)
<1> DEFINE f == [[v EXCEPT !.off = o] EXCEPT !.len = n]
           R == [buf |-> v.buf, off |-> o, len |-> n, aux |-> v.aux, shared |-> v.shared]
           D == {"buf", "off", "len", "aux", "shared"}
<1>1. DOMAIN f = D /\ f = [i \in DOMAIN f |-> f[i]]
  BY DEF Arrayed
<1>2. f.buf = v.buf /\ f.off = o /\ f.len = n /\ f.aux = v.aux /\ f.shared = v.shared
  BY DEF Arrayed
<1>3. R = [i \in D |-> R[i]]
  OBVIOUS
<1> HIDE DEF f
<1>4. \A i \in D : f[i] = R[i]
  BY <1>2
<1>5. f = R
  BY <1>1, <1>3, <1>4, Zenon
<1>6. QED
  BY <1>5 DEF f, Placed, Positioned

LEMMA ShiftFields ==
  ASSUME NEW h \in Heaps, NEW a \in Arrays, NEW g,
         g = [h EXCEPT !.arr[a].off = @ + 1, !.arr[a].len = @ - 1]
  PROVE  g = Put(h, a, Placed(h.arr[a], h.arr[a].off + 1, h.arr[a].len - 1))
<1> DEFINE v == h.arr[a]
           o == v.off + 1
           n == v.len - 1
           A == [h.arr EXCEPT ![a] = Positioned(v, o, n)]
<1>1. h.arr \in [Arrays -> Arrayed] /\ v \in Arrayed
  BY DEF Heaps
<1>2. g.mem = h.mem /\ g.root = h.root
  BY DEF Heaps
<1>3. g.arr = A
  BY <1>1 DEF Heaps, Arrayed, Positioned
<1>4. DOMAIN g = {"arr", "mem", "root"} /\ g = [i \in DOMAIN g |-> g[i]]
  BY DEF Heaps
<1>5. g = [arr |-> g.arr, mem |-> g.mem, root |-> g.root]
  BY <1>4, Fields
<1>6. A = [h.arr EXCEPT ![a] = Placed(v, o, n)]
  <2> HIDE DEF v, o, n
  <2>1. QED
    BY <1>1, Place
<1>7. QED
  BY <1>2, <1>3, <1>5, <1>6 DEF Put

\* rb_ary_shift moves the window of a shared buffer.
LEMMA ShiftBecomes ==
  ASSUME NEW h, Sound(h), \E r \in Bufs : h.root[r] = Nil, NEW a \in Arrays, h.arr[a].len > 0,
         NEW g, g = rb_ary_shift(h, a)
  PROVE  Becomes(h, g, {a}, a, SubSeq(Window(h, a), 2, Len(Window(h, a))))
<1> DEFINE s == ary_make_shared(h, a)
           v == s.arr[a]
           f == Placed(v, v.off + 1, v.len - 1)
           w == Window(h, a)
           one == 1
           n == v.len - 1
<1>1. /\ Sound(s) /\ v.shared /\ \A c \in Arrays : Window(s, c) = Window(h, c)
      /\ \A c \in Arrays \ {a} : s.arr[c] = h.arr[c]
      /\ v.len = h.arr[a].len
  BY MadeShared
<1>2. s \in Heaps /\ v \in Arrayed /\ v.len \in Nat /\ v.off \in Nat
      /\ v.off + v.len <= Len(Body(s, a))
  BY <1>1, BodyType DEF Sound, Holds
<1>3. g = Put(s, a, f)
  <2>1. g = [s EXCEPT !.arr[a].off = @ + 1, !.arr[a].len = @ - 1]
    BY <1>1 DEF rb_ary_shift
  <2> HIDE DEF s
  <2>2. QED
    BY <1>2, <2>1, ShiftFields
<1> HIDE DEF s
<1>4. n \in Nat /\ one + n = v.len /\ v.off + one \in Nat /\ (v.off + one) + n = v.off + v.len
      /\ one \in Nat /\ one + n <= v.len
  BY <1>1, <1>2
<1>5. /\ f \in Arrayed /\ f.buf = v.buf /\ f.off = v.off + one /\ f.len = n /\ f.aux = v.aux
      /\ f.shared = v.shared
  <2>1. f = Placed(v, v.off + 1, v.len - 1)
    OBVIOUS
  <2> HIDE DEF v, f
  <2>2. v.off + 1 \in Nat /\ v.len - 1 \in Nat
    BY <1>4
  <2>3. QED
    BY <1>2, <2>1, <2>2 DEF Placed, Arrayed
<1> HIDE DEF f
<1> HIDE DEF n, one, v
<1>6. f.off + f.len <= Len(Body(s, a)) /\ f.shared
  BY <1>1, <1>2, <1>4, <1>5
<1>7. Sound(g) /\ Others(s, g, a) /\ g.arr[a] = f /\ Body(g, a) = Body(s, a)
  <2>1. f.buf = s.arr[a].buf /\ f.aux = s.arr[a].aux /\ f.shared = s.arr[a].shared
    BY <1>5 DEF v
  <2>2. QED
    BY <1>1, <1>3, <1>5, <1>6, <2>1, MovedSound
<1>8. Window(g, a) = SubSeq(Window(s, a), one + 1, one + n)
  BY <1>1, <1>4, <1>5, <1>7, PartWindow DEF v
<1>9. Window(s, a) = w /\ Len(w) = v.len /\ one + 1 = 2
  BY <1>1, WindowType DEF one
<1>10. QED
  BY <1>1, <1>4, <1>7, <1>8, <1>9 DEF Becomes, Others

\* rb_ary_subseq shares the buffer of the array it takes from.
LEMMA SubseqBecomes ==
  ASSUME NEW h, Sound(h), OneFree(h), \E r \in Bufs : h.root[r] = Nil,
         NEW a \in Arrays, NEW b \in Arrays, h.arr[a] = Empty, a # b,
         NEW beg \in Nat, NEW len \in Nat, beg + len <= h.arr[b].len,
         NEW g, g = rb_ary_subseq(h, a, b, beg, len)
  PROVE  Becomes(h, g, {a, b}, a, SubSeq(Window(h, b), beg + 1, beg + len))
<1>1. h.arr[a].buf = 0 /\ ~h.arr[a].shared
  BY DEF Empty
<1>2. CASE len = 0
  <2> DEFINE s == Resized(<<>>, 1)
             w == Window(h, b)
             t == SubSeq(w, beg + 1, beg + len)
  <2>1. s \in Seq(Cell) /\ Len(s) = 1
    BY DEF Resized, Cell
  <2>2. g = Owning(h, a, s, 0, 1)
    BY <1>2 DEF rb_ary_subseq
  <2> HIDE DEF s
  <2>3. Owns(g, a, s, 0) /\ Others(h, g, a)
    <3>1. g = Owning(h, a, s, 0, Len(s)) /\ 0 \in Nat /\ 0 <= Len(s)
      BY <2>1, <2>2
    <3>2. QED
      BY <1>1, <2>1, <3>1, OwningOwns
  <2>4. w \in Seq(Cell) /\ beg + len <= Len(w)
    BY WindowType
  <2> HIDE DEF w
  <2>5. t \in Seq(Cell) /\ Len(t) = 0 /\ \A k \in 1..0 : s[k] = t[k]
    BY <1>2, <2>4, Part
  <2> HIDE DEF t
  <2>6. Becomes(h, g, {a}, a, t)
    BY <2>3, <2>5, OwnsBecomes
  <2>7. QED
    BY <2>6 DEF Becomes, t, w
<1>3. CASE len # 0
  <2> DEFINE s == ary_make_shared(h, b)
             v == s.arr[b]
             f == Placed(v, v.off + beg, len)
  <2>1. /\ Sound(s) /\ v.shared /\ \A c \in Arrays : Window(s, c) = Window(h, c)
        /\ \A c \in Arrays \ {b} : s.arr[c] = h.arr[c]
        /\ v.len = h.arr[b].len
    BY MadeShared
  <2>2. s \in Heaps /\ v \in Arrayed /\ v.len \in Nat /\ v.off \in Nat
        /\ v.off + v.len <= Len(Body(s, b))
    BY <2>1, BodyType DEF Sound, Holds
  <2>3. g = [s EXCEPT !.arr[a] = f]
    <3>1. g = [s EXCEPT !.arr[a] = Positioned(v, v.off + beg, len)]
      BY <1>3, <2>2 DEF rb_ary_subseq, Arrayed, Positioned
    <3>2. Positioned(v, v.off + beg, len) = f
      <4> HIDE DEF v
      <4>1. QED
        BY <2>2, Place
    <3>3. QED
      BY <3>1, <3>2
  <2> HIDE DEF s
  <2>4. v.off + beg \in Nat /\ (v.off + beg) + len <= Len(Body(s, b))
    <3>1. Len(Body(s, b)) \in Nat
      BY <2>1, BodyType, LenProperties
    <3>2. QED
      BY <2>1, <2>2, <3>1
  <2>5. /\ f \in Arrayed /\ f.buf = v.buf /\ f.off = v.off + beg /\ f.len = len /\ f.aux = v.aux
        /\ f.shared = v.shared
    <3>1. f = Placed(v, v.off + beg, len)
      OBVIOUS
    <3> HIDE DEF v, f
    <3>2. QED
      BY <2>2, <2>4, <3>1 DEF Placed, Arrayed
  <2> HIDE DEF f
  <2>6. g = Put(s, a, f)
    BY <2>2, <2>3, PutFields
  <2>7. Shows(s, g, a, b, f)
    <3>1. g.root = s.root /\ g.mem = s.mem /\ g.arr = [s.arr EXCEPT ![a] = f]
      BY <2>6 DEF Put
    <3>2. g \in Heaps
      BY <2>2, <2>5, <2>6 DEF Put, Heaps
    <3>3. s.arr[a].buf = 0
      BY <1>1, <2>1
    <3>4. QED
      BY <2>1, <2>4, <2>5, <3>1, <3>2, <3>3, BufsNat DEF Shows
  <2>8. Sound(g) /\ Others(s, g, a) /\ g.arr[a] = f /\ Body(g, a) = Body(s, b)
    BY <2>1, <2>5, <2>7, ShowsSound
  <2>9. Window(g, a) = SubSeq(Window(s, b), beg + 1, beg + len)
    BY <2>1, <2>5, <2>8, PartWindow
  <2>10. QED
    BY <2>1, <2>8, <2>9 DEF Becomes, Others
<1>4. QED
  BY <1>2, <1>3

LEMMA ModifyRoot ==
  ASSUME NEW h \in Heaps, NEW a
  PROVE  rb_ary_modify(h, a).root = h.root
<1>1. CASE h.arr[a].shared
  <2> DEFINE s == Window(h, a)
             len == h.arr[a].len
  <2>1. rb_ary_modify(h, a) = Owning(h, a, s, len, len)
    BY <1>1 DEF rb_ary_modify
  <2> HIDE DEF s, len
  <2>2. Owning(h, a, s, len, len) = Afresh(h, a, Least(FreeBufs(h)), s, len, len)
    BY OwningFields
  <2>3. QED
    BY <2>1, <2>2 DEF Afresh
<1>2. CASE ~h.arr[a].shared
  BY <1>2 DEF rb_ary_modify
<1>3. QED
  BY <1>1, <1>2

\* Array a shows what array b shows; its own buffer is freed.
Takes(f, a, b) == [f EXCEPT !.arr[a] = f.arr[b]]

LEMMA Joined ==
  ASSUME NEW s, Sound(s), NEW a \in Arrays, NEW b \in Arrays, a # b, s.arr[b].shared,
         ~s.arr[a].shared, NEW f, f = Freed(s, s.arr[a].buf), NEW g, g = Takes(f, a, b)
  PROVE  Sound(g) /\ Others(s, g, a) /\ Window(g, a) = Window(s, b)
<1> DEFINE old == s.arr[a].buf
           v == s.arr[b]
<1>1. /\ s \in Heaps /\ s.arr \in [Arrays -> Arrayed] /\ s.root \in [Bufs -> 0..MaxBufs \cup {Nil}]
      /\ s.mem \in [Bufs -> Seq(Cell) \cup {Nil}] /\ v \in Arrayed /\ Holds(s, b)
  BY DEF Sound, Heaps
<1>2. old = 0 \/ old \in Bufs
  BY BodyType
<1>3. /\ f \in Heaps /\ f.root = s.root /\ f.arr = s.arr
      /\ \A x \in Bufs : f.mem[x] = IF x = old THEN Nil ELSE s.mem[x]
  <2>1. CASE old = 0
    <3>1. f = s
      BY <2>1 DEF Freed
    <3>2. QED
      BY <1>1, <2>1, <3>1, BufsNat
  <2>2. CASE old # 0
    <3>1. f = [s EXCEPT !.mem[old] = Nil] /\ old \in Bufs
      BY <1>2, <2>2 DEF Freed
    <3> HIDE DEF old
    <3>2. f.root = s.root /\ f.arr = s.arr /\ f.mem = [s.mem EXCEPT ![old] = Nil]
      BY <3>1 DEF Heaps
    <3>3. DOMAIN f = {"arr", "mem", "root"} /\ f = [i \in DOMAIN f |-> f[i]]
      BY <1>1, <3>1 DEF Heaps
    <3>4. f = [arr |-> f.arr, mem |-> f.mem, root |-> f.root]
      BY ONLY <3>3, Fields
    <3>5. f.mem \in [Bufs -> Seq(Cell) \cup {Nil}]
      BY <1>1, <3>2
    <3>6. f \in Heaps
      BY <1>1, <3>2, <3>4, <3>5 DEF Heaps
    <3>7. QED
      BY <1>1, <3>1, <3>2, <3>6
  <2>3. QED
    BY <2>1, <2>2
<1>4. g = Put(f, a, v)
  BY <1>3, PutFields DEF Takes
<1> HIDE DEF old, v
<1>5. g \in Heaps /\ g.root = s.root /\ g.mem = f.mem /\ g.arr = [s.arr EXCEPT ![a] = v]
  BY <1>1, <1>3, <1>4 DEF Put, Heaps
<1>6. Shows(s, g, a, b, v)
  BY <1>1, <1>3, <1>5 DEF Shows, Holds, v, old
<1>7. Sound(g) /\ Others(s, g, a) /\ g.arr[a] = v /\ Body(g, a) = Body(s, b)
  BY <1>1, <1>6, ShowsSound
<1>8. Window(g, a) = Window(s, b)
  BY <1>7 DEF Window, Body, v
<1>9. QED
  BY <1>7, <1>8

\* rb_ary_replace shares the buffer of the other array, which may be the same one.
LEMMA ReplaceBecomes ==
  ASSUME NEW h, Sound(h), OneFree(h), \E r \in Bufs : h.root[r] = Nil,
         NEW a \in Arrays, NEW b \in Arrays, NEW g, g = rb_ary_replace(h, a, b)
  PROVE  Becomes(h, g, {a, b}, a, Window(h, b))
<1> DEFINE m == rb_ary_modify(h, a)
           s == ary_make_shared(m, b)
           f == Freed(s, s.arr[a].buf)
<1>1. /\ Sound(m) /\ ~m.arr[a].shared /\ Window(m, a) = Window(h, a) /\ Others(h, m, a)
  BY ModifyOwns DEF Owns
<1>2. CASE a = b
  BY <1>1, <1>2 DEF rb_ary_replace, Becomes, Others
<1>3. CASE a # b
  <2>1. \E r \in Bufs : m.root[r] = Nil
    BY ModifyRoot DEF Sound
  <2>2. g = IF s.arr[a].shared THEN [s EXCEPT !.arr[a] = s.arr[b]]
            ELSE [f EXCEPT !.arr[a] = f.arr[b]]
    BY <1>3 DEF rb_ary_replace
  <2> HIDE DEF m
  <2>3. /\ Sound(s) /\ s.arr[b].shared /\ \A c \in Arrays : Window(s, c) = Window(m, c)
        /\ \A c \in Arrays \ {b} : s.arr[c] = m.arr[c]
    BY <1>1, <2>1, MadeShared
  <2> HIDE DEF s
  <2>4. ~s.arr[a].shared
    BY <1>1, <1>3, <2>3
  <2>5. g = Takes(f, a, b) /\ f = Freed(s, s.arr[a].buf)
    BY <2>2, <2>4 DEF Takes
  <2> HIDE DEF f
  <2>6. Sound(g) /\ Others(s, g, a) /\ Window(g, a) = Window(s, b)
    BY <1>3, <2>3, <2>4, <2>5, Joined
  <2>7. QED
    BY <1>1, <1>3, <2>3, <2>6 DEF Becomes, Others
<1>4. QED
  BY <1>2, <1>3

\* The elements t follow the u that the array begins with.
LEMMA TailBecomes ==
  ASSUME NEW h, NEW r, NEW a \in Arrays, NEW R, NEW len, Owns(r, a, R, len), Others(h, r, a),
         NEW u \in Seq(Cell), NEW t \in Seq(Cell), NEW i \in Nat, Len(u) = i,
         NEW n \in Nat, n = i + Len(t), n <= Len(R), \A k \in 1..i : R[k] = u[k],
         NEW g, g = Written(r, a, i, t, n)
  PROVE  Becomes(h, g, {a}, a, u \o t)
<1> DEFINE G == Overwritten(R, i, t)
           c == u \o t
<1>1. R \in Seq(Cell) /\ Len(R) \in Nat /\ Len(t) \in Nat
  <2>1. R \in Seq(Cell)
    BY OwnsWindow
  <2>2. QED
    BY <2>1
<1>2. Owns(g, a, G, n) /\ Others(r, g, a)
  <2> HIDE DEF G
  <2>1. Owns(g, a, Overwritten(R, i, t), n) /\ Others(r, g, a)
    BY WrittenOwns
  <2>2. QED
    BY <2>1 DEF G
<1>3. \A k \in 1..Len(R) : G[k] = IF i < k /\ k <= i + Len(t) THEN t[k - i] ELSE R[k]
  BY <1>1, OverwrittenSeq
<1>4. /\ c \in Seq(Cell) /\ Len(c) = i + Len(t)
      /\ \A k \in 1..i : c[k] = u[k]
      /\ \A k \in (i + 1)..(i + Len(t)) : c[k] = t[k - i]
  BY Joins
<1> HIDE DEF G, c
<1>5. ASSUME NEW k \in 1..n PROVE G[k] = c[k]
  <2>1. k \in 1..Len(R)
    BY <1>1
  <2>2. CASE k <= i
    <3>1. k \in 1..i /\ ~(i < k)
      BY <2>2
    <3>2. QED
      BY <1>3, <1>4, <2>1, <3>1
  <2>3. CASE ~(k <= i)
    <3>1. k \in (i + 1)..(i + Len(t)) /\ i < k /\ k <= i + Len(t)
      BY <1>1, <2>3
    <3>2. QED
      BY <1>3, <1>4, <2>1, <3>1
  <2>4. QED
    BY <2>2, <2>3
<1>6. Others(h, g, a)
  BY <1>2, OthersOthers
<1>7. Becomes(h, g, {a}, a, c)
  BY <1>2, <1>4, <1>5, <1>6, OwnsBecomes
<1>8. QED
  BY <1>7 DEF c

LEMMA WholeBecomes ==
  ASSUME NEW h, NEW r, NEW a \in Arrays, NEW R, NEW len, Owns(r, a, R, len), Others(h, r, a),
         NEW t \in Seq(Cell), NEW n \in Nat, n = Len(t), n <= Len(R),
         NEW g, g = Written(r, a, 0, t, n)
  PROVE  Becomes(h, g, {a}, a, t)
<1> DEFINE u == <<>>
           i == 0
<1>1. /\ u \in Seq(Cell) /\ Len(u) = i /\ i \in Nat /\ n = i + Len(t)
      /\ \A k \in 1..i : R[k] = u[k]
      /\ g = Written(r, a, i, t, n)
  OBVIOUS
<1>2. u \o t = t
  BY ConcatEmptySeq
<1> HIDE DEF u, i
<1>3. Becomes(h, g, {a}, a, u \o t)
  BY <1>1, TailBecomes
<1>4. QED
  BY <1>2, <1>3

\* rb_ary_unshift.
LEMMA UnshiftBecomes ==
  ASSUME NEW h, Sound(h), TwoFree(h), NEW a \in Arrays, NEW x \in Cell,
         NEW g, g = rb_ary_unshift(h, a, x)
  PROVE  Becomes(h, g, {a}, a, <<x>> \o Window(h, a))
<1> DEFINE m == rb_ary_modify(h, a)
           aux == m.arr[a].aux
           len == m.arr[a].len
           n == aux + AtLeastDefault(aux \div 2)
           r == IF len = aux THEN Realloc(m, a, n) ELSE m
           w == Window(h, a)
           t == <<x>> \o w
           need == len + 1
<1>1. len = h.arr[a].len /\ len \in Nat /\ aux \in Nat /\ len <= aux
  BY Modified
<1>2. g = Written(r, a, 0, <<x>> \o Window(r, a), need)
  BY DEF rb_ary_unshift
<1>3. w \in Seq(Cell) /\ Len(w) = len
  BY <1>1, WindowType
<1>4. AtLeastDefault(aux \div 2) \in Nat \ {0}
  <2>1. aux \div 2 \in Nat
    BY <1>1
  <2> HIDE DEF aux
  <2>2. QED
    BY <2>1, ArrayAssumption DEF AtLeastDefault
<1> HIDE DEF len, w, aux
<1>5. need \in Nat /\ len <= need
      /\ \/ len = aux /\ n \in Nat /\ need <= n
         \/ ~(len = aux) /\ need <= aux
  BY <1>1, <1>4
<1> HIDE DEF need, n
<1>6. \/ r = m /\ need <= aux
      \/ n \in Nat /\ need <= n /\ r = Realloc(m, a, n)
  BY <1>5
<1> HIDE DEF m, r
<1>7. /\ Owns(r, a, Body(r, a), len) /\ Others(h, r, a) /\ need <= Len(Body(r, a))
      /\ Window(r, a) = w
  BY <1>1, <1>5, <1>6, Prepared DEF m, aux, w
<1>8. t \in Seq(Cell) /\ Len(t) = need
  <2>1. <<x>> \in Seq(Cell) /\ Len(<<x>>) = 1
    OBVIOUS
  <2>2. t \in Seq(Cell) /\ Len(t) = Len(<<x>>) + Len(w)
    BY <1>3, <2>1, Joins
  <2>3. QED
    BY <1>1, <1>3, <2>1, <2>2 DEF need
<1>9. g = Written(r, a, 0, t, need)
  BY <1>2, <1>7
<1> HIDE DEF t
<1>10. Becomes(h, g, {a}, a, t)
  BY <1>5, <1>7, <1>8, <1>9, WholeBecomes
<1>11. QED
  BY <1>10 DEF t, w

\* An array that is modifiable without growing.
LEMMA GapOpened ==
  ASSUME NEW h, Sound(h), TwoFree(h), NEW a \in Arrays, NEW m, m = rb_ary_modify(h, a)
  PROVE  /\ Owns(m, a, Body(m, a), h.arr[a].len) /\ Others(h, m, a)
         /\ h.arr[a].len \in Nat /\ h.arr[a].len <= Len(Body(m, a)) /\ Body(m, a) \in Seq(Cell)
         /\ \A k \in 1..h.arr[a].len : Body(m, a)[k] = Window(h, a)[k]
         /\ Window(m, a) = Window(h, a) /\ Window(h, a) \in Seq(Cell)
         /\ Len(Window(h, a)) = h.arr[a].len
         /\ OneFree(m)
<1> DEFINE w == Window(h, a)
           len == h.arr[a].len
<1>1. Owns(m, a, Body(m, a), len) /\ Window(m, a) = w /\ Others(h, m, a) /\ OneFree(m)
  BY ModifyOwns DEF TwoFree, OneFree
<1>2. w \in Seq(Cell) /\ Len(w) = len /\ len \in Nat
  BY WindowType, BodyType
<1>3. /\ Body(m, a) \in Seq(Cell) /\ len <= Len(Body(m, a))
      /\ \A k \in 1..len : Window(m, a)[k] = Body(m, a)[k]
  BY <1>1, OwnsWindow, SMTT(30)
<1>4. QED
  BY <1>1, <1>2, <1>3

\* rb_ary_reverse.
LEMMA ReverseBecomes ==
  ASSUME NEW h, Sound(h), TwoFree(h), NEW a \in Arrays, NEW g, g = rb_ary_reverse(h, a)
  PROVE  Becomes(h, g, {a}, a, Reverse(Window(h, a)))
<1> DEFINE m == rb_ary_modify(h, a)
           w == Window(h, a)
           t == Reverse(w)
           len == h.arr[a].len
<1>1. /\ Owns(m, a, Body(m, a), len) /\ Others(h, m, a) /\ len \in Nat /\ len <= Len(Body(m, a))
      /\ Window(m, a) = w /\ w \in Seq(Cell) /\ Len(w) = len
  BY GapOpened
<1>2. g = Written(m, a, 0, t, len)
  BY <1>1 DEF rb_ary_reverse
<1> HIDE DEF m, w, len
<1>3. t \in Seq(Cell) /\ Len(t) = len
  BY <1>1 DEF Reverse
<1> HIDE DEF t
<1>4. Becomes(h, g, {a}, a, t)
  BY <1>1, <1>2, <1>3, WholeBecomes
<1>5. QED
  BY <1>4 DEF t, w

\* rb_ary_delete_at.
LEMMA DeleteAtBecomes ==
  ASSUME NEW h, Sound(h), TwoFree(h), NEW a \in Arrays, NEW pos \in Nat,
         NEW g, g = rb_ary_delete_at(h, a, pos)
  PROVE  Becomes(h, g, {a}, a, IF pos < Len(Window(h, a)) THEN RemoveAt(Window(h, a), pos + 1)
                               ELSE Window(h, a))
<1> DEFINE m == rb_ary_modify(h, a)
           w == Window(h, a)
           len == h.arr[a].len
           u == SubSeq(w, 1, pos)
           t == SubSeq(w, pos + 2, len)
<1>1. /\ Owns(m, a, Body(m, a), len) /\ Others(h, m, a) /\ len \in Nat /\ len <= Len(Body(m, a))
      /\ Window(m, a) = w /\ w \in Seq(Cell) /\ Len(w) = len
      /\ \A k \in 1..len : Body(m, a)[k] = w[k]
  BY GapOpened
<1>2. CASE pos >= len
  <2>1. g = m
    BY <1>2 DEF rb_ary_delete_at
  <2>2. ~(pos < Len(w))
    BY <1>1, <1>2
  <2>3. QED
    BY <1>1, <2>1, <2>2 DEF Becomes, Others, Owns
<1>3. CASE ~(pos >= len)
  <2>1. g = Written(m, a, pos, t, len - 1)
    BY <1>1, <1>3 DEF rb_ary_delete_at
  <2>2. RemoveAt(w, pos + 1) = u \o t
    <3>1. (pos + 1) - 1 = pos /\ (pos + 1) + 1 = pos + 2
      OBVIOUS
    <3>2. QED
      BY <1>1, <3>1 DEF RemoveAt
  <2> DEFINE n == len - 1
  <2>3. n \in Nat /\ pos <= n /\ n <= Len(Body(m, a)) /\ pos + 2 \in Nat \ {0}
    BY <1>1, <1>3
  <2> HIDE DEF m, w, len
  <2>4. u \in Seq(Cell) /\ Len(u) = pos /\ \A k \in 1..pos : u[k] = w[k]
    BY <1>1, <1>3
  <2>5. t \in Seq(Cell) /\ Len(t) = IF pos + 2 <= len THEN len - (pos + 2) + 1 ELSE 0
    BY <1>1, <2>3, Subs
  <2> HIDE DEF t
  <2>6. n = pos + Len(t)
    BY <1>1, <1>3, <2>5
  <2>7. \A k \in 1..pos : Body(m, a)[k] = u[k]
    BY <1>1, <1>3, <2>4
  <2>8. g = Written(m, a, pos, t, n)
    BY <2>1
  <2> HIDE DEF u, n
  <2>9. Becomes(h, g, {a}, a, u \o t)
    BY <1>1, <2>3, <2>4, <2>5, <2>6, <2>7, <2>8, TailBecomes
  <2>10. pos < Len(w)
    BY <1>1, <1>3
  <2>11. QED
    BY <2>2, <2>9, <2>10 DEF w, t
<1>4. QED
  BY <1>2, <1>3

\* rb_ary_clear, which may give back the buffer.
LEMMA ClearBecomes ==
  ASSUME NEW h, Sound(h), TwoFree(h), NEW a \in Arrays, NEW g, g = rb_ary_clear(h, a)
  PROVE  Becomes(h, g, {a}, a, <<>>)
<1> DEFINE o == rb_ary_modify(h, a)
           m == Cut(o, a, 0)
           n == ARY_DEFAULT_SIZE * 2
           r == Realloc(m, a, n)
<1>1. /\ Sound(o) /\ ~o.arr[a].shared /\ Others(h, o, a) /\ OneFree(o)
      /\ o.arr[a].len \in Nat
  BY GapOpened DEF Owns
<1>2. g = m \/ g = r
  BY DEF rb_ary_clear, Cut
<1> HIDE DEF o
<1>3. /\ Sound(m) /\ Others(o, m, a) /\ ~m.arr[a].shared /\ m.arr[a].len = 0 /\ m.mem = o.mem
  <2>1. 0 \in Nat /\ 0 <= o.arr[a].len
    BY <1>1
  <2> HIDE DEF m
  <2>2. m = Cut(o, a, 0)
    BY DEF m
  <2>3. QED
    BY <1>1, <2>1, <2>2, Shortened
<1> HIDE DEF m
<1>4. OneFree(m)
  BY <1>1, <1>3 DEF OneFree
<1>5. Sound(g) /\ Others(m, g, a) /\ g.arr[a].len = 0
  <2>1. CASE g = m
    BY <1>3, <2>1 DEF Others
  <2>2. CASE g = r
    <3>1. n \in Nat /\ m.arr[a].len <= n
      BY <1>3, ArrayAssumption
    <3> HIDE DEF n
    <3>2. Owns(r, a, Body(r, a), m.arr[a].len) /\ Others(m, r, a)
      BY <1>3, <1>4, <3>1, ReallocKeeps
    <3>3. QED
      BY <1>3, <2>2, <3>2 DEF Owns
  <2>3. QED
    BY <1>2, <2>1, <2>2
<1>6. Window(g, a) = <<>>
  <2>1. Window(g, a) \in Seq(Cell) /\ Len(Window(g, a)) = 0
    BY <1>5, WindowType
  <2>2. QED
    BY <2>1, EmptySeq
<1>7. Others(h, g, a)
  BY <1>1, <1>3, <1>5, OthersOthers
<1>8. QED
  BY <1>5, <1>6, <1>7 DEF Becomes, Others

(* The elements that differ from x.                                           *)

\* kept of Without, defined up to n.
Keeps(s, x, f, n) ==
  f = [i \in 0..n |-> IF i = 0 THEN <<>> ELSE IF s[i] = x THEN f[i - 1] ELSE Append(f[i - 1], s[i])]

LEMMA KeepsStep ==
  ASSUME NEW s, NEW x, NEW n \in Nat, n # 0, NEW f, Keeps(s, x, f, n - 1)
  PROVE  \E g : Keeps(s, x, g, n)
<1> DEFINE e == IF s[n] = x THEN f[n - 1] ELSE Append(f[n - 1], s[n])
           g == [i \in 0..n |-> IF i = n THEN e ELSE f[i]]
           At(u, i) == IF i = 0 THEN <<>> ELSE IF s[i] = x THEN u[i - 1] ELSE Append(u[i - 1], s[i])
<1>1. f = [i \in 0..(n - 1) |-> At(f, i)]
  BY DEF Keeps
<1>2. ASSUME NEW i \in 0..n PROVE g[i] = At(g, i)
  <2>1. CASE i = n
    <3>1. g[i] = e /\ n - 1 \in 0..n /\ n - 1 # n
      BY <2>1
    <3> HIDE DEF e
    <3>2. g[n - 1] = f[n - 1]
      BY <3>1
    <3> HIDE DEF g
    <3>3. QED
      BY <2>1, <3>1, <3>2 DEF e
  <2>2. CASE i = 0
    <3>1. 0 \in 0..(n - 1) /\ i # n
      BY <2>2
    <3>2. f[0] = <<>>
      BY <1>1, <3>1, Zenon
    <3>3. QED
      BY <2>2, <3>1, <3>2
  <2>3. CASE i # n /\ i # 0
    <3>1. i \in 0..(n - 1) /\ i - 1 \in 0..n /\ i - 1 # n
      BY <2>3
    <3>2. f[i] = At(f, i)
      BY <1>1, <3>1, Zenon
    <3> HIDE DEF e
    <3>3. g[i] = f[i] /\ g[i - 1] = f[i - 1]
      BY <2>3, <3>1
    <3> HIDE DEF g
    <3>4. QED
      BY <2>3, <3>2, <3>3
  <2>4. QED
    BY <2>1, <2>2, <2>3
<1>3. g = [i \in 0..n |-> At(g, i)]
  <2>1. g = [i \in 0..n |-> g[i]]
    OBVIOUS
  <2> HIDE DEF g, At
  <2>2. QED
    BY <1>2, <2>1, Zenon
<1> HIDE DEF g
<1>4. Keeps(s, x, g, n)
  BY <1>3 DEF Keeps
<1>5. QED
  BY <1>4

\* By induction on the number of cells looked at: what Without keeps.
LEMMA KeepsExists ==
  ASSUME NEW s, NEW x, NEW n \in Nat
  PROVE  \E f : Keeps(s, x, f, n)
<1> DEFINE Bad == {k \in Nat : ~\E f : Keeps(s, x, f, k)}
<1>1. SUFFICES ASSUME n \in Bad PROVE FALSE
  OBVIOUS
<1>2. PICK k \in Bad : \A j \in Bad : <<j, k>> \notin OpToRel(<, Nat)
  BY <1>1, NatLessThanWellFounded, WFMin
<1>3. k # 0
  <2>1. SUFFICES ASSUME k = 0 PROVE \E f : Keeps(s, x, f, 0)
    BY <1>2
  <2> DEFINE f == [i \in 0..0 |-> <<>>]
  <2>2. f = [i \in 0..0 |-> IF i = 0 THEN <<>>
                            ELSE IF s[i] = x THEN f[i - 1] ELSE Append(f[i - 1], s[i])]
    OBVIOUS
  <2> HIDE DEF f
  <2>3. Keeps(s, x, f, 0)
    BY <2>2 DEF Keeps
  <2>4. QED
    BY <2>3
<1>4. k - 1 \in Nat /\ <<k - 1, k>> \in OpToRel(<, Nat)
  BY <1>2, <1>3 DEF OpToRel
<1>5. k - 1 \notin Bad
  BY <1>2, <1>4
<1>6. \E f : Keeps(s, x, f, k - 1)
  BY <1>4, <1>5
<1>7. \E f : Keeps(s, x, f, k)
  BY <1>2, <1>3, <1>6, KeepsStep
<1>8. QED
  BY <1>2, <1>7

LEMMA Appends ==
  ASSUME NEW p \in Seq(Cell), NEW e \in Cell
  PROVE  /\ Append(p, e) \in Seq(Cell) /\ Len(Append(p, e)) = Len(p) + 1
         /\ Append(p, e)[Len(p) + 1] = e /\ \A i \in 1..Len(p) : Append(p, e)[i] = p[i]
OBVIOUS

LEMMA WithoutSeq ==
  ASSUME NEW s \in Seq(Cell), NEW x
  PROVE  /\ Values!Without(s, x) \in Seq(Cell) /\ Len(Values!Without(s, x)) <= Len(s)
         /\ Len(Values!Without(s, x)) = Len(s) => Values!Without(s, x) = s
<1> DEFINE K == CHOOSE f : Keeps(s, x, f, Len(s))
           Kept(i) == /\ K[i] \in Seq(Cell) /\ Len(K[i]) <= i
                      /\ Len(K[i]) = i => \A k \in 1..i : K[i][k] = s[k]
           Bad == {i \in 0..Len(s) : ~Kept(i)}
<1>1. Values!Without(s, x) = K[Len(s)]
  BY DEF Values!Without, Keeps
<1>2. Len(s) \in Nat /\ \A i \in 1..Len(s) : s[i] \in Cell
  OBVIOUS
<1>3. Keeps(s, x, K, Len(s))
  BY <1>2, KeepsExists
<1> HIDE DEF K
<1>4. ASSUME NEW i \in 0..Len(s)
      PROVE  K[i] = IF i = 0 THEN <<>> ELSE IF s[i] = x THEN K[i - 1] ELSE Append(K[i - 1], s[i])
  BY <1>3, Zenon DEF Keeps
<1>5. Bad = {}
  <2>1. SUFFICES ASSUME Bad # {} PROVE FALSE
    OBVIOUS
  <2>2. Bad \subseteq Nat
    BY <1>2
  <2>3. PICK k \in Bad : \A j \in Bad : <<j, k>> \notin OpToRel(<, Nat)
    BY <2>1, <2>2, NatLessThanWellFounded, WFMin
  <2>4. k \in 0..Len(s) /\ ~Kept(k)
    BY <2>3
  <2>5. CASE k = 0
    <3>1. K[k] = <<>>
      BY <1>4, <2>4, <2>5
    <3>2. QED
      BY <2>4, <2>5, <3>1
  <2>6. CASE k # 0
    <3>1. k - 1 \in 0..Len(s) /\ k - 1 \in Nat /\ <<k - 1, k>> \in OpToRel(<, Nat) /\ k \in 1..Len(s)
      BY <1>2, <2>4, <2>6 DEF OpToRel
    <3>2. Kept(k - 1)
      BY <2>3, <3>1
    <3> DEFINE p == K[k - 1]
    <3>3. p \in Seq(Cell) /\ Len(p) <= k - 1
          /\ (Len(p) = k - 1 => \A i \in 1..(k - 1) : p[i] = s[i])
      BY <3>2
    <3>4. K[k] = IF s[k] = x THEN p ELSE Append(p, s[k])
      BY <1>4, <2>4, <2>6
    <3> HIDE DEF p
    <3>5. Len(p) \in Nat /\ k \in Nat /\ s[k] \in Cell
      <4>1. Len(p) \in Nat
        BY <3>3, LenProperties
      <4>2. k \in 1..Len(s)
        BY <3>1, Zenon
      <4>3. k \in Nat /\ s[k] \in Cell
        BY <1>2, <4>2
      <4>4. QED
        BY <4>1, <4>3
    <3>6. CASE s[k] = x
      <4>1. K[k] = p /\ Len(p) <= k /\ Len(p) # k
        BY <3>3, <3>4, <3>5, <3>6
      <4>2. QED
        BY <2>4, <3>3, <4>1
    <3>7. CASE s[k] # x
      <4> DEFINE q == Append(p, s[k])
      <4>1. /\ q \in Seq(Cell) /\ Len(q) = Len(p) + 1 /\ q[Len(p) + 1] = s[k]
            /\ \A i \in 1..Len(p) : q[i] = p[i]
        BY <3>3, <3>5, Appends
      <4>2. K[k] = q
        BY <3>4, <3>7
      <4> HIDE DEF q
      <4>3. q \in Seq(Cell) /\ Len(q) <= k
        BY <3>3, <3>5, <4>1
      <4>4. ASSUME Len(q) = k, NEW i \in 1..k PROVE q[i] = s[i]
        <5>1. Len(p) = k - 1 /\ Len(p) + 1 = k
          BY <3>5, <4>1, <4>4
        <5>2. CASE i = k
          BY <4>1, <5>1, <5>2
        <5>3. CASE i # k
          <6>1. i \in 1..(k - 1)
            BY <3>5, <5>3
          <6>2. QED
            BY <3>3, <4>1, <5>1, <6>1
        <5>4. QED
          BY <5>2, <5>3
      <4>5. QED
        BY <2>4, <4>2, <4>3, <4>4
    <3>8. QED
      BY <3>6, <3>7
  <2>7. QED
    BY <2>5, <2>6
<1>6. Kept(Len(s))
  BY <1>2, <1>5
<1>7. QED
  BY <1>1, <1>2, <1>6, Alike

\* rb_ary_delete.
LEMMA DeleteBecomes ==
  ASSUME NEW h, Sound(h), TwoFree(h), NEW a \in Arrays, NEW x, NEW g, g = rb_ary_delete(h, a, x)
  PROVE  Becomes(h, g, {a}, a, Values!Without(Window(h, a), x))
<1> DEFINE m == rb_ary_modify(h, a)
           w == Window(h, a)
           t == Values!Without(w, x)
           n == Len(t)
           len == h.arr[a].len
           p == Written(m, a, 0, t, n)
           r == Realloc(p, a, n * 2)
<1>1. /\ Owns(m, a, Body(m, a), len) /\ Others(h, m, a) /\ len \in Nat /\ len <= Len(Body(m, a))
      /\ Body(m, a) \in Seq(Cell)
      /\ Window(m, a) = w /\ w \in Seq(Cell) /\ Len(w) = len /\ OneFree(m)
  BY GapOpened
<1>2. IF n = len THEN g = m ELSE g = p \/ g = r
  <2>1. Values!Without(Window(m, a), x) = t
    BY <1>1
  <2>2. QED
    BY <2>1 DEF rb_ary_delete
<1> HIDE DEF m, w, len
<1>3. t \in Seq(Cell) /\ n <= len /\ (n = len => t = w)
  BY <1>1, WithoutSeq
<1> HIDE DEF t
<1>4. n \in Nat /\ n <= Len(Body(m, a)) /\ n = Len(t)
  <2>1. n \in Nat /\ Len(Body(m, a)) \in Nat
    BY <1>1, <1>3, LenProperties
  <2> HIDE DEF n
  <2>2. QED
    BY <1>1, <1>3, <2>1 DEF n
<1> HIDE DEF n
<1>5. CASE n = len
  BY <1>1, <1>2, <1>3, <1>5 DEF Becomes, Others, Owns, t, w
<1>6. CASE n # len
  <2>1. Becomes(h, p, {a}, a, t)
    BY <1>1, <1>3, <1>4, WholeBecomes
  <2>2. CASE g = p
    BY <2>1, <2>2 DEF t, w
  <2>3. CASE g = r
    <3>1. /\ Owns(p, a, Overwritten(Body(m, a), 0, t), n) /\ Others(m, p, a)
      <4>1. p = Written(m, a, 0, t, n) /\ 0 \in Nat
        OBVIOUS
      <4> HIDE DEF p
      <4>2. QED
        BY <1>1, <1>3, <1>4, <4>1, WrittenOwns
    <3>2. OneFree(p)
      <4>1. PICK y \in Bufs : m.mem[y] = Nil
        BY <1>1 DEF OneFree
      <4>2. m \in Heaps /\ (m.arr[a].buf # 0 => m.arr[a].buf # y)
        BY <1>1, <4>1 DEF Owns, Sound, Holds
      <4>3. p.mem[y] = m.mem[y]
        BY <4>2 DEF Written, Heaps
      <4>4. QED
        BY <4>1, <4>3 DEF OneFree
    <3>3. Sound(p) /\ ~p.arr[a].shared /\ p.arr[a].len = n /\ n * 2 \in Nat /\ n <= n * 2
      BY <1>4, <3>1 DEF Owns
    <3> HIDE DEF p
    <3>4. /\ Owns(r, a, Body(r, a), n) /\ Others(p, r, a) /\ Window(r, a) = Window(p, a)
      BY <3>2, <3>3, ReallocKeeps
    <3>5. Others(h, r, a)
      BY <1>1, <3>1, <3>4, OthersOthers
    <3>6. QED
      BY <2>1, <2>3, <3>4, <3>5 DEF Becomes, Others, Owns, t, w
  <2>4. QED
    BY <1>2, <1>6, <2>2, <2>3
<1>7. QED
  BY <1>5, <1>6

LEMMA Runs ==
  ASSUME NEW n \in Nat, NEW x \in Cell
  PROVE  /\ [i \in 1..n |-> x] \in Seq(Cell) /\ Len([i \in 1..n |-> x]) = n
         /\ \A k \in 1..n : [i \in 1..n |-> x][k] = x
OBVIOUS

Run(n, x) == [j \in 1..n |-> x]

LEMMA RunWritten ==
  ASSUME NEW s \in Seq(Cell), NEW i \in Nat, NEW n \in Nat, NEW x \in Cell
  PROVE  /\ Run(n, x) \in Seq(Cell) /\ Len(Run(n, x)) = n
         /\ Overwritten(s, i, Run(n, x)) \in Seq(Cell)
         /\ Len(Overwritten(s, i, Run(n, x))) = Len(s)
         /\ \A k \in 1..Len(s) :
              Overwritten(s, i, Run(n, x))[k] = IF i < k /\ k <= i + n THEN x ELSE s[k]
<1> DEFINE r == Run(n, x)
           t == Overwritten(s, i, r)
<1>1. r \in Seq(Cell) /\ Len(r) = n /\ \A k \in 1..n : r[k] = x
  BY Runs DEF Run
<1> HIDE DEF r
<1>2. /\ t \in Seq(Cell) /\ Len(t) = Len(s)
      /\ \A k \in 1..Len(s) : t[k] = IF i < k /\ k <= i + Len(r) THEN r[k - i] ELSE s[k]
  BY <1>1, OverwrittenSeq
<1> HIDE DEF t
<1>3. ASSUME NEW k \in 1..Len(s)
      PROVE  t[k] = IF i < k /\ k <= i + n THEN x ELSE s[k]
  <2>1. i < k /\ k <= i + n => k - i \in 1..n
    OBVIOUS
  <2>2. QED
    BY <1>1, <1>2, <2>1
<1>4. QED
  BY <1>1, <1>2, <1>3 DEF t, r

\* rb_ary_fill, with a gap before what is filled.
LEMMA FillBecomes ==
  ASSUME NEW h, Sound(h), TwoFree(h), NEW a \in Arrays, NEW beg \in Nat, NEW len \in Nat,
         NEW x \in Cell, NEW g, g = rb_ary_fill(h, a, beg, len, x)
  PROVE  Becomes(h, g, {a}, a,
           LET s == Values!Padded(Window(h, a), beg + len)
           IN [i \in DOMAIN s |-> IF beg < i /\ i <= beg + len THEN x ELSE s[i]])
<1> DEFINE m == rb_ary_modify(h, a)
           aux == m.arr[a].aux
           old == m.arr[a].len
           end == beg + len
           r == IF end > old /\ end >= aux THEN Realloc(m, a, end) ELSE m
           n == IF end > old THEN end ELSE old
           z == IF end > old /\ beg > old THEN end - old ELSE 0
           p == Written(r, a, old, Nils(z), n)
           run == Run(len, x)
           w == Window(h, a)
           q == Values!Padded(w, end)
           t == [i \in DOMAIN q |-> IF beg < i /\ i <= end THEN x ELSE q[i]]
           R == Body(r, a)
           P == Overwritten(R, old, Nils(z))
           G == Overwritten(P, beg, run)
<1>1. old = h.arr[a].len /\ old \in Nat /\ aux \in Nat /\ old <= aux
  BY Modified
<1>2. g = Written(p, a, beg, run, n)
  BY DEF rb_ary_fill, Run
<1>3. w \in Seq(Cell) /\ Len(w) = old
  BY <1>1, WindowType
<1> HIDE DEF old, w, aux
<1>4. end \in Nat /\ n \in Nat /\ old <= n /\ end <= n /\ z \in Nat
      /\ (n = end \/ n = old) /\ (n # old => n = end /\ end > old)
  BY <1>1
<1>5. \/ r = m /\ n <= aux
      \/ end \in Nat /\ n <= end /\ r = Realloc(m, a, end)
  BY <1>1
<1> HIDE DEF m, r
<1>6. /\ Owns(r, a, R, old) /\ Others(h, r, a) /\ n <= Len(R) /\ R \in Seq(Cell)
      /\ \A k \in 1..old : R[k] = w[k]
  <2>1. n \in Nat /\ h.arr[a].len <= n
    BY <1>1, <1>4
  <2> HIDE DEF n, end, R
  <2>2. /\ Owns(r, a, Body(r, a), h.arr[a].len) /\ Others(h, r, a)
        /\ n <= Len(Body(r, a)) /\ Body(r, a) \in Seq(Cell)
        /\ \A k \in 1..h.arr[a].len : Body(r, a)[k] = Window(h, a)[k]
    BY <1>5, <2>1, Prepared DEF m, aux
  <2>3. QED
    BY <1>1, <2>2 DEF R, w
<1>7. Nils(z) \in Seq(Cell)
  <2> HIDE DEF z
  <2>1. QED
    BY <1>4, NilsSeq
<1>8. Owns(p, a, P, n) /\ Others(r, p, a)
  <2> HIDE DEF n, z
  <2>1. QED
    BY <1>1, <1>4, <1>6, <1>7, WrittenOwns
<1>9. /\ P \in Seq(Cell) /\ Len(P) = Len(R)
      /\ \A k \in 1..Len(R) : P[k] = IF old < k /\ k <= old + z THEN Nil ELSE R[k]
  <2>1. z \in Nat
    BY <1>4
  <2> HIDE DEF z, R
  <2>2. QED
    BY <1>1, <1>6, <2>1, NilsWritten
<1> HIDE DEF p, P, R
<1>10. /\ run \in Seq(Cell)
       /\ \A k \in 1..Len(R) : G[k] = IF beg < k /\ k <= end THEN x ELSE P[k]
  <2>1. beg + len = end
    OBVIOUS
  <2> HIDE DEF end
  <2>2. /\ run \in Seq(Cell)
        /\ \A k \in 1..Len(P) : G[k] = IF beg < k /\ k <= beg + len THEN x ELSE P[k]
    BY <1>9, RunWritten
  <2> HIDE DEF run, G
  <2>3. QED
    BY <1>9, <2>1, <2>2
<1> HIDE DEF run
<1>11. Owns(g, a, G, n) /\ Others(p, g, a)
  <2>1. n <= Len(P)
    BY <1>6, <1>9
  <2> HIDE DEF n, G
  <2>2. Owns(g, a, Overwritten(P, beg, run), n) /\ Others(p, g, a)
    BY <1>2, <1>4, <1>8, <1>10, <2>1, WrittenOwns
  <2>3. QED
    BY <2>2 DEF G
<1>12. /\ q \in Seq(Cell) /\ Len(q) = n
       /\ \A k \in 1..n : q[k] = IF k <= old THEN w[k] ELSE Nil
  <2>1. /\ q \in Seq(Cell) /\ Len(q) = IF end > Len(w) THEN end ELSE Len(w)
        /\ \A k \in 1..Len(q) : q[k] = IF k <= Len(w) THEN w[k] ELSE Nil
    BY <1>3, PaddedSeq
  <2>2. QED
    BY <1>3, <2>1
<1> HIDE DEF q, G
<1>13. /\ t \in Seq(Cell) /\ Len(t) = n
       /\ \A k \in 1..n : t[k] = IF beg < k /\ k <= end THEN x ELSE q[k]
  <2>1. DOMAIN q = 1..n /\ \A k \in 1..n : q[k] \in Cell
    BY <1>12, LenProperties, ElementOfSeq
  <2> HIDE DEF n
  <2>2. QED
    BY <1>4, <2>1
<1> HIDE DEF t
<1>14. ASSUME NEW k \in 1..n PROVE G[k] = t[k]
  <2>1. k \in 1..Len(R) /\ k \in Nat
    BY <1>4, <1>6
  <2>2. CASE beg < k /\ k <= end
    BY <1>10, <1>13, <2>1, <2>2
  <2>3. CASE ~(beg < k /\ k <= end) /\ k <= old
    <3>1. k \in 1..old /\ ~(old < k)
      BY <1>1, <2>1, <2>3
    <3>2. G[k] = P[k] /\ P[k] = R[k] /\ R[k] = w[k]
      BY <1>6, <1>9, <1>10, <2>1, <2>3, <3>1
    <3>3. QED
      BY <1>12, <1>13, <2>3, <3>2
  <2>4. CASE ~(beg < k /\ k <= end) /\ ~(k <= old)
    <3>1. old < k /\ k <= old + z
      BY <1>1, <1>4, <2>1, <2>4, SMTT(30)
    <3>2. G[k] = P[k] /\ P[k] = Nil
      BY <1>9, <1>10, <2>1, <2>4, <3>1
    <3>3. QED
      BY <1>12, <1>13, <2>4, <3>2
  <2>5. QED
    BY <2>2, <2>3, <2>4
<1>15. Others(h, g, a)
  BY <1>6, <1>8, <1>11, OthersOthers
<1>16. Becomes(h, g, {a}, a, t)
  <2> HIDE DEF n
  <2>1. QED
    BY <1>11, <1>13, <1>14, <1>15, OwnsBecomes
<1>17. QED
  BY <1>16 DEF t, q, w

(* Elements of an array give way to those of another one, or to its own.      *)

Spliced(s, i, n, t) ==
  LET p == Values!Padded(s, i) IN SubSeq(p, 1, i) \o t \o SubSeq(p, i + n + 1, Len(p))

LEMMA FullSeq ==
  ASSUME NEW s \in Seq(Cell), NEW n, n = Len(s)
  PROVE  SubSeq(s, 1, n) = s
BY SubSeqFull

LEMMA PaddedShort ==
  ASSUME NEW s \in Seq(Cell), NEW n \in Nat, n <= Len(s)
  PROVE  Values!Padded(s, n) = s
<1> DEFINE p == Values!Padded(s, n)
<1>1. /\ p \in Seq(Cell) /\ Len(p) = IF n > Len(s) THEN n ELSE Len(s)
      /\ \A k \in 1..Len(p) : p[k] = IF k <= Len(s) THEN s[k] ELSE Nil
  BY PaddedSeq
<1> HIDE DEF p
<1>2. Len(p) = Len(s) /\ Len(s) \in Nat
  BY <1>1
<1>3. \A k \in 1..Len(p) : p[k] = s[k]
  BY <1>1, <1>2
<1>4. p = s
  BY <1>1, <1>2, <1>3, Alike
<1>5. QED
  BY <1>4 DEF p

LEMMA SplicedEnd ==
  ASSUME NEW s \in Seq(Cell), NEW i \in Nat, NEW n \in Nat, NEW t \in Seq(Cell), Len(s) <= i
  PROVE  Spliced(s, i, n, t) = Values!Padded(s, i) \o t
<1> DEFINE p == Values!Padded(s, i)
           e == SubSeq(p, i + n + 1, Len(p))
<1>1. p \in Seq(Cell) /\ Len(p) = i
  BY PaddedSeq
<1>2. Spliced(s, i, n, t) = SubSeq(p, 1, i) \o t \o e
  BY DEF Spliced
<1> HIDE DEF p
<1>3. SubSeq(p, 1, i) = p
  BY <1>1, FullSeq
<1>4. e = <<>>
  <2>1. i + n + 1 \in Int /\ Len(p) \in Int /\ Len(p) < i + n + 1
    BY <1>1
  <2>2. QED
    BY <2>1, SubSeqEmpty
<1>5. p \o t \in Seq(Cell)
  BY <1>1, Joins
<1>6. (p \o t) \o <<>> = p \o t
  BY <1>5, ConcatEmptySeq
<1>7. QED
  BY <1>2, <1>3, <1>4, <1>6 DEF p

LEMMA Tails ==
  ASSUME NEW s \in Seq(Cell), NEW j \in Nat, j <= Len(s), NEW e, e = SubSeq(s, j + 1, Len(s))
  PROVE  /\ e \in Seq(Cell) /\ Len(e) = Len(s) - j
         /\ \A k \in 1..Len(e) : e[k] = s[j + k]
<1> DEFINE n == Len(s) - j
<1>1. n \in Nat /\ j + n = Len(s) /\ j + n <= Len(s)
  OBVIOUS
<1> HIDE DEF n
<1>2. /\ SubSeq(s, j + 1, j + n) \in Seq(Cell)
      /\ Len(SubSeq(s, j + 1, j + n)) = n
      /\ \A k \in 1..n : SubSeq(s, j + 1, j + n)[k] = s[j + k] /\ j + k \in 1..Len(s)
  BY <1>1, Part, Zenon
<1>3. e = SubSeq(s, j + 1, j + n)
  BY <1>1
<1>4. QED
  BY <1>2, <1>3 DEF n

\* The elements given up, and those that follow.
GivenUp(s, i, n) == IF i + n > Len(s) THEN Len(s) - i ELSE n
Rest(s, i, n) == SubSeq(s, i + GivenUp(s, i, n) + 1, Len(s))

\* c is s with the elements t in place of those given up.
SplicesTo(s, i, n, t, c) ==
  /\ c \in Seq(Cell) /\ Len(c) = i + Len(t) + Len(Rest(s, i, n))
  /\ \A k \in 1..i : c[k] = s[k]
  /\ \A k \in (i + 1)..(i + Len(t)) : c[k] = t[k - i]
  /\ \A k \in (i + Len(t) + 1)..(i + Len(t) + Len(Rest(s, i, n))) :
       c[k] = Rest(s, i, n)[k - (i + Len(t))]

\* The three parts of a spliced sequence.
LEMMA SplicedRest ==
  ASSUME NEW s \in Seq(Cell), NEW i \in Nat, NEW n \in Nat, NEW t \in Seq(Cell), i < Len(s)
  PROVE  /\ GivenUp(s, i, n) \in Nat /\ i + GivenUp(s, i, n) <= Len(s)
         /\ Rest(s, i, n) \in Seq(Cell) /\ Len(Rest(s, i, n)) = Len(s) - (i + GivenUp(s, i, n))
         /\ \A k \in 1..Len(Rest(s, i, n)) : Rest(s, i, n)[k] = s[i + GivenUp(s, i, n) + k]
         /\ SplicesTo(s, i, n, t, Spliced(s, i, n, t))
<1> DEFINE m == GivenUp(s, i, n)
           e == Rest(s, i, n)
           f == SubSeq(s, i + n + 1, Len(s))
           u == SubSeq(s, 1, i)
           c == (u \o t) \o e
<1>1. Values!Padded(s, i) = s /\ Len(s) \in Nat /\ Len(t) \in Nat
  BY PaddedShort
<1>2. Spliced(s, i, n, t) = (u \o t) \o f
  BY <1>1 DEF Spliced
<1>3. m \in Nat /\ i + m <= Len(s) /\ m = IF i + n > Len(s) THEN Len(s) - i ELSE n
  BY <1>1 DEF GivenUp
<1>4. /\ e \in Seq(Cell) /\ Len(e) = Len(s) - (i + m)
      /\ \A k \in 1..Len(e) : e[k] = s[i + m + k]
  <2> DEFINE j == i + m
             E == SubSeq(s, j + 1, Len(s))
  <2>1. j \in Nat /\ j <= Len(s)
    BY <1>3
  <2>2. e = E
    BY DEF Rest
  <2> HIDE DEF j
  <2>3. /\ E \in Seq(Cell) /\ Len(E) = Len(s) - j
        /\ \A k \in 1..Len(E) : E[k] = s[j + k]
    BY <2>1, Tails
  <2> HIDE DEF E
  <2> HIDE DEF e
  <2>4. QED
    BY <2>2, <2>3 DEF j
<1>5. f = e
  <2>1. CASE i + n > Len(s)
    <3>1. i + n + 1 \in Int /\ Len(s) \in Int /\ Len(s) < i + n + 1
      BY <1>1, <2>1
    <3>2. f = <<>>
      BY <3>1, SubSeqEmpty
    <3> HIDE DEF f, e, m
    <3>3. Len(e) = 0
      BY <1>1, <1>3, <1>4, <2>1
    <3>4. QED
      BY <1>4, <3>2, <3>3, EmptySeq
  <2>2. CASE ~(i + n > Len(s))
    <3>1. m = n
      BY <1>3, <2>2
    <3>2. e = SubSeq(s, i + m + 1, Len(s))
      BY DEF Rest
    <3>3. QED
      BY <3>1, <3>2
  <2>3. QED
    BY <2>1, <2>2
<1>6. u \in Seq(Cell) /\ Len(u) = i /\ \A k \in 1..i : u[k] = s[k]
  BY <1>1
<1> HIDE DEF u, f, e, m
<1> DEFINE d == u \o t
<1>7. /\ d \in Seq(Cell) /\ Len(d) = i + Len(t)
      /\ \A k \in 1..i : d[k] = u[k]
      /\ \A k \in (i + 1)..(i + Len(t)) : d[k] = t[k - i]
  BY <1>6, Joins
<1> HIDE DEF d
<1>8. /\ d \o e \in Seq(Cell) /\ Len(d \o e) = Len(d) + Len(e)
      /\ \A k \in 1..Len(d) : (d \o e)[k] = d[k]
      /\ \A k \in (Len(d) + 1)..(Len(d) + Len(e)) : (d \o e)[k] = e[k - Len(d)]
  BY <1>4, <1>7, Joins
<1>9. Spliced(s, i, n, t) = d \o e
  BY <1>2, <1>5 DEF d
<1> DEFINE x == d \o e
<1> HIDE DEF x
<1>10. \A k \in 1..(i + Len(t)) : x[k] = d[k]
  BY <1>7, <1>8 DEF x
<1>11. 1..i \subseteq 1..(i + Len(t)) /\ (i + 1)..(i + Len(t)) \subseteq 1..(i + Len(t))
  BY <1>1
<1>12. /\ \A k \in 1..i : x[k] = s[k]
       /\ \A k \in (i + 1)..(i + Len(t)) : x[k] = t[k - i]
  BY <1>6, <1>7, <1>10, <1>11
<1>13. /\ x \in Seq(Cell) /\ Len(x) = i + Len(t) + Len(e)
       /\ \A k \in (i + Len(t) + 1)..(i + Len(t) + Len(e)) : x[k] = e[k - (i + Len(t))]
  BY <1>7, <1>8 DEF x
<1>14. SplicesTo(s, i, n, t, x)
  BY <1>12, <1>13 DEF SplicesTo, e
<1>15. QED
  BY <1>3, <1>4, <1>9, <1>14 DEF x, m, e

\* The buffer of array a has the first elements of s, room up to f, and then e.
Gapped(h, q, a, s, f, e, n) ==
  /\ Owns(q, a, Body(q, a), n) /\ Others(h, q, a)
  /\ Body(q, a) \in Seq(Cell) /\ n <= Len(Body(q, a)) /\ n \in Nat
  /\ \A k \in 1..f : k <= Len(s) => Body(q, a)[k] = s[k]
  /\ n = f + Len(e)
  /\ \A k \in 1..Len(e) : Body(q, a)[f + k] = e[k]

\* The buffer R has the n elements of s; e is what follows the first j of them.
BeginsWith(R, s, n) == Len(s) = n /\ \A k \in 1..n : R[k] = s[k]
Follows(s, j, e) == /\ e \in Seq(Cell) /\ Len(e) = Len(s) - j
                    /\ \A k \in 1..Len(e) : e[k] = s[j + k]
Gap(r, a, m, rl, f, e, n) == IF m = rl THEN r ELSE Written(r, a, f, e, n)

\* The tail of the array is moved for rl elements in place of m.
LEMMA SpliceMoved ==
  ASSUME NEW h, NEW r, NEW a \in Arrays, NEW R, NEW old, Owns(r, a, R, old), Others(h, r, a),
         NEW s \in Seq(Cell), BeginsWith(R, s, old), NEW i \in Nat, NEW m \in Nat, i + m <= old,
         NEW rl \in Nat, NEW e, Follows(s, i + m, e), NEW alen, alen = old + rl - m,
         alen <= Len(R), NEW q, q = Gap(r, a, m, rl, i + rl, e, alen)
  PROVE  Gapped(h, q, a, s, i + rl, e, alen)
<1> DEFINE j == i + m
           f == i + rl
           M == Body(q, a)
<1>0. /\ Len(s) = old /\ \A k \in 1..old : R[k] = s[k]
      /\ e \in Seq(Cell) /\ Len(e) = old - (i + m) /\ \A k \in 1..Len(e) : e[k] = s[i + m + k]
      /\ q = IF m = rl THEN r ELSE Written(r, a, i + rl, e, alen)
  BY DEF BeginsWith, Follows, Gap
<1>1. R \in Seq(Cell) /\ old \in Nat /\ old <= Len(R) /\ Body(r, a) = R
  BY OwnsWindow DEF Owns
<1>2. j \in Nat /\ j <= Len(s) /\ f \in Nat /\ Len(R) \in Nat
  BY <1>0, <1>1
<1>3. e \in Seq(Cell) /\ Len(e) = old - j /\ \A k \in 1..Len(e) : e[k] = s[j + k]
  BY <1>0
<1> HIDE DEF j
<1>4. alen \in Nat /\ alen = f + Len(e) /\ j = i + m
  BY <1>0, <1>1, <1>2, <1>3 DEF j
<1>5. CASE m = rl
  <2>1. q = r /\ alen = old /\ f = j
    BY <1>0, <1>1, <1>5 DEF j
  <2>2. M = R
    BY <1>1, <2>1
  <2>3. \A k \in 1..f : k <= old => M[k] = s[k]
    BY <1>0, <1>2, <2>2
  <2>4. ASSUME NEW k \in 1..Len(e) PROVE M[f + k] = e[k]
    <3>1. j + k \in 1..old
      BY <1>1, <1>2, <1>3
    <3>2. QED
      BY <1>0, <1>3, <2>1, <2>2, <3>1
  <2>5. QED
    BY <1>0, <1>1, <1>3, <1>4, <2>1, <2>2, <2>3, <2>4 DEF Gapped
<1>6. CASE m # rl
  <2> DEFINE G == Overwritten(R, f, e)
  <2>1. q = Written(r, a, f, e, alen)
    BY <1>0, <1>6
  <2> HIDE DEF f, M
  <2>2. Owns(q, a, G, alen) /\ Others(r, q, a)
    BY <1>2, <1>3, <1>4, <2>1, WrittenOwns
  <2>3. /\ G \in Seq(Cell) /\ Len(G) = Len(R)
        /\ \A k \in 1..Len(R) : G[k] = IF f < k /\ k <= f + Len(e) THEN e[k - f] ELSE R[k]
    BY <1>1, <1>2, <1>3, OverwrittenSeq, SMTT(30)
  <2> HIDE DEF G
  <2>4. M = G
    BY <2>2 DEF Owns, M
  <2>5. Others(h, q, a)
    BY <2>2, OthersOthers
  <2>6. ASSUME NEW k \in 1..f, k <= old PROVE M[k] = s[k]
    <3>1. k \in 1..Len(R) /\ ~(f < k) /\ k \in 1..old
      BY <1>1, <1>2, <2>6
    <3>2. QED
      BY <1>0, <2>3, <2>4, <3>1
  <2>7. ASSUME NEW k \in 1..Len(e) PROVE M[f + k] = e[k]
    <3>1. f + k \in 1..Len(R) /\ f < f + k /\ f + k <= f + Len(e) /\ (f + k) - f = k
      BY <1>1, <1>2, <1>3, <1>4
    <3>2. QED
      BY <2>3, <2>4, <3>1
  <2>8. alen <= Len(M)
    BY <2>3, <2>4
  <2>9. QED
    BY <1>0, <1>3, <1>4, <2>2, <2>3, <2>4, <2>5, <2>6, <2>7, <2>8 DEF M, f, Gapped
<1>7. QED
  BY <1>5, <1>6

\* The elements are copied into the gap.
LEMMA SpliceWritten ==
  ASSUME NEW h, NEW q, NEW a \in Arrays, NEW M, NEW alen, Owns(q, a, M, alen), Others(h, q, a),
         NEW s \in Seq(Cell), NEW i \in Nat, NEW n \in Nat, NEW t \in Seq(Cell), i < Len(s),
         alen = i + Len(t) + Len(Rest(s, i, n)), \A k \in 1..i : M[k] = s[k],
         \A k \in 1..Len(Rest(s, i, n)) : M[i + Len(t) + k] = Rest(s, i, n)[k],
         NEW g, g = Written(q, a, i, t, alen)
  PROVE  Becomes(h, g, {a}, a, Spliced(s, i, n, t))
<1> DEFINE e == Rest(s, i, n)
           c == Spliced(s, i, n, t)
           G == Overwritten(M, i, t)
           l == i + Len(t)
<1>1. /\ c \in Seq(Cell) /\ e \in Seq(Cell) /\ Len(c) = l + Len(e)
      /\ \A k \in 1..i : c[k] = s[k]
      /\ \A k \in (i + 1)..l : c[k] = t[k - i]
      /\ \A k \in (l + 1)..(l + Len(e)) : c[k] = e[k - l]
  <2>1. SplicesTo(s, i, n, t, Spliced(s, i, n, t)) /\ Rest(s, i, n) \in Seq(Cell)
    BY SplicedRest
  <2> HIDE DEF c
  <2>2. c = Spliced(s, i, n, t)
    BY DEF c
  <2>3. SplicesTo(s, i, n, t, c) /\ e \in Seq(Cell)
    BY <2>1, <2>2
  <2>4. QED
    BY <2>3 DEF SplicesTo
<1>2. M \in Seq(Cell) /\ alen \in Nat /\ alen <= Len(M) /\ Len(M) \in Nat
  <2>1. M \in Seq(Cell) /\ alen \in Nat /\ alen <= Len(M)
    BY OwnsWindow
  <2>2. QED
    BY <2>1, LenProperties
<1>3. Len(t) \in Nat /\ Len(e) \in Nat /\ l \in Nat
  BY <1>1, LenProperties
<1>4. Owns(g, a, G, alen) /\ Others(q, g, a)
  <2> HIDE DEF G
  <2>1. Owns(g, a, Overwritten(M, i, t), alen) /\ Others(q, g, a)
    BY <1>2, WrittenOwns
  <2>2. QED
    BY <2>1 DEF G
<1>5. \A k \in 1..Len(M) : G[k] = IF i < k /\ k <= i + Len(t) THEN t[k - i] ELSE M[k]
  BY <1>2, OverwrittenSeq
<1> HIDE DEF c, G, e
<1>6. ASSUME NEW k \in 1..alen PROVE G[k] = c[k]
  <2>1. k \in 1..Len(M) /\ k \in Nat
    BY <1>2
  <2>2. CASE k <= i
    <3>1. k \in 1..i /\ ~(i < k)
      BY <2>1, <2>2
    <3>2. QED
      BY <1>1, <1>5, <2>1, <3>1
  <2>3. CASE i < k /\ k <= l
    <3>1. k \in (i + 1)..l
      BY <1>3, <2>1, <2>3
    <3>2. QED
      BY <1>1, <1>5, <2>1, <2>3, <3>1
  <2>4. CASE l < k
    <3>1. /\ k \in (l + 1)..(l + Len(e)) /\ ~(k <= i + Len(t)) /\ k - l \in 1..Len(e)
          /\ l + (k - l) = k
      <4>1. l + Len(e) = alen /\ l = i + Len(t)
        BY DEF e
      <4> HIDE DEF l
      <4>2. k <= l + Len(e)
        BY <1>2, <4>1
      <4>3. QED
        BY <1>3, <2>1, <2>4, <4>1, <4>2
    <3>2. G[k] = M[k]
      BY <1>5, <2>1, <3>1
    <3>3. M[l + (k - l)] = e[k - l]
      BY <3>1 DEF e
    <3>4. QED
      BY <1>1, <3>1, <3>2, <3>3
  <2>5. QED
    BY <1>3, <2>1, <2>2, <2>3, <2>4
<1>7. Others(h, g, a)
  BY <1>4, OthersOthers
<1>8. Len(c) = alen
  BY <1>1 DEF e
<1>9. Becomes(h, g, {a}, a, c)
  <2>1. c \in Seq(Cell)
    BY <1>1
  <2>2. QED
    BY <1>4, <1>6, <1>7, <1>8, <2>1, OwnsBecomes
<1>10. QED
  BY <1>9 DEF c

\* rb_ary_update, also when the array is its own replacement.
LEMMA SpliceBecomes ==
  ASSUME NEW h, Sound(h), TwoFree(h), NEW a \in Arrays, NEW b \in Arrays, NEW i \in Nat,
         NEW n \in Nat, NEW g, g = rb_ary_update(h, a, i, n, b)
  PROVE  Becomes(h, g, {a}, a, Spliced(Window(h, a), i, n, Window(h, b)))
<1> DEFINE m == rb_ary_modify(h, a)
           aux == m.arr[a].aux
           old == m.arr[a].len
           rlen == h.arr[b].len
           len == IF i + n > old THEN old - i ELSE n
           alen == IF i >= old THEN i + rlen ELSE old + rlen - len
           r == IF alen >= aux THEN Realloc(m, a, alen) ELSE m
           moved == IF len = rlen THEN r
                    ELSE Written(r, a, i + rlen, SubSeq(Window(r, a), i + len + 1, old), alen)
           s == Window(h, a)
           t == Window(h, b)
           need == IF alen >= old THEN alen ELSE old
           R == Body(r, a)
<1>1. old = h.arr[a].len /\ old \in Nat /\ aux \in Nat /\ old <= aux
  BY Modified
<1>2. g = IF i >= old
          THEN Written(Written(r, a, old, Nils(i - old), old), a, i,
                       SubSeq(Window(r, b), 1, rlen), alen)
          ELSE Written(moved, a, i, SubSeq(Window(moved, b), 1, rlen), alen)
  BY DEF rb_ary_update
<1>3. /\ s \in Seq(Cell) /\ Len(s) = old /\ t \in Seq(Cell) /\ Len(t) = rlen /\ rlen \in Nat
  BY <1>1, WindowType, BodyType
<1> HIDE DEF old, s, t, aux, rlen
<1>4. /\ alen \in Nat /\ need \in Nat /\ old <= need /\ alen <= need
      /\ \/ alen >= aux /\ need <= alen
         \/ ~(alen >= aux) /\ need <= aux
  <2>1. CASE i >= old
    BY <1>1, <1>3, <2>1
  <2>2. CASE ~(i >= old)
    <3>1. len \in Nat /\ i + len <= old
      BY <1>1, <2>2
    <3>2. alen = old + rlen - len
      BY <2>2
    <3> HIDE DEF len
    <3>3. alen \in Nat
      BY <1>1, <1>3, <3>1, <3>2, SMTT(30)
    <3> HIDE DEF alen
    <3>4. QED
      BY <1>1, <3>3
  <2>3. QED
    BY <2>1, <2>2
<1> HIDE DEF need
<1>5. \/ r = m /\ need <= aux
      \/ alen \in Nat /\ need <= alen /\ r = Realloc(m, a, alen)
  <2> HIDE DEF alen, m
  <2>1. QED
    BY <1>4
<1> HIDE DEF m, r
<1>6. /\ Owns(r, a, R, old) /\ Others(h, r, a) /\ alen <= Len(R) /\ old <= Len(R) /\ R \in Seq(Cell)
      /\ \A k \in 1..old : R[k] = s[k]
      /\ Window(r, a) = s
  <2> HIDE DEF alen
  <2>1. h.arr[a].len <= need /\ need \in Nat
    BY <1>1, <1>4
  <2>2. /\ Owns(r, a, Body(r, a), h.arr[a].len) /\ Others(h, r, a)
        /\ need <= Len(Body(r, a)) /\ Body(r, a) \in Seq(Cell)
        /\ \A k \in 1..h.arr[a].len : Body(r, a)[k] = Window(h, a)[k]
        /\ Window(r, a) = Window(h, a)
    <3>1. \/ r = m /\ need <= m.arr[a].aux
          \/ alen \in Nat /\ need <= alen /\ r = Realloc(m, a, alen)
      BY <1>5 DEF aux
    <3>2. m = rb_ary_modify(h, a)
      BY DEF m
    <3>3. QED
      BY <2>1, <3>1, <3>2, Prepared, SMTT(30)
  <2>3. Len(R) \in Nat /\ need <= Len(R)
    BY <2>2
  <2>4. alen <= Len(R) /\ old <= Len(R)
    BY <1>1, <1>4, <2>3
  <2>5. QED
    BY <1>1, <2>2, <2>4 DEF s
<1> HIDE DEF R
<1>7. Window(r, b) = t
  BY <1>6 DEF Others, s, t
<1>8. CASE i >= old
  <2> DEFINE z == i - old
             P == Overwritten(R, old, Nils(z))
             p == Written(r, a, old, Nils(z), old)
             u == Values!Padded(s, i)
  <2>1. z \in Nat /\ old + z = i /\ alen = i + rlen
    BY <1>1, <1>8
  <2>2. g = Written(p, a, i, SubSeq(t, 1, rlen), alen)
    BY <1>2, <1>7, <1>8
  <2>3. SubSeq(t, 1, rlen) = t
    BY <1>3, FullSeq
  <2> HIDE DEF z, alen
  <2>4. Nils(z) \in Seq(Cell)
    BY <2>1, NilsSeq
  <2>5. Owns(p, a, P, old) /\ Others(r, p, a)
    BY <1>1, <1>6, <2>4, WrittenOwns
  <2>6. /\ P \in Seq(Cell) /\ Len(P) = Len(R)
        /\ \A k \in 1..Len(R) : P[k] = IF old < k /\ k <= old + z THEN Nil ELSE R[k]
    BY <1>1, <1>6, <2>1, NilsWritten, ZenonT(30)
  <2> HIDE DEF p, P
  <2>7. /\ u \in Seq(Cell) /\ Len(u) = i
        /\ \A k \in 1..i : u[k] = IF k <= old THEN s[k] ELSE Nil
    <3>1. /\ u \in Seq(Cell) /\ Len(u) = IF i > Len(s) THEN i ELSE Len(s)
          /\ \A k \in 1..Len(u) : u[k] = IF k <= Len(s) THEN s[k] ELSE Nil
      BY <1>3, PaddedSeq
    <3> HIDE DEF u
    <3>2. Len(u) = i
      BY <1>1, <1>3, <1>8, <3>1
    <3>3. QED
      BY <1>3, <3>1, <3>2
  <2> HIDE DEF u
  <2>8. ASSUME NEW k \in 1..i PROVE P[k] = u[k]
    <3>1. k \in 1..Len(R) /\ k <= old + z
      BY <1>3, <1>4, <1>6, <2>1
    <3>2. CASE k <= old
      <4>1. k \in 1..old /\ ~(old < k)
        BY <1>1, <3>2
      <4>2. QED
        BY <1>6, <2>6, <2>7, <3>1, <3>2, <4>1
    <3>3. CASE ~(k <= old)
      <4>1. old < k
        BY <1>1, <3>3
      <4>2. QED
        BY <2>6, <2>7, <3>1, <3>3, <4>1
    <3>4. QED
      BY <3>2, <3>3
  <2>9. Others(h, p, a)
    BY <1>6, <2>5, OthersOthers
  <2>10. g = Written(p, a, i, t, alen) /\ alen = i + Len(t) /\ alen <= Len(P)
    BY <1>3, <1>6, <2>1, <2>2, <2>3, <2>6
  <2>11. Becomes(h, g, {a}, a, u \o t)
    BY <1>3, <1>4, <2>5, <2>7, <2>8, <2>9, <2>10, TailBecomes
  <2>12. Spliced(s, i, n, t) = u \o t
    BY <1>3, <1>8, SplicedEnd DEF u
  <2>13. QED
    BY <2>11, <2>12 DEF s, t
<1>9. CASE ~(i >= old)
  <2> DEFINE gu == GivenUp(s, i, n)
             e == Rest(s, i, n)
             M == Body(moved, a)
  <2>1. len = gu /\ alen = old + rlen - gu /\ i < Len(s)
    BY <1>1, <1>3, <1>9 DEF GivenUp
  <2>2. SubSeq(Window(r, a), i + len + 1, old) = e
    BY <1>3, <1>6, <2>1 DEF Rest
  <2>3. moved = IF gu = rlen THEN r ELSE Written(r, a, i + rlen, e, alen)
    BY <2>1, <2>2
  <2>4. g = Written(moved, a, i, SubSeq(Window(moved, b), 1, rlen), alen)
    BY <1>2, <1>9
  <2>5. /\ gu \in Nat /\ i + gu <= old
        /\ e \in Seq(Cell) /\ Len(e) = old - (i + gu)
        /\ \A k \in 1..Len(e) : e[k] = s[i + gu + k]
    BY <1>3, <2>1, SplicedRest, SMTT(30)
  <2> HIDE DEF moved, len, alen, gu, e
  <2>6. /\ Owns(moved, a, M, alen) /\ Others(h, moved, a)
        /\ M \in Seq(Cell) /\ alen <= Len(M) /\ alen \in Nat
        /\ \A k \in 1..(i + rlen) : k <= old => M[k] = s[k]
        /\ alen = i + rlen + Len(e)
        /\ \A k \in 1..Len(e) : M[i + rlen + k] = e[k]
    <3>1. Gapped(h, moved, a, s, i + rlen, e, alen)
      <4>1. BeginsWith(R, s, old) /\ Follows(s, i + gu, e)
        BY <1>3, <1>6, <2>5 DEF BeginsWith, Follows
      <4>2. Owns(r, a, R, old) /\ Others(h, r, a) /\ alen <= Len(R)
        BY <1>6
      <4>3. /\ gu \in Nat /\ i + gu <= old /\ rlen \in Nat /\ s \in Seq(Cell)
            /\ alen = old + rlen - gu
        BY <1>3, <2>1, <2>5
      <4>4. moved = Gap(r, a, gu, rlen, i + rlen, e, alen)
        BY <2>3 DEF Gap
      <4>5. QED
        BY <4>1, <4>2, <4>3, <4>4, SpliceMoved
    <3>2. QED
      BY <1>3, <3>1 DEF Gapped, M
  <2> HIDE DEF M
  <2>7. SubSeq(Window(moved, b), 1, rlen) = t
    <3>1. CASE b # a
      <4>1. Window(moved, b) = t
        BY <2>6, <3>1 DEF Others, t
      <4>2. QED
        BY <1>3, <4>1, FullSeq
    <3>2. CASE b = a
      <4> DEFINE W == Window(moved, a)
                 T == SubSeq(W, 1, rlen)
      <4>1. rlen = old /\ t = s
        BY <1>1, <3>2 DEF rlen, t, s
      <4>2. W \in Seq(Cell) /\ Len(W) = alen /\ \A k \in 1..alen : W[k] = M[k]
        BY <2>6, OwnsWindow
      <4>3. rlen <= alen
        <5>1. alen = i + rlen + Len(e) /\ Len(e) \in Nat
          BY <2>5, <2>6, LenProperties
        <5>2. QED
          BY <1>3, <5>1
      <4> HIDE DEF W
      <4>4. T \in Seq(Cell) /\ Len(T) = rlen /\ \A k \in 1..rlen : T[k] = W[k]
        BY <1>3, <4>2, <4>3
      <4> HIDE DEF T
      <4>5. ASSUME NEW k \in 1..Len(T) PROVE T[k] = s[k]
        <5>1. k \in 1..rlen /\ k \in 1..alen /\ k \in 1..(i + rlen) /\ k <= old
          BY <1>3, <2>6, <4>1, <4>3, <4>4
        <5>2. QED
          BY <2>6, <4>2, <4>4, <5>1
      <4>6. T = s
        BY <1>3, <4>1, <4>4, <4>5, Alike
      <4>7. QED
        BY <3>2, <4>1, <4>6 DEF T, W
    <3>3. QED
      BY <3>1, <3>2
  <2>8. \A k \in 1..i : M[k] = s[k]
    <3>1. ASSUME NEW k \in 1..i PROVE k \in 1..(i + rlen) /\ k <= old
      BY <1>1, <1>3, <1>9
    <3>2. QED
      BY <2>6, <3>1
  <2>9. /\ g = Written(moved, a, i, t, alen) /\ alen = i + Len(t) + Len(Rest(s, i, n))
        /\ \A k \in 1..Len(Rest(s, i, n)) : M[i + Len(t) + k] = Rest(s, i, n)[k]
    BY <1>3, <2>4, <2>6, <2>7 DEF e
  <2>10. Becomes(h, g, {a}, a, Spliced(s, i, n, t))
    BY <1>3, <2>1, <2>6, <2>8, <2>9, SpliceWritten
  <2>11. QED
    BY <2>10 DEF s, t
<1>10. QED
  BY <1>8, <1>9

(* map!, delete_if and the collector.                                         *)

\* Array a gets the elements s in place, and nothing else is changed.
Stays(h, g, a, s) == /\ Becomes(h, g, {a}, a, s)
                     /\ ~g.arr[a].shared /\ g.arr[a].len = h.arr[a].len

\* One element is written in place: the blocks of map! and delete_if.
LEMMA PutOne ==
  ASSUME NEW h, Sound(h), NEW a \in Arrays, ~h.arr[a].shared, NEW i \in Nat, i < h.arr[a].len,
         NEW x \in Cell, NEW g, g = Written(h, a, i, <<x>>, h.arr[a].len)
  PROVE  Stays(h, g, a, [Window(h, a) EXCEPT ![i + 1] = x])
<1> DEFINE n == h.arr[a].len
           s == Body(h, a)
           w == Window(h, a)
           r == <<x>>
           o == Overwritten(s, i, r)
           t == [w EXCEPT ![i + 1] = x]
<1>1. Owns(h, a, s, n) /\ n \in Nat /\ i < n
  BY OwnsAll, BodyType
<1>2. /\ s \in Seq(Cell) /\ n <= Len(s) /\ w \in Seq(Cell) /\ Len(w) = n
      /\ \A k \in 1..n : w[k] = s[k]
  BY <1>1, OwnsWindow
<1> HIDE DEF n, s, w
<1>3. /\ r \in Seq(Cell) /\ o \in Seq(Cell)
      /\ \A k \in 1..Len(s) : o[k] = IF k = i + 1 THEN x ELSE s[k]
  BY <1>2, OneWritten
<1>4. g = Written(h, a, i, r, n)
  BY DEF n
<1> HIDE DEF r
<1>5. Owns(g, a, o, n) /\ Others(h, g, a)
  BY <1>1, <1>2, <1>3, <1>4, WrittenOwns
<1> HIDE DEF o
<1>6. t \in Seq(Cell) /\ Len(t) = n
  <2>1. i + 1 \in 1..Len(w)
    BY <1>1, <1>2
  <2>2. QED
    BY <1>2, <2>1, ExceptSeq
<1>7. ASSUME NEW k \in 1..n PROVE o[k] = t[k]
  <2>1. k \in 1..Len(s) /\ k \in DOMAIN w
    BY <1>1, <1>2
  <2>2. t[k] = IF k = i + 1 THEN x ELSE w[k]
    BY <2>1
  <2>3. QED
    BY <1>2, <1>3, <2>1, <2>2
<1> HIDE DEF t
<1>8. Becomes(h, g, {a}, a, t)
  BY <1>5, <1>6, <1>7, OwnsBecomes
<1>9. QED
  BY <1>5, <1>8 DEF Stays, Owns, n, t, w

\* delete_if is over, and the array keeps its first n elements.
LEMMA CutBecomes ==
  ASSUME NEW h, NEW f, NEW a \in Arrays, NEW s, Becomes(h, f, {a}, a, s), NEW n \in Nat,
         n <= f.arr[a].len, NEW g, g = Cut(f, a, n)
  PROVE  Becomes(h, g, {a}, a, SubSeq(s, 1, n))
<1>1. Sound(f) /\ Window(f, a) = s
  BY DEF Becomes
<1>2. Sound(g) /\ Others(f, g, a) /\ Window(g, a) = SubSeq(Window(f, a), 1, n)
  BY <1>1, Shortened
<1>3. QED
  BY <1>1, <1>2 DEF Becomes, Others

\* What the collector leaves: only the arrays of D lose their elements.
Collects(h, g, D) ==
  /\ Sound(g)
  /\ \A a \in Arrays \ D : g.arr[a] = h.arr[a] /\ Window(g, a) = Window(h, a)
  /\ \A a \in D : Window(g, a) = <<>>

\* rb_gc frees what only dead arrays refer to, and keeps what live ones share.
LEMMA SweptCollects ==
  ASSUME NEW h, Sound(h), NEW D \in SUBSET Arrays, NEW g, g = Swept(h, D)
  PROVE  Collects(h, g, D)
<1> DEFINE roots == {h.arr[a].aux : a \in {x \in Arrays \ D : h.arr[x].shared}}
           gone == {h.arr[a].buf : a \in {x \in D : ~h.arr[x].shared}}
                   \cup {h.root[r] : r \in {x \in Bufs : h.root[x] # Nil /\ x \notin roots}}
<1>1. /\ h.arr \in [Arrays -> Arrayed] /\ h.root \in [Bufs -> 0..MaxBufs \cup {Nil}]
      /\ h.mem \in [Bufs -> Seq(Cell) \cup {Nil}]
      /\ \A a \in Arrays : Holds(h, a)
      /\ \A r \in Bufs : RootHolds(h, r)
  BY DEF Sound, Heaps
<1>2. g = [arr |-> [a \in Arrays |-> IF a \in D THEN Empty ELSE h.arr[a]],
           mem |-> [b \in Bufs |-> IF b \in gone THEN Nil ELSE h.mem[b]],
           root |-> [r \in Bufs |-> IF r \in roots THEN h.root[r] ELSE Nil]]
  BY DEF Swept
<1>3. /\ \A a \in Arrays : g.arr[a] = IF a \in D THEN Empty ELSE h.arr[a]
      /\ \A b \in Bufs : g.mem[b] = IF b \in gone THEN Nil ELSE h.mem[b]
      /\ \A r \in Bufs : g.root[r] = IF r \in roots THEN h.root[r] ELSE Nil
  BY <1>2
<1>4. /\ \A a \in Arrays \ D : h.arr[a].shared => h.arr[a].aux \in roots
      /\ \A a \in D : ~h.arr[a].shared => h.arr[a].buf \in gone
      /\ \A r \in Bufs : h.root[r] # Nil /\ r \notin roots => h.root[r] \in gone
  OBVIOUS
<1>5. ASSUME NEW b \in gone
      PROVE  \/ \E a \in D : ~h.arr[a].shared /\ h.arr[a].buf = b
             \/ \E r \in Bufs : h.root[r] # Nil /\ r \notin roots /\ h.root[r] = b
  OBVIOUS
<1>6. ASSUME NEW r \in roots PROVE \E a \in Arrays \ D : h.arr[a].shared /\ h.arr[a].aux = r
  OBVIOUS
<1>7. Empty \in Arrayed /\ Empty.buf = 0 /\ Empty.off = 0 /\ Empty.len = 0 /\ Empty.aux = 0
      /\ Empty.shared = FALSE
  BY ArrayAssumption DEF Empty, Arrayed
<1>8. g \in Heaps
  <2>1. [a \in Arrays |-> IF a \in D THEN Empty ELSE h.arr[a]] \in [Arrays -> Arrayed]
    BY <1>1, <1>7
  <2>2. [b \in Bufs |-> IF b \in gone THEN Nil ELSE h.mem[b]] \in [Bufs -> Seq(Cell) \cup {Nil}]
    BY <1>1
  <2>3. [r \in Bufs |-> IF r \in roots THEN h.root[r] ELSE Nil] \in [Bufs -> 0..MaxBufs \cup {Nil}]
    BY <1>1
  <2>4. QED
    BY <1>2, <2>1, <2>2, <2>3 DEF Heaps
<1> HIDE DEF roots, gone
<1>9. ASSUME NEW a \in Arrays \ D, h.arr[a].buf # 0
      PROVE  /\ h.arr[a].buf \in Bufs /\ h.arr[a].buf \notin gone
             /\ g.mem[h.arr[a].buf] = h.mem[h.arr[a].buf]
  <2> DEFINE b == h.arr[a].buf
  <2>1. b \in Bufs /\ b # 0 /\ b # Nil
    BY <1>9, BodyType, BufsNat
  <2>2. ASSUME NEW c \in D, ~h.arr[c].shared, h.arr[c].buf = b PROVE FALSE
    <3>1. Alone(h, c) /\ a \in Arrays \ {c} /\ h.arr[c].buf # 0
      BY <1>1, <2>1, <2>2 DEF Holds
    <3>2. QED
      BY <2>2, <3>1 DEF Alone
  <2>3. ASSUME NEW r \in Bufs, h.root[r] # Nil, r \notin roots, h.root[r] = b PROVE FALSE
    <3>1. CASE h.arr[a].shared
      <4>1. h.arr[a].aux \in Bufs /\ h.root[h.arr[a].aux] = b /\ h.arr[a].aux \in roots
        BY <1>1, <1>4, <3>1 DEF Holds
      <4>2. RootHolds(h, r) /\ h.arr[a].aux \in Bufs \ {r}
        BY <1>1, <2>3, <4>1
      <4>3. QED
        BY <2>1, <2>3, <4>1, <4>2 DEF RootHolds
    <3>2. CASE ~h.arr[a].shared
      <4>1. Alone(h, a)
        BY <1>1, <3>2 DEF Holds
      <4>2. QED
        BY <1>9, <2>3, <4>1 DEF Alone
    <3>3. QED
      BY <3>1, <3>2
  <2>4. b \notin gone
    BY <1>5, <2>2, <2>3
  <2>5. QED
    BY <1>3, <2>1, <2>4
<1>10. \A a \in Arrays \ D : g.arr[a] = h.arr[a] /\ Body(g, a) = Body(h, a)
  BY <1>3, <1>9 DEF Body, Cells
<1>11. \A a \in D : g.arr[a] = Empty /\ Body(g, a) = <<>>
  BY <1>3, <1>7 DEF Body, Cells
<1>12. ASSUME NEW a \in Arrays PROVE Holds(g, a)
  <2>1. CASE a \in D
    BY <1>7, <1>11, <2>1 DEF Holds, Alone
  <2>2. CASE a \notin D
    <3>1. Holds(h, a) /\ g.arr[a] = h.arr[a] /\ Body(g, a) = Body(h, a)
      BY <1>1, <1>10, <2>2
    <3>2. h.arr[a].buf # 0 => g.mem[h.arr[a].buf] # Nil
      BY <1>9, <2>2, <3>1 DEF Holds
    <3>3. h.arr[a].shared => h.arr[a].aux \in Bufs /\ g.root[h.arr[a].aux] = h.arr[a].buf
      BY <1>3, <1>4, <2>2, <3>1 DEF Holds
    <3>4. Alone(h, a) => Alone(g, a)
      <4>1. SUFFICES ASSUME Alone(h, a), h.arr[a].buf # 0
                     PROVE  /\ \A d \in Arrays \ {a} : g.arr[d].buf # h.arr[a].buf
                            /\ \A r \in Bufs : g.root[r] # h.arr[a].buf
        BY <3>1 DEF Alone
      <4>2. h.arr[a].buf # Nil
        BY <1>9, <2>2, <4>1, BufsNat
      <4>3. \A d \in Arrays \ {a} : g.arr[d].buf # h.arr[a].buf
        BY <1>3, <1>7, <4>1 DEF Alone
      <4>4. \A r \in Bufs : g.root[r] # h.arr[a].buf
        BY <1>3, <4>1, <4>2 DEF Alone
      <4>5. QED
        BY <4>3, <4>4
    <3>5. QED
      BY <3>1, <3>2, <3>3, <3>4 DEF Holds
  <2>3. QED
    BY <2>1, <2>2
<1>13. ASSUME NEW r \in Bufs PROVE RootHolds(g, r)
  <2>1. SUFFICES ASSUME g.root[r] # Nil, g.root[r] # 0
                 PROVE  /\ g.mem[g.root[r]] # Nil
                        /\ \A s \in Bufs \ {r} : g.root[s] # g.root[r]
    BY DEF RootHolds
  <2>2. r \in roots /\ g.root[r] = h.root[r]
    BY <1>3, <2>1
  <2>3. PICK a \in Arrays \ D : h.arr[a].shared /\ h.arr[a].aux = r
    BY <1>6, <2>2
  <2>4. h.root[r] = h.arr[a].buf /\ h.arr[a].buf # 0 /\ h.mem[h.arr[a].buf] # Nil
    BY <1>1, <2>1, <2>2, <2>3 DEF Holds
  <2>5. g.mem[g.root[r]] # Nil
    BY <1>9, <2>2, <2>4
  <2>6. \A s \in Bufs \ {r} : h.root[s] # h.root[r]
    BY <1>1, <2>1, <2>2 DEF RootHolds
  <2>7. QED
    BY <1>3, <2>1, <2>2, <2>5, <2>6
<1>14. ASSUME NEW b \in Bufs, g.mem[b] # Nil PROVE Reached(g, b)
  <2>1. b \notin gone /\ h.mem[b] # Nil /\ b # Nil
    BY <1>3, <1>14, BufsNat
  <2>2. Reached(h, b)
    BY <2>1 DEF Sound
  <2>3. CASE \E r \in Bufs : h.root[r] = b
    <3>1. PICK r \in Bufs : h.root[r] = b
      BY <2>3
    <3>2. r \in roots
      BY <1>4, <2>1, <3>1
    <3>3. QED
      BY <1>3, <3>1, <3>2 DEF Reached
  <2>4. ASSUME NEW a \in Arrays, h.arr[a].buf = b PROVE Reached(g, b)
    <3>1. CASE a \notin D
      BY <1>10, <2>4, <3>1 DEF Reached
    <3>2. CASE a \in D
      <4>1. h.arr[a].shared
        BY <1>4, <2>1, <2>4, <3>2
      <4>2. h.arr[a].aux \in Bufs /\ h.root[h.arr[a].aux] = b
        BY <1>1, <2>4, <4>1 DEF Holds
      <4>3. QED
        BY <2>3, <4>2
    <3>3. QED
      BY <3>1, <3>2
  <2>5. QED
    BY <2>2, <2>3, <2>4 DEF Reached
<1>15. Sound(g)
  BY <1>8, <1>12, <1>13, <1>14 DEF Sound
<1>16. ASSUME NEW a \in D PROVE Window(g, a) = <<>>
  <2>1. Window(g, a) \in Seq(Cell) /\ Len(Window(g, a)) = 0
    BY <1>7, <1>11, <1>15, WindowType
  <2>2. QED
    BY <2>1
<1>17. QED
  BY <1>10, <1>15, <1>16, SameWindow DEF Collects

(* The invariant.                                                             *)

Loops == [kind : {"map!", "delete_if"}, i : Nat, j : Nat]

\* The block of map! or delete_if runs for an element of an array that has its
\* buffer to itself, and what delete_if keeps is never ahead of what it reads.
Looping(a) == loop[a] # Nil => /\ loop[a].i < heap.arr[a].len /\ loop[a].j <= loop[a].i
                               /\ ~heap.arr[a].shared

ArrayInv == /\ Sound(heap)
            /\ val \in [Arrays -> Seq(Cell)] /\ loop \in [Arrays -> Loops \cup {Nil}]
            /\ \A a \in Arrays : Looping(a)
            /\ ArraysIndependent

\* The sequences of ArrayValues, for the new heap.
LEMMA BecomesInv ==
  ASSUME ArrayInv, NEW a \in Arrays, NEW T, NEW s, Becomes(heap, heap', T, a, s),
         val' = [val EXCEPT ![a] = s], loop' = loop, \A c \in T \cap Arrays : loop[c] = Nil
  PROVE  ArrayInv'
<1>1. /\ Sound(heap') /\ Window(heap', a) = s
      /\ \A c \in Arrays \ {a} : Window(heap', c) = Window(heap, c)
      /\ \A c \in Arrays \ T : heap'.arr[c] = heap.arr[c]
  BY DEF Becomes
<1>2. s \in Seq(Cell)
  BY <1>1, WindowType
<1>3. val' \in [Arrays -> Seq(Cell)] /\ val'[a] = s /\ \A c \in Arrays \ {a} : val'[c] = val[c]
  BY <1>2 DEF ArrayInv
<1>4. \A c \in Arrays : Window(heap', c) = val'[c]
  BY <1>1, <1>3 DEF ArrayInv, ArraysIndependent
<1>5. ASSUME NEW c \in Arrays PROVE Looping(c)'
  <2>1. CASE c \in T
    BY <2>1 DEF Looping
  <2>2. CASE c \notin T
    BY <1>1, <2>2 DEF ArrayInv, Looping
  <2>3. QED
    BY <2>1, <2>2
<1>6. loop' \in [Arrays -> Loops \cup {Nil}]
  BY DEF ArrayInv
<1>7. Sound(heap)'
  BY <1>1 DEF Sound, Heaps, Holds, RootHolds, Reached, Alone, Body
<1>8. ArraysIndependent'
  BY <1>4 DEF ArraysIndependent, Window
<1>9. QED
  BY <1>3, <1>5, <1>6, <1>7, <1>8 DEF ArrayInv

\* The invariant is kept when one array changes, and no block runs for it.
LEMMA OneInv ==
  ASSUME ArrayInv, NEW a \in Arrays, NEW s, Becomes(heap, heap', {a}, a, s),
         val' = [val EXCEPT ![a] = s], loop' = loop, loop[a] = Nil
  PROVE  ArrayInv'
<1>1. \A c \in {a} \cap Arrays : loop[c] = Nil
  OBVIOUS
<1>2. QED
  BY <1>1, BecomesInv

\* The same when another array becomes shared.
LEMMA TwoInv ==
  ASSUME ArrayInv, NEW a \in Arrays, NEW b \in Arrays, NEW s,
         Becomes(heap, heap', {a, b}, a, s), val' = [val EXCEPT ![a] = s], loop' = loop,
         loop[a] = Nil, loop[b] = Nil
  PROVE  ArrayInv'
<1>1. \A c \in {a, b} \cap Arrays : loop[c] = Nil
  OBVIOUS
<1>2. QED
  BY <1>1, BecomesInv

\* The same when a block has run for the array, or is about to.
LEMMA LoopInv ==
  ASSUME ArrayInv, NEW a \in Arrays, NEW s, Becomes(heap, heap', {a}, a, s),
         val' = [val EXCEPT ![a] = s], NEW l \in Loops \cup {Nil}, loop' = [loop EXCEPT ![a] = l],
         l # Nil => l.i < heap'.arr[a].len /\ l.j <= l.i /\ ~heap'.arr[a].shared
  PROVE  ArrayInv'
<1>1. /\ Sound(heap') /\ Window(heap', a) = s
      /\ \A c \in Arrays \ {a} : Window(heap', c) = Window(heap, c)
      /\ \A c \in Arrays \ {a} : heap'.arr[c] = heap.arr[c]
  BY DEF Becomes
<1>2. s \in Seq(Cell)
  BY <1>1, WindowType
<1>3. val' \in [Arrays -> Seq(Cell)] /\ val'[a] = s /\ \A c \in Arrays \ {a} : val'[c] = val[c]
  BY <1>2 DEF ArrayInv
<1>4. \A c \in Arrays : Window(heap', c) = val'[c]
  BY <1>1, <1>3 DEF ArrayInv, ArraysIndependent
<1>5. /\ loop' \in [Arrays -> Loops \cup {Nil}]
      /\ loop'[a] = l /\ \A c \in Arrays \ {a} : loop'[c] = loop[c]
  BY DEF ArrayInv
<1>6. ASSUME NEW c \in Arrays PROVE Looping(c)'
  <2>1. CASE c = a
    BY <1>5, <2>1 DEF Looping
  <2>2. CASE c # a
    BY <1>1, <1>5, <2>2 DEF ArrayInv, Looping
  <2>3. QED
    BY <2>1, <2>2
<1>7. Sound(heap)'
  BY <1>1 DEF Sound, Heaps, Holds, RootHolds, Reached, Alone, Body
<1>8. ArraysIndependent'
  BY <1>4 DEF ArraysIndependent, Window
<1>9. QED
  BY <1>3, <1>5, <1>6, <1>7, <1>8 DEF ArrayInv

\* What holds of the array a of an operation.
LEMMA Acts ==
  ASSUME ArrayInv, NEW a \in Arrays
  PROVE  /\ Sound(heap) /\ val[a] = Window(heap, a) /\ val[a] \in Seq(Cell)
         /\ Len(val[a]) = Length(a) /\ Length(a) \in Nat /\ heap.arr[a].len = Length(a)
<1>1. Sound(heap) /\ val[a] = Window(heap, a)
  BY DEF ArrayInv, ArraysIndependent
<1>2. QED
  BY <1>1, WindowType, BodyType DEF Length

\* One lemma for each action.
LEMMA LiteralInv ==
  ASSUME ArrayInv, NEW a \in Arrays, NEW s \in Literals, Literal(a, s)
  PROVE  ArrayInv'
<1>1. /\ Sound(heap) /\ OneFree(heap) /\ heap.arr[a] = Empty /\ loop[a] = Nil /\ loop' = loop
      /\ heap' = rb_ary_s_create(heap, a, s) /\ val' = [val EXCEPT ![a] = s]
  BY RoomIsTwo DEF Literal, Free, Values!Create, Values!Become, ArrayInv
<1>2. s \in Seq(Cell)
  BY ArrayAssumption DEF Cell
<1>3. Becomes(heap, heap', {a}, a, s)
  BY <1>1, <1>2, LiteralBecomes
<1>4. QED
  BY <1>1, <1>3, OneInv

LEMMA ReplaceInv ==
  ASSUME ArrayInv, ~BlockShares, NEW a \in Arrays, NEW b \in Arrays, Replace(a, b)
  PROVE  ArrayInv'
<1>1. /\ Sound(heap) /\ OneFree(heap) /\ \E r \in Bufs : heap.root[r] = Nil
  BY RoomIsTwo DEF Replace, ArrayInv
<1>2. /\ loop[a] = Nil /\ loop[b] = Nil /\ loop' = loop
      /\ heap' = rb_ary_replace(heap, a, b) /\ val' = [val EXCEPT ![a] = val[b]]
  BY DEF Replace, Writes, Shares, Values!Replace, Values!Become
<1>3. Becomes(heap, heap', {a, b}, a, val[b])
  BY <1>1, <1>2, Acts, ReplaceBecomes
<1>4. QED
  BY <1>2, <1>3, TwoInv

LEMMA SubseqInv ==
  ASSUME ArrayInv, ~BlockShares, NEW a \in Arrays, NEW b \in Arrays, NEW beg \in Nat, NEW len \in Nat,
         Subseq(a, b, beg, len)
  PROVE  ArrayInv'
<1>1. /\ Sound(heap) /\ OneFree(heap) /\ \E r \in Bufs : heap.root[r] = Nil
  BY RoomIsTwo DEF Subseq, ArrayInv
<1>2. /\ heap.arr[a] = Empty /\ a # b /\ beg + len <= heap.arr[b].len
      /\ loop[a] = Nil /\ loop[b] = Nil /\ loop' = loop
      /\ heap' = rb_ary_subseq(heap, a, b, beg, len)
      /\ val' = [val EXCEPT ![a] = SubSeq(val[b], beg + 1, beg + len)]
  BY DEF Subseq, Free, Shares, Length, Values!Subseq, Values!Become
<1>3. Becomes(heap, heap', {a, b}, a, SubSeq(val[b], beg + 1, beg + len))
  BY <1>1, <1>2, Acts, SubseqBecomes
<1>4. QED
  BY <1>2, <1>3, TwoInv

LEMMA StoreAtInv ==
  ASSUME ArrayInv, NEW a \in Arrays, NEW idx \in Nat, NEW x \in Elems, Store(a, idx, x)
  PROVE  ArrayInv'
<1>1. Sound(heap) /\ TwoFree(heap) /\ x \in Cell
  BY RoomIsTwo DEF Store, ArrayInv, Cell
<1>2. /\ loop[a] = Nil /\ loop' = loop /\ heap' = rb_ary_store(heap, a, idx, x)
      /\ val' = [val EXCEPT ![a] = [Values!Padded(val[a], idx + 1) EXCEPT ![idx + 1] = x]]
  BY DEF Store, Writes, Values!Store, Values!Become
<1>3. Becomes(heap, heap', {a}, a, [Values!Padded(val[a], idx + 1) EXCEPT ![idx + 1] = x])
  BY <1>1, <1>2, Acts, StoreBecomes
<1>4. QED
  BY <1>2, <1>3, OneInv

LEMMA PopInv ==
  ASSUME ArrayInv, NEW a \in Arrays, Pop(a)
  PROVE  ArrayInv'
<1>1. Sound(heap) /\ OneFree(heap)
  BY RoomIsTwo DEF Pop, ArrayInv
<1>2. /\ loop[a] = Nil /\ loop' = loop /\ heap' = rb_ary_pop(heap, a) /\ heap.arr[a].len > 0
      /\ val' = [val EXCEPT ![a] = SubSeq(val[a], 1, Len(val[a]) - 1)]
  BY DEF Pop, Writes, Length, Values!Pop, Values!Become
<1>3. Becomes(heap, heap', {a}, a, SubSeq(val[a], 1, Len(val[a]) - 1))
  BY <1>1, <1>2, Acts, PopBecomes
<1>4. QED
  BY <1>2, <1>3, OneInv

LEMMA ShiftInv ==
  ASSUME ArrayInv, NEW a \in Arrays, Shift(a)
  PROVE  ArrayInv'
<1>1. Sound(heap) /\ \E r \in Bufs : heap.root[r] = Nil
  BY RoomIsTwo DEF Shift, ArrayInv
<1>2. /\ loop[a] = Nil /\ loop' = loop /\ heap' = rb_ary_shift(heap, a) /\ heap.arr[a].len > 0
      /\ val' = [val EXCEPT ![a] = SubSeq(val[a], 2, Len(val[a]))]
  BY DEF Shift, Writes, Length, Values!Shift, Values!Become
<1>3. Becomes(heap, heap', {a}, a, SubSeq(val[a], 2, Len(val[a])))
  BY <1>1, <1>2, Acts, ShiftBecomes
<1>4. QED
  BY <1>2, <1>3, OneInv

LEMMA UnshiftInv ==
  ASSUME ArrayInv, NEW a \in Arrays, NEW x \in Elems, Unshift(a, x)
  PROVE  ArrayInv'
<1>1. Sound(heap) /\ TwoFree(heap) /\ x \in Cell
  BY RoomIsTwo DEF Unshift, ArrayInv, Cell
<1>2. /\ loop[a] = Nil /\ loop' = loop /\ heap' = rb_ary_unshift(heap, a, x)
      /\ val' = [val EXCEPT ![a] = <<x>> \o val[a]]
  BY DEF Unshift, Writes, Values!Unshift, Values!Become
<1>3. Becomes(heap, heap', {a}, a, <<x>> \o val[a])
  BY <1>1, <1>2, Acts, UnshiftBecomes
<1>4. QED
  BY <1>2, <1>3, OneInv

LEMMA SpliceInv ==
  ASSUME ArrayInv, NEW a \in Arrays, NEW b \in Arrays, NEW beg \in Nat, NEW len \in Nat,
         Splice(a, beg, len, b)
  PROVE  ArrayInv'
<1>1. Sound(heap) /\ TwoFree(heap)
  BY RoomIsTwo DEF Splice, ArrayInv
<1>2. /\ loop[a] = Nil /\ loop' = loop /\ heap' = rb_ary_update(heap, a, beg, len, b)
      /\ val' = [val EXCEPT ![a] = Spliced(val[a], beg, len, val[b])]
  BY DEF Splice, Writes, Values!Splice, Values!Become, Spliced
<1>3. Becomes(heap, heap', {a}, a, Spliced(val[a], beg, len, val[b]))
  BY <1>1, <1>2, Acts, SpliceBecomes
<1>4. QED
  BY <1>2, <1>3, OneInv

LEMMA DeleteInv ==
  ASSUME ArrayInv, NEW a \in Arrays, NEW x, Delete(a, x)
  PROVE  ArrayInv'
<1>1. Sound(heap) /\ TwoFree(heap)
  BY RoomIsTwo DEF Delete, ArrayInv
<1>2. /\ loop[a] = Nil /\ loop' = loop /\ heap' = rb_ary_delete(heap, a, x)
      /\ val' = [val EXCEPT ![a] = Values!Without(val[a], x)]
  BY DEF Delete, Writes, Values!Delete, Values!Become
<1>3. Becomes(heap, heap', {a}, a, Values!Without(val[a], x))
  BY <1>1, <1>2, Acts, DeleteBecomes
<1>4. QED
  BY <1>2, <1>3, OneInv

LEMMA DeleteAtInv ==
  ASSUME ArrayInv, NEW a \in Arrays, NEW pos \in Nat, DeleteAt(a, pos)
  PROVE  ArrayInv'
<1> DEFINE s == IF pos < Len(val[a]) THEN RemoveAt(val[a], pos + 1) ELSE val[a]
<1>1. Sound(heap) /\ TwoFree(heap)
  BY RoomIsTwo DEF DeleteAt, ArrayInv
<1>2. /\ loop[a] = Nil /\ loop' = loop /\ heap' = rb_ary_delete_at(heap, a, pos)
      /\ val' = [val EXCEPT ![a] = s]
  BY DEF DeleteAt, Writes, Values!DeleteAt, Values!Become, RemoveAt, Values!RemoveAt
<1>3. Becomes(heap, heap', {a}, a, s)
  BY <1>1, <1>2, Acts, DeleteAtBecomes
<1> HIDE DEF s
<1>4. QED
  BY <1>2, <1>3, OneInv

LEMMA ReverseInv ==
  ASSUME ArrayInv, NEW a \in Arrays, Reverse_(a)
  PROVE  ArrayInv'
<1>1. Sound(heap) /\ TwoFree(heap)
  BY RoomIsTwo DEF Reverse_, ArrayInv
<1>2. /\ loop[a] = Nil /\ loop' = loop /\ heap' = rb_ary_reverse(heap, a)
      /\ val' = [val EXCEPT ![a] = Reverse(val[a])]
  BY DEF Reverse_, Writes, Values!Reverse_, Values!Become, Reverse, Values!Reverse
<1>3. Becomes(heap, heap', {a}, a, Reverse(val[a]))
  BY <1>1, <1>2, Acts, ReverseBecomes
<1>4. QED
  BY <1>2, <1>3, OneInv

LEMMA ClearInv ==
  ASSUME ArrayInv, NEW a \in Arrays, Clear(a)
  PROVE  ArrayInv'
<1>1. Sound(heap) /\ TwoFree(heap)
  BY RoomIsTwo DEF Clear, ArrayInv
<1>2. /\ loop[a] = Nil /\ loop' = loop /\ heap' = rb_ary_clear(heap, a)
      /\ val' = [val EXCEPT ![a] = <<>>]
  BY DEF Clear, Writes, Values!Create, Values!Become
<1>3. Becomes(heap, heap', {a}, a, <<>>)
  BY <1>1, <1>2, ClearBecomes
<1>4. QED
  BY <1>2, <1>3, OneInv

LEMMA FillInv ==
  ASSUME ArrayInv, NEW a \in Arrays, NEW beg \in Nat, NEW len \in Nat, NEW x \in Elems,
         Fill(a, beg, len, x)
  PROVE  ArrayInv'
<1> DEFINE s == LET p == Values!Padded(val[a], beg + len)
                IN [i \in DOMAIN p |-> IF beg < i /\ i <= beg + len THEN x ELSE p[i]]
<1>1. Sound(heap) /\ TwoFree(heap) /\ x \in Cell
  BY RoomIsTwo DEF Fill, ArrayInv, Cell
<1>2. /\ loop[a] = Nil /\ loop' = loop /\ heap' = rb_ary_fill(heap, a, beg, len, x)
      /\ val' = [val EXCEPT ![a] = s]
  BY DEF Fill, Writes, Values!Fill, Values!Become
<1>3. Becomes(heap, heap', {a}, a, s)
  BY <1>1, <1>2, Acts, FillBecomes
<1> HIDE DEF s
<1>4. QED
  BY <1>2, <1>3, OneInv

LEMMA CollectorInv ==
  ASSUME ArrayInv, NEW D \in SUBSET Arrays, rb_gc(D)
  PROVE  ArrayInv'
<1>1. /\ Sound(heap) /\ heap' = Swept(heap, D) /\ loop' = loop /\ \A a \in D : loop[a] = Nil
  BY DEF rb_gc, ArrayInv
<1>2. Collects(heap, heap', D)
  BY <1>1, SweptCollects
<1>3. /\ Sound(heap')
      /\ \A a \in Arrays \ D : heap'.arr[a] = heap.arr[a] /\ Window(heap', a) = Window(heap, a)
      /\ \A a \in D : Window(heap', a) = <<>>
  BY <1>2 DEF Collects
<1>4. val' = [a \in Arrays |-> IF a \in D THEN <<>> ELSE val[a]]
  BY DEF rb_gc
<1>5. <<>> \in Seq(Cell)
  OBVIOUS
<1>6. val' \in [Arrays -> Seq(Cell)]
  BY <1>4, <1>5 DEF ArrayInv
<1>7. \A a \in Arrays : Window(heap', a) = val'[a]
  BY <1>3, <1>4 DEF ArrayInv, ArraysIndependent
<1>8. ASSUME NEW a \in Arrays PROVE Looping(a)'
  <2>1. CASE a \in D
    BY <1>1, <2>1 DEF Looping
  <2>2. CASE a \notin D
    BY <1>1, <1>3, <2>2 DEF ArrayInv, Looping
  <2>3. QED
    BY <2>1, <2>2
<1>9. loop' \in [Arrays -> Loops \cup {Nil}]
  BY <1>1 DEF ArrayInv
<1>10. Sound(heap)'
  BY <1>3 DEF Sound, Heaps, Holds, RootHolds, Reached, Alone, Body
<1>11. ArraysIndependent'
  BY <1>7 DEF ArraysIndependent, Window
<1>12. QED
  BY <1>6, <1>8, <1>9, <1>10, <1>11 DEF ArrayInv

LEMMA IterateInv ==
  ASSUME ArrayInv, NEW a \in Arrays, NEW kind \in {"map!", "delete_if"}, Iterate(a, kind)
  PROVE  ArrayInv'
<1> DEFINE l == [kind |-> kind, i |-> 0, j |-> 0]
           w == Window(heap, a)
<1>1. /\ Sound(heap) /\ OneFree(heap) /\ heap' = rb_ary_modify(heap, a) /\ heap.arr[a].len > 0
      /\ loop' = [loop EXCEPT ![a] = l] /\ val' = val
  BY RoomIsTwo DEF Iterate, Length, ArrayInv
<1>2. l \in Loops /\ l.i = 0 /\ l.j = 0
  BY DEF Loops
<1> HIDE DEF l
<1>3. /\ Owns(heap', a, Body(heap', a), heap.arr[a].len) /\ Window(heap', a) = w
      /\ Others(heap, heap', a)
  BY <1>1, ModifyOwns
<1>4. Becomes(heap, heap', {a}, a, w) /\ ~heap'.arr[a].shared /\ heap'.arr[a].len > 0
  BY <1>1, <1>3 DEF Becomes, Owns, Others
<1>5. w = val[a]
  BY Acts
<1> HIDE DEF w
<1>6. val' = [val EXCEPT ![a] = w]
  BY <1>1, <1>5 DEF ArrayInv
<1>7. l.i < heap'.arr[a].len /\ l.j <= l.i
  BY <1>2, <1>4
<1>8. QED
  BY <1>1, <1>2, <1>4, <1>6, <1>7, LoopInv

\* What is known of a loop whose block is about to return.
LEMMA Looped ==
  ASSUME ArrayInv, NEW a \in Arrays, loop[a] # Nil
  PROVE  /\ loop[a] \in Loops /\ loop[a].i \in Nat /\ loop[a].j \in Nat
         /\ loop[a].i < Length(a) /\ loop[a].j <= loop[a].i /\ ~heap.arr[a].shared
<1>1. loop[a] \in Loops /\ Looping(a)
  BY DEF ArrayInv
<1>2. loop[a].i \in Nat /\ loop[a].j \in Nat
  BY <1>1 DEF Loops
<1>3. QED
  BY <1>1, <1>2 DEF Looping, Length

LEMMA CollectedInv ==
  ASSUME ArrayInv, NEW a \in Arrays, NEW x \in Elems, Collected(a, x)
  PROVE  ArrayInv'
<1> DEFINE i == loop[a].i
           n == heap.arr[a].len
           w == val[a]
           s == [w EXCEPT ![i + 1] = x]
           m == [loop[a] EXCEPT !.i = @ + 1]
           l == IF m.i < n THEN m ELSE Nil
<1>1. /\ loop[a] # Nil /\ heap' = Written(heap, a, i, <<x>>, n)
      /\ val' = [val EXCEPT ![a] = [Values!Padded(w, i + 1) EXCEPT ![i + 1] = x]]
      /\ loop' = [loop EXCEPT ![a] = l]
  BY DEF Collected, Advanced, Length, Values!Store, Values!Become
<1>2. /\ loop[a] \in Loops /\ i \in Nat /\ loop[a].j \in Nat
      /\ i < n /\ loop[a].j <= i /\ ~heap.arr[a].shared
  BY <1>1, Looped DEF Length
<1>3. /\ Sound(heap) /\ w = Window(heap, a) /\ w \in Seq(Cell) /\ Len(w) = n /\ n \in Nat
  BY Acts
<1>4. x \in Cell
  BY DEF Cell
<1>5. m \in Loops /\ m.i = i + 1 /\ m.j = loop[a].j
  BY <1>2 DEF Loops
<1> HIDE DEF m
<1>6. /\ l \in Loops \cup {Nil}
      /\ l # Nil => l.i < n /\ l.j <= l.i
  BY <1>2, <1>5
<1>7. Values!Padded(w, i + 1) = w
  BY <1>2, <1>3, PaddedShort
<1>8. val' = [val EXCEPT ![a] = s]
  BY <1>1, <1>7
<1>9. Stays(heap, heap', a, s)
  <2>1. Stays(heap, heap', a, [Window(heap, a) EXCEPT ![i + 1] = x])
    BY <1>1, <1>2, <1>3, <1>4, PutOne
  <2>2. QED
    BY <1>3, <2>1
<1> HIDE DEF s, l
<1>10. Becomes(heap, heap', {a}, a, s) /\ ~heap'.arr[a].shared /\ heap'.arr[a].len = n
  BY <1>9 DEF Stays
<1>11. l # Nil => l.i < heap'.arr[a].len /\ l.j <= l.i /\ ~heap'.arr[a].shared
  BY <1>6, <1>10
<1>12. QED
  BY <1>1, <1>6, <1>8, <1>10, <1>11, LoopInv

LEMMA RejectedInv ==
  ASSUME ArrayInv, NEW a \in Arrays, NEW yes \in BOOLEAN, Rejected(a, yes)
  PROVE  ArrayInv'
<1> DEFINE i == loop[a].i
           j == loop[a].j
           len == heap.arr[a].len
           n == IF yes THEN j ELSE j + 1
           w == val[a]
           y == w[i + 1]
           kept == IF yes THEN heap
                   ELSE Written(heap, a, j, <<Window(heap, a)[i + 1]>>, len)
           s == IF yes THEN w ELSE [w EXCEPT ![n] = y]
           t == IF i + 1 < len THEN s ELSE SubSeq(s, 1, n)
           m == [loop[a] EXCEPT !.i = @ + 1, !.j = n]
           l == IF m.i < len THEN m ELSE Nil
<1>1. /\ loop[a] # Nil /\ heap' = IF i + 1 < len THEN kept ELSE Cut(kept, a, n)
      /\ val' = [val EXCEPT ![a] = t] /\ loop' = [loop EXCEPT ![a] = l]
  BY DEF Rejected, Advanced, Length, Values!Become, Cut
<1>2. /\ loop[a] \in Loops /\ i \in Nat /\ j \in Nat /\ i < len /\ j <= i /\ ~heap.arr[a].shared
  BY <1>1, Looped DEF Length
<1>3. /\ Sound(heap) /\ w = Window(heap, a) /\ w \in Seq(Cell) /\ Len(w) = len /\ len \in Nat
  BY Acts
<1>4. n \in Nat /\ n <= i + 1 /\ n <= len
  BY <1>2, <1>3
<1>5. m \in Loops /\ m.i = i + 1 /\ m.j = n
  <2> HIDE DEF n, i, j
  <2>1. loop[a] \in Loops /\ loop[a].i \in Nat /\ loop[a].i = i /\ n \in Nat /\ i + 1 \in Nat
    BY <1>2, <1>4 DEF i
  <2>2. QED
    BY <2>1 DEF Loops
<1> HIDE DEF m
<1>6. /\ l \in Loops \cup {Nil}
      /\ l # Nil => i + 1 < len /\ l.i < len /\ l.j <= l.i
  BY <1>4, <1>5
<1>7. Stays(heap, kept, a, s)
  <2>1. CASE yes
    <3>1. kept = heap /\ s = Window(heap, a)
      BY <1>3, <2>1
    <3>2. QED
      BY <1>2, <1>3, <3>1 DEF Stays, Becomes
  <2>2. CASE ~yes
    <3>1. y \in Cell
      <4>1. i + 1 \in 1..Len(w)
        BY <1>2, <1>3
      <4>2. QED
        BY <1>3, <4>1, ElementOfSeq
    <3>2. kept = Written(heap, a, j, <<y>>, len) /\ s = [w EXCEPT ![j + 1] = y]
      BY <1>3, <2>2
    <3> HIDE DEF kept, s, y
    <3>3. j < len
      BY <1>2, <1>3
    <3>4. Stays(heap, kept, a, [Window(heap, a) EXCEPT ![j + 1] = y])
      BY <1>2, <1>3, <3>1, <3>2, <3>3, PutOne
    <3>5. QED
      BY <1>3, <3>2, <3>4
  <2>3. QED
    BY <2>1, <2>2
<1> HIDE DEF kept, s, l, n
<1>8. Becomes(heap, kept, {a}, a, s) /\ ~kept.arr[a].shared /\ kept.arr[a].len = len
  BY <1>7 DEF Stays
<1>9. CASE i + 1 < len
  <2>1. heap' = kept /\ val' = [val EXCEPT ![a] = s]
    BY <1>1, <1>9
  <2>2. Becomes(heap, heap', {a}, a, s)
    BY <1>8, <2>1
  <2>3. l # Nil => l.i < heap'.arr[a].len /\ l.j <= l.i /\ ~heap'.arr[a].shared
    BY <1>6, <1>8, <2>1
  <2>4. QED
    BY <1>1, <1>6, <2>1, <2>2, <2>3, LoopInv
<1>10. CASE ~(i + 1 < len)
  <2> DEFINE u == SubSeq(s, 1, n)
  <2>1. heap' = Cut(kept, a, n) /\ val' = [val EXCEPT ![a] = u]
    BY <1>1, <1>10
  <2>2. Becomes(heap, heap', {a}, a, u)
    BY <1>4, <1>8, <2>1, CutBecomes
  <2>3. l = Nil
    BY <1>6, <1>10
  <2> HIDE DEF u
  <2>4. QED
    BY <1>1, <1>6, <2>1, <2>2, <2>3, LoopInv
<1>11. QED
  BY <1>9, <1>10

\* The invariant holds at first, is kept by every step, and implies ArraySound.
LEMMA InitInv == ArrayInit => ArrayInv
<1> SUFFICES ASSUME ArrayInit PROVE ArrayInv
  OBVIOUS
<1>1. /\ heap = [arr |-> [a \in Arrays |-> Empty], mem |-> [b \in Bufs |-> Nil],
                 root |-> [r \in Bufs |-> Nil]]
      /\ loop = [a \in Arrays |-> Nil] /\ val = [a \in Arrays |-> <<>>]
  BY DEF ArrayInit, Values!Init
<1>2. /\ \A a \in Arrays : heap.arr[a] = Empty /\ Body(heap, a) = <<>>
      /\ \A b \in Bufs : heap.mem[b] = Nil /\ heap.root[b] = Nil
  BY <1>1 DEF Empty, Body, Cells
<1>3. Empty \in Arrayed /\ Empty.buf = 0 /\ Empty.off = 0 /\ Empty.len = 0 /\ Empty.aux = 0
      /\ Empty.shared = FALSE
  BY ArrayAssumption DEF Empty, Arrayed
<1>4. heap \in Heaps
  BY <1>1, <1>3 DEF Heaps
<1>5. ASSUME NEW a \in Arrays PROVE Holds(heap, a)
  <2>1. /\ heap.arr[a].buf = 0 /\ heap.arr[a].off = 0 /\ heap.arr[a].len = 0
        /\ heap.arr[a].aux = 0 /\ ~heap.arr[a].shared /\ Body(heap, a) = <<>>
    BY <1>2, <1>3
  <2>2. Len(Body(heap, a)) = 0
    BY <2>1
  <2>3. QED
    BY <2>1, <2>2 DEF Holds, Alone
<1>6. Sound(heap)
  BY <1>2, <1>4, <1>5 DEF Sound, RootHolds
<1>7. <<>> \in Seq(Cell)
  OBVIOUS
<1>8. val \in [Arrays -> Seq(Cell)] /\ loop \in [Arrays -> Loops \cup {Nil}]
  BY <1>1, <1>7
<1>9. \A a \in Arrays : Looping(a)
  BY <1>1 DEF Looping
<1>10. ASSUME NEW a \in Arrays PROVE Window(heap, a) = val[a]
  <2>1. Window(heap, a) \in Seq(Cell) /\ Len(Window(heap, a)) = 0
    BY <1>2, <1>3, <1>6, WindowType
  <2>2. QED
    BY <1>1, <2>1
<1>11. QED
  BY <1>6, <1>8, <1>9, <1>10 DEF ArrayInv, ArraysIndependent

LEMMA StepInv ==
  ASSUME ArrayInv, ~BlockShares, ArrayNext
  PROVE  ArrayInv'
<1>1. ASSUME NEW i \in 0..MaxLen PROVE i \in Nat
  BY ArrayAssumption
<1>2. Item \in Elems
  BY ArrayAssumption
<1>3. CASE \E a \in Arrays, s \in Literals : Literal(a, s)
  BY <1>3, LiteralInv
<1>4. CASE \E a, b \in Arrays : Replace(a, b)
  BY <1>4, ReplaceInv
<1>5. CASE \E a, b \in Arrays : \E beg, len \in 0..MaxLen : Subseq(a, b, beg, len)
  BY <1>1, <1>5, SubseqInv
<1>6. CASE \E a, b \in Arrays : \E beg, len \in 0..MaxLen : Splice(a, beg, len, b)
  BY <1>1, <1>6, SpliceInv
<1>7. CASE \E a \in Arrays : Pop(a) \/ Shift(a) \/ Reverse_(a) \/ Clear(a)
  BY <1>7, PopInv, ShiftInv, ReverseInv, ClearInv
<1>8. CASE \E a \in Arrays : \/ Unshift(a, Item) \/ Collected(a, Item)
                             \/ \E x \in Elems : Delete(a, x)
  BY <1>2, <1>8, UnshiftInv, CollectedInv, DeleteInv
<1>9. CASE \E a \in Arrays, i \in 0..MaxLen :
             \/ DeleteAt(a, i) \/ Store(a, i, Item)
             \/ \E n \in 1..MaxLen : Fill(a, i, n, Item)
  <2>1. \A n \in 1..MaxLen : n \in Nat
    BY ArrayAssumption
  <2>2. QED
    BY <1>1, <1>2, <1>9, <2>1, DeleteAtInv, StoreAtInv, FillInv
<1>10. CASE \E D \in SUBSET Arrays : rb_gc(D)
  BY <1>10, CollectorInv
<1>11. CASE \E a \in Arrays : \/ Iterate(a, "map!") \/ Iterate(a, "delete_if")
                              \/ \E yes \in BOOLEAN : Rejected(a, yes)
  BY <1>11, IterateInv, RejectedInv
<1>12. QED
  BY <1>3, <1>4, <1>5, <1>6, <1>7, <1>8, <1>9, <1>10, <1>11 DEF ArrayNext, Operation

LEMMA StutterInv ==
  ASSUME ArrayInv, UNCHANGED arrayVars
  PROVE  ArrayInv'
<1>1. heap' = heap /\ loop' = loop /\ val' = val
  BY DEF arrayVars
<1>2. Sound(heap)' /\ ArraysIndependent' /\ \A a \in Arrays : Looping(a)'
  BY <1>1 DEF ArrayInv, Looping, ArraysIndependent, Window, Sound, Heaps, Holds, RootHolds, Reached,
              Alone, Body
<1>3. QED
  BY <1>1, <1>2 DEF ArrayInv

LEMMA InvSound == ArrayInv => ArraySound
<1> SUFFICES ASSUME ArrayInv PROVE ArraySound
  OBVIOUS
<1>1. Sound(heap) /\ ArraysIndependent
  BY DEF ArrayInv
<1>2. ASSUME NEW a \in Arrays
      PROVE  LET v == heap.arr[a] IN
               /\ v.buf # 0 => heap.mem[v.buf] # Nil
               /\ v.off + v.len <= Len(Cells(heap, v.buf))
               /\ v.shared => heap.root[v.aux] = v.buf
               /\ ~v.shared /\ v.buf # 0 =>
                    /\ v.off = 0 /\ v.aux = Len(heap.mem[v.buf])
                    /\ \A b \in Arrays \ {a} : heap.arr[b].buf # v.buf
                    /\ \A r \in Bufs : heap.root[r] # v.buf
  <2>1. Holds(heap, a)
    BY <1>1 DEF Sound
  <2>2. heap.arr[a].buf # 0 => Body(heap, a) = heap.mem[heap.arr[a].buf]
    BY <1>1, BodyType
  <2>3. QED
    BY <2>1, <2>2 DEF Holds, Alone, Body
<1>3. BufferHeld
  BY <1>2 DEF BufferHeld
<1>4. NoBufferLost
  BY <1>1 DEF NoBufferLost, Sound, Reached
<1>5. QED
  BY <1>1, <1>3, <1>4 DEF ArraySound

\* Array (RubyArray), when the blocks of map! and delete_if do not share the
\* array they run for: after every operation, whatever was shared, grown, cut,
\* moved or collected before, each array shows exactly its own elements, in a
\* buffer that is allocated, belongs to it alone unless it is shared, and is
\* large enough; and no buffer is lost.
THEOREM ArraysSound ==
  ASSUME ~BlockShares
  PROVE  ArraySpec => []ArraySound
<1>1. ArrayInit => ArrayInv
  BY InitInv
<1>2. ArrayInv /\ [ArrayNext]_arrayVars => ArrayInv'
  BY StepInv, StutterInv
<1>3. ArrayInv => ArraySound
  BY InvSound
<1>4. QED
  BY <1>1, <1>2, <1>3, PTL DEF ArraySpec

=============================================================================
