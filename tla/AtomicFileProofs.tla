-------------------------- MODULE AtomicFileProofs --------------------------
(***************************************************************************)
(* For every set of writers, readers, contents, names and inodes, and      *)
(* contents of any number of chunks: the file is a cell (FileCell), and a  *)
(* temporary file has a writer that will remove it.                        *)
(***************************************************************************)
EXTENDS AtomicFile, TLAPS

-----------------------------------------------------------------------------
(* The inductive invariant.                                                *)

\* The inode holds a whole content.
Complete(i) == i \in Inodes /\ file[i].size = Chunks /\ file[i].value \in Values

\* What a writer has done when it is at a step: it writes to an inode that only the name it
\* drew refers to, closes it when it is complete, and keeps the name until it has removed it.
WriterInOrder(w) ==
  /\ value[w] = Missing <=> pc[w] = "idle"
  /\ IF pc[w] \in {"idle", "create"} THEN tmp[w] = Path ELSE tmp[w] \in Names
  /\ IF pc[w] = "write" THEN /\ fd[w] \in Inodes
                             /\ dir[tmp[w]] = fd[w] /\ file[fd[w]].value = value[w]
     ELSE fd[w] = None
  /\ pc[w] = "rename" => Complete(dir[tmp[w]]) /\ file[dir[tmp[w]]].value = value[w]
  /\ renamed[w] => pc[w] = "remove" /\ dir[tmp[w]] = None

\* No two writers have drawn the same name, and no two entries are of the same inode.
WritersApart == \A w, x \in Writers : w # x /\ tmp[w] = tmp[x] => tmp[w] = Path

EntriesApart == \A m, n \in Names \union {Path} : m # n /\ dir[m] = dir[n] => dir[m] = None

\* What is, or was, at the path is complete, and no longer under a temporary name.
PathComplete == dir[Path] # None => Complete(dir[Path])

ReaderInOrder(r) ==
  /\ ~open[r] => at[r] = None
  /\ IF at[r] = None THEN got[r] = <<>>
     ELSE /\ Complete(at[r])
          /\ Len(got[r]) <= Chunks
          /\ \A k \in 1..Len(got[r]) : got[r][k] = file[at[r]].value
          /\ \A n \in Names : dir[n] # at[r]

IInv == /\ TypeOK /\ TempHasItsWriter /\ WritersApart /\ EntriesApart /\ PathComplete
        /\ \A w \in Writers : WriterInOrder(w)
        /\ \A r \in Readers : ReaderInOrder(r)

-----------------------------------------------------------------------------
(* The steps.                                                              *)

\* At the start there is no file, and no name and no inode is in use.
LEMMA InitIInv == Init => IInv
  <1> SUFFICES ASSUME Init PROVE IInv
    OBVIOUS
  <1>1. TypeOK
    BY AtomicFileAssumption DEF Init, TypeOK, Empty
  <1>2. TempHasItsWriter /\ WritersApart /\ EntriesApart /\ PathComplete
    BY AtomicFileAssumption DEF Init, TempHasItsWriter, WritersApart, EntriesApart, PathComplete
  <1>3. /\ \A w \in Writers : WriterInOrder(w)
        /\ \A r \in Readers : ReaderInOrder(r)
    BY DEF Init, WriterInOrder, ReaderInOrder
  <1>4. QED
    BY <1>1, <1>2, <1>3 DEF IInv

\* The file system keeps the content of every inode that something still refers to.
LEMMA ReclaimKeeps ==
  ASSUME TypeOK, TypeOK', Reclaim
  PROVE  \A i \in Inodes : \/ \E n \in Names \union {Path} : dir'[n] = i
                           \/ \E w \in Writers : fd'[w] = i
                           \/ \E r \in Readers : at'[r] = i
                           => file'[i] = file[i]
  BY DEF Reclaim, Used, TypeOK

\* Emptying the inodes that nobody uses keeps the types.
LEMMA ReclaimTyped ==
  ASSUME TypeOK, Reclaim
  PROVE  file' \in [Inodes -> [value : Values \union {Missing}, size : 0..Chunks]]
  <1>1. Empty \in [value : Values \union {Missing}, size : 0..Chunks]
    BY AtomicFileAssumption DEF Empty
  <1>2. QED
    BY <1>1 DEF Reclaim, TypeOK

\* A writer that begins has its value and no name or inode yet.
LEMMA StartWriteKeeps ==
  ASSUME IInv, NEW w \in Writers, NEW v \in Values, StartWrite(w, v)
  PROVE  IInv'
  <1>1. TypeOK'
    BY DEF IInv, TypeOK, StartWrite, reader
  <1>2. (TempHasItsWriter /\ WritersApart /\ EntriesApart /\ PathComplete)'
    BY DEF IInv, StartWrite, TempHasItsWriter, WritersApart, EntriesApart, PathComplete, Complete
  <1>3. ASSUME NEW x \in Writers
        PROVE  WriterInOrder(x)'
    BY AtomicFileAssumption DEF IInv, TypeOK, StartWrite, WriterInOrder, Complete
  <1>4. ASSUME NEW r \in Readers
        PROVE  ReaderInOrder(r)'
    BY DEF IInv, StartWrite, reader, ReaderInOrder, Complete
  <1>5. QED
    BY <1>1, <1>2, <1>3, <1>4 DEF IInv

\* A new entry, to an inode that nothing refers to.
LEMMA CreateTempKeeps ==
  ASSUME IInv, NEW w \in Writers, CreateTemp(w)
  PROVE  IInv'
  <1> DEFINE i == CHOOSE j \in Inodes : ~Used(j)
  <1>1. i \in Inodes /\ ~Used(i)
    BY DEF CreateTemp
  <1>2. PICK n \in Names : /\ dir[n] = None
                           /\ \A x \in Writers : tmp[x] # n
                           /\ dir' = [dir EXCEPT ![n] = i]
                           /\ file' = [file EXCEPT ![i] = [value |-> value[w], size |-> 0]]
                           /\ tmp' = [tmp EXCEPT ![w] = n]
                           /\ fd' = [fd EXCEPT ![w] = i]
    BY DEF CreateTemp
  <1>3. /\ pc[w] = "create" /\ pc' = [pc EXCEPT ![w] = "write"]
        /\ UNCHANGED <<value, renamed, told, leftover, open, at, got, read>>
    BY DEF CreateTemp, reader
  <1>4. /\ \A m \in Names \union {Path} : dir[m] # i
        /\ \A x \in Writers : fd[x] # i
        /\ \A r \in Readers : at[r] # i
    BY <1>1 DEF Used, IInv, TypeOK
  <1> HIDE DEF i
  <1>5. TypeOK'
    <2>1. [value |-> value[w], size |-> 0] \in [value : Values \union {Missing}, size : 0..Chunks]
      BY AtomicFileAssumption DEF IInv, TypeOK
    <2>2. QED
      BY <1>1, <1>2, <1>3, <2>1 DEF IInv, TypeOK
  <1>6. TempHasItsWriter'
    <2>1. tmp[w] = Path /\ \A m \in Names : m # n => dir'[m] = dir[m]
      BY <1>2, <1>3 DEF IInv, TypeOK, WriterInOrder
    <2>2. tmp'[w] = n /\ \A x \in Writers : x # w => tmp'[x] = tmp[x]
      BY <1>2 DEF IInv, TypeOK
    <2>3. QED
      BY <1>3, <2>1, <2>2, AtomicFileAssumption DEF IInv, TempHasItsWriter
  <1>7. WritersApart'
    BY <1>2 DEF IInv, TypeOK, WritersApart
  <1>8. EntriesApart'
    BY <1>2, <1>4 DEF IInv, TypeOK, EntriesApart
  <1>9. PathComplete'
    BY <1>2, <1>4, AtomicFileAssumption DEF IInv, TypeOK, PathComplete, Complete
  <1>10. ASSUME NEW x \in Writers
         PROVE  WriterInOrder(x)'
    <2>1. CASE x = w
      BY <1>1, <1>2, <1>3, <2>1, AtomicFileAssumption DEF IInv, TypeOK, WriterInOrder
    <2>2. CASE x # w
      BY <1>1, <1>2, <1>3, <1>4, <2>2, AtomicFileAssumption
         DEF IInv, TypeOK, WriterInOrder, Complete
    <2>3. QED
      BY <2>1, <2>2
  <1>11. ASSUME NEW r \in Readers
         PROVE  ReaderInOrder(r)'
    BY <1>1, <1>2, <1>3, <1>4, AtomicFileAssumption DEF IInv, TypeOK, ReaderInOrder, Complete
  <1>12. QED
    BY <1>5, <1>6, <1>7, <1>8, <1>9, <1>10, <1>11 DEF IInv

\* The two ways in which a call ends with the directory as it is.
LEMMA ReturnKeeps ==
  ASSUME IInv, NEW w \in Writers, CreateFails(w) \/ CrashWriter(w)
  PROVE  IInv'
  <1>1. PICK o \in {"nothing", "written", "failed"} : Return(w, o)
    BY DEF CreateFails, CrashWriter
  <1>2. UNCHANGED <<dir, file, open, at, got, read>>
    BY DEF CreateFails, CrashWriter, reader
  <1>3. /\ leftover \subseteq leftover' /\ leftover' \subseteq Names
        /\ tmp[w] \in Names /\ dir[tmp[w]] # None => tmp[w] \in leftover'
    BY AtomicFileAssumption DEF CreateFails, CrashWriter, IInv, TypeOK, WriterInOrder
  <1>4. TypeOK'
    BY <1>1, <1>2, <1>3 DEF IInv, TypeOK, Return
  <1>5. TempHasItsWriter'
    BY <1>1, <1>2, <1>3 DEF IInv, TypeOK, TempHasItsWriter, Return
  <1>6. (WritersApart /\ EntriesApart /\ PathComplete)'
    BY <1>1, <1>2 DEF IInv, TypeOK, Return, WritersApart, EntriesApart, PathComplete, Complete
  <1>7. ASSUME NEW x \in Writers
        PROVE  WriterInOrder(x)'
    BY <1>1, <1>2 DEF IInv, TypeOK, Return, WriterInOrder, Complete
  <1>8. ASSUME NEW r \in Readers
        PROVE  ReaderInOrder(r)'
    BY <1>2 DEF IInv, ReaderInOrder, Complete
  <1>9. QED
    BY <1>4, <1>5, <1>6, <1>7, <1>8 DEF IInv

\* A writer adds to an inode that is not at the path, and that nobody reads.
LEMMA WriteKeeps ==
  ASSUME IInv, NEW w \in Writers, Write(w)
  PROVE  IInv'
  <1> DEFINE i == fd[w]
  <1>1. /\ pc[w] = "write" /\ i \in Inodes /\ tmp[w] \in Names /\ dir[tmp[w]] = i
        /\ file[i].size < Chunks /\ file' = [file EXCEPT ![i].size = file[i].size + 1]
        /\ UNCHANGED <<dir, pc, value, tmp, fd, renamed, told, leftover, open, at, got, read>>
    BY DEF Write, IInv, WriterInOrder, writer, reader
  <1>2. \A m \in Names \union {Path} : m # tmp[w] => dir[m] # i
    BY <1>1, AtomicFileAssumption DEF IInv, EntriesApart
  <1>3. \A r \in Readers : at[r] # i
    BY <1>1, AtomicFileAssumption DEF IInv, ReaderInOrder
  <1> HIDE DEF i
  <1>4. TypeOK'
    <2>1. file[i] \in [value : Values \union {Missing}, size : 0..Chunks]
      BY <1>1 DEF IInv, TypeOK
    <2>2. file[i].size + 1 \in 0..Chunks
      BY <1>1, <2>1, AtomicFileAssumption
    <2>3. [file[i] EXCEPT !.size = file[i].size + 1]
            \in [value : Values \union {Missing}, size : 0..Chunks]
      BY <2>1, <2>2
    <2>4. QED
      BY <1>1, <2>3 DEF IInv, TypeOK
  <1>5. (TempHasItsWriter /\ WritersApart /\ EntriesApart)'
    BY <1>1 DEF IInv, TempHasItsWriter, WritersApart, EntriesApart
  <1>6. PathComplete'
    BY <1>1, <1>2, AtomicFileAssumption DEF IInv, TypeOK, PathComplete, Complete
  <1>7. ASSUME NEW x \in Writers
        PROVE  WriterInOrder(x)'
    <2>1. pc[x] = "rename" => dir[tmp[x]] # i
      BY <1>1, <1>2, AtomicFileAssumption DEF IInv, WriterInOrder, WritersApart
    <2>2. \A j \in Inodes : file'[j].value = file[j].value
      BY <1>1 DEF IInv, TypeOK
    <2>3. \A j \in Inodes \ {i} : file'[j] = file[j]
      BY <1>1 DEF IInv, TypeOK
    <2>4. QED
      BY <1>1, <2>1, <2>2, <2>3 DEF IInv, WriterInOrder, Complete
  <1>8. ASSUME NEW r \in Readers
        PROVE  ReaderInOrder(r)'
    BY <1>1, <1>3 DEF IInv, TypeOK, ReaderInOrder, Complete
  <1>9. QED
    BY <1>4, <1>5, <1>6, <1>7, <1>8 DEF IInv

\* Closing the file, when it is complete or because something failed.
LEMMA CloseKeeps ==
  ASSUME IInv, NEW w \in Writers, WriteFails(w) \/ Close(w)
  PROVE  IInv'
  <1>1. PICK l \in {"rename", "remove"} : Closed(w, l)
    BY DEF WriteFails, Close
  <1>2. UNCHANGED <<dir, file, value, tmp, renamed, told, leftover, open, at, got, read>>
    BY DEF WriteFails, Close, reader
  <1>3. TypeOK'
    BY <1>1, <1>2 DEF IInv, TypeOK, Closed
  <1>4. (TempHasItsWriter /\ WritersApart /\ EntriesApart /\ PathComplete)'
    BY <1>2 DEF IInv, TempHasItsWriter, WritersApart, EntriesApart, PathComplete, Complete
  <1>5. WriterInOrder(w)'
    <2>1. CASE WriteFails(w)
      BY <1>2, <2>1 DEF IInv, TypeOK, WriteFails, Closed, WriterInOrder
    <2>2. CASE Close(w)
      <3>1. value[w] \in Values
        BY <2>2 DEF Close, IInv, TypeOK, WriterInOrder
      <3>2. QED
        BY <1>2, <2>2, <3>1 DEF IInv, TypeOK, Close, Closed, WriterInOrder, Complete
    <2>3. QED
      BY <2>1, <2>2
  <1>6. ASSUME NEW x \in Writers, x # w
        PROVE  WriterInOrder(x)'
    BY <1>1, <1>2, <1>6 DEF IInv, TypeOK, Closed, WriterInOrder, Complete
  <1>7. ASSUME NEW r \in Readers
        PROVE  ReaderInOrder(r)'
    BY <1>2 DEF IInv, ReaderInOrder, Complete
  <1>8. QED
    BY <1>3, <1>4, <1>5, <1>6, <1>7 DEF IInv

\* A complete content goes to the path in one step; what was there stays with its readers.
LEMMA RenameKeeps ==
  ASSUME IInv, NEW w \in Writers, Rename(w)
  PROVE  IInv'
  <1>1. /\ pc[w] = "rename" /\ tmp[w] \in Names
        /\ dir' = [dir EXCEPT ![Path] = dir[tmp[w]], ![tmp[w]] = None]
        /\ pc' = [pc EXCEPT ![w] = "remove"] /\ renamed' = [renamed EXCEPT ![w] = TRUE]
        /\ UNCHANGED <<value, tmp, fd, told, leftover, open, at, got, read>>
    BY DEF Rename, IInv, WriterInOrder
  <1>2. Complete(dir[tmp[w]])
    BY <1>1 DEF IInv, WriterInOrder
  <1>3. /\ dir'[Path] = dir[tmp[w]] /\ dir'[tmp[w]] = None
        /\ \A n \in Names \ {tmp[w]} : dir'[n] = dir[n]
    BY <1>1, AtomicFileAssumption DEF IInv, TypeOK
  <1>4. TypeOK'
    BY <1>1, <1>2, ReclaimTyped DEF IInv, TypeOK, Rename, Complete
  <1>5. \A j \in Inodes : \/ \E n \in Names \union {Path} : dir'[n] = j
                          \/ \E x \in Writers : fd'[x] = j
                          \/ \E r \in Readers : at'[r] = j
                          => file'[j] = file[j]
    BY <1>4, ReclaimKeeps DEF Rename, IInv
  <1>6. TempHasItsWriter' /\ WritersApart'
    BY <1>1, <1>3 DEF IInv, TempHasItsWriter, WritersApart
  <1>7. EntriesApart'
    BY <1>1, <1>3 DEF IInv, EntriesApart
  <1>8. PathComplete'
    BY <1>2, <1>3, <1>5 DEF PathComplete, Complete
  <1>9. WriterInOrder(w)'
    BY <1>1, <1>3 DEF IInv, TypeOK, WriterInOrder
  <1>10. ASSUME NEW x \in Writers, x # w
         PROVE  WriterInOrder(x)'
    <2>1. tmp[x] # tmp[w] /\ pc'[x] = pc[x] /\ renamed'[x] = renamed[x]
      BY <1>1, <1>10, AtomicFileAssumption DEF IInv, TypeOK, WritersApart
    <2>2. tmp[x] \in Names => dir'[tmp[x]] = dir[tmp[x]]
      BY <1>3, <2>1
    <2>3. ASSUME tmp[x] \in Names, dir[tmp[x]] \in Inodes
          PROVE  file'[dir[tmp[x]]] = file[dir[tmp[x]]]
      BY <1>5, <2>2, <2>3
    <2>4. QED
      BY <1>1, <2>1, <2>2, <2>3 DEF IInv, WriterInOrder, Complete
  <1>11. ASSUME NEW r \in Readers
         PROVE  ReaderInOrder(r)'
    <2>1. at[r] \in Inodes => file'[at[r]] = file[at[r]]
      BY <1>1, <1>5
    <2>2. \A n \in Names : at[r] # None => dir'[n] # at[r]
      BY <1>3 DEF IInv, ReaderInOrder
    <2>3. QED
      BY <1>1, <2>1, <2>2 DEF IInv, ReaderInOrder, Complete
  <1>12. QED
    BY <1>4, <1>6, <1>7, <1>8, <1>9, <1>10, <1>11 DEF IInv

\* The temporary entry goes, or stays behind when the Remove fails.
LEMMA RemoveTempKeeps ==
  ASSUME IInv, NEW w \in Writers, RemoveTemp(w)
  PROVE  IInv'
  <1>1. /\ pc[w] = "remove" /\ tmp[w] \in Names
        /\ Return(w, IF renamed[w] THEN "written" ELSE "failed")
        /\ UNCHANGED <<open, at, got, read>>
    BY DEF RemoveTemp, reader, IInv, WriterInOrder
  <1>2. \/ dir' = [dir EXCEPT ![tmp[w]] = None] /\ leftover' = leftover
        \/ dir[tmp[w]] # None /\ leftover' = leftover \union {tmp[w]} /\ dir' = dir
    BY DEF RemoveTemp
  <1>3. /\ dir'[Path] = dir[Path]
        /\ \A n \in Names \union {Path} : n # tmp[w] => dir'[n] = dir[n]
        /\ dir'[tmp[w]] = None \/ (dir' = dir /\ tmp[w] \in leftover')
    BY <1>1, <1>2, AtomicFileAssumption DEF IInv, TypeOK
  <1>4. TypeOK'
    <2>1. file' \in [Inodes -> [value : Values \union {Missing}, size : 0..Chunks]]
      BY ReclaimTyped DEF RemoveTemp, IInv
    <2>2. dir' \in [Names \union {Path} -> Inodes \union {None}] /\ leftover' \subseteq Names
      BY <1>1, <1>2 DEF IInv, TypeOK
    <2>3. QED
      BY <1>1, <2>1, <2>2 DEF IInv, TypeOK, Return
  <1>5. \A j \in Inodes : \/ \E n \in Names \union {Path} : dir'[n] = j
                          \/ \E x \in Writers : fd'[x] = j
                          \/ \E r \in Readers : at'[r] = j
                          => file'[j] = file[j]
    BY <1>4, ReclaimKeeps DEF RemoveTemp, IInv
  <1>6. TempHasItsWriter'
    <2>1. leftover \subseteq leftover' /\ \A x \in Writers : x # w => tmp'[x] = tmp[x]
      BY <1>1, <1>2 DEF IInv, TypeOK, Return
    <2>2. QED
      BY <1>3, <2>1 DEF IInv, TempHasItsWriter
  <1>7. WritersApart'
    BY <1>1 DEF IInv, TypeOK, Return, WritersApart
  <1>8. EntriesApart'
    BY <1>1, <1>3 DEF IInv, EntriesApart
  <1>9. PathComplete'
    BY <1>3, <1>5 DEF IInv, PathComplete, Complete
  <1>10. WriterInOrder(w)'
    BY <1>1, AtomicFileAssumption DEF IInv, TypeOK, Return, WriterInOrder
  <1>11. ASSUME NEW x \in Writers, x # w
         PROVE  WriterInOrder(x)'
    <2>1. /\ tmp[x] # tmp[w] /\ pc'[x] = pc[x] /\ renamed'[x] = renamed[x]
          /\ value'[x] = value[x] /\ tmp'[x] = tmp[x] /\ fd'[x] = fd[x]
      BY <1>1, <1>11, AtomicFileAssumption DEF IInv, TypeOK, WritersApart, Return
    <2>2. tmp[x] \in Names => dir'[tmp[x]] = dir[tmp[x]]
      BY <1>3, <2>1
    <2>3. ASSUME tmp[x] \in Names, dir[tmp[x]] \in Inodes
          PROVE  file'[dir[tmp[x]]] = file[dir[tmp[x]]]
      BY <1>5, <2>2, <2>3
    <2>4. QED
      BY <2>1, <2>2, <2>3 DEF IInv, WriterInOrder, Complete
  <1>12. ASSUME NEW r \in Readers
         PROVE  ReaderInOrder(r)'
    <2>1. at[r] \in Inodes => file'[at[r]] = file[at[r]]
      BY <1>1, <1>5
    <2>2. \A n \in Names : at[r] # None => dir'[n] # at[r]
      BY <1>3 DEF IInv, ReaderInOrder
    <2>3. QED
      BY <1>1, <2>1, <2>2 DEF IInv, ReaderInOrder, Complete
  <1>13. QED
    BY <1>4, <1>6, <1>7, <1>8, <1>9, <1>10, <1>11, <1>12 DEF IInv

\* A removal takes the entry of the path away; readers keep their inodes.
LEMMA DeleteKeeps ==
  ASSUME IInv, Delete
  PROVE  IInv'
  <1>1. /\ dir' = [dir EXCEPT ![Path] = None]
        /\ UNCHANGED <<pc, value, tmp, fd, renamed, told, leftover, open, at, got, read>>
    BY DEF Delete, writer, reader
  <1>2. dir'[Path] = None /\ \A n \in Names : dir'[n] = dir[n]
    BY <1>1, AtomicFileAssumption DEF IInv, TypeOK
  <1>3. TypeOK'
    BY <1>1, ReclaimTyped DEF Delete, IInv, TypeOK
  <1>4. \A j \in Inodes : \/ \E n \in Names \union {Path} : dir'[n] = j
                          \/ \E x \in Writers : fd'[x] = j
                          \/ \E r \in Readers : at'[r] = j
                          => file'[j] = file[j]
    BY <1>3, ReclaimKeeps DEF Delete, IInv
  <1>5. (TempHasItsWriter /\ WritersApart /\ PathComplete)'
    BY <1>1, <1>2 DEF IInv, TempHasItsWriter, WritersApart, PathComplete
  <1>6. EntriesApart'
    BY <1>2 DEF IInv, EntriesApart
  <1>7. ASSUME NEW x \in Writers
        PROVE  WriterInOrder(x)'
    <2>1. ASSUME tmp[x] \in Names, dir[tmp[x]] \in Inodes
          PROVE  file'[dir[tmp[x]]] = file[dir[tmp[x]]]
      BY <1>2, <1>4, <2>1
    <2>2. QED
      BY <1>1, <1>2, <2>1 DEF IInv, WriterInOrder, Complete
  <1>8. ASSUME NEW r \in Readers
        PROVE  ReaderInOrder(r)'
    BY <1>1, <1>2, <1>4 DEF IInv, ReaderInOrder, Complete
  <1>9. QED
    BY <1>3, <1>5, <1>6, <1>7, <1>8 DEF IInv

\* A reader takes hold of the complete content at the path.
LEMMA OpenKeeps ==
  ASSUME IInv, NEW r \in Readers, Open(r)
  PROVE  IInv'
  <1>1. /\ ~open[r] /\ open' = [open EXCEPT ![r] = TRUE]
        /\ at' = [at EXCEPT ![r] = dir[Path]] /\ read' = [read EXCEPT ![r] = Missing]
        /\ UNCHANGED <<dir, file, pc, value, tmp, fd, renamed, told, leftover, got>>
    BY DEF Open, writer
  <1>2. TypeOK'
    BY <1>1 DEF IInv, TypeOK
  <1>3. (TempHasItsWriter /\ WritersApart /\ EntriesApart /\ PathComplete)'
    BY <1>1 DEF IInv, TempHasItsWriter, WritersApart, EntriesApart, PathComplete, Complete
  <1>4. ASSUME NEW w \in Writers
        PROVE  WriterInOrder(w)'
    BY <1>1 DEF IInv, WriterInOrder, Complete
  <1>5. ReaderInOrder(r)'
    <2>1. got'[r] = <<>> /\ Len(got'[r]) = 0 /\ at'[r] = dir[Path]
      BY <1>1 DEF IInv, TypeOK, ReaderInOrder
    <2>2. \A n \in Names : dir[Path] # None => dir[n] # dir[Path]
      BY AtomicFileAssumption DEF IInv, EntriesApart
    <2>3. open'[r]
      BY <1>1 DEF IInv, TypeOK
    <2>4. QED
      BY <1>1, <2>1, <2>2, <2>3, AtomicFileAssumption
         DEF IInv, PathComplete, ReaderInOrder, Complete
  <1>6. ASSUME NEW s \in Readers, s # r
        PROVE  ReaderInOrder(s)'
    BY <1>1, <1>6 DEF IInv, TypeOK, ReaderInOrder, Complete
  <1>7. QED
    BY <1>2, <1>3, <1>4, <1>5, <1>6 DEF IInv

\* A reader gets a chunk of the complete file it opened.
LEMMA ReadChunkKeeps ==
  ASSUME IInv, NEW r \in Readers, ReadChunk(r)
  PROVE  IInv'
  <1>1. /\ at[r] # None /\ Len(got[r]) < file[at[r]].size
        /\ got' = [got EXCEPT ![r] = Append(got[r], file[at[r]].value)]
        /\ UNCHANGED <<dir, file, pc, value, tmp, fd, renamed, told, leftover, open, at, read>>
    BY DEF ReadChunk, writer
  <1>2. Complete(at[r]) /\ got[r] \in Seq(Values)
    BY <1>1 DEF IInv, TypeOK, ReaderInOrder
  <1>3. TypeOK'
    BY <1>1, <1>2 DEF IInv, TypeOK, Complete
  <1>4. (TempHasItsWriter /\ WritersApart /\ EntriesApart /\ PathComplete)'
    BY <1>1 DEF IInv, TempHasItsWriter, WritersApart, EntriesApart, PathComplete, Complete
  <1>5. ASSUME NEW w \in Writers
        PROVE  WriterInOrder(w)'
    BY <1>1 DEF IInv, WriterInOrder, Complete
  <1>6. ReaderInOrder(r)'
    <2>1. got'[r] = Append(got[r], file[at[r]].value)
      BY <1>1 DEF IInv, TypeOK
    <2>2. Len(got'[r]) = Len(got[r]) + 1 /\ Len(got[r]) \in Nat
      BY <1>2, <2>1 DEF Complete
    <2>3. \A k \in 1..Len(got'[r]) : got'[r][k] = file[at[r]].value
      BY <1>1, <1>2, <2>1, <2>2 DEF IInv, ReaderInOrder, Complete
    <2>4. Len(got'[r]) <= Chunks
      BY <1>1, <1>2, <2>2, AtomicFileAssumption DEF Complete
    <2>5. QED
      BY <1>1, <1>2, <2>3, <2>4 DEF IInv, ReaderInOrder, Complete
  <1>7. ASSUME NEW s \in Readers, s # r
        PROVE  ReaderInOrder(s)'
    BY <1>1, <1>7 DEF IInv, TypeOK, ReaderInOrder, Complete
  <1>8. QED
    BY <1>3, <1>4, <1>5, <1>6, <1>7 DEF IInv

\* What the reader is handed is the content of the inode it opened.
LEMMA WholeRead ==
  ASSUME IInv, NEW r \in Readers, at[r] # None, Len(got[r]) >= file[at[r]].size
  PROVE  Complete(at[r]) /\ Whole(got[r]) = file[at[r]].value
  <1>1. Complete(at[r]) /\ Len(got[r]) <= Chunks /\ got[r] \in Seq(Values)
    BY DEF IInv, TypeOK, ReaderInOrder
  <1>2. Len(got[r]) = Chunks /\ 1 \in 1..Chunks
    BY <1>1, AtomicFileAssumption DEF Complete
  <1>3. \A k \in 1..Chunks : got[r][k] = file[at[r]].value
    BY <1>2 DEF IInv, ReaderInOrder
  <1>4. QED
    BY <1>1, <1>2, <1>3 DEF Whole

\* A reader lets go of the inode, at the end of the file or when it is killed.
LEMMA StopKeeps ==
  ASSUME IInv, NEW r \in Readers, EndRead(r) \/ CrashReader(r)
  PROVE  IInv'
  <1>1. /\ open[r] /\ Stop(r)
        /\ UNCHANGED <<dir, pc, value, tmp, fd, renamed, told, leftover>>
    BY DEF EndRead, CrashReader, writer
  <1>2. read' \in [Readers -> Values \union {Missing}]
    <2>1. CASE CrashReader(r)
      BY <2>1 DEF CrashReader, IInv, TypeOK
    <2>2. CASE EndRead(r)
      BY <2>2, WholeRead DEF EndRead, IInv, TypeOK, Complete
    <2>3. QED
      BY <2>1, <2>2
  <1>3. TypeOK'
    <2>1. file' \in [Inodes -> [value : Values \union {Missing}, size : 0..Chunks]]
      BY ReclaimTyped DEF EndRead, CrashReader, IInv
    <2>2. <<>> \in Seq(Values)
      OBVIOUS
    <2>3. QED
      BY <1>1, <1>2, <2>1, <2>2 DEF IInv, TypeOK, Stop
  <1>4. \A j \in Inodes : \/ \E n \in Names \union {Path} : dir'[n] = j
                          \/ \E x \in Writers : fd'[x] = j
                          \/ \E s \in Readers : at'[s] = j
                          => file'[j] = file[j]
    BY <1>3, ReclaimKeeps DEF EndRead, CrashReader, IInv
  <1>5. (TempHasItsWriter /\ WritersApart /\ EntriesApart)'
    BY <1>1 DEF IInv, TempHasItsWriter, WritersApart, EntriesApart
  <1>6. PathComplete'
    BY <1>1, <1>4 DEF IInv, PathComplete, Complete
  <1>7. ASSUME NEW w \in Writers
        PROVE  WriterInOrder(w)'
    <2>1. ASSUME tmp[w] \in Names, dir[tmp[w]] \in Inodes
          PROVE  file'[dir[tmp[w]]] = file[dir[tmp[w]]]
      BY <1>1, <1>4, <2>1
    <2>2. QED
      BY <1>1, <2>1 DEF IInv, WriterInOrder, Complete
  <1>8. ReaderInOrder(r)'
    BY <1>1 DEF IInv, TypeOK, Stop, ReaderInOrder
  <1>9. ASSUME NEW s \in Readers, s # r
        PROVE  ReaderInOrder(s)'
    <2>1. open'[s] = open[s] /\ at'[s] = at[s] /\ got'[s] = got[s]
      BY <1>1, <1>9 DEF IInv, TypeOK, Stop
    <2>2. at[s] \in Inodes => file'[at[s]] = file[at[s]]
      BY <1>4, <2>1
    <2>3. QED
      BY <1>1, <2>1, <2>2 DEF IInv, ReaderInOrder, Complete
  <1>10. QED
    BY <1>3, <1>5, <1>6, <1>7, <1>8, <1>9 DEF IInv

\* Every step keeps the invariant.
LEMMA NextIInv == IInv /\ [Next]_vars => IInv'
  <1> SUFFICES ASSUME IInv, [Next]_vars
               PROVE  IInv'
    OBVIOUS
  <1>1. CASE Delete
    BY <1>1, DeleteKeeps
  <1>2. ASSUME NEW w \in Writers, WriterStep(w)
        PROVE  IInv'
    BY <1>2, StartWriteKeeps, CreateTempKeeps, ReturnKeeps, WriteKeeps, CloseKeeps, RenameKeeps,
       RemoveTempKeeps DEF WriterStep
  <1>3. ASSUME NEW r \in Readers, ReaderStep(r)
        PROVE  IInv'
    BY <1>3, OpenKeeps, ReadChunkKeeps, StopKeeps DEF ReaderStep
  <1>4. CASE UNCHANGED vars
    BY <1>4 DEF vars, IInv, TypeOK, TempHasItsWriter, WritersApart, EntriesApart, PathComplete,
       WriterInOrder, ReaderInOrder, Complete
  <1>5. QED
    BY <1>1, <1>2, <1>3, <1>4 DEF Next

\* So it holds of every reachable state.
LEMMA Invariance == Spec => []IInv
  BY InitIInv, NextIInv, PTL DEF Spec

-----------------------------------------------------------------------------
(* The theorems.                                                           *)

\* The variables keep their types: no read returns anything but a content that was written
\* (loadCredentials, LoadProfiles), never what a torn file would parse to.
THEOREM TypeCorrect == Spec => []TypeOK
  BY Invariance, PTL DEF IInv

\* WriteFileAtomic's deferred Remove: an entry that a writer created has a writer that will
\* remove it, unless that writer was killed or its Remove failed.
THEOREM TempRemoved == Spec => []TempHasItsWriter
  BY Invariance, PTL DEF IInv

-----------------------------------------------------------------------------
(* The file is a cell.  A write takes effect in Rename and a read in Open; *)
(* every other step on the way to them leaves the cell as it is.           *)

\* The content of a complete inode is its value.
LEMMA CompleteContent ==
  ASSUME NEW i, Complete(i)
  PROVE  ContentOf(i) = file[i].value /\ ContentOf(i) \in Values
  BY AtomicFileAssumption DEF Complete, ContentOf

\* The content of the file, and what each reader has taken of it.
Content == ContentOf(dir[Path])
Taken == [r \in Readers |-> IF open[r] THEN <<ContentOf(at[r])>> ELSE <<>>]

\* A step that leaves the entry and the readers' inodes alone leaves the cell's content.
LEMMA ContentKept ==
  ASSUME IInv, IInv', UNCHANGED <<open, at>>, dir'[Path] = dir[Path],
         \A i \in Inodes : i = dir[Path] \/ (\E r \in Readers : i = at[r]) => file'[i] = file[i]
  PROVE  UNCHANGED <<Content, Taken>>
  <1>1. Content' = Content
    BY AtomicFileAssumption DEF Content, ContentOf, IInv, PathComplete, Complete
  <1>2. ASSUME NEW r \in Readers
        PROVE  ContentOf(at[r])' = ContentOf(at[r])
    BY AtomicFileAssumption DEF ContentOf, IInv, ReaderInOrder, Complete
  <1>3. Taken' = Taken
    BY <1>2 DEF Taken
  <1>4. QED
    BY <1>1, <1>3

\* What a writer's step is to the cell.
LEMMA WriterSimulates ==
  ASSUME IInv, IInv', NEW w \in Writers, WriterStep(w)
  PROVE  \/ \E v \in Values : Cell!StartWrite(w, v)
         \/ Cell!ApplyWrite(w)
         \/ \E o \in {"nothing", "written", "failed"} : Cell!EndWrite(w, o)
         \/ UNCHANGED <<Content, value, renamed, told, Taken, read>>
  <1>1. ASSUME NEW v \in Values, StartWrite(w, v)
        PROVE  Cell!StartWrite(w, v)
    <2>1. UNCHANGED <<Content, Taken>>
      BY <1>1, ContentKept DEF StartWrite, reader
    <2>2. value[w] = Missing
      BY <1>1 DEF StartWrite, IInv, WriterInOrder
    <2>3. QED
      BY <1>1, <2>1, <2>2 DEF StartWrite, reader, Cell!StartWrite, Content, Taken
  <1>2. CASE CreateTemp(w)
    <2> DEFINE i == CHOOSE j \in Inodes : ~Used(j)
    <2>1. i \in Inodes /\ ~Used(i)
      BY <1>2 DEF CreateTemp
    <2>2. PICK n \in Names : dir' = [dir EXCEPT ![n] = i]
                             /\ file' = [file EXCEPT ![i] = [value |-> value[w], size |-> 0]]
      BY <1>2 DEF CreateTemp
    <2>3. dir'[Path] = dir[Path] /\ \A j \in Inodes : j # i => file'[j] = file[j]
      BY <2>2, AtomicFileAssumption DEF IInv, TypeOK
    <2>4. dir[Path] # i /\ \A r \in Readers : at[r] # i
      BY <2>1 DEF Used, IInv, TypeOK
    <2> HIDE DEF i
    <2>5. UNCHANGED <<open, at>>
      BY <1>2 DEF CreateTemp, reader
    <2>6. UNCHANGED <<Content, Taken>>
      BY <2>3, <2>4, <2>5, ContentKept
    <2>7. QED
      BY <1>2, <2>6 DEF CreateTemp, reader
  <1>3. CASE Write(w)
    <2>1. /\ fd[w] \in Inodes /\ dir[tmp[w]] = fd[w] /\ tmp[w] \in Names
          /\ file' = [file EXCEPT ![fd[w]].size = file[fd[w]].size + 1]
          /\ UNCHANGED <<dir, value, renamed, told, open, at, read>>
      BY <1>3 DEF Write, writer, reader, IInv, WriterInOrder
    <2>2. dir[Path] # fd[w] /\ \A r \in Readers : at[r] # fd[w]
      BY <2>1, AtomicFileAssumption DEF IInv, EntriesApart, ReaderInOrder
    <2>3. \A j \in Inodes : j # fd[w] => file'[j] = file[j]
      BY <2>1 DEF IInv, TypeOK
    <2>4. UNCHANGED <<Content, Taken>>
      BY <2>1, <2>2, <2>3, ContentKept
    <2>5. QED
      BY <2>1, <2>4
  <1>4. CASE WriteFails(w) \/ Close(w)
    <2>1. UNCHANGED <<dir, file, value, renamed, told, open, at, read>>
      BY <1>4 DEF WriteFails, Close, reader
    <2>2. UNCHANGED <<Content, Taken>>
      BY <2>1, ContentKept
    <2>3. QED
      BY <2>1, <2>2
  <1>5. CASE Rename(w)
    <2>1. /\ pc[w] = "rename" /\ tmp[w] \in Names /\ Complete(dir[tmp[w]])
          /\ file[dir[tmp[w]]].value = value[w] /\ value[w] # Missing /\ ~renamed[w]
      BY <1>5 DEF Rename, IInv, WriterInOrder
    <2>2. /\ dir' = [dir EXCEPT ![Path] = dir[tmp[w]], ![tmp[w]] = None]
          /\ renamed' = [renamed EXCEPT ![w] = TRUE]
          /\ UNCHANGED <<value, told, open, at, read, fd>>
      BY <1>5 DEF Rename
    <2>3. dir'[Path] = dir[tmp[w]]
      BY <2>1, <2>2, AtomicFileAssumption DEF IInv, TypeOK
    <2>4. \A j \in Inodes : \/ \E n \in Names \union {Path} : dir'[n] = j
                            \/ \E x \in Writers : fd'[x] = j
                            \/ \E r \in Readers : at'[r] = j
                            => file'[j] = file[j]
      BY <1>5, ReclaimKeeps DEF Rename, IInv
    <2>5. Content' = value[w]
      <3>1. file'[dir'[Path]] = file[dir[tmp[w]]]
        BY <2>1, <2>3, <2>4 DEF Complete
      <3>2. QED
        BY <2>1, <2>3, <3>1, AtomicFileAssumption DEF Complete, Content, ContentOf
    <2>6. Taken' = Taken
      <3>1. ASSUME NEW r \in Readers
            PROVE  ContentOf(at[r])' = ContentOf(at[r])
        BY <2>2, <2>4, AtomicFileAssumption DEF ContentOf, IInv, ReaderInOrder, Complete
      <3>2. QED
        BY <2>2, <3>1 DEF Taken
    <2>7. QED
      BY <2>1, <2>2, <2>5, <2>6 DEF Cell!ApplyWrite, Content, Taken
  <1>6. CASE CreateFails(w) \/ CrashWriter(w) \/ RemoveTemp(w)
    <2>1. PICK o \in {"nothing", "written", "failed"} :
            /\ Return(w, o)
            /\ o = "written" => renamed[w]
            /\ o = "failed" => ~renamed[w]
      BY <1>6 DEF CreateFails, CrashWriter, RemoveTemp, IInv, TypeOK, WriterInOrder
    <2>2. value[w] # Missing
      BY <1>6 DEF CreateFails, CrashWriter, RemoveTemp, IInv, WriterInOrder
    <2>3. UNCHANGED <<open, at, read>>
      BY <1>6 DEF CreateFails, CrashWriter, RemoveTemp, reader
    <2>4. UNCHANGED <<Content, Taken>>
      <3>1. CASE CreateFails(w) \/ CrashWriter(w)
        BY <3>1, <2>3, ContentKept DEF CreateFails, CrashWriter
      <3>2. CASE RemoveTemp(w)
        <4>1. dir'[Path] = dir[Path]
          BY <3>2, AtomicFileAssumption DEF RemoveTemp, IInv, TypeOK, WriterInOrder
        <4>2. \A j \in Inodes : \/ \E n \in Names \union {Path} : dir'[n] = j
                                \/ \E x \in Writers : fd'[x] = j
                                \/ \E r \in Readers : at'[r] = j
                                => file'[j] = file[j]
          BY <3>2, ReclaimKeeps DEF RemoveTemp, IInv
        <4>3. QED
          BY <2>3, <4>1, <4>2, ContentKept
      <3>3. QED
        BY <1>6, <3>1, <3>2
    <2>5. Cell!EndWrite(w, o)
      BY <2>1, <2>2, <2>3, <2>4 DEF Return, Cell!EndWrite, Content, Taken
    <2>6. QED
      BY <2>5
  <1>7. QED
    BY <1>1, <1>2, <1>3, <1>4, <1>5, <1>6 DEF WriterStep

\* What a reader's step is to the cell.
LEMMA ReaderSimulates ==
  ASSUME IInv, IInv', NEW r \in Readers, ReaderStep(r)
  PROVE  \/ Cell!Look(r) \/ Cell!EndRead(r) \/ Cell!AbandonRead(r)
         \/ UNCHANGED <<Content, value, renamed, told, Taken, read>>
  <1>1. CASE Open(r)
    <2>1. /\ ~open[r] /\ open' = [open EXCEPT ![r] = TRUE]
          /\ at' = [at EXCEPT ![r] = dir[Path]] /\ read' = [read EXCEPT ![r] = Missing]
          /\ UNCHANGED <<dir, file, value, renamed, told>>
      BY <1>1 DEF Open, writer
    <2>2. Content' = Content
      BY <2>1 DEF Content, ContentOf
    <2>3. Taken[r] = <<>>
      BY <2>1 DEF Taken
    <2>4. Taken' = [Taken EXCEPT ![r] = <<Content>>]
      <3>1. ASSUME NEW s \in Readers
            PROVE  Taken'[s] = IF s = r THEN <<Content>> ELSE Taken[s]
        BY <2>1 DEF Taken, Content, ContentOf, IInv, TypeOK
      <3>2. QED
        BY <3>1 DEF Taken
    <2>5. QED
      BY <2>1, <2>2, <2>3, <2>4 DEF Cell!Look, Content, Taken
  <1>2. CASE ReadChunk(r)
    BY <1>2, ContentKept DEF ReadChunk, writer
  <1>3. CASE EndRead(r) \/ CrashReader(r)
    <2>1. open[r] /\ Stop(r) /\ UNCHANGED <<dir, value, renamed, told, fd>>
      BY <1>3 DEF EndRead, CrashReader, writer
    <2>2. \A j \in Inodes : \/ \E n \in Names \union {Path} : dir'[n] = j
                            \/ \E x \in Writers : fd'[x] = j
                            \/ \E s \in Readers : at'[s] = j
                            => file'[j] = file[j]
      BY <1>3, ReclaimKeeps DEF EndRead, CrashReader, IInv
    <2>3. Content' = Content
      BY <2>1, <2>2, AtomicFileAssumption DEF Content, ContentOf, IInv, PathComplete, Complete
    <2>4. Taken' = [Taken EXCEPT ![r] = <<>>]
      <3>1. ASSUME NEW s \in Readers, s # r
            PROVE  /\ open'[s] = open[s] /\ at'[s] = at[s]
                   /\ ContentOf(at[s])' = ContentOf(at[s])
        <4>1. open'[s] = open[s] /\ at'[s] = at[s]
          BY <2>1, <3>1 DEF Stop, IInv, TypeOK
        <4>2. QED
          BY <2>2, <4>1 DEF ContentOf, IInv, ReaderInOrder, Complete
      <3>2. ~open'[r]
        BY <2>1 DEF Stop, IInv, TypeOK
      <3>3. ASSUME NEW s \in Readers
            PROVE  Taken'[s] = IF s = r THEN <<>> ELSE Taken[s]
        BY <3>1, <3>2 DEF Taken
      <3>4. QED
        BY <3>3 DEF Taken
    <2>5. CASE CrashReader(r)
      BY <2>1, <2>3, <2>4, <2>5 DEF CrashReader, Cell!AbandonRead, Content, Taken
    <2>6. CASE EndRead(r)
      <3>1. Taken[r] = <<ContentOf(at[r])>> /\ Taken[r] # <<>>
        BY <2>1 DEF Taken
      <3>2. read' = [read EXCEPT ![r] = Taken[r][1]]
        <4>1. CASE at[r] = None /\ read' = [read EXCEPT ![r] = Missing]
          BY <3>1, <4>1 DEF ContentOf
        <4>2. CASE at[r] # None /\ Len(got[r]) >= file[at[r]].size
                   /\ read' = [read EXCEPT ![r] = Whole(got[r])]
          <5>1. Complete(at[r]) /\ Whole(got[r]) = file[at[r]].value
            BY <4>2, WholeRead
          <5>2. ContentOf(at[r]) = Whole(got[r])
            BY <5>1, CompleteContent
          <5>3. QED
            BY <3>1, <4>2, <5>2
        <4>3. QED
          BY <2>6, <4>1, <4>2 DEF EndRead
      <3>3. QED
        BY <2>1, <2>3, <2>4, <3>1, <3>2 DEF Cell!EndRead, Content, Taken
    <2>7. QED
      BY <1>3, <2>5, <2>6
  <1>4. QED
    BY <1>1, <1>2, <1>3 DEF ReaderStep

\* DeleteCredentials empties the cell; a reader keeps what it has taken.
LEMMA DeleteSimulates ==
  ASSUME IInv, IInv', Delete
  PROVE  Cell!Remove
  <1>1. /\ dir' = [dir EXCEPT ![Path] = None]
        /\ UNCHANGED <<value, renamed, told, open, at, read, fd>>
    BY DEF Delete, writer, reader
  <1>2. Content' = Missing
    BY <1>1 DEF Content, ContentOf, IInv, TypeOK
  <1>3. \A j \in Inodes : \/ \E n \in Names \union {Path} : dir'[n] = j
                          \/ \E x \in Writers : fd'[x] = j
                          \/ \E s \in Readers : at'[s] = j
                          => file'[j] = file[j]
    BY ReclaimKeeps DEF Delete, IInv
  <1>4. ASSUME NEW r \in Readers
        PROVE  ContentOf(at[r])' = ContentOf(at[r])
    BY <1>1, <1>3 DEF ContentOf, IInv, ReaderInOrder, Complete
  <1>5. Taken' = Taken
    BY <1>1, <1>4 DEF Taken
  <1>6. QED
    BY <1>1, <1>2, <1>5 DEF Cell!Remove, Content, Taken

\* A write and a read each take effect at one moment and never show part of a content
\* (WriteFileAtomic's comment): every step is a step of the cell, or none.
THEOREM ImplementsCell == Spec => ImplementsFileCell
  <1>1. Init => Cell!Init
    <2> SUFFICES ASSUME Init PROVE Cell!Init
      OBVIOUS
    <2>1. dir[Path] = None /\ ContentOf(dir[Path]) = Missing
      BY DEF Init, ContentOf
    <2>2. Taken = [r \in Readers |-> <<>>]
      BY DEF Init, Taken
    <2>3. QED
      BY <2>1, <2>2 DEF Init, Cell!Init, Taken
  <1>2. IInv /\ IInv' /\ [Next]_vars => [Cell!Next]_(Cell!vars)
    <2> SUFFICES ASSUME IInv, IInv', [Next]_vars
                 PROVE  Cell!Next \/ UNCHANGED <<Content, value, renamed, told, Taken, read>>
      BY DEF Cell!vars, Content, Taken
    <2>1. ASSUME NEW w \in Writers, WriterStep(w)
          PROVE  Cell!Next \/ UNCHANGED <<Content, value, renamed, told, Taken, read>>
      BY <2>1, WriterSimulates DEF Cell!Next
    <2>2. ASSUME NEW r \in Readers, ReaderStep(r)
          PROVE  Cell!Next \/ UNCHANGED <<Content, value, renamed, told, Taken, read>>
      BY <2>2, ReaderSimulates DEF Cell!Next
    <2>3. CASE Delete
      BY <2>3, DeleteSimulates DEF Cell!Next
    <2>4. CASE UNCHANGED vars
      BY <2>4 DEF vars, Content, Taken, ContentOf
    <2>5. QED
      BY <2>1, <2>2, <2>3, <2>4 DEF Next
  <1>3. QED
    BY Invariance, <1>1, <1>2, PTL DEF Spec, ImplementsFileCell, Cell!Spec

=============================================================================
