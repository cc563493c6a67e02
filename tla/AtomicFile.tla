----------------------------- MODULE AtomicFile -----------------------------
(***************************************************************************)
(* The files of the config directory (src/internal/config/atomicfile.go):  *)
(* WriteFileAtomic, which fills a temporary file and renames it over the   *)
(* path, os.ReadFile as loadCredentials and LoadProfiles use it, and       *)
(* DeleteCredentials, all running in several processes with no lock.  The  *)
(* file system is modelled down to directory entries and inodes, because a *)
(* reader keeps the inode it opened and a writer the name it drew.         *)
(***************************************************************************)
EXTENDS Naturals, Sequences

CONSTANTS
  Writers, Readers,  \* the processes
  Values,            \* contents
  Chunks,            \* pieces in which a content is written and read
  Names,             \* names os.CreateTemp can draw
  Inodes,            \* inodes of the file system
  Path,              \* the file itself
  None,              \* no inode
  Missing            \* the content of a file that does not exist

ASSUME AtomicFileAssumption ==
  /\ Path \notin Names
  /\ Chunks \in Nat \ {0}
  /\ None \notin Inodes
  /\ Missing \notin Values

VARIABLES
  dir,       \* directory: the inode of each name, None when there is no such entry
  file,      \* of each inode: the content being written to it and how much is there
  pc,        \* of each writer: "idle", "create", "write", "rename", "remove"
  value,     \* of each writer: what it is writing
  tmp,       \* of each writer: the temporary name it drew, Path when it has none
  fd,        \* of each writer: the inode it has open
  renamed,   \* of each writer: its rename has succeeded
  told,      \* of each writer: how its last write ended
  leftover,  \* temporary files whose writer is gone or could not remove them
  open,      \* of each reader: it is reading
  at,        \* of each reader: the inode it opened
  got,       \* of each reader: the chunks it has read
  read       \* of each reader: what its last read returned

vars == <<dir, file, pc, value, tmp, fd, renamed, told, leftover, open, at, got, read>>

\* What a reader would make of a file that is only partly there.
Torn == "torn"
Empty == [value |-> Missing, size |-> 0]

Init == /\ dir = [n \in Names \union {Path} |-> None]
        /\ file = [i \in Inodes |-> Empty]
        /\ pc = [w \in Writers |-> "idle"]
        /\ value = [w \in Writers |-> Missing]
        /\ tmp = [w \in Writers |-> Path]
        /\ fd = [w \in Writers |-> None]
        /\ renamed = [w \in Writers |-> FALSE]
        /\ told = [w \in Writers |-> "nothing"]
        /\ leftover = {}
        /\ open = [r \in Readers |-> FALSE]
        /\ at = [r \in Readers |-> None]
        /\ got = [r \in Readers |-> <<>>]
        /\ read = [r \in Readers |-> Missing]

writer == <<pc, value, tmp, fd, renamed, told, leftover>>
reader == <<open, at, got, read>>

-----------------------------------------------------------------------------
(* Writers.                                                                *)

\* A directory entry, a writer or a reader refers to the inode.
Used(i) == \/ \E n \in DOMAIN dir : dir[n] = i
           \/ \E w \in Writers : fd[w] = i
           \/ \E r \in Readers : at[r] = i

\* The file system reclaims the inodes nothing refers to after the step.
Reclaim == file' = [i \in Inodes |-> IF Used(i)' THEN file[i] ELSE Empty]

\* w's call is over.
Return(w, o) == /\ pc' = [pc EXCEPT ![w] = "idle"]
                /\ value' = [value EXCEPT ![w] = Missing]
                /\ tmp' = [tmp EXCEPT ![w] = Path]
                /\ fd' = [fd EXCEPT ![w] = None]
                /\ renamed' = [renamed EXCEPT ![w] = FALSE]
                /\ told' = [told EXCEPT ![w] = o]

\* w has closed its file and goes on to step l.
Closed(w, l) == /\ pc' = [pc EXCEPT ![w] = l]
                /\ fd' = [fd EXCEPT ![w] = None]

StartWrite(w, v) == /\ pc[w] = "idle"
                    /\ pc' = [pc EXCEPT ![w] = "create"]
                    /\ value' = [value EXCEPT ![w] = v]
                    /\ told' = [told EXCEPT ![w] = "nothing"]
                    /\ UNCHANGED <<dir, file, tmp, fd, renamed, leftover, reader>>

\* CreateTemp opens a name that no entry has.  It draws among 2^32, so no writer draws
\* one that another is still going to remove.
CreateTemp(w) ==
  /\ pc[w] = "create"
  /\ \E i \in Inodes : ~Used(i)
  /\ \E n \in Names :
       LET i == CHOOSE j \in Inodes : ~Used(j)
       IN  /\ dir[n] = None
           /\ \A x \in Writers : tmp[x] # n
           /\ dir' = [dir EXCEPT ![n] = i]
           /\ file' = [file EXCEPT ![i] = [value |-> value[w], size |-> 0]]
           /\ tmp' = [tmp EXCEPT ![w] = n]
           /\ fd' = [fd EXCEPT ![w] = i]
  /\ pc' = [pc EXCEPT ![w] = "write"]
  /\ UNCHANGED <<value, renamed, told, leftover, reader>>

CreateFails(w) == /\ pc[w] = "create"
                  /\ Return(w, "failed")
                  /\ UNCHANGED <<dir, file, leftover, reader>>

BugWriteOn(w) == /\ pc[w] = "write"
                 /\ file[fd[w]].size <= Chunks
                 /\ file' = [file EXCEPT ![fd[w]].size = @ + 1]
                 /\ UNCHANGED <<dir, writer, reader>>

Write(w) == /\ pc[w] = "write"
            /\ file[fd[w]].size < Chunks
            /\ file' = [file EXCEPT ![fd[w]].size = @ + 1]
            /\ UNCHANGED <<dir, writer, reader>>

BugForgetRemove(w) == /\ pc[w] \in {"write", "rename"}
                      /\ Return(w, "failed")
                      /\ UNCHANGED <<dir, file, leftover, reader>>

\* The write, the chmod, the close or the rename returns an error.
WriteFails(w) == /\ pc[w] \in {"write", "rename"}
                 /\ Closed(w, "remove")
                 /\ UNCHANGED <<dir, file, value, tmp, renamed, told, leftover, reader>>

BugCloseEarly(w) == /\ pc[w] = "write"
                    /\ Closed(w, "rename")
                    /\ UNCHANGED <<dir, file, value, tmp, renamed, told, leftover, reader>>

\* Chmod and Close, once everything is written.
Close(w) == /\ pc[w] = "write"
            /\ file[fd[w]].size = Chunks
            /\ Closed(w, "rename")
            /\ UNCHANGED <<dir, file, value, tmp, renamed, told, leftover, reader>>

\* The moment of the write.
Rename(w) == /\ pc[w] = "rename"
             /\ dir' = [dir EXCEPT ![Path] = dir[tmp[w]], ![tmp[w]] = None]
             /\ pc' = [pc EXCEPT ![w] = "remove"]
             /\ renamed' = [renamed EXCEPT ![w] = TRUE]
             /\ UNCHANGED <<fd, at>>
             /\ Reclaim
             /\ UNCHANGED <<value, tmp, told, leftover, open, got, read>>

\* The deferred Remove, whose error is ignored, and the return: after a rename it finds
\* nothing to remove.
RemoveTemp(w) ==
  /\ pc[w] = "remove"
  /\ Return(w, IF renamed[w] THEN "written" ELSE "failed")
  /\ \/ dir' = [dir EXCEPT ![tmp[w]] = None] /\ UNCHANGED leftover
     \/ dir[tmp[w]] # None /\ leftover' = leftover \union {tmp[w]} /\ UNCHANGED dir
  /\ UNCHANGED reader
  /\ Reclaim

CrashWriter(w) ==
  /\ pc[w] # "idle"
  /\ Return(w, "nothing")
  /\ leftover' = IF tmp[w] # Path /\ dir[tmp[w]] # None THEN leftover \union {tmp[w]}
                 ELSE leftover
  /\ UNCHANGED <<dir, file, reader>>

\* DeleteCredentials; a file that is missing already is no error.
Delete == /\ dir' = [dir EXCEPT ![Path] = None]
          /\ UNCHANGED <<writer, reader>>
          /\ Reclaim

-----------------------------------------------------------------------------
(* Readers.                                                                *)

Open(r) == /\ ~open[r]
           /\ open' = [open EXCEPT ![r] = TRUE]
           /\ at' = [at EXCEPT ![r] = dir[Path]]
           /\ read' = [read EXCEPT ![r] = Missing]
           /\ UNCHANGED <<dir, file, writer, got>>

ReadChunk(r) == /\ open[r] /\ at[r] # None
                /\ Len(got[r]) < file[at[r]].size
                /\ got' = [got EXCEPT ![r] = Append(@, file[at[r]].value)]
                /\ UNCHANGED <<dir, file, writer, open, at, read>>

Stop(r) == /\ open' = [open EXCEPT ![r] = FALSE]
           /\ at' = [at EXCEPT ![r] = None]
           /\ got' = [got EXCEPT ![r] = <<>>]

\* What the chunks read so far amount to.
Whole(chunks) == IF Len(chunks) = Chunks /\ \A k \in 1..Chunks : chunks[k] = chunks[1]
                 THEN chunks[1] ELSE Torn

\* ErrNotExist at once, or the end of the file.
EndRead(r) ==
  /\ open[r]
  /\ \/ at[r] = None /\ read' = [read EXCEPT ![r] = Missing]
     \/ /\ at[r] # None /\ Len(got[r]) >= file[at[r]].size
        /\ read' = [read EXCEPT ![r] = Whole(got[r])]
  /\ Stop(r)
  /\ UNCHANGED <<dir, writer>>
  /\ Reclaim

CrashReader(r) == /\ open[r]
                  /\ Stop(r)
                  /\ UNCHANGED <<dir, writer, read>>
                  /\ Reclaim

WriterStep(w) == \/ \E v \in Values : StartWrite(w, v)
                 \/ CreateTemp(w) \/ CreateFails(w) \/ Write(w) \/ WriteFails(w)
                 \/ Close(w) \/ Rename(w) \/ RemoveTemp(w) \/ CrashWriter(w)

ReaderStep(r) == Open(r) \/ ReadChunk(r) \/ EndRead(r) \/ CrashReader(r)

Next == (\E w \in Writers : WriterStep(w)) \/ (\E r \in Readers : ReaderStep(r)) \/ Delete

Spec == Init /\ [][Next]_vars

-----------------------------------------------------------------------------
(* Properties.                                                             *)

TypeOK ==
  /\ dir \in [Names \union {Path} -> Inodes \union {None}]
  /\ file \in [Inodes -> [value : Values \union {Missing}, size : 0..Chunks]]
  /\ pc \in [Writers -> {"idle", "create", "write", "rename", "remove"}]
  /\ value \in [Writers -> Values \union {Missing}]
  /\ tmp \in [Writers -> Names \union {Path}]
  /\ fd \in [Writers -> Inodes \union {None}]
  /\ renamed \in [Writers -> BOOLEAN]
  /\ told \in [Writers -> {"nothing", "written", "failed"}]
  /\ leftover \subseteq Names
  /\ open \in [Readers -> BOOLEAN]
  /\ at \in [Readers -> Inodes \union {None}]
  /\ got \in [Readers -> Seq(Values)]
  /\ read \in [Readers -> Values \union {Missing}]

\* A temporary file in the directory has a writer that will remove it, unless that writer
\* was killed or its Remove failed: a write that fails half-way leaves nothing behind.
TempHasItsWriter ==
  \A n \in Names : dir[n] # None /\ n \notin leftover => \E w \in Writers : tmp[w] = n

\* The content behind a directory entry or an open file.
ContentOf(i) == CASE i = None                -> Missing
                  [] i # None /\ file[i].size < Chunks -> Torn
                  [] OTHER                   -> file[i].value

\* WriteFileAtomic's comment: a reader never sees a file that is truncated or partly
\* written, and what a writer was told of its write is true.  The write takes effect in
\* Rename, the read in Open.
Cell == INSTANCE FileCell WITH
          content <- ContentOf(dir[Path]),
          writing <- value,
          applied <- renamed,
          taken <- [r \in Readers |-> IF open[r] THEN <<ContentOf(at[r])>> ELSE <<>>]

ImplementsFileCell == Cell!Spec

=============================================================================
