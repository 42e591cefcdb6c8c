---------------------------- MODULE NamedObjects ----------------------------
(***************************************************************************)
(* A writer and a reader that meet at an object of the kernel which has a  *)
(* name, and which outlives them: the FIFO of wr_fifo.c and rd_fifo.c, the *)
(* System V segment of shm1_w.c and shm1_r.c, and the POSIX shared memory  *)
(* and semaphore of writer.c and reader.c.  Either program may be run      *)
(* again, killed at any point, or run first; the object may be left from   *)
(* an earlier day.                                                         *)
(***************************************************************************)
EXTENDS Naturals, Sequences

CONSTANTS MaxRuns,   \* bound on the runs of either program
          NUM,       \* strings that shm1_w.c stores
          LINELENGTH,  \* bytes that fgets() may store, with the NUL
          SIZE       \* bytes of the segment

\* The values the constants may have: the segment has room for the lines.
NamedObjectsAssumption ==
  /\ {MaxRuns, NUM, LINELENGTH, SIZE} \subseteq Nat
  /\ NUM > 0 /\ LINELENGTH > 1 /\ SIZE > LINELENGTH * NUM

Kinds == {"fifo", "shm", "posix"}

VARIABLES kind,
          wpc, rpc,    \* the writer and the reader: "none" when not running
          wruns, rruns,
          obj,         \* the object of that name; 0: none
          wobj, robj,  \* the object each of them has open
          mem,         \* its bytes; 0 is NUL, 1 a character, 2 a newline
          sem,         \* posix: the semaphore, MaxRuns + 1 when there is none
          wp, rp,      \* shm: shm_addr of the writer, next of the reader
          lines,       \* shm: what fgets() left in this run: <<characters, newline>>
          shown,       \* what the reader has printed
          clean,       \* shm: a whole run of the writer is in mem, and none has begun since
          fresh,       \* shm: clean ever since this run of the reader began
          killed,      \* the writer was killed during this run of the reader
          end          \* the reader's last end: "none", "ok", "empty", "exit1", "bus"

runVars == <<kind, wruns, rruns, killed>>
writerVars == <<wpc, wobj>>
readerVars == <<rpc, robj, shown, end>>
objVars == <<obj, mem, sem>>
shmVars == <<wp, rp, lines, clean, fresh>>
vars == <<runVars, writerVars, readerVars, objVars, shmVars>>

NoSem == MaxRuns + 1
Blank == [b \in 1..SIZE |-> 0]

\* Perhaps a FIFO that an earlier writer has left; the other objects are new.
Init ==
  /\ kind \in Kinds /\ wpc = "none" /\ rpc = "none" /\ wruns = 0 /\ rruns = 0
  /\ obj \in {0, (IF kind = "fifo" THEN 1 ELSE 0)} /\ wobj = 0 /\ robj = 0
  /\ mem = (IF kind = "fifo" THEN <<>> ELSE Blank) /\ sem = NoSem
  /\ wp = 1 /\ rp = 1 /\ lines = <<>> /\ shown = <<>> /\ clean = FALSE
  /\ fresh = FALSE /\ killed = FALSE /\ end = "none"

-----------------------------------------------------------------------------
(* Either program is started, or ends early: killed, or with exit(1) when  *)
(* a call has failed.                                                      *)

StartWriter ==
  /\ wpc = "none" /\ wruns < MaxRuns
  /\ wpc' = "open" /\ wruns' = wruns + 1 /\ wobj' = 0 /\ wp' = 1 /\ lines' = <<>>
  /\ clean' = FALSE /\ fresh' = FALSE
  /\ UNCHANGED <<kind, rruns, rp, killed, readerVars, objVars>>

StartReader ==
  /\ rpc = "none" /\ rruns < MaxRuns
  /\ rpc' = "open" /\ rruns' = rruns + 1 /\ robj' = 0 /\ rp' = 1 /\ shown' = <<>>
  /\ end' = "none" /\ fresh' = clean /\ killed' = FALSE
  /\ UNCHANGED <<kind, wruns, wp, lines, clean, writerVars, objVars>>

KillWriter ==
  /\ wpc # "none" /\ wpc' = "none" /\ wobj' = 0 /\ killed' = TRUE
  /\ UNCHANGED <<kind, wruns, rruns, readerVars, objVars, shmVars>>

KillReader ==
  /\ rpc # "none" /\ rpc' = "none" /\ robj' = 0
  /\ UNCHANGED <<shown, end, runVars, writerVars, objVars, shmVars>>

\* The end of the writer, and of the reader with its last word.
WriterEnds == wpc' = "none" /\ wobj' = 0
ReaderEnds(e) == rpc' = "none" /\ robj' = 0 /\ end' = e

-----------------------------------------------------------------------------
(* wr_fifo.c and rd_fifo.c.                                                *)

\* unlink() and mkfifo(): a FIFO of its own, on which open() waits for a reader.
Mkfifo ==
  /\ kind = "fifo" /\ wpc = "open"
  /\ obj' = wruns + 1 /\ wobj' = wruns + 1 /\ wpc' = "wait"
  /\ UNCHANGED <<mem, sem, runVars, readerVars, shmVars>>

\* Mutant of OpenFifo: open() does not wait for a writer.
OpenFifo_NonBlock ==
  /\ kind = "fifo" /\ rpc = "open"
  /\ IF obj = 0 THEN ReaderEnds("exit1") ELSE rpc' = "read" /\ robj' = obj /\ UNCHANGED end
  /\ UNCHANGED <<shown, runVars, writerVars, objVars, shmVars>>

\* open(myfifo, O_RDONLY) of whatever has the name now, waiting for a writer of it.
OpenFifo ==
  /\ kind = "fifo" /\ rpc = "open"
  /\ IF obj = 0 THEN ReaderEnds("exit1") ELSE rpc' = "wait" /\ robj' = obj /\ UNCHANGED end
  /\ UNCHANGED <<shown, runVars, writerVars, objVars, shmVars>>

\* Both have it open: both calls of open() return.
Meet ==
  /\ kind = "fifo" /\ wpc = "wait" /\ rpc = "wait" /\ wobj = robj
  /\ wpc' = "write" /\ rpc' = "read" /\ mem' = <<>>
  /\ UNCHANGED <<obj, wobj, robj, sem, shown, end, runVars, shmVars>>

\* write() and close(); without the reader, SIGPIPE ends the writer.
WriteFifo ==
  /\ kind = "fifo" /\ wpc = "write"
  /\ mem' = IF rpc = "read" /\ robj = wobj THEN <<1>> ELSE mem
  /\ WriterEnds
  /\ UNCHANGED <<obj, sem, runVars, readerVars, shmVars>>

\* read(): the message, or end of file when the writer is gone without it.
ReadFifo ==
  /\ kind = "fifo" /\ rpc = "read" /\ (mem # <<>> \/ wobj # robj)
  /\ shown' = mem /\ mem' = <<>> /\ ReaderEnds(IF mem = <<>> THEN "empty" ELSE "ok")
  /\ UNCHANGED <<obj, sem, runVars, writerVars, shmVars>>

-----------------------------------------------------------------------------
(* shm1_w.c and shm1_r.c.                                                  *)

\* strlen() of the string at p: the segment is zero beyond what was written.
strlen(p) == (CHOOSE b \in p..SIZE : mem[b] = 0 /\ \A c \in p..(b - 1) : mem[c] # 0) - p

\* shmget() creates the segment or finds it, and shmat().
ShmgetW ==
  /\ kind = "shm" /\ wpc = "open"
  /\ obj' = 1 /\ wobj' = 1 /\ wpc' = "fgets"
  /\ UNCHANGED <<mem, sem, runVars, readerVars, shmVars>>

\* fgets() into the segment: len characters and the newline, or without one a part
\* of a line that is too long, or a last line that has none.
FgetsShm(len, nl) ==
  /\ kind = "shm" /\ wpc = "fgets"
  /\ LET bytes == IF nl THEN len + 1 ELSE len IN
       /\ bytes \in 1..(LINELENGTH - 1)
       /\ mem' = [b \in 1..SIZE |-> IF b \in wp..(wp + len - 1) THEN 1
                                    ELSE IF b = wp + bytes THEN 0
                                    ELSE IF b = wp + len THEN 2 ELSE mem[b]]
  /\ lines' = Append(lines, <<len, nl>>) /\ wpc' = "strip"
  /\ UNCHANGED <<obj, wobj, sem, wp, rp, clean, fresh, runVars, readerVars>>

\* fgets() fails: what is in the segment stays, and the loop goes on.
FgetsEof ==
  /\ kind = "shm" /\ wpc = "fgets"
  /\ lines' = Append(lines, <<strlen(wp), FALSE>>) /\ wpc' = "strip"
  /\ UNCHANGED <<wobj, wp, rp, clean, fresh, runVars, readerVars, objVars>>

\* Mutant of Strip: the newline stays.
Strip_Not ==
  /\ kind = "shm" /\ wpc = "strip"
  /\ wp' = wp + strlen(wp) /\ clean' = (Len(lines) = NUM)
  /\ IF Len(lines) = NUM THEN WriterEnds ELSE wpc' = "fgets" /\ UNCHANGED wobj
  /\ UNCHANGED <<rp, lines, fresh, runVars, readerVars, objVars>>

\* The last character, a newline or not, becomes the end of the string, and shm_addr
\* moves past it.  After a failed fgets() there may be none: the byte before shm_addr
\* is cleared, the NUL of the string before, or a byte in front of the segment.
Strip ==
  /\ kind = "shm" /\ wpc = "strip"
  /\ LET k == strlen(wp) IN
       \/ /\ k = 0 /\ wp = 1 /\ WriterEnds
          /\ UNCHANGED <<mem, wp, clean>>
       \/ /\ mem' = (IF k = 0 THEN mem ELSE [mem EXCEPT ![wp + k - 1] = 0])
          /\ wp' = wp + (IF k = 0 THEN 1 ELSE k) /\ clean' = (Len(lines) = NUM)
          /\ IF Len(lines) = NUM THEN WriterEnds ELSE wpc' = "fgets" /\ UNCHANGED wobj
  /\ UNCHANGED <<obj, sem, rp, lines, fresh, runVars, readerVars>>

\* shmget() without IPC_CREAT: the segment must be there.
ShmgetR ==
  /\ kind = "shm" /\ rpc = "open"
  /\ IF obj = 0 THEN ReaderEnds("exit1") ELSE rpc' = "puts" /\ robj' = 1 /\ UNCHANGED end
  /\ UNCHANGED <<shown, runVars, writerVars, objVars, shmVars>>

\* puts() of one string; after the last, pause() until SIGINT, and shmdt().
Puts ==
  /\ kind = "shm" /\ rpc = "puts"
  /\ shown' = Append(shown, strlen(rp)) /\ rp' = rp + strlen(rp) + 1
  /\ IF Len(shown) + 1 = NUM THEN ReaderEnds("ok") ELSE UNCHANGED <<rpc, robj, end>>
  /\ UNCHANGED <<wp, lines, clean, fresh, runVars, writerVars, objVars>>

-----------------------------------------------------------------------------
(* writer.c and reader.c.  obj is 1 while the object has size 0.           *)

\* shm_open(O_CREAT), and ftruncate() as a step of its own.
ShmOpenW ==
  /\ kind = "posix" /\ wpc = "open"
  /\ obj' = (IF obj = 0 THEN 1 ELSE obj) /\ wobj' = 1 /\ wpc' = "truncate"
  /\ UNCHANGED <<mem, sem, runVars, readerVars, shmVars>>

Ftruncate ==
  /\ kind = "posix" /\ wpc = "truncate"
  /\ obj' = 2 /\ wpc' = "sem"
  /\ UNCHANGED <<wobj, mem, sem, runVars, readerVars, shmVars>>

\* sem_open(O_CREAT, 0): 0 when it is new, else what earlier runs have left.
SemOpenW ==
  /\ kind = "posix" /\ wpc = "sem"
  /\ sem' = (IF sem = NoSem THEN 0 ELSE sem) /\ wpc' = "write"
  /\ UNCHANGED <<obj, wobj, mem, runVars, readerVars, shmVars>>

\* Mutant of Sprintf: the semaphore is posted first.
Sprintf_PostFirst ==
  /\ kind = "posix" /\ wpc = "write"
  /\ wpc' = "post" /\ sem' = sem + 1
  /\ UNCHANGED <<obj, wobj, mem, runVars, readerVars, shmVars>>

\* The message is copied to the memory.
Sprintf ==
  /\ kind = "posix" /\ wpc = "write"
  /\ wpc' = "post" /\ mem' = [mem EXCEPT ![1] = 1]
  /\ UNCHANGED <<obj, wobj, sem, runVars, readerVars, shmVars>>

\* sem_post(), and the end.
SemPost ==
  /\ kind = "posix" /\ wpc = "post"
  /\ sem' = sem + 1 /\ WriterEnds
  /\ UNCHANGED <<obj, mem, runVars, readerVars, shmVars>>

\* shm_open() and mmap(), which succeed for an object of size 0 too.
ShmOpenR ==
  /\ kind = "posix" /\ rpc = "open"
  /\ IF obj = 0 THEN ReaderEnds("exit1") ELSE rpc' = "sem" /\ robj' = 1 /\ UNCHANGED end
  /\ UNCHANGED <<shown, runVars, writerVars, objVars, shmVars>>

\* sem_open(O_CREAT | O_EXCL, 0), or of the one that exists.
SemOpenR ==
  /\ kind = "posix" /\ rpc = "sem"
  /\ sem' = (IF sem = NoSem THEN 0 ELSE sem) /\ rpc' = "wait"
  /\ UNCHANGED <<obj, robj, mem, shown, end, runVars, writerVars, shmVars>>


SemWait ==
  /\ kind = "posix" /\ rpc = "wait" /\ sem > 0
  /\ sem' = sem - 1 /\ rpc' = "print"
  /\ UNCHANGED <<obj, robj, mem, shown, end, runVars, writerVars, shmVars>>

\* printf() of the mapped memory: SIGBUS while the object has size 0.
ReadShm ==
  /\ kind = "posix" /\ rpc = "print"
  /\ shown' = <<mem[1]>> /\ ReaderEnds(IF obj = 1 THEN "bus" ELSE IF mem[1] = 1 THEN "ok" ELSE "empty")
  /\ UNCHANGED <<runVars, writerVars, objVars, shmVars>>

-----------------------------------------------------------------------------
\* The programs.
wr_fifo == Mkfifo \/ WriteFifo
rd_fifo == OpenFifo \/ Meet \/ ReadFifo
shm1_w == ShmgetW \/ FgetsEof \/ Strip
          \/ \E len \in 0..(LINELENGTH - 1), nl \in BOOLEAN : FgetsShm(len, nl)
shm1_r == ShmgetR \/ Puts
writer == ShmOpenW \/ Ftruncate \/ SemOpenW \/ Sprintf \/ SemPost
reader == ShmOpenR \/ SemOpenR \/ SemWait \/ ReadShm

Program == wr_fifo \/ rd_fifo \/ shm1_w \/ shm1_r \/ writer \/ reader

Next == Program \/ StartWriter \/ StartReader \/ KillWriter \/ KillReader

Spec == Init /\ [][Next]_vars

-----------------------------------------------------------------------------
(* Properties.                                                             *)

\* Every variable has its type.
TypeOK ==
  /\ kind \in Kinds
  /\ wpc \in {"none", "open", "wait", "write", "fgets", "strip", "truncate", "sem", "post"}
  /\ rpc \in {"none", "open", "wait", "read", "puts", "sem", "print"}
  /\ wruns \in 0..MaxRuns /\ rruns \in 0..MaxRuns /\ sem \in 0..NoSem
  /\ obj \in 0..(MaxRuns + 1) /\ end \in {"none", "ok", "empty", "exit1", "bus"}

\* posix: whatever was killed or left over, a reader that gets past the semaphore
\* finds the message, in memory that is there.  fifo: a reader that gets past open()
\* gets the message, unless the writer is killed.
MessageThere ==
  /\ kind = "posix" => end \in {"none", "ok", "exit1"} /\ (sem \in 1..MaxRuns => mem[1] = 1 /\ obj = 2)
  /\ kind = "fifo" => end # "empty" \/ killed

\* What is left of a line: all of it, or, where there was no newline to remove, all
\* but its last character.
Kept(line) == IF line[2] \/ line[1] = 0 THEN line[1] ELSE line[1] - 1

\* shm: a reader that runs after a whole run of the writer prints the lines of that
\* run, whatever was in the segment before, except that a line of LINELENGTH - 1 or
\* more characters and a last line without newline lose a character ("rm trailing
\* \n" of shm1_w.c removes whatever is last); no string leads out of the segment.
LinesPrinted ==
  kind = "shm" =>
    /\ wp <= SIZE /\ rp <= SIZE
    /\ fresh => \A k \in 1..Len(shown) : shown[k] = Kept(lines[k])

\* Both programs are there and wait on the same object: they go on.
Meeting == kind = "fifo" /\ wpc = "wait" /\ rpc = "wait" /\ wobj = robj
\* A unit is there for the reader that waits.
Posted == kind = "posix" /\ rpc = "wait" /\ sem > 0
=============================================================================
