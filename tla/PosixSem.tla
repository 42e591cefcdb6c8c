------------------------------ MODULE PosixSem -------------------------------
(***************************************************************************)
(* Two programs whose parent and child use a named POSIX semaphore.        *)
(* named_sem_demo.c: they take turns, by a semaphore that begins at 1, to  *)
(* open output.txt, append a line and close it ("lock").                   *)
(* appdemo_shm_sem_as_mtx.c: they write overlapping parts of a shared      *)
(* memory region, chunk by chunk; with use_mtx the child starts when the   *)
(* parent has posted a semaphore that begins at 0 ("order"), without they  *)
(* race ("race").                                                          *)
(***************************************************************************)
EXTENDS Integers, Sequences

CONSTANTS Rounds,   \* lock: turns of the loop (5 in the code)
          LEN,      \* region: where the child begins to write
          Times,    \* region: each of the two writes Times * LEN bytes (10 in the code)
          Chunk     \* region: chunk_sz

\* The values the constants may have.
PosixSemAssumption ==
  /\ Rounds \in Nat \ {0}
  /\ LEN \in Nat \ {0} /\ Times \in Nat \ {0} /\ Chunk \in Nat \ {0}

Procs == {"p", "c"}

\* The arguments of the two calls of update_udata().
Offset == [p |-> 0, c |-> LEN]
Total  == Times * LEN
Size   == LEN + Total + Chunk     \* beyond what is written, as MEMSIZE is

VARIABLES kind,     \* "lock", "order" or "race"
          sem,      \* value of the semaphore
          named,    \* SEM_NAME exists
          out,      \* the lines of output.txt: who wrote each
          udata,    \* p_udata: who wrote each byte last, "0" if nobody
          pc,       \* where parent and child are
          i,        \* the loop counter of each
          k         \* bytes of the current memset() written

vars == <<kind, sem, named, out, udata, pc, i, k>>

\* The value that sem_open() is given.
StartValue == IF kind = "lock" THEN 1 ELSE 0

\* From the return of sem_open(): the programs begin afresh, whatever an earlier
\* run has left.
Init ==
  /\ kind \in {"lock", "order", "race"}
  /\ sem = StartValue /\ named = TRUE /\ out = <<>>
  /\ udata = [b \in 0..(Size - 1) |-> "0"]
  /\ pc = [p |-> "fork", c |-> "none"]
  /\ i = [q \in Procs |-> 0] /\ k = [q \in Procs |-> 0]

\* What each process does first.
AfterFork(q) ==
  IF kind = "lock" \/ (kind = "order" /\ q = "c") THEN "sem_wait" ELSE "update"

Fork ==
  /\ pc.p = "fork"
  /\ pc' = [q \in Procs |-> AfterFork(q)]
  /\ UNCHANGED <<kind, sem, named, out, udata, i, k>>

\* exit(1); appdemo_shm_sem_as_mtx.c leaves the name.
ForkFails ==
  /\ pc.p = "fork"
  /\ named' = (kind # "lock")
  /\ pc' = [pc EXCEPT !.p = "exit"]
  /\ UNCHANGED <<kind, sem, out, udata, i, k>>

\* Mutant of SemWait: the result of sem_trywait() is not looked at.
SemWait_Try(q) ==
  /\ pc[q] = "sem_wait"
  /\ sem' = IF sem > 0 THEN sem - 1 ELSE 0
  /\ pc' = [pc EXCEPT ![q] = IF kind = "lock" THEN "fopen" ELSE "update"]
  /\ UNCHANGED <<kind, named, out, udata, i, k>>

SemWait(q) ==
  /\ pc[q] = "sem_wait" /\ sem > 0
  /\ sem' = sem - 1
  /\ pc' = [pc EXCEPT ![q] = IF kind = "lock" THEN "fopen" ELSE "update"]
  /\ UNCHANGED <<kind, named, out, udata, i, k>>

-----------------------------------------------------------------------------
(* write_to_file()                                                         *)

Fopen(q) ==
  /\ pc[q] = "fopen"
  /\ pc' = [pc EXCEPT ![q] = "fclose"]
  /\ UNCHANGED <<kind, sem, named, out, udata, i, k>>

\* write_to_file() exits, with the lock.
FopenFails(q) ==
  /\ pc[q] = "fopen"
  /\ pc' = [pc EXCEPT ![q] = "failed"]
  /\ UNCHANGED <<kind, sem, named, out, udata, i, k>>

\* The line gets to the end of the file (mode "a") when fclose() flushes it.
Fclose(q) ==
  /\ pc[q] = "fclose"
  /\ out' = Append(out, q)
  /\ pc' = [pc EXCEPT ![q] = "sem_post"]
  /\ UNCHANGED <<kind, sem, named, udata, i, k>>

-----------------------------------------------------------------------------
(* update_udata()                                                          *)

\* What follows update_udata().
AfterUpdate(q) ==
  IF q = "c" THEN "exit" ELSE IF kind = "order" THEN "sem_post" ELSE "wait"

\* One byte of a memset(): of chunk i, or of the remainder after the last chunk.
\* Where both write, each byte is a race of its own.
UpdateByte(q) ==
  LET at   == Offset[q] + i[q] * Chunk + k[q]
      last == k[q] + 1 = Chunk
  IN  /\ pc[q] = "update" /\ (i[q] = Total \div Chunk => k[q] < Total % Chunk)
      /\ udata' = [udata EXCEPT ![at] = q]
      /\ i' = IF last THEN [i EXCEPT ![q] = @ + 1] ELSE i
      /\ k' = [k EXCEPT ![q] = IF last THEN 0 ELSE @ + 1]
      /\ UNCHANGED <<kind, sem, named, out, pc>>

\* Mutant of UpdateEnds: the remainder is not written.
UpdateEnds_NoRest(q) ==
  /\ pc[q] = "update" /\ i[q] = Total \div Chunk
  /\ pc' = [pc EXCEPT ![q] = AfterUpdate(q)]
  /\ UNCHANGED <<kind, sem, named, out, udata, i, k>>

UpdateEnds(q) ==
  /\ pc[q] = "update" /\ i[q] = Total \div Chunk /\ k[q] = Total % Chunk
  /\ pc' = [pc EXCEPT ![q] = AfterUpdate(q)]
  /\ UNCHANGED <<kind, sem, named, out, udata, i, k>>

-----------------------------------------------------------------------------
\* What follows sem_post(): the next turn, or the end.
AfterPost(q) ==
  IF kind = "lock" /\ i[q] + 1 < Rounds
    THEN "sem_wait"
    ELSE IF q = "p" THEN "wait" ELSE "exit"

\* Mutant of SemPost: the lock is not given back after the last turn.
SemPost_NotLast(q) ==
  /\ pc[q] = "sem_post"
  /\ sem' = IF AfterPost(q) = "sem_wait" THEN sem + 1 ELSE sem
  /\ i' = IF kind = "lock" THEN [i EXCEPT ![q] = @ + 1] ELSE i
  /\ pc' = [pc EXCEPT ![q] = AfterPost(q)]
  /\ UNCHANGED <<kind, named, out, udata, k>>

SemPost(q) ==
  /\ pc[q] = "sem_post"
  /\ sem' = sem + 1
  /\ i' = IF kind = "lock" THEN [i EXCEPT ![q] = @ + 1] ELSE i
  /\ pc' = [pc EXCEPT ![q] = AfterPost(q)]
  /\ UNCHANGED <<kind, named, out, udata, k>>

\* wait(0), then the name of the semaphore is removed.
WaitChild ==
  /\ pc.p = "wait" /\ pc.c \in {"exit", "failed"}
  /\ named' = FALSE
  /\ pc' = [pc EXCEPT !.p = "exit"]
  /\ UNCHANGED <<kind, sem, out, udata, i, k>>

Proc(q) ==
  \/ SemWait(q) \/ SemPost(q)
  \/ Fopen(q) \/ FopenFails(q) \/ Fclose(q)
  \/ UpdateByte(q) \/ UpdateEnds(q)

Next == Fork \/ ForkFails \/ WaitChild \/ \E q \in Procs : Proc(q)

Spec == Init /\ [][Next]_vars
-----------------------------------------------------------------------------
(* Properties.                                                             *)

Writing == {"fopen", "fclose", "sem_post"}

TypeOK ==
  /\ kind \in {"lock", "order", "race"} /\ sem \in 0..1 /\ named \in BOOLEAN
  /\ out \in Seq(Procs) /\ udata \in [0..(Size - 1) -> {"0", "p", "c"}]
  /\ pc \in [Procs -> Writing \cup
                     {"none", "fork", "sem_wait", "update", "wait", "exit", "failed"}]
  /\ i \in [Procs -> 0..(IF kind = "lock" THEN Rounds ELSE Total \div Chunk)]
  /\ k \in [Procs -> 0..(Chunk - 1)]

\* One of the two works on output.txt at a time, and the semaphore counts the
\* one inside, or the one that exited inside and took the lock with it.  With the
\* semaphore of the region the two are never in update_udata() together.
OneInside ==
  /\ kind = "lock" =>
       \A q, r \in Procs :
          pc[q] \in Writing /\ r # q =>
            pc[r] \notin Writing \cup {"failed"} /\ sem = 0
  /\ kind = "order" => ~(pc.p = "update" /\ pc.c = "update")

\* What hexdump shows in "1. Correct way" of the file's head.
Expected(b) ==
  CASE b < LEN -> "p"
    [] b \in LEN..(LEN + Total - 1) -> "c"
    [] OTHER -> "0"

\* When both are through, what the semaphore orders is there whole: 'p' up to
\* LEN, 'c' for the next 10 * LEN bytes, nothing beyond.  Without the semaphore
\* the bytes only one of them writes, and those beyond, still are as expected.
RegionAsExpected ==
  kind # "lock" /\ pc = [q \in Procs |-> "exit"] =>
     \A b \in DOMAIN udata :
        \/ udata[b] = Expected(b)
        \/ kind = "race" /\ b \in LEN..(Total - 1) /\ udata[b] = "p"

\* The file has the lines of both, all of them: as many of each as the turns it
\* has closed the file in.
LinesKept ==
  kind = "lock" =>
    \A q \in Procs :
       Len(SelectSeq(out, LAMBDA w : w = q))
          = i[q] + (IF pc[q] = "sem_post" THEN 1 ELSE 0)

\* Both have ended, or one of them failed to open the file: its peer then waits
\* for a post that does not come, and the name stays.
BothEnded ==
  \/ pc.p = "exit" /\ pc.c \in {"none", "exit"} /\ (kind = "lock" => ~named)
  \/ \E q \in Procs : pc[q] = "failed"
=============================================================================
