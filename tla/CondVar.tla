------------------------------ MODULE CondVar -------------------------------
(***************************************************************************)
(* pthreads/llnl-tut-prgs/pt4-condvar.c: two worker threads increment a    *)
(* counter, a third thread waits on a condition variable until it reaches  *)
(* COUNT_LIMIT.  The worker that makes it equal to COUNT_LIMIT signals,    *)
(* once, while it holds the mutex.                                         *)
(***************************************************************************)
EXTENDS Naturals

CONSTANTS TCount,      \* TCOUNT, the increments of each worker
          CountLimit,  \* COUNT_LIMIT
          Nobody       \* count_mutex is free

\* The values the constants may have.
CondVarAssumption ==
  /\ TCount \in Nat /\ CountLimit \in Nat
  /\ Nobody \notin Nat

Workers == {0, 1}
Watcher == 2
Threads == Workers \cup {Watcher}

VARIABLES count,        \* the shared counter
          count_mutex,  \* its owner
          pc,           \* where each thread is
          i,            \* loop counter of each worker
          tmp,          \* count as a worker has read it in count++
          joined        \* number of threads main() has joined

vars == <<count, count_mutex, pc, i, tmp, joined>>

Init ==
  /\ count = 0 /\ count_mutex = Nobody
  /\ pc = [t \in Threads |-> "none"]
  /\ i = [w \in Workers |-> 0]
  /\ tmp = [w \in Workers |-> 0]
  /\ joined = 0

Go(t, from, to) == pc[t] = from /\ pc' = [pc EXCEPT ![t] = to]

\* pthread_mutex_lock(), also the one inside pthread_cond_wait().
Lock(t, from, to) ==
  /\ Go(t, from, to)
  /\ count_mutex = Nobody
  /\ count_mutex' = t

-----------------------------------------------------------------------------
(* inc_count(), with i < TCOUNT tested at "loop".                          *)

\* Mutant of IncLock: count++ outside the mutex.
IncLock_None(w) ==
  /\ i[w] < TCount
  /\ Go(w, "loop", "read")
  /\ UNCHANGED <<count, count_mutex, i, tmp, joined>>

IncLock(w) ==
  /\ i[w] < TCount
  /\ Lock(w, "loop", "read")
  /\ UNCHANGED <<count, i, tmp, joined>>

\* count++ is a load and a store.
ReadCount(w) ==
  /\ Go(w, "read", "write")
  /\ tmp' = [tmp EXCEPT ![w] = count]
  /\ UNCHANGED <<count, count_mutex, i, joined>>

WriteCount(w) ==
  /\ Go(w, "write", "signal")
  /\ count' = tmp[w] + 1
  /\ i' = [i EXCEPT ![w] = @ + 1]
  /\ UNCHANGED <<count_mutex, tmp, joined>>

\* Mutant of Signal: the test is count > COUNT_LIMIT.
Signal_OffByOne(w) ==
  /\ pc[w] = "signal"
  /\ pc' = [pc EXCEPT ![w] = "unlock",
                      ![Watcher] = IF count = CountLimit + 1 /\ @ = "waiting"
                                     THEN "woken" ELSE @]
  /\ UNCHANGED <<count, count_mutex, i, tmp, joined>>

\* pthread_cond_signal() when count is COUNT_LIMIT: it wakes the watcher if it
\* waits, and is lost otherwise.
Signal(w) ==
  /\ pc[w] = "signal"
  /\ pc' = [pc EXCEPT ![w] = "unlock",
                      ![Watcher] = IF count = CountLimit /\ @ = "waiting"
                                     THEN "woken" ELSE @]
  /\ UNCHANGED <<count, count_mutex, i, tmp, joined>>

Unlock(w) ==
  /\ Go(w, "unlock", "loop")
  /\ count_mutex' = Nobody
  /\ UNCHANGED <<count, i, tmp, joined>>

IncExit(w) ==
  /\ i[w] >= TCount
  /\ Go(w, "loop", "exited")
  /\ UNCHANGED <<count, count_mutex, i, tmp, joined>>

inc_count(w) ==
  \/ IncLock(w) \/ ReadCount(w) \/ WriteCount(w) \/ Signal(w) \/ Unlock(w) \/ IncExit(w)

-----------------------------------------------------------------------------
(* watch_count().                                                          *)

WatchLock ==
  /\ Lock(Watcher, "loop", "test")
  /\ UNCHANGED <<count, i, tmp, joined>>

\* Mutant of CondWait: the wait does not release the mutex.
CondWait_Holds ==
  /\ Go(Watcher, "test", "waiting")
  /\ count < CountLimit
  /\ UNCHANGED <<count, count_mutex, i, tmp, joined>>

\* pthread_cond_wait() releases the mutex and waits, in one step.
CondWait ==
  /\ Go(Watcher, "test", "waiting")
  /\ count < CountLimit
  /\ count_mutex' = Nobody
  /\ UNCHANGED <<count, i, tmp, joined>>

\* It may also return without a signal.
SpuriousWakeup ==
  /\ Go(Watcher, "waiting", "woken")
  /\ UNCHANGED <<count, count_mutex, i, tmp, joined>>

\* Mutant of Woken: an if in place of the while.
Woken_If ==
  /\ Lock(Watcher, "woken", "unlock")
  /\ UNCHANGED <<count, i, tmp, joined>>

\* It returns with the mutex, and the loop tests again.
Woken ==
  /\ Lock(Watcher, "woken", "test")
  /\ UNCHANGED <<count, i, tmp, joined>>

LoopDone ==
  /\ Go(Watcher, "test", "unlock")
  /\ count >= CountLimit
  /\ UNCHANGED <<count, count_mutex, i, tmp, joined>>

WatchUnlock ==
  /\ Go(Watcher, "unlock", "exited")
  /\ count_mutex' = Nobody
  /\ UNCHANGED <<count, i, tmp, joined>>

watch_count ==
  WatchLock \/ CondWait \/ Woken \/ LoopDone \/ WatchUnlock

-----------------------------------------------------------------------------
(* main() creates the threads in order, then joins them in order.          *)

Create(t) ==
  /\ \A u \in Threads : u < t => pc[u] # "none"
  /\ Go(t, "none", "loop")
  /\ UNCHANGED <<count, count_mutex, i, tmp, joined>>

Join(t) ==
  /\ joined = t
  /\ \A u \in Threads : pc[u] # "none"
  /\ pc[t] = "exited"
  /\ joined' = t + 1
  /\ UNCHANGED <<count, count_mutex, pc, i, tmp>>

Main == \E t \in Threads : Create(t) \/ Join(t)

Next == Main \/ (\E w \in Workers : inc_count(w)) \/ watch_count \/ SpuriousWakeup

Spec == Init /\ [][Next]_vars

-----------------------------------------------------------------------------
(* Properties.                                                             *)

\* Every variable has its type.
TypeOK ==
  /\ count \in Nat
  /\ count_mutex \in Threads \cup {Nobody}
  /\ pc \in [Threads -> {"none", "loop", "read", "write", "signal", "unlock",
                         "test", "waiting", "woken", "exited"}]
  /\ i \in [Workers -> 0..TCount] /\ tmp \in [Workers -> Nat]
  /\ joined \in 0..3

\* Who is between lock and unlock owns the mutex.
Inside == {"read", "write", "signal", "unlock", "test"}
InsideOwns == \A t \in Threads : pc[t] \in Inside => count_mutex = t

\* What a worker read is still the value of the counter when it writes.
FreshRead == \A w \in Workers : pc[w] = "write" => tmp[w] = count

\* No increment is lost: the counter is what the workers have added.
CountExact == count = i[0] + i[1]

\* No wake-up is missed: while the watcher waits, the limit is not reached, or
\* the worker that reached it is about to signal (the test is for equality,
\* inc_count() pt4-condvar.c:36, and only one worker ever sees it true).
NoMissedSignal ==
  pc[Watcher] = "waiting" =>
    \/ count < CountLimit
    \/ (count = CountLimit /\ \E w \in Workers : pc[w] = "signal")

\* The watcher leaves its loop only when the condition holds, also after a
\* spurious wake-up.
WatcherSawLimit == pc[Watcher] \in {"unlock", "exited"} => count >= CountLimit

\* "the loop will be skipped to prevent pthread_cond_wait from never returning"
\* (pt4-condvar.c:64-66): if the workers can reach the limit at all, main()
\* joins every thread.
Ended == 2 * TCount >= CountLimit => joined = 3
=============================================================================
