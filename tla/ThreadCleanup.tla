---------------------------- MODULE ThreadCleanup ----------------------------
(***************************************************************************)
(* tlpi_code_cancel_cleanup/thread_cleanup.c: a thread that holds a mutex  *)
(* and a buffer waits on a condition variable; main() cancels it or        *)
(* signals the condition.  The cleanup handler frees the buffer and        *)
(* unlocks the mutex on either way out.                                    *)
(***************************************************************************)
EXTENDS Integers

CONSTANT MaxSpurious    \* bound on spurious wake-ups

\* The values the constants may have.
ThreadCleanupAssumption == MaxSpurious \in Nat

VARIABLES mode,      \* "cancel" (argc = 1) or "signal"
          main,      \* what main() does next
          pc,        \* what the thread does next
          mtx,       \* owner of the mutex: "main", "thread" or "free"
          glob,      \* the predicate
          waiting,   \* the thread is blocked on the condition
          cancel,    \* a cancellation is pending
          frees,     \* how often the buffer was freed
          spurious

vars == <<mode, main, pc, mtx, glob, waiting, cancel, frees, spurious>>

Init ==
  /\ mode \in {"cancel", "signal"} /\ main = "create" /\ pc = "none"
  /\ mtx = "free" /\ glob = 0 /\ waiting = FALSE /\ cancel = FALSE
  /\ frees = 0 /\ spurious = 0

Gone == {"returned", "canceled", "canceled_early"}

-----------------------------------------------------------------------------
(* main().  A failed call ends the process (fatalError).                   *)

Create ==
  /\ main = "create"
  /\ \/ main' = mode /\ pc' = "allocated"
     \/ main' = "fatal" /\ UNCHANGED pc
  /\ UNCHANGED <<mode, mtx, glob, waiting, cancel, frees, spurious>>

Cancel ==
  /\ main = "cancel" /\ cancel' = TRUE /\ main' = "join"
  /\ UNCHANGED <<mode, pc, mtx, glob, waiting, frees, spurious>>

\* Mutant of SetGlob: the predicate is set without the mutex.
SetGlob_Unlocked ==
  /\ main = "signal" /\ glob' = 1 /\ main' = "wake"
  /\ UNCHANGED <<mode, pc, mtx, waiting, cancel, frees, spurious>>

SetGlob ==
  /\ main = "signal" /\ mtx = "free"
  /\ mtx' = "main" /\ glob' = 1 /\ main' = "unlock"
  /\ UNCHANGED <<mode, pc, waiting, cancel, frees, spurious>>

Unlock ==
  /\ main = "unlock" /\ mtx' = "free" /\ main' = "wake"
  /\ UNCHANGED <<mode, pc, glob, waiting, cancel, frees, spurious>>

\* Mutant of Signal: no signal.
Signal_No ==
  /\ main = "wake" /\ main' = "join"
  /\ UNCHANGED <<mode, pc, mtx, glob, waiting, cancel, frees, spurious>>

Signal ==
  /\ main = "wake" /\ waiting' = FALSE /\ main' = "join"
  /\ UNCHANGED <<mode, pc, mtx, glob, cancel, frees, spurious>>

Join ==
  /\ main = "join" /\ pc \in Gone /\ main' = "exit"
  /\ UNCHANGED <<mode, pc, mtx, glob, waiting, cancel, frees, spurious>>

-----------------------------------------------------------------------------
(* threadFunc().                                                           *)

\* printf() may be a cancellation point: here, before the push, it takes the
\* thread away without its handler.
PrintAddress ==
  /\ main # "fatal" /\ pc = "allocated"
  /\ \/ pc' = "lock"
     \/ cancel /\ pc' = "canceled_early"
  /\ UNCHANGED <<mode, main, mtx, glob, waiting, cancel, frees, spurious>>

\* pthread_mutex_lock() and pthread_cleanup_push(): no cancellation point.
Lock ==
  /\ pc = "lock" /\ mtx = "free"
  /\ mtx' = "thread" /\ pc' = "test"
  /\ UNCHANGED <<mode, main, glob, waiting, cancel, frees, spurious>>

\* while (glob == 0); after the loop, printf() and pthread_cleanup_pop(1).
Test ==
  /\ pc = "test" /\ pc' = IF glob = 0 THEN "block" ELSE "handler"
  /\ UNCHANGED <<mode, main, mtx, glob, waiting, cancel, frees, spurious>>

\* pthread_cond_wait() releases the mutex and waits in one step.
Wait ==
  /\ pc = "block"
  /\ mtx' = "free" /\ waiting' = TRUE /\ pc' = "wait"
  /\ UNCHANGED <<mode, main, glob, cancel, frees, spurious>>

\* A wake-up no signal caused.
SpuriousWake ==
  /\ pc = "wait" /\ waiting /\ spurious < MaxSpurious
  /\ waiting' = FALSE /\ spurious' = spurious + 1
  /\ UNCHANGED <<mode, main, pc, mtx, glob, cancel, frees>>

\* pthread_cond_wait() returns, with the mutex.
Woken ==
  /\ pc = "wait" /\ ~waiting /\ mtx = "free"
  /\ mtx' = "thread" /\ pc' = "test"
  /\ UNCHANGED <<mode, main, glob, waiting, cancel, frees, spurious>>

\* Mutant of CanceledWait: the mutex is not taken again before the handler.
CanceledWait_Unlocked ==
  /\ pc = "wait" /\ cancel
  /\ pc' = "handler" /\ waiting' = FALSE
  /\ UNCHANGED <<mode, main, mtx, glob, cancel, frees, spurious>>

\* A thread cancelled in pthread_cond_wait() has the mutex when its handler runs.
CanceledWait ==
  /\ pc = "wait" /\ cancel /\ mtx = "free"
  /\ mtx' = "thread" /\ pc' = "handler" /\ waiting' = FALSE
  /\ UNCHANGED <<mode, main, glob, cancel, frees, spurious>>

\* Mutant of cleanupHandler: pthread_cleanup_pop(0).
cleanupHandler_Pop0 ==
  /\ pc = "handler"
  /\ IF cancel THEN frees' = frees + 1 /\ mtx' = "free" ELSE UNCHANGED <<frees, mtx>>
  /\ pc' = IF cancel THEN "canceled" ELSE "returned"
  /\ UNCHANGED <<mode, main, glob, waiting, cancel, spurious>>

\* free() and pthread_mutex_unlock(); the thread ends.
cleanupHandler ==
  /\ pc = "handler"
  /\ frees' = frees + 1 /\ mtx' = "free"
  /\ pc' = IF cancel THEN "canceled" ELSE "returned"
  /\ UNCHANGED <<mode, main, glob, waiting, cancel, spurious>>

threadFunc == PrintAddress \/ Lock \/ Test \/ Wait \/ Woken \/ CanceledWait \/ cleanupHandler

Main == Create \/ Cancel \/ SetGlob \/ Unlock \/ Signal \/ Join

Next == Main \/ threadFunc \/ SpuriousWake

Spec == Init /\ [][Next]_vars

-----------------------------------------------------------------------------
(* Properties.                                                             *)

\* Every variable has its type.
TypeOK ==
  /\ mode \in {"cancel", "signal"}
  /\ main \in {"create", "cancel", "signal", "unlock", "wake", "join", "exit", "fatal"}
  /\ pc \in {"none", "allocated", "lock", "test", "block", "wait", "handler"} \cup Gone
  /\ mtx \in {"main", "thread", "free"} /\ glob \in 0..1
  /\ waiting \in BOOLEAN /\ cancel \in BOOLEAN
  /\ frees \in 0..1 /\ spurious \in 0..MaxSpurious

\* Whatever way the thread ends, it leaves the mutex unlocked, and only it
\* unlocks what it has locked: the handler runs with the mutex held.
MutexReleased ==
  /\ pc = "handler" => mtx = "thread"
  /\ pc \in Gone => mtx # "thread"

\* A thread that got as far as its handler has freed the buffer exactly once;
\* it is lost only if the thread is cancelled before the push.
BufferFreedOnce ==
  /\ pc \in {"returned", "canceled"} => frees = 1
  /\ pc = "canceled_early" => frees = 0 /\ mode = "cancel"

\* No lost wake-up: a thread still blocked though the predicate is true will be
\* signalled.
NoLostWakeup == (pc = "wait" /\ waiting /\ glob = 1) => main \in {"unlock", "wake"}

\* The thread is joined, or was never created.
Ended == main \in {"exit", "fatal"}
=============================================================================
