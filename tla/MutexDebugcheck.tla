-------------------------- MODULE MutexDebugcheck ---------------------------
(***************************************************************************)
(* pthreads/misc/mutex_debugcheck/mutex_debugcheck.c: threads add to a     *)
(* shared sum under an error-checking, robust mutex.  Thread 0 locks it    *)
(* twice on purpose, thread 2 dies holding it on purpose.                  *)
(*                                                                         *)
(* dotprod() locks mutexsum twice.  The first lock repairs the mutex when  *)
(* its owner died; the second one ignores the result of the call.          *)
(***************************************************************************)
EXTENDS Naturals

CONSTANTS NumThrds,  \* NUMTHRDS
          Nobody     \* mutexsum has no owner

\* The values the constants may have.
MutexDebugcheckAssumption ==
  /\ NumThrds \in Nat \ {0}
  /\ Nobody \notin Nat

Threads == 0..(NumThrds - 1)

Relocker == 0   \* TEST 1
Dier == 2       \* TEST 2

VARIABLES kind,    \* what pthread_mutex_init() made of mutexsum
          mtx,     \* state of mutexsum
          owner,
          broken,  \* held since EOWNERDEAD and not made consistent
          repair,  \* history: the call that got EOWNERDEAD
          pc,      \* where each thread is in dotprod()
          sum,     \* gDotstr.sum, in units of one thread's mysum
          seen,    \* the value of gDotstr.sum a thread has read and not written
          main,    \* phase of main()
          i        \* its loop counter

vars == <<kind, mtx, owner, broken, repair, pc, sum, seen, main, i>>

mutex == <<kind, mtx, owner, broken, repair>>

\* mutexattr is never initialised.  The type and the robustness are stored into
\* it, the bits around them are garbage: the mutex is what was asked for, or
\* pthread_mutex_init() fails and leaves the default mutex of zeroes, or the
\* protocol bits make every lock call fail with EINVAL.
MutexKinds == {"robust", "normal", "invalid"}

Init ==
  /\ kind \in MutexKinds
  /\ mtx = "free" /\ owner = Nobody /\ broken = FALSE /\ repair = "none"
  /\ pc = [t \in Threads |-> "none"]
  /\ sum = 0 /\ seen = [t \in Threads |-> 0]
  /\ main = "create" /\ i = 0

-----------------------------------------------------------------------------
(* pthread_mutex_lock() and pthread_mutex_unlock().                        *)

LockResult(t) ==
  IF kind = "invalid" THEN "EINVAL"
  ELSE CASE mtx = "notrecoverable" -> "ENOTRECOVERABLE"
         [] mtx = "ownerdead"      -> "EOWNERDEAD"
         [] mtx = "free"           -> "0"
         [] mtx = "held"           ->
              IF kind = "robust" /\ owner = t THEN "EDEADLK" ELSE "block"

Acquires(t) == LockResult(t) \in {"0", "EOWNERDEAD"}

TakeIfFree(t) ==
  IF Acquires(t) THEN mtx' = "held" /\ owner' = t ELSE UNCHANGED <<mtx, owner>>

\* EPERM, and nothing happens, unless the caller is the owner.
MutexUnlock(t) ==
  /\ IF owner = t
       THEN /\ mtx' = IF broken THEN "notrecoverable" ELSE "free"
            /\ owner' = Nobody /\ broken' = FALSE
       ELSE UNCHANGED <<mtx, owner, broken>>
  /\ UNCHANGED <<kind, repair>>

-----------------------------------------------------------------------------
(* dotprod().                                                              *)

Go(t, from, to) == pc[t] = from /\ pc' = [pc EXCEPT ![t] = to]

\* Mutant of FirstLock: the mutex is not made consistent.
FirstLock_NoConsistent(t) ==
  /\ LockResult(t) # "block"
  /\ Go(t, "lock1", IF t = Relocker THEN "relock" ELSE "unlock1")
  /\ TakeIfFree(t)
  /\ repair' = IF LockResult(t) = "EOWNERDEAD" THEN "first" ELSE repair
  /\ broken' = (LockResult(t) = "EOWNERDEAD" \/ broken)
  /\ UNCHANGED <<kind, sum, seen, main, i>>

\* Any error but EOWNERDEAD is printed and ignored; after EOWNERDEAD the mutex
\* is made consistent, which cannot fail for the owner of such a mutex.
FirstLock(t) ==
  /\ LockResult(t) # "block"
  /\ Go(t, "lock1", IF t = Relocker THEN "relock" ELSE "unlock1")
  /\ TakeIfFree(t)
  /\ repair' = IF LockResult(t) = "EOWNERDEAD" THEN "first" ELSE repair
  /\ UNCHANGED <<kind, broken, sum, seen, main, i>>

\* Mutant of Relock: the type is not ERRORCHECK, the owner waits for itself.
Relock_Normal(t) ==
  /\ LockResult(t) \notin {"block", "EDEADLK"}
  /\ Go(t, "relock", "unlock1")
  /\ TakeIfFree(t)
  /\ UNCHANGED <<kind, broken, repair, sum, seen, main, i>>

\* TEST 1.  The thread holds the mutex, so the call does not acquire it (unless
\* the first one failed, and then this one fails for the same reason).
Relock(t) ==
  /\ LockResult(t) # "block"
  /\ Go(t, "relock", "unlock1")
  /\ TakeIfFree(t)
  /\ UNCHANGED <<kind, broken, repair, sum, seen, main, i>>

FirstUnlock(t) ==
  /\ Go(t, "unlock1", "lock2")
  /\ MutexUnlock(t)
  /\ UNCHANGED <<sum, seen, main, i>>

\* Mutant of SecondLock: pthread_mutex_trylock().
SecondLock_Try(t) ==
  /\ Go(t, "lock2", "read")
  /\ TakeIfFree(t)
  /\ repair' = IF LockResult(t) = "EOWNERDEAD" THEN "second" ELSE repair
  /\ broken' = (LockResult(t) = "EOWNERDEAD" \/ broken)
  /\ UNCHANGED <<kind, sum, seen, main, i>>

\* The result of the call is not looked at.
SecondLock(t) ==
  /\ LockResult(t) # "block"
  /\ Go(t, "lock2", "read")
  /\ TakeIfFree(t)
  /\ repair' = IF LockResult(t) = "EOWNERDEAD" THEN "second" ELSE repair
  /\ broken' = (LockResult(t) = "EOWNERDEAD" \/ broken)
  /\ UNCHANGED <<kind, sum, seen, main, i>>

\* gDotstr.sum += mysum is a load and a store.
ReadSum(t) ==
  /\ Go(t, "read", "write")
  /\ seen' = [seen EXCEPT ![t] = sum]
  /\ UNCHANGED <<mutex, sum, main, i>>

WriteSum(t) ==
  /\ Go(t, "write", IF t = Dier THEN "die" ELSE "unlock2")
  /\ sum' = seen[t] + 1
  /\ UNCHANGED <<mutex, seen, main, i>>

SecondUnlock(t) ==
  /\ Go(t, "unlock2", "exited")
  /\ MutexUnlock(t)
  /\ UNCHANGED <<sum, seen, main, i>>

\* TEST 2: pthread_exit() without unlocking.  The kernel marks a robust mutex
\* that the thread owns; a normal one stays locked.
Die(t) ==
  /\ Go(t, "die", "exited")
  /\ IF owner = t /\ kind = "robust"
       THEN mtx' = "ownerdead" /\ owner' = Nobody /\ broken' = FALSE
       ELSE UNCHANGED <<mtx, owner, broken>>
  /\ UNCHANGED <<kind, repair, sum, seen, main, i>>

-----------------------------------------------------------------------------
(* main().                                                                 *)

\* A thread that cannot be created is reported, and joined all the same.
Create ==
  /\ main = "create"
  /\ \E s \in {"lock1", "failed"} : Go(i, "none", s)
  /\ IF i + 1 = NumThrds THEN main' = "join" /\ i' = 0
                         ELSE main' = main /\ i' = i + 1
  /\ UNCHANGED <<mutex, sum, seen>>

\* Mutant of Join: the loop runs to i <= NUMTHRDS.
Join_OffByOne ==
  /\ main = "join" /\ pc[i] \in {"exited", "failed"}
  /\ IF pc[i] = "failed" THEN main' = "crashed" /\ i' = i
     ELSE IF i = NumThrds THEN main' = "done" /\ i' = i
     ELSE main' = main /\ i' = i + 1
  /\ UNCHANGED <<mutex, pc, sum, seen>>

\* Joining the zero in callThd[] of a thread that was not created crashes.
Join ==
  /\ main = "join" /\ pc[i] \in {"exited", "failed"}
  /\ IF pc[i] = "failed" THEN main' = "crashed" /\ i' = i
     ELSE IF i + 1 = NumThrds THEN main' = "done" /\ i' = i
     ELSE main' = main /\ i' = i + 1
  /\ UNCHANGED <<mutex, pc, sum, seen>>

-----------------------------------------------------------------------------
\* A crash of main() ends the threads.
dotprod(t) ==
  /\ main # "crashed"
  /\ \/ FirstLock(t) \/ Relock(t) \/ FirstUnlock(t) \/ SecondLock(t)
     \/ ReadSum(t) \/ WriteSum(t) \/ SecondUnlock(t) \/ Die(t)

Next == Create \/ Join \/ \E t \in Threads : dotprod(t)

Spec == Init /\ [][Next]_vars

-----------------------------------------------------------------------------
(* Properties.                                                             *)

PC == {"none", "failed", "lock1", "relock", "unlock1", "lock2", "read", "write",
       "unlock2", "die", "exited"}

\* Every variable has its type, and the owner is known exactly while the mutex
\* is held.
TypeOK ==
  /\ kind \in MutexKinds
  /\ mtx \in {"free", "held", "ownerdead", "notrecoverable"}
  /\ owner \in Threads \cup {Nobody}
  /\ broken \in BOOLEAN /\ repair \in {"none", "first", "second"}
  /\ pc \in [Threads -> PC]
  /\ sum \in Nat /\ seen \in [Threads -> Nat]
  /\ main \in {"create", "join", "done", "crashed"}
  /\ i \in Threads

\* The states of a thread between a lock call and the matching unlock call.
Inside == {"relock", "unlock1", "read", "write", "unlock2", "die"}

\* While the mutex is not marked as not recoverable, a thread between a lock
\* call and its unlock call owns it: the results that dotprod() ignores do no
\* harm until then.
InsideOwns ==
  kind # "invalid" /\ mtx # "notrecoverable" =>
    \A t \in Threads : pc[t] \in Inside => owner = t /\ mtx = "held"

\* If the dead owner is met by the first lock of a thread, the one that repairs
\* the mutex, the mutex stays usable and no addition is lost: "it should be
\* detected on the next lock attempt" (mutex_debugcheck.c:128).
RepairedSumComplete ==
  kind = "robust" /\ repair # "second" =>
    /\ mtx # "notrecoverable"
    /\ main = "done" => sum = NumThrds

\* The robust, error-checking mutex never lets the program hang, whoever relocks
\* it or dies with it; the run ends with all threads joined, or with the crash
\* in pthread_join() of a thread that does not exist.
Ended == kind # "normal" => main \in {"done", "crashed"}
=============================================================================
