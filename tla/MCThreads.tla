----------------------------- MODULE MCThreads ------------------------------
(***************************************************************************)
(* The thread programs on small instances. A behaviour is one of one       *)
(* program: mutex_debugcheck.c, pt4-condvar.c, bankacc_datarace.c, the dot *)
(* products, thrd_matrixmul.c, thread_cleanup.c, one of the programs that  *)
(* create threads and join, leave or cancel them, or the test of           *)
(* strerror().                                                             *)
(***************************************************************************)
EXTENDS Integers, TLAPS

CONSTANTS NumThrds,              \* mutex_debugcheck.c
          TCount, CountLimit,    \* pt4-condvar.c
          Nobody,                \* both: a free mutex
          NUM_ITERATIONS,        \* bankacc_datarace.c
          NUMTHRDS, VECLEN,      \* pt3-matrixmul.c, matrixmul-dbg.c
          n, nthreads,           \* thrd_matrixmul.c
          MaxSpurious,           \* thread_cleanup.c: bound on spurious wake-ups
          N                      \* programs that join: number of threads

VARIABLE program     \* the program of this behaviour

\* The variables of the programs; those of the same name are shared.
VARIABLES kind, mtx, owner, broken, repair, pc, sum, seen, main, i, count, count_mutex,
          tmp, joined, opt, balance, lock, reg, mutex, mysum, k, row, rows, mode, glob,
          waiting, cancel, frees, spurious, proc, th, creq, saw, child, once, spec,
          buf, str, mem, heap, shown

Data == INSTANCE ThreadData
Life == INSTANCE ThreadLife

vars == <<program, kind, mtx, owner, broken, repair, pc, sum, seen, main, i, count,
          count_mutex, tmp, joined, opt, balance, lock, reg, mutex, mysum, k, row,
          rows, mode, glob, waiting, cancel, frees, spurious, proc, th, creq, saw,
          child, once, spec, buf, str, mem, heap, shown>>

\* The variables that one program alone has, and their value when another runs.
ownDebug == <<owner, broken, repair, seen>>
ownCond == <<count, count_mutex, tmp>>
ownBank == <<opt, balance, lock>>
ownDot == <<mutex, mysum, k>>
ownRows == <<row, rows>>
ownClean == <<mode, glob, waiting, cancel, spurious>>
ownJoins == <<th, creq, saw, child>>
ownErrors == <<once, spec, buf, str, mem, heap, shown>>

noDebug == owner = 0 /\ broken = 0 /\ repair = 0 /\ seen = 0
noCond == count = 0 /\ count_mutex = 0 /\ tmp = 0
noBank == opt = 0 /\ balance = 0 /\ lock = 0
noDot == mutex = 0 /\ mysum = 0 /\ k = 0
noRows == row = 0 /\ rows = 0
noClean == mode = 0 /\ glob = 0 /\ waiting = 0 /\ cancel = 0 /\ spurious = 0
noJoins == th = 0 /\ creq = 0 /\ saw = 0 /\ child = 0
noErrors == once = 0 /\ spec = 0 /\ buf = 0 /\ str = 0 /\ mem = 0 /\ heap = 0
            /\ shown = 0

Init ==
  \/ /\ program = "debugcheck" /\ Data!Debug!Init /\ noCond /\ noBank /\ noDot /\ noRows
     /\ noClean /\ noJoins /\ noErrors /\ joined = 0 /\ reg = 0 /\ frees = 0 /\ proc = 0
  \/ /\ program = "condvar" /\ Data!Cond!Init /\ noDebug /\ noBank /\ noDot /\ noRows
     /\ noClean /\ noJoins /\ noErrors /\ kind = 0 /\ mtx = 0 /\ sum = 0 /\ main = 0
     /\ reg = 0 /\ frees = 0 /\ proc = 0
  \/ /\ program = "bankacc" /\ Data!Bank!Init /\ noDebug /\ noCond /\ noDot /\ noRows
     /\ noClean /\ noJoins /\ noErrors /\ kind = 0 /\ mtx = 0 /\ sum = 0 /\ joined = 0
     /\ frees = 0 /\ proc = 0
  \/ /\ program = "dotprod" /\ Data!Dot!Init /\ noDebug /\ noCond /\ noBank /\ noRows
     /\ noClean /\ noJoins /\ noErrors /\ kind = 0 /\ mtx = 0 /\ i = 0 /\ joined = 0
     /\ frees = 0 /\ proc = 0
  \/ /\ program = "matrixmul" /\ Data!Rows!Init /\ noDebug /\ noCond /\ noBank /\ noDot
     /\ noClean /\ noJoins /\ noErrors /\ kind = 0 /\ mtx = 0 /\ pc = 0 /\ sum = 0
     /\ i = 0 /\ joined = 0 /\ reg = 0 /\ frees = 0 /\ proc = 0
  \/ /\ program = "cleanup" /\ Life!Clean!Init /\ noDebug /\ noCond /\ noBank /\ noDot
     /\ noRows /\ noJoins /\ noErrors /\ kind = 0 /\ sum = 0 /\ i = 0 /\ joined = 0
     /\ reg = 0 /\ proc = 0
  \/ /\ program = "joins" /\ Life!Joins!Init /\ noDebug /\ noCond /\ noBank /\ noDot
     /\ noRows /\ noClean /\ noErrors /\ mtx = 0 /\ sum = 0 /\ main = 0 /\ reg = 0
     /\ frees = 0
  \/ /\ program = "strerror" /\ Life!Errors!Init /\ noDebug /\ noCond /\ noBank /\ noDot
     /\ noRows /\ noClean /\ noJoins /\ mtx = 0 /\ sum = 0 /\ main = 0 /\ i = 0
     /\ joined = 0 /\ reg = 0

Next ==
  \/ /\ program = "debugcheck" /\ Data!Debug!Next
     /\ UNCHANGED <<program, ownCond, ownBank, ownDot, ownRows, ownClean, ownJoins,
                   ownErrors, joined, reg, frees, proc>>
  \/ /\ program = "condvar" /\ Data!Cond!Next
     /\ UNCHANGED <<program, ownDebug, ownBank, ownDot, ownRows, ownClean, ownJoins,
                   ownErrors, kind, mtx, sum, main, reg, frees, proc>>
  \/ /\ program = "bankacc" /\ Data!Bank!Next
     /\ UNCHANGED <<program, ownDebug, ownCond, ownDot, ownRows, ownClean, ownJoins,
                   ownErrors, kind, mtx, sum, joined, frees, proc>>
  \/ /\ program = "dotprod" /\ Data!Dot!Next
     /\ UNCHANGED <<program, ownDebug, ownCond, ownBank, ownRows, ownClean, ownJoins,
                   ownErrors, kind, mtx, i, joined, frees, proc>>
  \/ /\ program = "matrixmul" /\ Data!Rows!Next
     /\ UNCHANGED <<program, ownDebug, ownCond, ownBank, ownDot, ownClean, ownJoins,
                   ownErrors, kind, mtx, pc, sum, i, joined, reg, frees, proc>>
  \/ /\ program = "cleanup" /\ Life!Clean!Next
     /\ UNCHANGED <<program, ownDebug, ownCond, ownBank, ownDot, ownRows, ownJoins,
                   ownErrors, kind, sum, i, joined, reg, proc>>
  \/ /\ program = "joins" /\ Life!Joins!Next
     /\ UNCHANGED <<program, ownDebug, ownCond, ownBank, ownDot, ownRows, ownClean,
                   ownErrors, mtx, sum, main, reg, frees>>
  \/ /\ program = "strerror" /\ Life!Errors!Next
     /\ UNCHANGED <<program, ownDebug, ownCond, ownBank, ownDot, ownRows, ownClean,
                   ownJoins, mtx, sum, main, i, joined, reg>>

debug_vars == Data!Debug!vars
cond_vars == Data!Cond!vars
bank_vars == Data!Bank!vars
dot_vars == Data!Dot!vars
rows_vars == Data!Rows!vars
clean_vars == Life!Clean!vars
joins_vars == Life!Joins!vars
errors_vars == Life!Errors!vars

Spec == Init /\ [][Next]_vars

\* Every thread runs. Weak fairness is enough: each thread locks a mutex finitely
\* often, so it is free for good once the others are done; an implementation
\* wakes a thread without a signal finitely often.
FairSpec ==
  /\ Spec
  /\ WF_debug_vars(program = "debugcheck" /\ (Data!Debug!Create \/ Data!Debug!Join))
  /\ \A t \in Data!Debug!Threads :
       WF_debug_vars(program = "debugcheck" /\ Data!Debug!dotprod(t))
  /\ WF_cond_vars(program = "condvar" /\ Data!Cond!Main)
  /\ WF_cond_vars(program = "condvar" /\ Data!Cond!watch_count)
  /\ \A w \in Data!Cond!Workers :
       WF_cond_vars(program = "condvar" /\ Data!Cond!inc_count(w))
  /\ <>[][~(program = "condvar" /\ Data!Cond!SpuriousWakeup)]_cond_vars
  /\ WF_bank_vars(program = "bankacc" /\ Data!Bank!Main)
  /\ \A t \in Data!Bank!Threads : WF_bank_vars(program = "bankacc" /\ Data!Bank!Thread(t))
  /\ WF_dot_vars(program = "dotprod" /\ Data!Dot!Main)
  /\ \A t \in Data!Dot!Threads : WF_dot_vars(program = "dotprod" /\ Data!Dot!dotprod(t))
  /\ WF_rows_vars(program = "matrixmul" /\ Data!Rows!Main)
  /\ \A t \in Data!Rows!Threads :
       WF_rows_vars(program = "matrixmul" /\ Data!Rows!threadfun(t))
  /\ WF_clean_vars(program = "cleanup" /\ Life!Clean!Main)
  /\ WF_clean_vars(program = "cleanup" /\ Life!Clean!threadFunc)
  /\ WF_joins_vars(program = "joins" /\ Life!Joins!main)
  /\ \A t \in Life!Joins!Threads :
       WF_joins_vars(program = "joins" /\ Life!Joins!Thread(t))
  /\ WF_joins_vars(program = "joins" /\ Life!Joins!thrd_p3)
  /\ WF_errors_vars(program = "strerror" /\ Life!Errors!main)
  /\ WF_errors_vars(program = "strerror" /\ Life!Errors!threadFunc)

ASSUME Constants ==
  /\ Data!Debug!MutexDebugcheckAssumption /\ Data!Cond!CondVarAssumption
  /\ Data!Bank!BankAccAssumption /\ Data!Dot!DotProdAssumption
  /\ Data!Rows!MatrixRowsAssumption
  /\ Life!Clean!ThreadCleanupAssumption /\ Life!Joins!ThreadJoinAssumption

-----------------------------------------------------------------------------
(* Properties.                                                             *)

\* The variables of the program that runs have their types; no loop indexes the
\* array of handles, or the rows of the matrix, out of its bounds.
TypeOK ==
  CASE program = "debugcheck" -> Data!Debug!TypeOK
    [] program = "condvar"    -> Data!Cond!TypeOK
    [] program = "bankacc"    -> Data!Bank!TypeOK
    [] program = "dotprod"    -> Data!Dot!TypeOK
    [] program = "matrixmul"  -> Data!Rows!TypeOK
    [] program = "cleanup"    -> Life!Clean!TypeOK
    [] program = "joins"      -> Life!Joins!TypeOK
    [] program = "strerror"   -> Life!Errors!TypeOK

\* mutex_debugcheck.c, bankacc_datarace.c and the dot products: a thread inside
\* a critical section owns the mutex, and no value it has loaded there is stale
\* (in mutex_debugcheck.c, as long as no owner died unnoticed).
InsideOwns ==
  /\ program = "debugcheck" => Data!Debug!InsideOwns
  /\ program = "bankacc" => Data!Bank!InsideOwns
  /\ program = "dotprod" => Data!Dot!InsideOwns

\* No update of shared data is lost or done twice: the counter, the balance and
\* the sums are exact at every step, the sum is complete when it is printed, also
\* after the repair of a mutex whose owner died, and each row that belongs to a
\* thread is computed once.  A thread of the programs that join sees the argument
\* that was meant for it.  The message of strerror() is not changed by another
\* thread, unless its buffer is static.
UpdatesExact ==
  /\ program = "debugcheck" => Data!Debug!RepairedSumComplete
  /\ program = "condvar" => Data!Cond!CountExact
  /\ program = "bankacc" => Data!Bank!BalanceExact
  /\ program = "dotprod" => Data!Dot!SumExact /\ Data!Dot!PrintedComplete
  /\ program = "matrixmul" => Data!Rows!RowsOnce
  /\ program = "joins" => Life!Joins!ArgumentSeen
  /\ program = "strerror" => Life!Errors!StringKept

\* No wake-up is missed: a thread that waits on a condition variable although its
\* predicate holds is about to be signalled (pt4-condvar.c, thread_cleanup.c), and
\* the watcher of pt4-condvar.c goes on only when the limit is reached.
NoMissedSignal ==
  /\ program = "condvar" => Data!Cond!NoMissedSignal /\ Data!Cond!WatcherSawLimit
  /\ program = "cleanup" => Life!Clean!NoLostWakeup

\* thread_cleanup.c: the handler runs with the mutex held; a thread that has
\* ended, returned or cancelled, has unlocked it, and its buffer was freed exactly
\* once unless it was cancelled before it had pushed the handler.  The programs
\* that create and join: a process that ends with 0 has cut off none of its threads
\* and has collected those it joins; the thread of thread_cancel.c was cancelled.
\* strerror_tsd.c: the buffer of the thread was freed, that of main() was not.
CleanupComplete ==
  /\ program = "cleanup" => Life!Clean!MutexReleased /\ Life!Clean!BufferFreedOnce
  /\ program = "joins" => Life!Joins!NoThreadCut /\ Life!Joins!OnlyCanceled
  /\ program = "strerror" => Life!Errors!BuffersFreed

Ended ==
  CASE program = "debugcheck" -> Data!Debug!Ended
    [] program = "condvar"    -> Data!Cond!Ended
    [] program = "bankacc"    -> Data!Bank!Ended
    [] program = "dotprod"    -> Data!Dot!Ended
    [] program = "matrixmul"  -> Data!Rows!Ended
    [] program = "cleanup"    -> Life!Clean!Ended
    [] program = "joins"      -> ~Life!Joins!MustEnd \/ proc # "up"
    [] program = "strerror"   -> proc # "up"

\* Every program comes to its end: no thread waits for ever for a mutex, for a
\* condition or to be joined; those whose threads sleep for ever excepted.
ProgramEnds == <>Ended

-----------------------------------------------------------------------------
(* Proofs, from those of ThreadData and ThreadLife.                        *)

\* The invariant of the program that runs.
ThreadsInv ==
  /\ program \in {"debugcheck", "condvar", "bankacc", "dotprod", "matrixmul", "cleanup",
                 "joins", "strerror"}
  /\ program = "debugcheck" => Data!DebugInv
  /\ program = "condvar" => Data!CondInv
  /\ program = "bankacc" => Data!BankInv
  /\ program = "dotprod" => Data!DotInv
  /\ program = "matrixmul" => Data!RowsInv
  /\ program = "cleanup" => Life!CleanInv
  /\ program = "joins" => Life!JoinsInv
  /\ program = "strerror" => Life!ErrorsInv

\* Every program starts with its invariant.
LEMMA ThreadsInit == Init => ThreadsInv
  BY Constants, Data!DebugInit, Data!CondInit, Data!BankInit, Data!DotInit,
     Data!RowsInit, Life!CleanInit, Life!JoinsInit, Life!ErrorsInit DEF Init, ThreadsInv

\* A step of one program keeps its invariant; the program that runs stays the same.
LEMMA ThreadsNext ==
  ASSUME ThreadsInv, [Next]_vars
  PROVE  ThreadsInv'
<1>1. program' = program BY DEF Next, vars
<1>2. CASE program = "debugcheck"
  <2>1. Data!Debug!Next \/ UNCHANGED Data!Debug!vars
    BY <1>2 DEF Next, vars, Data!Debug!vars
  <2> QED BY <1>1, <1>2, <2>1, Data!DebugNext, Constants DEF ThreadsInv
<1>3. CASE program = "condvar"
  <2>1. Data!Cond!Next \/ UNCHANGED Data!Cond!vars BY <1>3
      DEF Next, vars, Data!Cond!vars
  <2> QED BY <1>1, <1>3, <2>1, Data!CondNext, Constants DEF ThreadsInv
<1>4. CASE program = "bankacc"
  <2>1. Data!Bank!Next \/ UNCHANGED Data!Bank!vars BY <1>4
      DEF Next, vars, Data!Bank!vars
  <2> QED BY <1>1, <1>4, <2>1, Data!BankNext, Constants DEF ThreadsInv
<1>5. CASE program = "dotprod"
  <2>1. Data!Dot!Next \/ UNCHANGED Data!Dot!vars BY <1>5 DEF Next, vars, Data!Dot!vars
  <2> QED BY <1>1, <1>5, <2>1, Data!DotNext, Constants DEF ThreadsInv
<1>6. CASE program = "matrixmul"
  <2>1. Data!Rows!Next \/ UNCHANGED Data!Rows!vars BY <1>6
      DEF Next, vars, Data!Rows!vars
  <2> QED BY <1>1, <1>6, <2>1, Data!RowsNext, Constants DEF ThreadsInv
<1>7. CASE program = "cleanup"
  <2>1. Life!Clean!Next \/ UNCHANGED Life!Clean!vars
    BY <1>7 DEF Next, vars, Life!Clean!vars
  <2> QED BY <1>1, <1>7, <2>1, Life!CleanNext, Constants DEF ThreadsInv
<1>8. CASE program = "joins"
  <2>1. Life!Joins!Next \/ UNCHANGED Life!Joins!vars
    BY <1>8 DEF Next, vars, Life!Joins!vars
  <2> QED BY <1>1, <1>8, <2>1, Life!JoinsNext, Constants DEF ThreadsInv
<1>9. CASE program = "strerror"
  <2>1. Life!Errors!Next \/ UNCHANGED Life!Errors!vars
    BY <1>9 DEF Next, vars, Life!Errors!vars
  <2> QED BY <1>1, <1>9, <2>1, Life!ErrorsNext, Constants DEF ThreadsInv
<1> QED BY <1>2, <1>3, <1>4, <1>5, <1>6, <1>7, <1>8, <1>9 DEF ThreadsInv

\* The invariant holds throughout.
LEMMA ThreadsInvariant == Spec => []ThreadsInv
<1>1. Init => ThreadsInv BY ThreadsInit
<1>2. ThreadsInv /\ [Next]_vars => ThreadsInv' BY ThreadsNext
<1> QED BY <1>1, <1>2, PTL DEF Spec

\* In no thread program is an array of handles or a row of the matrix indexed out of
\* its bounds, and every variable keeps its type, for every number of threads.
THEOREM ThreadsTyped == Spec => []TypeOK
<1>1. ASSUME ThreadsInv PROVE TypeOK
  <2>1. CASE program = "debugcheck" BY <1>1, <2>1 DEF ThreadsInv, TypeOK, Data!DebugInv
  <2>2. CASE program = "condvar"
    BY <1>1, <2>2 DEF ThreadsInv, TypeOK, Data!CondInv, Data!CondLockInv
  <2>3. CASE program = "bankacc" BY <1>1, <2>3 DEF ThreadsInv, TypeOK, Data!BankInv
  <2>4. CASE program = "dotprod" BY <1>1, <2>4 DEF ThreadsInv, TypeOK, Data!DotInv
  <2>5. CASE program = "matrixmul" BY <1>1, <2>5 DEF ThreadsInv, TypeOK, Data!RowsInv
  <2>6. CASE program = "cleanup" BY <1>1, <2>6 DEF ThreadsInv, TypeOK, Life!CleanInv
  <2>7. CASE program = "joins" BY <1>1, <2>7 DEF ThreadsInv, TypeOK, Life!JoinsInv
  <2>8. CASE program = "strerror" BY <1>1, <2>8 DEF ThreadsInv, TypeOK, Life!ErrorsInv
  <2> QED BY <1>1, <2>1, <2>2, <2>3, <2>4, <2>5, <2>6, <2>7, <2>8 DEF ThreadsInv
<1> QED BY ThreadsInvariant, <1>1, PTL

\* A thread of mutex_debugcheck.c, bankacc_datarace.c or a dot product that is inside
\* a critical section owns the mutex, and what it has loaded there is not stale, for
\* every number of threads and iterations.
THEOREM CriticalSections == Spec => []InsideOwns
<1>1. ThreadsInv => InsideOwns
  BY DEF ThreadsInv, InsideOwns, Data!DebugInv, Data!BankInv, Data!DotInv
<1> QED BY ThreadsInvariant, <1>1, PTL

\* No update of shared data is lost or done twice in the thread programs (the sum of
\* mutex_debugcheck.c also after its mutex is repaired, count++ of pt4-condvar.c, the
\* balance, the dot products, the rows), each thread gets its own argument, and the
\* string of a strerror() with a buffer per thread is not changed by another thread.
THEOREM NoUpdateLost == Spec => []UpdatesExact
<1>1. ThreadsInv => UpdatesExact
  BY Constants, Data!DebugDone, Data!DotPrinted, Data!RowsComputed
     DEF ThreadsInv, UpdatesExact, Data!CondInv, Data!BankInv, Data!DotInv,
         Life!JoinsInv, Life!ErrorsInv
<1> QED BY ThreadsInvariant, <1>1, PTL

\* The single pthread_cond_signal() of pt4-condvar.c, sent when the counter equals the
\* limit, reaches a watcher that waits, which goes on only at the limit, for any
\* TCOUNT and COUNT_LIMIT; nor is the signal of thread_cleanup.c missed, whatever
\* wakes its thread.
THEOREM SignalNotMissed == Spec => []NoMissedSignal
<1>1. ThreadsInv => NoMissedSignal
  BY DEF ThreadsInv, NoMissedSignal, Data!CondInv, Life!CleanInv
<1> QED BY ThreadsInvariant, <1>1, PTL

\* A cancelled or ended thread of thread_cleanup.c has unlocked the mutex and freed
\* its buffer once; a process of the programs that join which ends with 0 has cut off
\* no thread and left no child; strerror_tsd.c frees the buffer of the thread that has
\* ended.
THEOREM ThreadsCleanUp == Spec => []CleanupComplete
<1>1. ThreadsInv => CleanupComplete
  BY Life!ErrorsFreed DEF ThreadsInv, CleanupComplete, Life!CleanInv, Life!JoinsInv
<1> QED BY ThreadsInvariant, <1>1, PTL
=============================================================================
