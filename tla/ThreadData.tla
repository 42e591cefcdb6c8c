----------------------------- MODULE ThreadData -----------------------------
(***************************************************************************)
(* The programs whose threads work on shared data, side by side, with the  *)
(* proof that each is correct for every number of threads and iterations:  *)
(* an inductive invariant XInv that holds when the program starts (XInit)  *)
(* and that its steps keep (XNext).  A section declares what those before  *)
(* it have not: variables of the same name are shared; MCThreads lets one  *)
(* program run in a behaviour.                                             *)
(***************************************************************************)
EXTENDS Integers, FiniteSetTheorems, TLAPS

-----------------------------------------------------------------------------
(* mutex_debugcheck.c.                                                     *)

CONSTANTS NumThrds, Nobody

VARIABLES kind, mtx, owner, broken, repair, pc, sum, seen, main, i

Debug == INSTANCE MutexDebugcheck

\* Who holds the mutex, and what is known once its owner has died:
\* that happens once, and only a second lock leaves it unrepaired.
DebugMutex ==
  /\ owner = Nobody <=> mtx # "held"
  /\ \A t \in Debug!Threads : owner = t => pc[t] \in Debug!Inside \/ pc[t] = "exited"
  /\ \A t \in Debug!Threads : pc[t] = "die" => t = Debug!Dier
  /\ kind # "robust" => mtx \in {"free", "held"} /\ ~broken /\ repair = "none"
  /\ kind = "invalid" => mtx = "free"
  /\ mtx = "ownerdead" => repair = "none"
  /\ mtx = "ownerdead" \/ repair # "none" =>
       \A t \in Debug!Threads : t = Debug!Dier => pc[t] = "exited"
  /\ broken \/ mtx = "notrecoverable" => repair = "second"

\* The threads that have added to the sum.
DebugAdded == {t \in Debug!Threads : pc[t] \in {"unlock2", "die", "exited"}}

\* As long as the mutex works, the sum counts the threads that have added to it.
DebugSum ==
  kind # "invalid" /\ mtx # "notrecoverable" =>
    /\ sum = Cardinality(DebugAdded)
    /\ \A t \in Debug!Threads : pc[t] = "write" => seen[t] = sum

\* main() creates the threads in order and collects them in order.
DebugJoins ==
  /\ main = "join" => \A t \in Debug!Threads : t < i => pc[t] = "exited"
  /\ main = "done" => \A t \in Debug!Threads : pc[t] = "exited"

\* All of it.
DebugInv == Debug!TypeOK /\ DebugMutex /\ Debug!InsideOwns /\ DebugSum /\ DebugJoins

\* What pthread_mutex_lock() returns.
LEMMA DebugLock ==
  ASSUME Debug!MutexDebugcheckAssumption, Debug!TypeOK, NEW t \in Debug!Threads
  PROVE  /\ Debug!LockResult(t) = "0" <=> kind # "invalid" /\ mtx = "free"
         /\ Debug!LockResult(t) = "EOWNERDEAD" <=> kind # "invalid" /\ mtx = "ownerdead"
         /\ Debug!LockResult(t) \in {"EINVAL", "ENOTRECOVERABLE", "0", "EOWNERDEAD",
                                      "EDEADLK", "block"}
         /\ Debug!LockResult(t) = "EINVAL" => kind = "invalid"
         /\ Debug!LockResult(t) = "ENOTRECOVERABLE" => mtx = "notrecoverable"
         /\ Debug!LockResult(t) = "EDEADLK" => kind = "robust" /\ owner = t
  BY DEF Debug!TypeOK, Debug!LockResult, Debug!MutexKinds

\* There are NUMTHRDS threads.
LEMMA DebugFinite ==
  ASSUME Debug!MutexDebugcheckAssumption
  PROVE  /\ IsFiniteSet(DebugAdded) /\ IsFiniteSet(Debug!Threads)
         /\ Cardinality(Debug!Threads) = NumThrds
<1> USE DEF Debug!MutexDebugcheckAssumption, Debug!Threads
<1>1. IsFiniteSet(0..(NumThrds - 1)) /\ Cardinality(0..(NumThrds - 1)) = NumThrds
  BY FS_Interval
<1> QED BY <1>1, FS_Subset DEF DebugAdded

\* The invariant holds when the program starts.
LEMMA DebugInit ==
  ASSUME Debug!MutexDebugcheckAssumption
  PROVE  Debug!Init => DebugInv
<1> SUFFICES ASSUME Debug!Init PROVE DebugInv OBVIOUS
<1> USE DEF Debug!MutexDebugcheckAssumption, Debug!Init
<1>0. broken \in BOOLEAN BY Zenon
<1>1. Debug!TypeOK BY <1>0 DEF Debug!TypeOK, Debug!Threads, Debug!PC
<1>2. DebugMutex BY DEF DebugMutex, Debug!Threads
<1>3. Debug!InsideOwns BY DEF Debug!InsideOwns, Debug!Inside
<1>4. DebugAdded = {} BY DEF DebugAdded
<1>5. DebugSum BY <1>4, FS_EmptySet DEF DebugSum
<1>6. DebugJoins BY DEF DebugJoins
<1> QED BY <1>1, <1>2, <1>3, <1>5, <1>6 DEF DebugInv

\* pthread_mutex_lock() in one of its three places.
LEMMA DebugTake ==
  ASSUME Debug!MutexDebugcheckAssumption, DebugInv,
         NEW t \in Debug!Threads, NEW at, NEW to,
         at \in {"lock1", "relock", "lock2"}, to \in {"relock", "unlock1", "read"},
         Debug!LockResult(t) # "block", Debug!Go(t, at, to), Debug!TakeIfFree(t),
         UNCHANGED <<kind, sum, seen, main, i>>,
         repair' = IF Debug!LockResult(t) = "EOWNERDEAD" /\ at # "relock"
                   THEN (IF at = "lock1" THEN "first" ELSE "second") ELSE repair,
         broken' \in BOOLEAN,
         broken' => broken \/ (Debug!LockResult(t) = "EOWNERDEAD" /\ at = "lock2")
  PROVE  DebugInv'
<1> USE DEF Debug!MutexDebugcheckAssumption, DebugInv
<1>1. pc[t] = at /\ pc' = [pc EXCEPT ![t] = to] /\ pc'[t] = to
  BY DEF Debug!TypeOK, Debug!Go
<1>2. IF Debug!LockResult(t) \in {"0", "EOWNERDEAD"}
        THEN mtx' = "held" /\ owner' = t ELSE mtx' = mtx /\ owner' = owner
  BY DEF Debug!TakeIfFree, Debug!Acquires
<1>3. /\ Debug!LockResult(t) = "0" <=> kind # "invalid" /\ mtx = "free"
      /\ Debug!LockResult(t) = "EOWNERDEAD" <=> kind # "invalid" /\ mtx = "ownerdead"
      /\ \/ kind = "invalid" \/ mtx = "notrecoverable" \/ owner = t
         \/ Debug!LockResult(t) \in {"0", "EOWNERDEAD"}
  BY DebugLock
<1>4. Debug!TypeOK' BY <1>1, <1>2 DEF Debug!TypeOK, Debug!PC, Debug!MutexKinds
<1>5. DebugMutex'
  BY <1>1, <1>2, <1>3, SMTT(30)
     DEF DebugMutex, Debug!TypeOK, Debug!Inside, Debug!Dier, Debug!Threads
<1>6. Debug!InsideOwns'
  BY <1>1, <1>2, <1>3, SMTT(30)
     DEF Debug!InsideOwns, DebugMutex, Debug!TypeOK, Debug!Inside
<1>7. DebugAdded' = DebugAdded BY <1>1 DEF DebugAdded, Debug!TypeOK
<1>8. DebugSum' BY <1>1, <1>2, <1>3, <1>7 DEF DebugSum, Debug!TypeOK
<1>9. DebugJoins' BY <1>1 DEF DebugJoins, Debug!TypeOK
<1> QED BY <1>4, <1>5, <1>6, <1>8, <1>9

\* pthread_mutex_unlock() in its two places.
LEMMA DebugRelease ==
  ASSUME Debug!MutexDebugcheckAssumption, DebugInv,
         NEW t \in Debug!Threads, NEW at, NEW to,
         \/ at = "unlock1" /\ to = "lock2" /\ Debug!MutexUnlock(t)
         \/ at = "unlock2" /\ to = "exited" /\ Debug!MutexUnlock(t),
         Debug!Go(t, at, to), UNCHANGED <<sum, seen, main, i>>
  PROVE  DebugInv'
<1> USE DEF Debug!MutexDebugcheckAssumption, DebugInv
<1>1. pc[t] = at /\ pc' = [pc EXCEPT ![t] = to] /\ pc'[t] = to
  BY DEF Debug!TypeOK, Debug!Go
<1>2. /\ kind' = kind /\ repair' = repair
      /\ \/ owner = t /\ mtx' = (IF broken THEN "notrecoverable" ELSE "free")
            /\ owner' = Nobody /\ broken' = FALSE
         \/ owner # t /\ mtx' = mtx /\ owner' = owner /\ broken' = broken
  BY DEF Debug!MutexUnlock
<1>3. broken' \in BOOLEAN BY Zenon, <1>2 DEF Debug!TypeOK
<1>4. Debug!TypeOK' BY <1>1, <1>2, <1>3 DEF Debug!TypeOK, Debug!PC
<1>5. DebugMutex'
  BY <1>1, <1>2, SMTT(30)
     DEF DebugMutex, Debug!TypeOK, Debug!Inside, Debug!Dier, Debug!Threads
<1>6. Debug!InsideOwns'
  BY <1>1, <1>2, SMTT(30)
     DEF Debug!InsideOwns, DebugMutex, Debug!TypeOK, Debug!Inside, Debug!Threads
<1>7. DebugAdded' = DebugAdded BY <1>1 DEF DebugAdded, Debug!TypeOK
<1>8. DebugSum' BY <1>1, <1>2, <1>7
    DEF DebugSum, DebugMutex, Debug!TypeOK, Debug!Threads
<1>9. DebugJoins' BY <1>1 DEF DebugJoins, Debug!TypeOK
<1> QED BY <1>4, <1>5, <1>6, <1>8, <1>9

\* The invariant is kept by main(), by every thread and by the death of an owner.
LEMMA DebugNext ==
  ASSUME Debug!MutexDebugcheckAssumption, DebugInv, Debug!Next \/ UNCHANGED Debug!vars
  PROVE  DebugInv'
<1> USE DEF Debug!MutexDebugcheckAssumption
<1>b. broken \in BOOLEAN BY DEF DebugInv, Debug!TypeOK
<1>1. ASSUME NEW t \in Debug!Threads, Debug!FirstLock(t) PROVE DebugInv'
  <2>1. broken' \in BOOLEAN /\ (broken' => broken) BY Zenon, <1>1, <1>b
      DEF Debug!FirstLock
  <2>2. PICK to \in {"relock", "unlock1"} : Debug!Go(t, "lock1", to)
    BY <1>1 DEF Debug!FirstLock
  <2> QED BY <1>1, <2>1, <2>2, DebugTake DEF Debug!FirstLock
<1>2. ASSUME NEW t \in Debug!Threads, Debug!Relock(t) PROVE DebugInv'
  <2>1. broken' \in BOOLEAN /\ (broken' => broken) BY Zenon, <1>2, <1>b DEF Debug!Relock
  <2> QED BY <1>2, <2>1, DebugTake DEF Debug!Relock
<1>3. ASSUME NEW t \in Debug!Threads, Debug!SecondLock(t) PROVE DebugInv'
  <2>1. broken' \in BOOLEAN /\ (broken' => broken \/ Debug!LockResult(t) = "EOWNERDEAD")
    BY Zenon, <1>3, <1>b DEF Debug!SecondLock
  <2> QED BY <1>3, <2>1, DebugTake DEF Debug!SecondLock
<1>4. ASSUME NEW t \in Debug!Threads, Debug!FirstUnlock(t) PROVE DebugInv'
  BY <1>4, DebugRelease DEF Debug!FirstUnlock
<1>5. ASSUME NEW t \in Debug!Threads, Debug!SecondUnlock(t) PROVE DebugInv'
  BY <1>5, DebugRelease DEF Debug!SecondUnlock
<1>6. ASSUME NEW t \in Debug!Threads, Debug!ReadSum(t) PROVE DebugInv'
  <2>a. /\ pc[t] = "read" /\ pc' = [pc EXCEPT ![t] = "write"]
        /\ seen' = [seen EXCEPT ![t] = sum]
        /\ sum' = sum /\ main' = main /\ i' = i
        /\ kind' = kind
        /\ mtx' = mtx /\ owner' = owner /\ repair' = repair
    BY <1>6 DEF Debug!ReadSum, Debug!mutex, Debug!Go
  <2>b. broken' = broken BY Zenon, <1>6 DEF Debug!ReadSum, Debug!mutex
  <2> USE <2>a, <2>b DEF DebugInv, Debug!TypeOK
  <2>1. broken' \in BOOLEAN BY Zenon, <1>b
  <2>2. Debug!TypeOK' BY <2>1 DEF Debug!PC
  <2>3. DebugMutex' BY <2>1 DEF DebugMutex, Debug!Inside
  <2>4. Debug!InsideOwns' BY DEF Debug!InsideOwns, Debug!Inside
  <2>5. DebugAdded' = DebugAdded BY DEF DebugAdded
  <2>6. DebugSum' BY <2>5 DEF DebugSum
  <2>7. DebugJoins' BY DEF DebugJoins
  <2> QED BY <2>2, <2>3, <2>4, <2>6, <2>7
<1>7. ASSUME NEW t \in Debug!Threads, Debug!WriteSum(t) PROVE DebugInv'
  <2>0. PICK to \in {"unlock2", "die"} : pc[t] = "write" /\ pc' = [pc EXCEPT ![t] = to]
    BY <1>7 DEF Debug!WriteSum, Debug!Go
  <2>c. pc'[t] = "die" => t = Debug!Dier
    BY <1>7 DEF Debug!WriteSum, Debug!Go, DebugInv, Debug!TypeOK
  <2>a. sum' = seen[t] + 1 /\ seen' = seen /\ main' = main /\ i' = i
        /\ kind' = kind
        /\ mtx' = mtx /\ owner' = owner /\ repair' = repair
    BY <1>7 DEF Debug!WriteSum, Debug!mutex
  <2>b. broken' = broken BY Zenon, <1>7 DEF Debug!WriteSum, Debug!mutex
  <2> USE <2>0, <2>a, <2>b DEF DebugInv, Debug!TypeOK
  <2>1. broken' \in BOOLEAN BY Zenon, <1>b
  <2>2. Debug!TypeOK' BY <2>1 DEF Debug!PC
  <2>3. DebugMutex' BY <2>1, <2>c DEF DebugMutex, Debug!Inside
  <2>4. Debug!InsideOwns' BY DEF Debug!InsideOwns, Debug!Inside
  <2>5. DebugAdded' = DebugAdded \cup {t} /\ t \notin DebugAdded BY DEF DebugAdded
  <2>6. Cardinality(DebugAdded') = Cardinality(DebugAdded) + 1
    BY <2>5, DebugFinite, FS_AddElement
  <2>7. DebugSum' BY <2>6 DEF DebugSum, Debug!InsideOwns, Debug!Inside
  <2>8. DebugJoins' BY DEF DebugJoins
  <2> QED BY <2>2, <2>3, <2>4, <2>7, <2>8
<1>8. ASSUME NEW t \in Debug!Threads, Debug!Die(t) PROVE DebugInv'
  <2>a. /\ pc[t] = "die" /\ pc' = [pc EXCEPT ![t] = "exited"]
        /\ kind' = kind /\ repair' = repair
        /\ sum' = sum /\ seen' = seen /\ main' = main /\ i' = i
        /\ \/ owner = t /\ kind = "robust" /\ mtx' = "ownerdead"
              /\ owner' = Nobody /\ broken' = FALSE
           \/ (owner # t \/ kind # "robust") /\ mtx' = mtx
              /\ owner' = owner /\ broken' = broken
    BY <1>8 DEF Debug!Die, Debug!Go
  <2> USE <2>a DEF DebugInv, Debug!TypeOK
  <2>1. broken' \in BOOLEAN BY Zenon, <1>b
  <2>2. Debug!TypeOK' BY <2>1 DEF Debug!PC
  <2>3. DebugMutex' BY <2>1, SMTT(30) DEF DebugMutex, Debug!Inside, Debug!Threads
  <2>4. Debug!InsideOwns' BY DEF Debug!InsideOwns, Debug!Inside, DebugMutex,
      Debug!Threads
  <2>5. DebugAdded' = DebugAdded BY DEF DebugAdded
  <2>6. DebugSum' BY <2>5 DEF DebugSum, DebugMutex, Debug!Threads
  <2>7. DebugJoins' BY DEF DebugJoins
  <2> QED BY <2>2, <2>3, <2>4, <2>6, <2>7
<1>9. CASE Debug!Create
  <2>0. PICK to \in {"lock1", "failed"} : pc[i] = "none" /\ pc' = [pc EXCEPT ![i] = to]
    BY <1>9 DEF Debug!Create, Debug!Go
  <2>a. /\ sum' = sum /\ seen' = seen /\ kind' = kind
        /\ mtx' = mtx /\ owner' = owner /\ repair' = repair
        /\ \/ i + 1 = NumThrds /\ main' = "join" /\ i' = 0
           \/ i + 1 # NumThrds /\ main' = "create" /\ i' = i + 1
    BY <1>9 DEF Debug!Create, Debug!mutex
  <2>b. broken' = broken BY Zenon, <1>9 DEF Debug!Create, Debug!mutex
  <2> USE <2>0, <2>a, <2>b DEF DebugInv, Debug!TypeOK
  <2>1. broken' \in BOOLEAN BY Zenon, <1>b
  <2>2. Debug!TypeOK' BY <2>1 DEF Debug!PC, Debug!Threads
  <2>3. DebugMutex' BY <2>1 DEF DebugMutex, Debug!Inside
  <2>4. Debug!InsideOwns' BY DEF Debug!InsideOwns, Debug!Inside
  <2>5. DebugAdded' = DebugAdded BY DEF DebugAdded
  <2>6. DebugSum' BY <2>5 DEF DebugSum
  <2>7. DebugJoins' BY DEF DebugJoins, Debug!Threads
  <2> QED BY <2>2, <2>3, <2>4, <2>6, <2>7
<1>10. CASE Debug!Join
  <2>a. /\ pc' = pc /\ sum' = sum /\ seen' = seen /\ kind' = kind
        /\ mtx' = mtx /\ owner' = owner
        /\ repair' = repair /\ main = "join"
        /\ \/ main' = "crashed" /\ i' = i
           \/ pc[i] = "exited" /\ i + 1 = NumThrds /\ main' = "done" /\ i' = i
           \/ pc[i] = "exited" /\ i + 1 # NumThrds /\ main' = "join" /\ i' = i + 1
    BY <1>10 DEF Debug!Join, Debug!mutex
  <2>b. broken' = broken BY Zenon, <1>10 DEF Debug!Join, Debug!mutex
  <2> USE <2>a, <2>b DEF DebugInv, Debug!TypeOK
  <2>1. broken' \in BOOLEAN BY Zenon, <1>b
  <2>2. Debug!TypeOK' BY <2>1 DEF Debug!Threads
  <2>3. DebugMutex' BY <2>1 DEF DebugMutex
  <2>4. Debug!InsideOwns' BY DEF Debug!InsideOwns
  <2>5. DebugAdded' = DebugAdded BY DEF DebugAdded
  <2>6. DebugSum' BY <2>5 DEF DebugSum
  <2>7. DebugJoins' BY DEF DebugJoins, Debug!Threads
  <2> QED BY <2>2, <2>3, <2>4, <2>6, <2>7
<1>11. CASE UNCHANGED Debug!vars
  <2>1. broken' \in BOOLEAN BY Zenon, <1>b, <1>11 DEF Debug!vars
  <2>2. DebugAdded' = DebugAdded BY <1>11 DEF DebugAdded, Debug!vars
  <2> QED BY <1>11, <2>1, <2>2
      DEF Debug!vars, DebugInv, Debug!TypeOK, DebugMutex, Debug!InsideOwns, DebugSum,
          DebugJoins
<1> QED BY <1>1, <1>2, <1>3, <1>4, <1>5, <1>6, <1>7, <1>8, <1>9, <1>10, <1>11
      DEF Debug!Next, Debug!dotprod

\* When all threads have been joined, all have added to the sum.
LEMMA DebugDone ==
  ASSUME Debug!MutexDebugcheckAssumption
  PROVE  DebugInv => Debug!RepairedSumComplete
<1> SUFFICES ASSUME DebugInv, kind = "robust", repair # "second"
             PROVE  mtx # "notrecoverable" /\ (main = "done" => sum = NumThrds)
  BY DEF Debug!RepairedSumComplete
<1>1. mtx # "notrecoverable" BY DEF DebugInv, DebugMutex
<1>2. ASSUME main = "done" PROVE sum = NumThrds
  <2>1. DebugAdded = Debug!Threads BY <1>2 DEF DebugInv, DebugJoins, DebugAdded
  <2> QED BY <1>1, <2>1, DebugFinite DEF DebugInv, DebugSum
<1> QED BY <1>1, <1>2

-----------------------------------------------------------------------------
(* pt4-condvar.c.                                                          *)

CONSTANTS TCount, CountLimit

VARIABLES count, count_mutex, tmp, joined

Cond == INSTANCE CondVar

\* Only a worker is at a step of inc_count(), only the watcher at one of
\* watch_count().
OwnCode ==
  /\ \A w \in Cond!Workers :
        pc[w] \in {"none", "loop", "read", "write", "signal", "unlock", "exited"}
  /\ pc[Cond!Watcher] \in {"none", "loop", "test", "waiting", "woken", "unlock", "exited"}

\* Inside the loop i is below TCOUNT.
BelowTCount == \A w \in Cond!Workers : pc[w] \in {"read", "write"} => i[w] < TCount

\* The mutex: who is inside owns it, so nobody else is; what was loaded is fresh.
CondLockInv == Cond!TypeOK /\ OwnCode /\ BelowTCount /\ Cond!InsideOwns /\ Cond!FreshRead

\* With the mutex the counter is exact and the signal comes in time.
CondInv == CondLockInv /\ Cond!CountExact /\ Cond!NoMissedSignal /\ Cond!WatcherSawLimit

\* The invariant holds when the program starts.
LEMMA CondInit ==
  ASSUME Cond!CondVarAssumption
  PROVE  Cond!Init => CondInv
  BY DEF Cond!Init, Cond!CondVarAssumption, CondInv, CondLockInv, Cond!TypeOK, OwnCode,
     BelowTCount, Cond!InsideOwns, Cond!Inside, Cond!FreshRead, Cond!CountExact,
     Cond!NoMissedSignal, Cond!WatcherSawLimit, Cond!Threads, Cond!Workers, Cond!Watcher

\* Every thread keeps what the mutex protects.
LEMMA CondLockNext ==
  ASSUME Cond!CondVarAssumption, CondLockInv, Cond!Next \/ UNCHANGED Cond!vars
  PROVE  CondLockInv'
<1> USE DEF Cond!CondVarAssumption, CondLockInv, Cond!TypeOK, OwnCode, BelowTCount,
    Cond!InsideOwns, Cond!Inside, Cond!FreshRead, Cond!Threads, Cond!Workers,
    Cond!Watcher, Cond!Go, Cond!Lock
<1>1. ASSUME NEW w \in Cond!Workers, Cond!inc_count(w) PROVE CondLockInv'
  <2>1. CASE Cond!IncLock(w) BY <2>1, SMTT(30) DEF Cond!IncLock
  <2>2. CASE Cond!ReadCount(w) BY <2>2, SMTT(30) DEF Cond!ReadCount
  <2>3. CASE Cond!WriteCount(w) BY <2>3, SMTT(30) DEF Cond!WriteCount
  <2>4. CASE Cond!Signal(w) BY <2>4, SMTT(30) DEF Cond!Signal
  <2>5. CASE Cond!Unlock(w) BY <2>5, SMTT(30) DEF Cond!Unlock
  <2>6. CASE Cond!IncExit(w) BY <2>6, SMTT(30) DEF Cond!IncExit
  <2> QED BY <1>1, <2>1, <2>2, <2>3, <2>4, <2>5, <2>6 DEF Cond!inc_count
<1>2. CASE Cond!watch_count
  <2>1. CASE Cond!WatchLock BY <2>1, SMTT(30) DEF Cond!WatchLock
  <2>2. CASE Cond!CondWait BY <2>2, SMTT(30) DEF Cond!CondWait
  <2>3. CASE Cond!Woken BY <2>3, SMTT(30) DEF Cond!Woken
  <2>4. CASE Cond!LoopDone BY <2>4, SMTT(30) DEF Cond!LoopDone
  <2>5. CASE Cond!WatchUnlock BY <2>5, SMTT(30) DEF Cond!WatchUnlock
  <2> QED BY <1>2, <2>1, <2>2, <2>3, <2>4, <2>5 DEF Cond!watch_count
<1>3. CASE Cond!SpuriousWakeup BY <1>3, SMTT(30) DEF Cond!SpuriousWakeup
<1>4. ASSUME NEW t \in Cond!Threads, Cond!Create(t) PROVE CondLockInv'
  BY <1>4, SMTT(30) DEF Cond!Create
<1>5. ASSUME NEW t \in Cond!Threads, Cond!Join(t) PROVE CondLockInv'
  BY <1>5, SMTT(30) DEF Cond!Join
<1>6. CASE UNCHANGED Cond!vars BY <1>6 DEF Cond!vars
<1> HIDE DEF CondLockInv, Cond!Threads, Cond!Workers, Cond!TypeOK, Cond!Watcher
<1> QED BY <1>1, <1>2, <1>3, <1>4, <1>5, <1>6 DEF Cond!Next, Cond!Main

\* The data.  Only WriteCount changes the counter, from the fresh value; only
\* Signal and the watcher itself change whether it waits.
LEMMA CondNext ==
  ASSUME Cond!CondVarAssumption, CondInv, Cond!Next \/ UNCHANGED Cond!vars
  PROVE  CondInv'
<1>0. CondLockInv /\ CondLockInv'
  BY CondLockNext DEF CondInv
<1> USE DEF Cond!CondVarAssumption, Cond!TypeOK, Cond!Threads, Cond!Workers,
    Cond!Watcher, Cond!Go, Cond!Lock
<1>1. Cond!CountExact'
  <2> USE <1>0 DEF CondInv, CondLockInv, Cond!FreshRead, Cond!CountExact
  <2>1. ASSUME NEW w \in Cond!Workers, Cond!WriteCount(w) PROVE Cond!CountExact'
    BY <2>1 DEF Cond!WriteCount
  <2>2. ASSUME NEW w \in Cond!Workers, Cond!inc_count(w), ~Cond!WriteCount(w)
        PROVE  UNCHANGED <<count, i>>
    BY <2>2
       DEF Cond!inc_count, Cond!IncLock, Cond!ReadCount, Cond!Signal, Cond!Unlock,
           Cond!IncExit
  <2>3. CASE Cond!watch_count \/ Cond!SpuriousWakeup
    BY <2>3
       DEF Cond!watch_count, Cond!WatchLock, Cond!CondWait, Cond!Woken, Cond!LoopDone,
           Cond!WatchUnlock, Cond!SpuriousWakeup
  <2>4. CASE Cond!Main BY <2>4 DEF Cond!Main, Cond!Create, Cond!Join
  <2>5. CASE UNCHANGED Cond!vars BY <2>5 DEF Cond!vars
  <2>6. ASSUME NEW w \in Cond!Workers, Cond!inc_count(w) PROVE Cond!CountExact'
    BY <2>1, <2>2, <2>6
  <2> HIDE DEF CondInv, CondLockInv, Cond!CountExact, Cond!TypeOK
  <2> QED BY <2>3, <2>4, <2>5, <2>6 DEF Cond!Next
<1>2. Cond!NoMissedSignal'
  <2> USE <1>0
      DEF CondInv, CondLockInv, Cond!NoMissedSignal, Cond!InsideOwns, Cond!Inside,
          OwnCode
  <2>1. ASSUME NEW w \in Cond!Workers, Cond!inc_count(w) PROVE Cond!NoMissedSignal'
    <3>1. CASE Cond!WriteCount(w) BY <3>1 DEF Cond!WriteCount, Cond!FreshRead
    <3>2. CASE Cond!Signal(w) BY <3>2 DEF Cond!Signal
    <3>3. CASE Cond!IncLock(w) \/ Cond!ReadCount(w) \/ Cond!Unlock(w) \/ Cond!IncExit(w)
      BY <3>3 DEF Cond!IncLock, Cond!ReadCount, Cond!Unlock, Cond!IncExit
    <3> QED BY <2>1, <3>1, <3>2, <3>3 DEF Cond!inc_count
  <2>2. CASE Cond!watch_count \/ Cond!SpuriousWakeup
    BY <2>2
       DEF Cond!watch_count, Cond!WatchLock, Cond!CondWait, Cond!Woken, Cond!LoopDone,
           Cond!WatchUnlock, Cond!SpuriousWakeup
  <2>3. CASE Cond!Main BY <2>3 DEF Cond!Main, Cond!Create, Cond!Join
  <2>4. CASE UNCHANGED Cond!vars BY <2>4 DEF Cond!vars
  <2> HIDE DEF CondInv, CondLockInv, Cond!NoMissedSignal, Cond!TypeOK
  <2> QED BY <2>1, <2>2, <2>3, <2>4 DEF Cond!Next
<1>3. Cond!WatcherSawLimit'
  <2> USE <1>0 DEF CondInv, CondLockInv, Cond!WatcherSawLimit, OwnCode
  <2>1. ASSUME NEW w \in Cond!Workers, Cond!inc_count(w) PROVE Cond!WatcherSawLimit'
    <3>1. count' >= count
      BY <2>1
         DEF Cond!inc_count, Cond!IncLock, Cond!ReadCount, Cond!WriteCount, Cond!Signal,
             Cond!Unlock, Cond!IncExit, Cond!FreshRead
    <3>2. pc'[Cond!Watcher] \in {"unlock", "exited"} =>
            pc[Cond!Watcher] \in {"unlock", "exited"}
      BY <2>1
         DEF Cond!inc_count, Cond!IncLock, Cond!ReadCount, Cond!WriteCount, Cond!Signal,
             Cond!Unlock, Cond!IncExit
    <3> QED BY <3>1, <3>2
  <2>2. CASE Cond!watch_count \/ Cond!SpuriousWakeup
    BY <2>2
       DEF Cond!watch_count, Cond!WatchLock, Cond!CondWait, Cond!Woken, Cond!LoopDone,
           Cond!WatchUnlock, Cond!SpuriousWakeup
  <2>3. CASE Cond!Main BY <2>3 DEF Cond!Main, Cond!Create, Cond!Join
  <2>4. CASE UNCHANGED Cond!vars BY <2>4 DEF Cond!vars
  <2> HIDE DEF CondInv, CondLockInv, Cond!WatcherSawLimit, Cond!TypeOK
  <2> QED BY <2>1, <2>2, <2>3, <2>4 DEF Cond!Next
<1> QED BY <1>0, <1>1, <1>2, <1>3 DEF CondInv

-----------------------------------------------------------------------------
(* bankacc_datarace.c.                                                     *)

CONSTANT NUM_ITERATIONS

VARIABLES opt, balance, lock, reg

Bank == INSTANCE BankAcc

\* With or without the mutex the balance, and what a thread has
\* loaded, stay within what has been stored so far.
BankRange ==
  /\ \A v \in {balance, reg["deposit"], reg["withdraw"]} :
        - Bank!Stored("withdraw") <= v /\ v <= Bank!Stored("deposit")
  /\ \A t \in Bank!Threads : pc[t] \in {"load", "store", "unlock"} =>
        i[t] < NUM_ITERATIONS
  /\ main = "deposit" => pc["deposit"] = "new"
  /\ main \in {"deposit", "withdraw"} => pc["withdraw"] = "new"

\* With the mutex it is exact, too.
BankInv == Bank!TypeOK /\ BankRange /\ Bank!InsideOwns /\ Bank!BalanceExact

\* The invariant holds when the program starts.
LEMMA BankInit ==
  ASSUME Bank!BankAccAssumption
  PROVE  Bank!Init => BankInv
  BY DEF Bank!BankAccAssumption, BankInv, BankRange, Bank!Init, Bank!TypeOK,
     Bank!InsideOwns, Bank!BalanceExact, Bank!Threads, Bank!Free, Bank!Stored

\* The invariant is kept by main() and by both threads.
LEMMA BankNext ==
  ASSUME Bank!BankAccAssumption, BankInv, Bank!Next \/ UNCHANGED Bank!vars
  PROVE  BankInv'
<1> USE DEF Bank!BankAccAssumption, BankInv, BankRange, Bank!TypeOK, Bank!InsideOwns,
      Bank!BalanceExact, Bank!Threads, Bank!Free, Bank!Stored, Bank!Goto, Bank!Delta
<1>1. ASSUME NEW t \in Bank!Threads, Bank!Create(t) PROVE BankInv' BY <1>1
    DEF Bank!Create
<1>2. CASE Bank!Join BY <1>2 DEF Bank!Join
<1>3. ASSUME NEW t \in Bank!Threads, Bank!Lock(t) PROVE BankInv' BY <1>3 DEF Bank!Lock
<1>4. ASSUME NEW t \in Bank!Threads, Bank!Load(t) PROVE BankInv' BY <1>4 DEF Bank!Load
<1>5. ASSUME NEW t \in Bank!Threads, Bank!Store(t) PROVE BankInv' BY <1>5 DEF Bank!Store
<1>6. ASSUME NEW t \in Bank!Threads, Bank!Unlock(t) PROVE BankInv' BY <1>6
    DEF Bank!Unlock
<1>7. ASSUME NEW t \in Bank!Threads, Bank!Return(t) PROVE BankInv' BY <1>7
    DEF Bank!Return
<1>8. CASE UNCHANGED Bank!vars BY <1>8 DEF Bank!vars
<1> QED BY <1>1, <1>2, <1>3, <1>4, <1>5, <1>6, <1>7, <1>8
    DEF Bank!Next, Bank!Main, Bank!Thread

-----------------------------------------------------------------------------
(* The parts of equal length that vectors and matrices are cut into.       *)

\* Consecutive parts of equal length do not overlap, and cover what is before them.
LEMMA PartsApart ==
  ASSUME NEW a \in Nat, NEW b \in Nat, NEW v \in Nat, a < b
  PROVE  a * v + v <= b * v
<1>1. PICK d \in Nat : b = a + 1 + d
  <2>1. b - a - 1 \in Nat /\ b = a + 1 + (b - a - 1)
    OBVIOUS
  <2> QED BY <2>1
<1>2. b * v = a * v + v + d * v
  BY <1>1, Z3
<1>3. d * v >= 0
  BY Z3
<1>4. a * v \in Nat /\ d * v \in Nat /\ b * v \in Nat
  BY Z3
<1> QED BY <1>2, <1>3, <1>4

\* What is before m parts of length v is in one of them.
LEMMA PartOf ==
  ASSUME NEW v \in Nat, NEW m \in Nat, NEW x \in Nat, x < m * v
  PROVE  \E a \in 0..(m - 1) : a * v <= x /\ x < a * v + v
<1>1. v > 0
  BY Z3
<1>2. x \div v \in Nat /\ (x \div v) * v <= x /\ x < (x \div v) * v + v
  BY <1>1, Z3
<1>3. x \div v < m
  <2> SUFFICES ASSUME x \div v >= m PROVE FALSE
    BY <1>2
  <2>1. CASE x \div v = m BY <1>2, <2>1
  <2>2. CASE m < x \div v
    <3>1. m * v + v <= (x \div v) * v BY <1>2, <2>2, PartsApart
    <3> QED BY <1>2, <3>1, Z3
  <2> QED BY <1>2, <2>1, <2>2
<1> WITNESS x \div v \in 0..(m - 1)
<1> QED BY <1>2

-----------------------------------------------------------------------------
(* pt3-matrixmul.c and matrixmul-dbg.c.                                    *)

CONSTANTS NUMTHRDS, VECLEN

VARIABLES mutex, mysum, k

Dot == INSTANCE DotProd

\* How far the loops of main() have come.
DotLoops ==
  /\ main = "create" => \A t \in Dot!Threads : pc[t] = "none" <=> t >= k
  /\ main # "create" => \A t \in Dot!Threads : pc[t] # "none"
  /\ main = "join" => \A t \in Dot!Threads : t < k => pc[t] = "done"
  /\ main = "print" => \A t \in Dot!Threads : pc[t] = "done"

\* A thread that has stored has added its part once, and nothing else was added.
DotInv == Dot!TypeOK /\ DotLoops /\ Dot!InsideOwns /\ Dot!SumExact

\* The invariant holds when the program starts.
LEMMA DotInit ==
  ASSUME Dot!DotProdAssumption
  PROVE  Dot!Init => DotInv
  BY DEF Dot!DotProdAssumption, DotInv, DotLoops, Dot!Init, Dot!TypeOK, Dot!InsideOwns,
      Dot!SumExact, Dot!Threads, Dot!Free, Dot!Index, Dot!Zero, Dot!Part

\* The parts of two threads have no index in common.
LEMMA DotParts ==
  ASSUME Dot!DotProdAssumption, NEW s \in Dot!Threads, NEW t \in Dot!Threads, s # t,
         NEW x \in Dot!Part(s)
  PROVE  x \notin Dot!Part(t)
<1> USE DEF Dot!DotProdAssumption, Dot!Threads, Dot!Part, Dot!Index
<1>1. s \in Nat /\ t \in Nat /\ VECLEN \in Nat /\ x \in Int OBVIOUS
<1>2. s * VECLEN \in Int /\ t * VECLEN \in Int BY <1>1, Z3
<1>3. CASE s < t
  <2>1. s * VECLEN + VECLEN <= t * VECLEN BY <1>1, <1>3, PartsApart
  <2> QED BY <1>1, <1>2, <2>1
<1>4. CASE t < s
  <2>1. t * VECLEN + VECLEN <= s * VECLEN BY <1>1, <1>4, PartsApart
  <2> QED BY <1>1, <1>2, <2>1
<1> QED BY <1>1, <1>3, <1>4

\* The invariant is kept by main() and by every thread.
LEMMA DotNext ==
  ASSUME Dot!DotProdAssumption, DotInv, Dot!Next \/ UNCHANGED Dot!vars
  PROVE  DotInv'
<1> USE DEF Dot!DotProdAssumption, DotInv, DotLoops, Dot!TypeOK, Dot!InsideOwns,
      Dot!SumExact, Dot!Threads, Dot!Free, Dot!Goto
<1>1. CASE Dot!Create
  <2>1. PICK how \in {"read", "failed"} : pc' = [pc EXCEPT ![k] = how]
    BY <1>1 DEF Dot!Create
  <2>2. k \in Dot!Threads /\ pc[k] = "none" BY <1>1 DEF Dot!Create
  <2>3. Dot!TypeOK' BY <1>1, <2>1, <2>2 DEF Dot!Create
  <2>4. DotLoops'
    <3>1. \A t \in Dot!Threads : pc'[t] = IF t = k THEN how ELSE pc[t] BY <2>1, <2>2
    <3> QED BY <1>1, <2>2, <3>1 DEF Dot!Create
  <2>5. Dot!InsideOwns' BY <1>1, <2>1, <2>2 DEF Dot!Create
  <2>6. Dot!SumExact' BY <1>1, <2>1, <2>2 DEF Dot!Create
  <2> QED BY <2>3, <2>4, <2>5, <2>6
<1>2. CASE Dot!Join
  <2>1. Dot!TypeOK' BY <1>2 DEF Dot!Join
  <2>2. DotLoops' BY <1>2 DEF Dot!Join
  <2>3. Dot!InsideOwns' BY <1>2 DEF Dot!Join
  <2>4. Dot!SumExact' BY <1>2 DEF Dot!Join
  <2> QED BY <2>1, <2>2, <2>3, <2>4
<1>3. ASSUME NEW t \in Dot!Threads, Dot!Compute(t) PROVE DotInv'
  <2>1. Dot!TypeOK' BY <1>3 DEF Dot!Compute, Dot!Part
  <2>2. DotLoops' BY <1>3 DEF Dot!Compute, Dot!Part
  <2>3. Dot!InsideOwns' BY <1>3 DEF Dot!Compute, Dot!Part
  <2>4. Dot!SumExact' BY <1>3 DEF Dot!Compute, Dot!Part
  <2> QED BY <2>1, <2>2, <2>3, <2>4
<1>4. ASSUME NEW t \in Dot!Threads, Dot!Lock(t) PROVE DotInv'
  <2>1. Dot!TypeOK' BY <1>4 DEF Dot!Lock
  <2>2. DotLoops' BY <1>4 DEF Dot!Lock
  <2>3. Dot!InsideOwns' BY <1>4 DEF Dot!Lock
  <2>4. Dot!SumExact' BY <1>4 DEF Dot!Lock
  <2> QED BY <2>1, <2>2, <2>3, <2>4
<1>5. ASSUME NEW t \in Dot!Threads, Dot!Load(t) PROVE DotInv'
  <2>1. Dot!TypeOK' BY <1>5 DEF Dot!Load
  <2>2. DotLoops' BY <1>5 DEF Dot!Load
  <2>3. Dot!InsideOwns' BY <1>5 DEF Dot!Load
  <2>4. Dot!SumExact' BY <1>5 DEF Dot!Load
  <2> QED BY <2>1, <2>2, <2>3, <2>4
<1>6. ASSUME NEW t \in Dot!Threads, Dot!Store(t) PROVE DotInv'
  <2>1. mysum[t] = Dot!Part(t) /\ reg[t] = sum BY <1>6 DEF Dot!Store
  <2>2. Dot!TypeOK' BY <1>6, <2>1 DEF Dot!Store
  <2>3. DotLoops' BY <1>6 DEF Dot!Store
  <2>4. Dot!InsideOwns' BY <1>6 DEF Dot!Store
  <2>5. Dot!SumExact'
    <3> SUFFICES ASSUME NEW s \in Dot!Threads, NEW x \in Dot!Part(s)
                 PROVE sum'[x] = IF pc'[s] \in {"unlock", "done"} THEN 1 ELSE 0
      OBVIOUS
    <3>1. x \in Dot!Index BY DEF Dot!Part
    <3>2. sum'[x] = sum[x] + IF x \in Dot!Part(t) THEN 1 ELSE 0
      BY <1>6, <2>1, <3>1 DEF Dot!Store
    <3>3. CASE s = t
      <4>1. sum[x] = 0 BY <1>6, <3>3 DEF Dot!Store
      <4>2. pc'[s] = "unlock" BY <1>6, <3>3 DEF Dot!Store
      <4> QED BY <3>2, <3>3, <4>1, <4>2
    <3>4. CASE s # t
      <4>1. x \notin Dot!Part(t) BY <3>4, DotParts
      <4>2. sum[x] \in Nat BY <3>1
      <4> QED BY <1>6, <3>2, <3>4, <4>1, <4>2 DEF Dot!Store
    <3> QED BY <3>3, <3>4
  <2> QED BY <2>2, <2>3, <2>4, <2>5
<1>7. ASSUME NEW t \in Dot!Threads, Dot!Unlock(t) PROVE DotInv'
  <2>1. Dot!TypeOK' BY <1>7 DEF Dot!Unlock
  <2>2. DotLoops' BY <1>7 DEF Dot!Unlock
  <2>3. Dot!InsideOwns' BY <1>7 DEF Dot!Unlock
  <2>4. Dot!SumExact' BY <1>7 DEF Dot!Unlock
  <2> QED BY <2>1, <2>2, <2>3, <2>4
<1>8. CASE UNCHANGED Dot!vars BY <1>8 DEF Dot!vars
<1> QED BY <1>1, <1>2, <1>3, <1>4, <1>5, <1>6, <1>7, <1>8
    DEF Dot!Next, Dot!Main, Dot!dotprod

\* When main() prints, all threads have added their parts.
LEMMA DotPrinted ==
  ASSUME Dot!DotProdAssumption
  PROVE  DotInv => Dot!PrintedComplete
<1> SUFFICES ASSUME DotInv, main = "print", NEW x \in Dot!Index PROVE sum[x] = 1
  BY DEF Dot!PrintedComplete
<1> USE DEF Dot!DotProdAssumption
<1>1. x \in Nat /\ x < NUMTHRDS * VECLEN
  <2>1. NUMTHRDS * VECLEN \in Nat BY Z3
  <2> QED BY <2>1 DEF Dot!Index
<1>2. PICK t \in 0..(NUMTHRDS - 1) : t * VECLEN <= x /\ x < t * VECLEN + VECLEN
  BY <1>1, PartOf
<1>3. t \in Dot!Threads /\ x \in Dot!Part(t) BY <1>2 DEF Dot!Threads, Dot!Part
<1> QED BY <1>3 DEF DotInv, DotLoops, Dot!SumExact

-----------------------------------------------------------------------------
(* thrd_matrixmul.c.                                                       *)

CONSTANTS n, nthreads

VARIABLES row, rows

Rows == INSTANCE MatrixRows

\* A thread works through its own part from its first row; a row that
\* is in no part is never computed.
RowsDone ==
  /\ \A t \in Rows!Threads : IF t < main THEN Rows!First(t) <= row[t] ELSE row[t] = -1
  /\ \A t \in Rows!Threads : t < main - nthreads => row[t] = Rows!Last(t)
  /\ \A t \in Rows!Threads : \A x \in 0..(n - 1) :
       Rows!First(t) <= x /\ x < Rows!Last(t) => rows[x] = IF x < row[t] THEN 1 ELSE 0
  /\ \A x \in 0..(n - 1) :
       (\A t \in Rows!Threads : ~(Rows!First(t) <= x /\ x < Rows!Last(t))) => rows[x] = 0

\* All of it.
RowsInv == Rows!TypeOK /\ RowsDone

\* The parts of the threads are intervals of rows of the matrix.
LEMMA RowsParts ==
  ASSUME Rows!MatrixRowsAssumption
  PROVE  /\ \A t \in Rows!Threads : /\ Rows!First(t) \in Nat /\ Rows!Last(t) \in Nat
                                   /\ Rows!First(t) <= Rows!Last(t) /\ Rows!Last(t) <= n
         /\ \A s, t \in Rows!Threads : s < t => Rows!Last(s) <= Rows!First(t)
<1> DEFINE q == n \div nthreads
<1> USE DEF Rows!MatrixRowsAssumption, Rows!Threads, Rows!First, Rows!Last
<1>1. q \in Nat /\ nthreads * q <= n BY Z3
<1>2. \A t \in Rows!Threads : Rows!First(t) = t * q /\ Rows!Last(t) = t * q + q OBVIOUS
<1> HIDE DEF q, Rows!First, Rows!Last
<1>3. \A t \in Rows!Threads : t * q \in Nat BY <1>1, Z3
<1>4. \A t \in Rows!Threads : t * q + q <= nthreads * q BY <1>1, PartsApart
<1>5. \A s, t \in Rows!Threads : s < t => s * q + q <= t * q BY <1>1, PartsApart
<1>6. nthreads * q \in Nat BY <1>1, Z3
<1> QED BY <1>1, <1>2, <1>3, <1>4, <1>5, <1>6

\* The invariant holds when the program starts.
LEMMA RowsInit ==
  ASSUME Rows!MatrixRowsAssumption
  PROVE  Rows!Init => RowsInv
<1> USE RowsParts DEF Rows!MatrixRowsAssumption, Rows!Threads
<1> SUFFICES ASSUME Rows!Init PROVE RowsInv OBVIOUS
<1>1. Rows!TypeOK BY DEF Rows!Init, Rows!TypeOK, Rows!Last
<1>2. RowsDone BY DEF Rows!Init, RowsDone
<1> QED BY <1>1, <1>2 DEF RowsInv

\* The invariant is kept by main() and by every thread.
LEMMA RowsNext ==
  ASSUME Rows!MatrixRowsAssumption, RowsInv, Rows!Next \/ UNCHANGED Rows!vars
  PROVE  RowsInv'
<1> USE DEF Rows!MatrixRowsAssumption, RowsInv
<1>a. /\ nthreads \in Nat /\ n \in Nat
      /\ \A t \in Rows!Threads : t \in Nat /\ t < nthreads
      /\ \A t \in Nat : t < nthreads => t \in Rows!Threads
  BY DEF Rows!Threads
<1>b. \A t \in Rows!Threads : Rows!First(t) \in Nat /\ Rows!Last(t) \in Nat
                            /\ Rows!First(t) <= Rows!Last(t) /\ Rows!Last(t) <= n
  BY RowsParts
<1>t. /\ row \in [Rows!Threads -> -1..n] /\ rows \in [0..(n - 1) -> Nat]
      /\ main \in 0..(2 * nthreads)
      /\ \A t \in Rows!Threads : row[t] <= Rows!Last(t)
  BY DEF Rows!TypeOK, Rows!Last
<1>1. CASE Rows!Create
  <2>1. /\ main \in Rows!Threads /\ row' = [row EXCEPT ![main] = Rows!First(main)]
        /\ main' = main + 1 /\ rows' = rows
    BY <1>1, <1>a, <1>t DEF Rows!Create
  <2>2. Rows!TypeOK'
    <3>0. Rows!First(main) \in -1..n BY <2>1, <1>a, <1>b
    <3>1. row' \in [Rows!Threads -> -1..n] BY <2>1, <1>t, <3>0
    <3>2. \A t \in Rows!Threads : row'[t] <= Rows!Last(t) BY <2>1, <1>b, <1>t
    <3>3. main' \in 0..(2 * nthreads) BY <2>1, <1>a
    <3> QED BY <2>1, <1>t, <3>1, <3>2, <3>3 DEF Rows!TypeOK, Rows!Last
  <2>3. RowsDone'
    <3>1. ASSUME NEW t \in Rows!Threads
          PROVE  IF t < main' THEN Rows!First(t) <= row'[t] ELSE row'[t] = -1
      BY <2>1, <1>a, <1>b, <1>t DEF RowsDone
    <3>2. ASSUME NEW t \in Rows!Threads PROVE ~(t < main' - nthreads)
      BY <2>1, <1>a
    <3>3. ASSUME NEW t \in Rows!Threads, NEW x \in 0..(n - 1),
                 Rows!First(t) <= x, x < Rows!Last(t)
          PROVE  rows'[x] = IF x < row'[t] THEN 1 ELSE 0
      <4>1. rows[x] = IF x < row[t] THEN 1 ELSE 0 BY <3>3 DEF RowsDone
      <4>2. CASE t = main
        <5>1. row[t] = -1 /\ row'[t] = Rows!First(t) BY <2>1, <4>2, <1>a, <1>t
            DEF RowsDone
        <5> QED BY <2>1, <4>1, <5>1, <3>3, <1>b
      <4>3. CASE t # main BY <2>1, <4>1, <4>3, <1>t
      <4> QED BY <4>2, <4>3
    <3> QED BY <2>1, <3>1, <3>2, <3>3 DEF RowsDone
  <2> QED BY <2>2, <2>3
<1>2. CASE Rows!Join
  <2>1. Rows!TypeOK' BY <1>2, <1>a, <1>t DEF Rows!Join, Rows!TypeOK
  <2>2. RowsDone'
    <3>1. ASSUME NEW t \in Rows!Threads, t < main' - nthreads PROVE row[t] = Rows!Last(t)
      BY <1>2, <1>a, <1>t, <3>1 DEF Rows!Join, RowsDone
    <3>2. \A t \in Rows!Threads : t < main /\ t < main' BY <1>2, <1>a, <1>t
        DEF Rows!Join
    <3> QED BY <1>2, <3>1, <3>2 DEF Rows!Join, RowsDone
  <2> QED BY <2>1, <2>2
<1>3. ASSUME NEW t \in Rows!Threads, Rows!threadfun(t) PROVE RowsInv'
  <2>1. /\ t < main /\ row[t] \in 0..(n - 1)
        /\ Rows!First(t) <= row[t] /\ row[t] < Rows!Last(t)
        /\ row' = [row EXCEPT ![t] = row[t] + 1]
        /\ rows' = [rows EXCEPT ![row[t]] = rows[row[t]] + 1]
        /\ main' = main
    <3>1. row[t] \in -1..n /\ row[t] >= 0 /\ row[t] < Rows!Last(t)
      BY <1>3, <1>t DEF Rows!threadfun
    <3>2. t < main /\ Rows!First(t) <= row[t] BY <3>1 DEF RowsDone
    <3> QED BY <1>3, <1>a, <1>b, <3>1, <3>2 DEF Rows!threadfun
  <2>2. Rows!TypeOK'
    <3>0. row[t] + 1 \in -1..n BY <2>1, <1>a
    <3>1. row' \in [Rows!Threads -> -1..n] BY <2>1, <1>t, <3>0
    <3>2. \A s \in Rows!Threads : row'[s] <= Rows!Last(s) BY <2>1, <1>b, <1>t
    <3>3. rows' \in [0..(n - 1) -> Nat] BY <2>1, <1>t
    <3> QED BY <2>1, <1>t, <3>1, <3>2, <3>3 DEF Rows!TypeOK, Rows!Last
  <2>3. RowsDone'
    <3>1. ASSUME NEW s \in Rows!Threads
          PROVE  IF s < main' THEN Rows!First(s) <= row'[s] ELSE row'[s] = -1
      <4>1. IF s < main THEN Rows!First(s) <= row[s] ELSE row[s] = -1 BY DEF RowsDone
      <4>2. CASE s = t BY <2>1, <4>2, <1>b, <1>t
      <4>3. CASE s # t BY <2>1, <4>1, <4>3, <1>t
      <4> QED BY <4>2, <4>3
    <3>2. ASSUME NEW s \in Rows!Threads, s < main' - nthreads PROVE row'[s] = Rows!Last(s)
      <4>1. row[s] = Rows!Last(s) BY <2>1, <3>2 DEF RowsDone
      <4>2. row[t] # Rows!Last(t) BY <2>1, <1>b
      <4>3. s # t BY <4>1, <4>2
      <4> QED BY <2>1, <4>1, <4>3, <1>t
    <3>3. ASSUME NEW s \in Rows!Threads, NEW x \in 0..(n - 1),
                 Rows!First(s) <= x, x < Rows!Last(s)
          PROVE  rows'[x] = IF x < row'[s] THEN 1 ELSE 0
      <4>1. rows[x] = IF x < row[s] THEN 1 ELSE 0 BY <3>3 DEF RowsDone
      <4>2. CASE s = t BY <2>1, <4>1, <4>2, <1>t
      <4>3. CASE s # t
        <5>1. x # row[t] BY <3>3, <4>3, <2>1, <1>a, <1>b, RowsParts
        <5> QED BY <2>1, <4>1, <4>3, <5>1, <1>t
      <4> QED BY <4>2, <4>3
    <3>4. ASSUME NEW x \in 0..(n - 1),
                 \A s \in Rows!Threads : ~(Rows!First(s) <= x /\ x < Rows!Last(s))
          PROVE  rows'[x] = 0
      BY <2>1, <1>t, <3>4 DEF RowsDone
    <3> QED BY <3>1, <3>2, <3>3, <3>4 DEF RowsDone
  <2> QED BY <2>2, <2>3
<1>4. CASE UNCHANGED Rows!vars BY <1>4 DEF Rows!vars, Rows!TypeOK, RowsDone
<1> QED BY <1>1, <1>2, <1>3, <1>4 DEF Rows!Next, Rows!Main

\* When main() has joined all threads, each row of a part was computed once.
LEMMA RowsComputed ==
  ASSUME Rows!MatrixRowsAssumption
  PROVE  RowsInv => Rows!RowsOnce
<1> SUFFICES ASSUME RowsInv PROVE Rows!RowsOnce OBVIOUS
<1> USE DEF Rows!MatrixRowsAssumption, Rows!Threads, RowsInv
<1>1. ASSUME NEW x \in 0..(n - 1) PROVE rows[x] <= 1
  <2>1. CASE \E t \in Rows!Threads : Rows!First(t) <= x /\ x < Rows!Last(t)
    BY <2>1 DEF RowsDone
  <2> QED BY <2>1 DEF RowsDone
<1>2. ASSUME main = 2 * nthreads, NEW x \in 0..(Rows!Last(nthreads - 1) - 1)
      PROVE  rows[x] = 1
  <2> DEFINE q == n \div nthreads
  <2>1. q \in Nat BY Z3
  <2>2. Rows!Last(nthreads - 1) = nthreads * q
    <3>1. Rows!Last(nthreads - 1) = (nthreads - 1) * q + q BY DEF Rows!Last, Rows!First
    <3> HIDE DEF q
    <3> QED BY <2>1, <3>1, Z3
  <2>3. x \in Nat /\ x < nthreads * q BY <2>2, RowsParts
  <2>4. \A t \in Rows!Threads : Rows!First(t) = t * q /\ Rows!Last(t) = t * q + q
    BY DEF Rows!First, Rows!Last
  <2> HIDE DEF q
  <2>5. PICK t \in 0..(nthreads - 1) : t * q <= x /\ x < t * q + q
    BY <2>1, <2>3, PartOf
  <2>6. x \in 0..(n - 1) BY <2>3, <2>4, <2>5, RowsParts
  <2>7. t \in Rows!Threads /\ t < main - nthreads BY <1>2, <2>5
  <2>8. row[t] = Rows!Last(t) BY <2>7 DEF RowsDone
  <2> QED BY <2>4, <2>5, <2>6, <2>8 DEF RowsDone
<1> QED BY <1>1, <1>2 DEF Rows!RowsOnce
=============================================================================
