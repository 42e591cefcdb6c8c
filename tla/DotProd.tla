------------------------------- MODULE DotProd -------------------------------
(***************************************************************************)
(* pthreads/llnl-tut-prgs/{pt3-matrixmul,matrixmul-dbg}.c: NUMTHRDS        *)
(* threads each compute the product over their part of two vectors and add *)
(* it to a shared sum under a mutex.  A sum is the bag of the indices that *)
(* went into it.                                                           *)
(***************************************************************************)
EXTENDS Integers

CONSTANTS NUMTHRDS, VECLEN

\* The values the constants may have.
DotProdAssumption == NUMTHRDS \in Nat \ {0} /\ VECLEN \in Nat

Threads == 0..(NUMTHRDS - 1)
Index == 0..(NUMTHRDS * VECLEN - 1)
Free == -1

VARIABLES sum,       \* dotstr.sum: how often each index is in it
          mutex,     \* owner of mutexsum, or Free
          pc,        \* progress of each thread
          mysum,     \* indices in the sum of each thread
          reg,       \* dotstr.sum as each thread has loaded it
          main, k    \* progress of main() and its loop counter

vars == <<sum, mutex, pc, mysum, reg, main, k>>

Zero == [n \in Index |-> 0]

Init ==
  /\ sum = Zero /\ mutex = Free
  /\ pc = [t \in Threads |-> "none"] /\ mysum = [t \in Threads |-> {}]
  /\ reg = [t \in Threads |-> Zero]
  /\ main = "create" /\ k = 0

-----------------------------------------------------------------------------
(* main().                                                                 *)

\* A failed creation is reported, and the loop goes on.
Create ==
  /\ main = "create" /\ k < NUMTHRDS
  /\ \E how \in {"read", "failed"} : pc' = [pc EXCEPT ![k] = how]
  /\ main' = IF k + 1 = NUMTHRDS THEN "join" ELSE "create"
  /\ k' = IF k + 1 = NUMTHRDS THEN 0 ELSE k + 1
  /\ UNCHANGED <<sum, mutex, mysum, reg>>

\* Mutant of Join: the last thread is not joined.
Join_OneLess ==
  /\ main = "join" /\ pc[k] = "done"
  /\ main' = IF k + 2 >= NUMTHRDS THEN "print" ELSE "join"
  /\ k' = k + 1
  /\ UNCHANGED <<sum, mutex, pc, mysum, reg>>

\* The join of a thread that was not created is undefined: here, a crash.
Join ==
  /\ main = "join"
  /\ \/ pc[k] = "done" /\ main' = IF k + 1 = NUMTHRDS THEN "print" ELSE "join"
     \/ pc[k] = "failed" /\ main' = "crash"
  /\ k' = k + 1
  /\ UNCHANGED <<sum, mutex, pc, mysum, reg>>

-----------------------------------------------------------------------------
(* dotprod().                                                              *)

Goto(t, l) == pc' = [pc EXCEPT ![t] = l]

\* Mutant of Part: one index too many.
Part_More(t) == {n \in Index : t * VECLEN <= n /\ n <= (t + 1) * VECLEN}

\* start = offset * len, end = start + len.
Part(t) == {n \in Index : t * VECLEN <= n /\ n < t * VECLEN + VECLEN}

\* The length is read under the mutex, as one step; then the thread computes.
Compute(t) ==
  /\ pc[t] = "read" /\ mutex = Free
  /\ mysum' = [mysum EXCEPT ![t] = Part(t)]
  /\ Goto(t, "lock")
  /\ UNCHANGED <<sum, mutex, reg, main, k>>

\* Mutant of Lock: no mutex around the update.
Lock_No(t) == pc[t] = "lock" /\ Goto(t, "load") /\ UNCHANGED <<sum, mutex, mysum, reg, main, k>>

Lock(t) ==
  /\ pc[t] = "lock" /\ mutex = Free
  /\ mutex' = t /\ Goto(t, "load")
  /\ UNCHANGED <<sum, mysum, reg, main, k>>

\* dotstr.sum += mysum: a load and a store.
Load(t) ==
  /\ pc[t] = "load"
  /\ reg' = [reg EXCEPT ![t] = sum] /\ Goto(t, "store")
  /\ UNCHANGED <<sum, mutex, mysum, main, k>>

Store(t) ==
  /\ pc[t] = "store"
  /\ sum' = [n \in Index |-> reg[t][n] + IF n \in mysum[t] THEN 1 ELSE 0]
  /\ Goto(t, "unlock")
  /\ UNCHANGED <<mutex, mysum, reg, main, k>>

\* Mutant of Unlock: the mutex stays locked.
Unlock_Forgets(t) ==
  /\ pc[t] = "unlock" /\ Goto(t, "done") /\ UNCHANGED <<sum, mutex, mysum, reg, main, k>>

Unlock(t) ==
  /\ pc[t] = "unlock" /\ mutex' = Free /\ Goto(t, "done")
  /\ UNCHANGED <<sum, mysum, reg, main, k>>

dotprod(t) == Compute(t) \/ Lock(t) \/ Load(t) \/ Store(t) \/ Unlock(t)

Main == Create \/ Join

Next == Main \/ \E t \in Threads : dotprod(t)

Spec == Init /\ [][Next]_vars

-----------------------------------------------------------------------------
(* Properties.                                                             *)

\* Every variable has its type, and the loops index callThd[] inside its bounds.
TypeOK ==
  /\ sum \in [Index -> Nat] /\ mutex \in Threads \cup {Free}
  /\ pc \in [Threads -> {"none", "failed", "read", "lock", "load", "store", "unlock",
                         "done"}]
  /\ mysum \in [Threads -> SUBSET Index] /\ reg \in [Threads -> [Index -> Nat]]
  /\ main \in {"create", "join", "print", "crash"} /\ k \in 0..NUMTHRDS
  /\ main \in {"create", "join"} => k < NUMTHRDS

\* No index is counted twice, and an index is counted exactly when its thread
\* has stored its part: no update is lost.
SumExact ==
  \A t \in Threads : \A n \in Part(t) :
    sum[n] = IF pc[t] \in {"unlock", "done"} THEN 1 ELSE 0

\* What is printed is the product of the whole vectors.
PrintedComplete == main = "print" => \A n \in Index : sum[n] = 1

\* The strengthening that makes SumExact inductive.
InsideOwns ==
  \A t \in Threads :
    /\ pc[t] \in {"load", "store", "unlock"} <=> mutex = t
    /\ pc[t] = "store" => reg[t] = sum
    /\ pc[t] \in {"lock", "load", "store", "unlock", "done"} => mysum[t] = Part(t)

\* The sum is printed, or main() has crashed after a failed creation.
Ended == (main \in {"print", "crash"})
=============================================================================
