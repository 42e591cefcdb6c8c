------------------------------- MODULE BankAcc -------------------------------
(***************************************************************************)
(* pthreads/bankacc_datarace: one thread deposits and one withdraws, each  *)
(* NUM_ITERATIONS times, with a mutex (option 0) or without (option 1).    *)
(* The update is a load and a store of the shared balance.                 *)
(***************************************************************************)
EXTENDS Integers

CONSTANT NUM_ITERATIONS

\* The values the constants may have.
BankAccAssumption == NUM_ITERATIONS \in Nat

Threads == {"deposit", "withdraw"}
Delta(t) == IF t = "deposit" THEN 1 ELSE -1
Free == "free"

VARIABLES opt, balance,
          lock,     \* owner of the mutex, or Free
          pc,       \* "new", "top", "load", "store", "unlock" or "done"
          i,        \* iterations done
          reg,      \* value each thread has loaded
          main      \* the thread main() creates next, or "join", "print", "crash"

vars == <<opt, balance, lock, pc, i, reg, main>>

Init ==
  /\ opt \in 0..2 /\ balance = 0 /\ lock = Free /\ main = "deposit"
  /\ pc = [t \in Threads |-> "new"]
  /\ i = [t \in Threads |-> 0] /\ reg = [t \in Threads |-> 0]

Goto(t, l) == pc' = [pc EXCEPT ![t] = l]

\* main() creates the two threads one after the other, without a look at the
\* result; with an option other than 0 and 1 it creates none.
Create(t) ==
  /\ main = t
  /\ \/ opt \in {0, 1} /\ Goto(t, "top")
     \/ UNCHANGED pc
  /\ main' = IF t = "deposit" THEN "withdraw" ELSE "join"
  /\ UNCHANGED <<opt, balance, lock, i, reg>>

\* pthread_join() waits for a thread; with the handle 0 it is undefined: a crash.
Join ==
  /\ main = "join"
  /\ \/ (\A t \in Threads : pc[t] = "done") /\ main' = "print"
     \/ (\E t \in Threads : pc[t] = "new") /\ main' = "crash"
  /\ UNCHANGED <<opt, balance, lock, pc, i, reg>>

\* Mutant of Lock: withdraw() has no lock.
Lock_Half(t) ==
  /\ pc[t] = "top" /\ i[t] < NUM_ITERATIONS
  /\ IF opt = 0 /\ t = "deposit" THEN lock = Free /\ lock' = t ELSE UNCHANGED lock
  /\ Goto(t, "load")
  /\ UNCHANGED <<opt, balance, i, reg, main>>

\* The top of the loop, with pthread_mutex_lock() for option 0.
Lock(t) ==
  /\ pc[t] = "top" /\ i[t] < NUM_ITERATIONS
  /\ IF opt = 0 THEN lock = Free /\ lock' = t ELSE UNCHANGED lock
  /\ Goto(t, "load")
  /\ UNCHANGED <<opt, balance, i, reg, main>>

Load(t) ==
  /\ pc[t] = "load"
  /\ reg' = [reg EXCEPT ![t] = balance]
  /\ Goto(t, "store")
  /\ UNCHANGED <<opt, balance, lock, i, main>>

Store(t) ==
  /\ pc[t] = "store"
  /\ balance' = reg[t] + Delta(t)
  /\ Goto(t, "unlock")
  /\ UNCHANGED <<opt, lock, i, reg, main>>

\* Mutant of Unlock: one unlock is forgotten.
Unlock_Forgets(t) ==
  /\ pc[t] = "unlock"
  /\ i' = [i EXCEPT ![t] = @ + 1]
  /\ Goto(t, "top")
  /\ UNCHANGED <<opt, balance, lock, reg, main>>

Unlock(t) ==
  /\ pc[t] = "unlock"
  /\ lock' = IF opt = 0 THEN Free ELSE lock
  /\ i' = [i EXCEPT ![t] = @ + 1]
  /\ Goto(t, "top")
  /\ UNCHANGED <<opt, balance, reg, main>>

Return(t) ==
  /\ pc[t] = "top" /\ i[t] = NUM_ITERATIONS
  /\ Goto(t, "done")
  /\ UNCHANGED <<opt, balance, lock, i, reg, main>>

Thread(t) == Lock(t) \/ Load(t) \/ Store(t) \/ Unlock(t) \/ Return(t)

Main == Join \/ \E t \in Threads : Create(t)

Next == Main \/ \E t \in Threads : Thread(t)

Spec == Init /\ [][Next]_vars

-----------------------------------------------------------------------------
(* Properties.                                                             *)

\* Every variable has its type.
TypeOK ==
  /\ opt \in 0..2 /\ balance \in -NUM_ITERATIONS..NUM_ITERATIONS
  /\ lock \in Threads \cup {Free}
  /\ pc \in [Threads -> {"new", "top", "load", "store", "unlock", "done"}]
  /\ i \in [Threads -> 0..NUM_ITERATIONS]
  /\ reg \in [Threads -> -NUM_ITERATIONS..NUM_ITERATIONS]
  /\ main \in {"deposit", "withdraw", "join", "print", "crash"}

\* Updates each thread has stored.
Stored(t) == i[t] + IF pc[t] = "unlock" THEN 1 ELSE 0

\* "good case - NO data race as a mutex is used": at every moment the balance is
\* what has been deposited less what has been withdrawn.
BalanceExact == opt = 0 => balance = Stored("deposit") - Stored("withdraw")

\* The strengthening that makes BalanceExact inductive: a thread inside the
\* critical section owns the mutex, and the value it has loaded is current.
InsideOwns ==
  opt = 0 => \A t \in Threads :
    /\ pc[t] \in {"load", "store", "unlock"} <=> lock = t
    /\ pc[t] = "store" => reg[t] = balance

\* The balance is printed, or main() has crashed for want of a thread.
Ended == main \in {"print", "crash"}
=============================================================================
