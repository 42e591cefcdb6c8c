----------------------------- MODULE MatrixRows -----------------------------
(***************************************************************************)
(* thrd_matrixmul.c: nthreads threads multiply two n x n matrices, each    *)
(* n / nthreads rows from its first one.  A row is one step.               *)
(***************************************************************************)
EXTENDS Integers, FiniteSets

CONSTANTS n, nthreads

\* The values the constants may have.
MatrixRowsAssumption == n \in Nat /\ nthreads \in Nat \ {0}

Threads == 0..(nthreads - 1)

VARIABLES row,       \* i of each thread; -1 before its creation
          rows,      \* how often each row of c was computed
          main       \* threads created; then nthreads + threads joined

vars == <<row, rows, main>>

Init ==
  /\ row = [t \in Threads |-> -1]
  /\ rows = [i \in 0..(n - 1) |-> 0]
  /\ main = 0

\* rownos[t] of main(), and below it where the loop of threadfun() ends.
First(t) == t * (n \div nthreads)

Last(t) == First(t) + n \div nthreads

Create ==
  /\ main < nthreads
  /\ row' = [row EXCEPT ![main] = First(main)]
  /\ main' = main + 1
  /\ UNCHANGED rows

threadfun(t) ==
  /\ row[t] >= 0 /\ row[t] < Last(t)
  /\ rows' = [rows EXCEPT ![row[t]] = @ + 1]
  /\ row' = [row EXCEPT ![t] = @ + 1]
  /\ UNCHANGED main

\* Mutant of Join: main() does not wait.
Join_No == main >= nthreads /\ main < 2 * nthreads /\ main' = main + 1 /\ UNCHANGED <<row, rows>>

Join ==
  /\ main >= nthreads /\ main < 2 * nthreads
  /\ row[main - nthreads] = Last(main - nthreads)
  /\ main' = main + 1
  /\ UNCHANGED <<row, rows>>

Main == Create \/ Join

Next == Main \/ \E t \in Threads : threadfun(t)

Spec == Init /\ [][Next]_vars

-----------------------------------------------------------------------------
(* Properties.                                                             *)

\* Every variable has its type; no thread leaves the matrix.
TypeOK ==
  /\ row \in [Threads -> -1..n] /\ rows \in [0..(n - 1) -> Nat]
  /\ \A t \in Threads : row[t] <= First(t) + n \div nthreads
  /\ main \in 0..(2 * nthreads)

\* No two threads compute the same row, and after the last join every row below
\* nthreads * (n / nthreads) is computed.
RowsOnce ==
  /\ \A i \in 0..(n - 1) : rows[i] <= 1
  /\ main = 2 * nthreads => \A i \in 0..(Last(nthreads - 1) - 1) : rows[i] = 1

Ended == main = 2 * nthreads
=============================================================================
