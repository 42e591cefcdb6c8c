------------------------------- MODULE ChldSig -------------------------------
(***************************************************************************)
(* signalling/chld_sig/chld_sig.c: a parent forks two sleeping children    *)
(* and waits for them; SIGUSR1 is caught by all three, without SA_RESTART. *)
(* A child sleeps the rest of its time after an interruption, in whole     *)
(* seconds: sleep() does not tell how much it slept of the last one.       *)
(***************************************************************************)
EXTENDS Naturals, FiniteSets

CONSTANTS SleepTime,   \* seconds each child sleeps: a function on {1, 2}
          MaxSigs      \* bound: signals sent

\* The values the constants may have.
ChldSigAssumption ==
  SleepTime \in [{1, 2} -> Nat \ {0}] /\ MaxSigs \in Nat

Kids == {1, 2}

VARIABLES pc,       \* parent: "sigaction", "fork", "wait", "printed", "failed", "killed"
          kid,      \* "none", "sleep", "zombie" or "reaped"
          rem,      \* seconds each child has left
          slept,    \* whole seconds each child has slept
          hits,     \* signals each child has caught
          shown,    \* children shown by displayChildStatus()
          sigs      \* signals sent

vars == <<pc, kid, rem, slept, hits, shown, sigs>>

Init ==
  /\ pc = "sigaction"
  /\ kid = [k \in Kids |-> "none"]
  /\ rem = SleepTime
  /\ slept = [k \in Kids |-> 0] /\ hits = [k \in Kids |-> 0]
  /\ shown = {} /\ sigs = 0

Sigaction ==
  /\ pc = "sigaction" /\ pc' = "fork"
  /\ UNCHANGED <<kid, rem, slept, hits, shown, sigs>>

\* main() forks child 1, createChild() child 2; a failure exits.
Fork(k) ==
  /\ pc = "fork" /\ kid[k] = "none" /\ (k = 2 => kid[1] # "none")
  /\ \/ /\ kid' = [kid EXCEPT ![k] = "sleep"]
        /\ pc' = IF k = 2 THEN "wait" ELSE "fork"
     \/ pc' = "failed" /\ UNCHANGED kid
  /\ UNCHANGED <<rem, slept, hits, shown, sigs>>

\* sleep_r(): a second passes for a sleeping child.
Tick(k) ==
  /\ kid[k] = "sleep" /\ rem[k] > 0
  /\ rem' = [rem EXCEPT ![k] = @ - 1]
  /\ slept' = [slept EXCEPT ![k] = @ + 1]
  /\ UNCHANGED <<pc, kid, hits, shown, sigs>>

\* Mutant of ChildExits: sleep() is not repeated.
ChildExits_Once(k) ==
  /\ kid[k] = "sleep" /\ (rem[k] = 0 \/ sigs > 0)
  /\ kid' = [kid EXCEPT ![k] = "zombie"]
  /\ UNCHANGED <<pc, rem, slept, hits, shown, sigs>>

\* The loop ends with nothing left to sleep.
ChildExits(k) ==
  /\ kid[k] = "sleep" /\ rem[k] = 0
  /\ kid' = [kid EXCEPT ![k] = "zombie"]
  /\ UNCHANGED <<pc, rem, slept, hits, shown, sigs>>

\* Mutant of SigChild: sleep() starts again with the whole time.
SigChild_Again(k) ==
  /\ kid[k] = "sleep" /\ sigs < MaxSigs
  /\ sigs' = sigs + 1 /\ hits' = [hits EXCEPT ![k] = @ + 1]
  /\ rem' = [rem EXCEPT ![k] = SleepTime[k]]
  /\ UNCHANGED <<pc, kid, slept, shown>>

\* SIGUSR1 to a child: the handler, then the rest of the sleep.  In the middle of a
\* second sleep() returns the whole seconds that are left, and what was slept of this
\* one counts for nothing; between two calls, or at the full second, nothing is lost.
SigChild(k) ==
  /\ kid[k] = "sleep" /\ sigs < MaxSigs
  /\ sigs' = sigs + 1 /\ hits' = [hits EXCEPT ![k] = @ + 1]
  /\ \E cut \in {0, 1} : cut <= rem[k] /\ rem' = [rem EXCEPT ![k] = @ - cut]
  /\ UNCHANGED <<pc, kid, slept, shown>>

\* Mutant of Wait: the parent waits for child 1 only, and never for the other.
Wait_One ==
  /\ pc = "wait" /\ kid[1] = "zombie"
  /\ kid' = [kid EXCEPT ![1] = "reaped"]
  /\ shown' = shown \cup {1}
  /\ UNCHANGED <<pc, rem, slept, hits, sigs>>

\* wait() returns a dead child, or -1 when there is none left.
Wait ==
  /\ pc = "wait"
  /\ IF \E k \in Kids : kid[k] = "zombie"
       THEN \E k \in Kids : /\ kid[k] = "zombie"
                            /\ kid' = [kid EXCEPT ![k] = "reaped"]
                            /\ shown' = shown \cup {k}
                            /\ UNCHANGED pc
       ELSE /\ \A k \in Kids : kid[k] = "reaped"
            /\ pc' = "printed" /\ UNCHANGED <<kid, shown>>
  /\ UNCHANGED <<rem, slept, hits, sigs>>

\* SIGUSR1 to the parent: deadly before sigaction(); it interrupts a blocked
\* wait(), which returns -1 with EINTR, and that ends the loop.
SigParent ==
  /\ pc \in {"sigaction", "fork", "wait"} /\ sigs < MaxSigs
  /\ sigs' = sigs + 1
  /\ pc' = CASE pc = "sigaction" -> "killed"
             [] pc = "fork" -> "fork"
             [] pc = "wait" -> IF \E k \in Kids : kid[k] = "zombie" THEN "wait"
                               ELSE "printed"
  /\ UNCHANGED <<kid, rem, slept, hits, shown>>

Next ==
  \/ Sigaction \/ Wait \/ SigParent
  \/ \E k \in Kids : Fork(k) \/ Tick(k) \/ ChildExits(k) \/ SigChild(k)

Spec == Init /\ [][Next]_vars

-----------------------------------------------------------------------------
(* Properties.                                                             *)

\* Every variable has its type.
TypeOK ==
  /\ pc \in {"sigaction", "fork", "wait", "printed", "failed", "killed"}
  /\ kid \in [Kids -> {"none", "sleep", "zombie", "reaped"}]
  /\ \A k \in Kids : rem[k] \in 0..SleepTime[k] /\ slept[k] \in 0..SleepTime[k]
  /\ hits \in [Kids -> Nat]
  /\ shown \subseteq Kids /\ sigs \in 0..MaxSigs

\* sleep_r(): a child never sleeps longer than its time; one that ends has slept all of
\* it if it caught no signal, and lacks at most a second for each that it caught.  The
\* parent shows exactly the children it has waited for.
SleptInFull ==
  /\ \A k \in Kids : slept[k] + rem[k] <= SleepTime[k]
  /\ \A k \in Kids :
       kid[k] \in {"zombie", "reaped"} => slept[k] + hits[k] >= SleepTime[k]
  /\ shown = {k \in Kids : kid[k] = "reaped"}

Ended == pc \in {"printed", "failed", "killed"}
=============================================================================
