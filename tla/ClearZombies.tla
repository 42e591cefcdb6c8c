---------------------------- MODULE ClearZombies ----------------------------
(***************************************************************************)
(* signalling/zombies_clear_traditional.c: a parent that does not wait for *)
(* its child and clears the zombie in its SIGCHLD handler.  Beside the     *)
(* child it forks, the process may have children from before its exec().   *)
(* A standard signal is pending at most once, and SIGCHLD is blocked while *)
(* its handler runs: several deaths may give one call of the handler.      *)
(***************************************************************************)
EXTENDS Naturals, FiniteSets

CONSTANTS Own,        \* the child that main() forks
          Inherited   \* children the process has when it starts

\* The values the constants may have.
ClearZombiesAssumption == Own \notin Inherited

Children == Inherited \cup {Own}

VARIABLES clear_zombie,   \* the option
          pc,             \* progress of main()
          trapped,        \* the handler is installed
          kid,            \* "none", "alive", "zombie" or "gone"
          early,          \* children that died before the handler was there
          pending,        \* SIGCHLD is pending
          handler         \* clearzomb() runs

vars == <<clear_zombie, pc, trapped, kid, early, pending, handler>>

Init ==
  /\ clear_zombie \in {0, 1}
  /\ pc = "sigaction" /\ trapped = FALSE
  /\ kid = [k \in Children |-> IF k = Own THEN "none" ELSE "alive"]
  /\ early = {} /\ pending = FALSE /\ handler = FALSE

Zombies == {k \in Children : kid[k] = "zombie"}
Living  == {k \in Children : kid[k] = "alive"}

MainRuns == ~ handler /\ ~ (pending /\ trapped)

\* sigaction(), if the option asks for it.
Sigaction ==
  /\ pc = "sigaction"
  /\ trapped' = (clear_zombie = 1)
  /\ pc' = "fork"
  /\ UNCHANGED <<clear_zombie, kid, early, pending, handler>>

Fork ==
  /\ pc = "fork" /\ MainRuns
  /\ \/ kid' = [kid EXCEPT ![Own] = "alive"] /\ pc' = "delay"
     \/ pc' = "exit" /\ UNCHANGED kid                       \* fork failed
  /\ UNCHANGED <<clear_zombie, trapped, early, pending, handler>>

\* The parent ends; init takes its children over.
Exit ==
  /\ pc = "delay" /\ MainRuns
  /\ pc' = "exit"
  /\ UNCHANGED <<clear_zombie, trapped, kid, early, pending, handler>>

\* A child ends.  Without a handler SIGCHLD is discarded.
Die(k) ==
  /\ pc # "exit" /\ kid[k] = "alive"
  /\ kid' = [kid EXCEPT ![k] = "zombie"]
  /\ pending' = trapped
  /\ early' = IF trapped THEN early ELSE early \cup {k}
  /\ UNCHANGED <<clear_zombie, pc, trapped, handler>>

\* The signal is delivered: the handler starts.
Deliver ==
  /\ pc # "exit" /\ pending /\ ~ handler
  /\ pending' = FALSE /\ handler' = TRUE
  /\ UNCHANGED <<clear_zombie, pc, trapped, kid, early>>

\* Mutant of Wait3: one wait3(), no loop.
Wait3_Once ==
  /\ pc # "exit" /\ handler
  /\ IF Zombies # {}
       THEN \E k \in Zombies : kid' = [kid EXCEPT ![k] = "gone"] /\ handler' = FALSE
       ELSE handler' = FALSE /\ UNCHANGED kid
  /\ UNCHANGED <<clear_zombie, pc, trapped, early, pending>>

\* Mutant of Wait3: the handler leaves at once when a child is alive.
Wait3_Leaves ==
  /\ pc # "exit" /\ handler
  /\ IF Zombies # {} /\ Living = {}
       THEN \E k \in Zombies : kid' = [kid EXCEPT ![k] = "gone"] /\ UNCHANGED handler
       ELSE handler' = FALSE /\ UNCHANGED kid
  /\ UNCHANGED <<clear_zombie, pc, trapped, early, pending>>

\* One turn of the loop of clearzomb(): wait3(WNOHANG) returns a zombie, 0 if
\* all children are alive, or -1 if there is none, and only -1 ends the loop.
Wait3 ==
  /\ pc # "exit" /\ handler
  /\ \/ \E k \in Zombies : kid' = [kid EXCEPT ![k] = "gone"] /\ UNCHANGED handler
     \/ Zombies = {} /\ Living # {} /\ UNCHANGED <<kid, handler>>
     \/ Zombies = {} /\ Living = {} /\ handler' = FALSE /\ UNCHANGED kid
  /\ UNCHANGED <<clear_zombie, pc, trapped, early, pending>>

Next ==
  \/ Sigaction \/ Fork \/ Exit \/ Deliver \/ Wait3
  \/ \E k \in Children : Die(k)

Spec == Init /\ [][Next]_vars

-----------------------------------------------------------------------------
(* Properties.                                                             *)

\* Every variable has its type; a signal is pending only with a handler.
TypeOK ==
  /\ clear_zombie \in {0, 1}
  /\ pc \in {"sigaction", "fork", "delay", "exit"}
  /\ trapped \in BOOLEAN /\ pending \in BOOLEAN /\ handler \in BOOLEAN
  /\ kid \in [Children -> {"none", "alive", "zombie", "gone"}]
  /\ early \subseteq Children
  /\ pending \/ handler => trapped

\* "To guarantee that we actually process all dead children - and clear all
\* zombies - we must call the wait3 in a loop": once the handler is installed, no
\* death is forgotten, however many fall into one SIGCHLD.
NoZombieForgotten ==
  trapped /\ Zombies \ early # {} => pending \/ handler

\* A zombie that the handler is there for.
Waits(k) == kid[k] = "zombie" /\ k \notin early /\ trapped
=============================================================================
