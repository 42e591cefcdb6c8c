------------------------------ MODULE SigCrit ------------------------------
(***************************************************************************)
(* signalling/sigcrit.c: SIGINT and SIGQUIT are trapped, then blocked      *)
(* during critical code and unblocked again.  A blocked signal stays       *)
(* pending, once; the handler runs with all signals blocked.               *)
(***************************************************************************)
EXTENDS Naturals, Sequences, FiniteSets

CONSTANT MaxSent     \* bound: signals sent

\* The values the constants may have.
SigCritAssumption == MaxSent \in Nat

Sigs == {"INT", "QUIT"}

VARIABLES pc,       \* progress of main(), or "killed"
          trapped,  \* signals with a handler
          blocked,  \* signals main() blocks
          pending,
          handling, \* signals whose handler runs, innermost last
          count,    \* c and d
          sent      \* how often each was sent

vars == <<pc, trapped, blocked, pending, handling, count, sent>>

Init ==
  /\ pc = "sigaction" /\ trapped = {} /\ blocked = {} /\ pending = {}
  /\ handling = <<>>
  /\ count = [s \in Sigs |-> 0] /\ sent = [s \in Sigs |-> 0]

\* A handler blocks everything (sa_mask is full).
Deliverable == IF handling = <<>> THEN pending \ blocked ELSE {}

\* The main program goes on when no handler runs or is about to.
MainRuns == handling = <<>> /\ Deliverable = {} /\ pc # "killed"

Sigaction ==
  /\ pc = "sigaction" /\ MainRuns
  /\ \/ trapped = {} /\ trapped' = {"INT"} /\ UNCHANGED pc
     \/ trapped # {} /\ trapped' = Sigs /\ pc' = "block"
  /\ UNCHANGED <<blocked, pending, handling, count, sent>>

\* Mutant of Block: sigaddset(SIGQUIT) is left out.
Block_Int ==
  /\ pc = "block" /\ MainRuns
  /\ blocked' = {"INT"} /\ pc' = "critical"
  /\ UNCHANGED <<trapped, pending, handling, count, sent>>

\* sigprocmask(SIG_BLOCK); the old mask, which is empty, is kept.
Block ==
  /\ pc = "block" /\ MainRuns
  /\ blocked' = Sigs /\ pc' = "critical"
  /\ UNCHANGED <<trapped, pending, handling, count, sent>>

\* Mutant of Unblock: the mask is not restored.
Unblock_No ==
  /\ pc = "critical" /\ MainRuns
  /\ pc' = "pause"
  /\ UNCHANGED <<trapped, blocked, pending, handling, count, sent>>

\* The end of the critical code: sigprocmask(SIG_SETMASK, &prevset).
Unblock ==
  /\ pc = "critical" /\ MainRuns
  /\ blocked' = {} /\ pc' = "pause"
  /\ UNCHANGED <<trapped, pending, handling, count, sent>>

\* Somebody sends a signal; its default action is deadly.
Send(s) ==
  /\ pc # "killed" /\ sent[s] < MaxSent
  /\ sent' = [sent EXCEPT ![s] = @ + 1]
  /\ IF s \in trapped THEN pending' = pending \cup {s} /\ UNCHANGED pc
                      ELSE pc' = "killed" /\ UNCHANGED pending
  /\ UNCHANGED <<trapped, blocked, handling, count>>

Deliver(s) ==
  /\ pc # "killed" /\ s \in Deliverable
  /\ pending' = pending \ {s}
  /\ handling' = Append(handling, s)
  /\ UNCHANGED <<pc, trapped, blocked, count, sent>>

\* Mutant of Sighdlr: the case of SIGINT falls through.
Sighdlr_Falls ==
  /\ handling # <<>>
  /\ count' = IF handling[Len(handling)] = "INT"
                THEN [s \in Sigs |-> count[s] + 1]
                ELSE [count EXCEPT !["QUIT"] = @ + 1]
  /\ handling' = SubSeq(handling, 1, Len(handling) - 1)
  /\ UNCHANGED <<pc, trapped, blocked, pending, sent>>

\* sighdlr() counts and returns.
Sighdlr ==
  /\ handling # <<>>
  /\ count' = [count EXCEPT ![handling[Len(handling)]] = @ + 1]
  /\ handling' = SubSeq(handling, 1, Len(handling) - 1)
  /\ UNCHANGED <<pc, trapped, blocked, pending, sent>>

Main == Sigaction \/ Block \/ Unblock

Next ==
  \/ Main \/ Sighdlr
  \/ \E s \in Sigs : Send(s) \/ Deliver(s)

Spec == Init /\ [][Next]_vars

-----------------------------------------------------------------------------
(* Properties.                                                             *)

\* Every variable has its type; handlers do not nest.
TypeOK ==
  /\ pc \in {"sigaction", "block", "critical", "pause", "killed"}
  /\ trapped \subseteq Sigs /\ blocked \subseteq Sigs /\ pending \subseteq trapped
  /\ handling \in Seq(Sigs) /\ Len(handling) <= 1
  /\ count \in [Sigs -> Nat] /\ sent \in [Sigs -> 0..MaxSent]

\* "ensuring that certain signals are blocked out during that window"
\* (sigcrit.c:5): no handler runs inside the critical code.
CriticalUndisturbed == pc = "critical" => handling = <<>>

\* No signal is counted that was not sent, and each one pending or being handled
\* is still to be counted.
CountsSent ==
  \A s \in Sigs :
    count[s] + (IF s \in pending THEN 1 ELSE 0)
             + (IF handling # <<>> /\ handling[1] = s THEN 1 ELSE 0) <= sent[s]
=============================================================================
