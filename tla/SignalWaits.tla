---------------------------- MODULE SignalWaits -----------------------------
(***************************************************************************)
(* Programs that wait for signals, or sleep in spite of them.  sigq_snd.c  *)
(* and sigq_rcv.c pass integers with a real-time signal, which is queued;  *)
(* sigfd_man_eg.c reads its blocked signals from a signalfd; nano.c sleeps *)
(* with sleep() (0) or nanosleep() (1), and so do sleepsafe.c and          *)
(* r_sleep() of common.c; killer.c sends its child a signal for which the  *)
(* handler was installed before fork().                                    *)
(***************************************************************************)
EXTENDS Naturals, Sequences

CONSTANTS Values,     \* the integers that are sent
          QMax,       \* RLIMIT_SIGPENDING
          MaxSends,   \* bound on the signals that are sent
          NSec        \* the time to sleep

\* The values the constants may have.
SignalWaitsAssumption == {QMax, MaxSends, NSec} \subseteq Nat

Kinds == {"sigq", "sigfd", "nano0", "nano1", "sleepsafe", "r_sleep", "killer"}

VARIABLES kind,
          pc,        \* the program (killer.c: the parent)
          child,     \* killer.c: "none", "start", "pause", "handler", "default", "gone"
          ready,     \* the handler is installed, or the signals are blocked
          pending,   \* queued signals, or values
          sent,      \* what was sent, in order (sigq)
          got,       \* what the program has been told
          slept,     \* time slept so far
          req,       \* time to sleep in this call
          sends

vars == <<kind, pc, child, ready, pending, sent, got, slept, req, sends>>

Init ==
  /\ kind \in Kinds /\ pc = "start" /\ child = "none" /\ ready = FALSE
  /\ pending = <<>> /\ sent = <<>> /\ got = <<>> /\ slept = 0 /\ req = NSec /\ sends = 0

Over == pc \in {"exit0", "exit1", "killed", "invalid"}
Elem(q) == {q[k] : k \in DOMAIN q}

-----------------------------------------------------------------------------
\* Mutant of Start: killer.c calls sigaction() too late.
Start_Late ==
  /\ pc = "start" /\ pc' = (IF kind = "killer" THEN "fork" ELSE "wait") /\ ready' = (kind # "killer")
  /\ UNCHANGED <<kind, child, pending, sent, got, slept, req, sends>>

\* sigaction(), or sigprocmask() and signalfd(): they may fail.  sleepsafe.c has no
\* handler.
Start ==
  /\ pc = "start"
  /\ \/ pc' = (IF kind = "killer" THEN "fork" ELSE "wait") /\ ready' = (kind # "sleepsafe")
     \/ kind # "sleepsafe" /\ pc' = "exit1" /\ UNCHANGED ready
  /\ UNCHANGED <<kind, child, pending, sent, got, slept, req, sends>>

\* A signal without a handler, or any to sleepsafe.c, ends the program.
Default ==
  /\ kind # "killer" /\ ~ Over /\ ~ ready /\ pending # <<>>
  /\ pc' = "killed"
  /\ UNCHANGED <<kind, child, ready, pending, sent, got, slept, req, sends>>

-----------------------------------------------------------------------------
(* sigq_snd.c and sigq_rcv.c.                                              *)

\* Mutant of Sigqueue: a standard signal, pending at most once.
Sigqueue_Standard(v) ==
  /\ kind = "sigq" /\ ~ Over /\ sends < MaxSends
  /\ sends' = sends + 1
  /\ sent' = Append(sent, v) /\ pending' = IF pending = <<>> THEN <<v>> ELSE pending
  /\ UNCHANGED <<kind, pc, child, ready, got, slept, req>>

\* sigqueue(pid, SIGTOUSE, sv); with a full queue it fails, and the sender exits.
Sigqueue(v) ==
  /\ kind = "sigq" /\ ~ Over /\ sends < MaxSends
  /\ sends' = sends + 1
  /\ IF Len(pending) < QMax
       THEN sent' = Append(sent, v) /\ pending' = Append(pending, v)
       ELSE UNCHANGED <<sent, pending>>
  /\ UNCHANGED <<kind, pc, child, ready, got, slept, req>>

\* catcher() prints the value; the signal is blocked meanwhile.
Catcher ==
  /\ kind = "sigq" /\ ~ Over /\ ready /\ pending # <<>>
  /\ got' = Append(got, Head(pending)) /\ pending' = Tail(pending)
  /\ UNCHANGED <<kind, pc, child, ready, sent, slept, req, sends>>

-----------------------------------------------------------------------------
(* sigfd_man_eg.c, nano.c, sleepsafe.c, r_sleep().                         *)

\* A standard signal from outside.
SendSig(g) ==
  /\ kind \in {"sigfd", "nano0", "nano1", "sleepsafe", "r_sleep"} /\ ~ Over /\ sends < MaxSends
  /\ sends' = sends + 1
  /\ pending' = IF g \in Elem(pending) THEN pending ELSE Append(pending, g)
  /\ UNCHANGED <<kind, pc, child, ready, sent, got, slept, req>>

\* read(sfd): one of the pending signals; SIGQUIT ends the program.
ReadSigfd ==
  /\ kind = "sigfd" /\ pc = "wait" /\ pending # <<>>
  /\ \E g \in Elem(pending) :
       /\ pending' = SelectSeq(pending, LAMBDA x : x # g)
       /\ got' = Append(got, g)
       /\ pc' = IF g = "QUIT" THEN "exit0" ELSE pc
  /\ UNCHANGED <<kind, child, ready, sent, slept, req, sends>>

Sleeps == kind \in {"nano0", "nano1", "sleepsafe", "r_sleep"}

\* Time passes in sleep() or nanosleep().
Tick ==
  /\ Sleeps /\ pc = "wait" /\ pending = <<>> /\ req > 0
  /\ req' = req - 1 /\ slept' = slept + 1
  /\ UNCHANGED <<kind, pc, child, ready, pending, sent, got, sends>>

\* Mutant of Interrupt: nanosleep() is called again with the whole time.
Interrupt_Again ==
  /\ Sleeps /\ pc = "wait" /\ ready /\ pending # <<>>
  /\ pending' = Tail(pending) /\ got' = Append(got, Head(pending))
  /\ pc' = (IF kind = "nano0" THEN "exit0" ELSE "wait") /\ req' = NSec
  /\ UNCHANGED <<kind, child, ready, sent, slept, sends>>

\* The handler runs and the call returns: sleep() with the seconds left, which
\* nobody looks at; nanosleep() with EINTR, and req = rem.  A signal that comes just
\* before sleep() is called does not end it.
Interrupt ==
  /\ Sleeps /\ pc = "wait" /\ ready /\ pending # <<>>
  /\ pending' = Tail(pending) /\ got' = Append(got, Head(pending))
  /\ \/ kind = "nano0" /\ pc' = "exit0"
     \/ (kind = "nano0" => slept = 0) /\ pc' = pc
  /\ UNCHANGED <<kind, child, ready, sent, slept, req, sends>>

\* nanosleep() refuses a time that is not one (EINVAL), in the first call: r_sleep()
\* returns -1; the loops of nano.c and sleepsafe.c end as if the time had passed.
Invalid ==
  /\ Sleeps /\ kind # "nano0" /\ pc = "wait" /\ req = NSec
  /\ pc' = "invalid"
  /\ UNCHANGED <<kind, child, ready, pending, sent, got, slept, req, sends>>

SleepOver ==
  /\ Sleeps /\ pc = "wait" /\ req = 0 /\ pending = <<>>
  /\ pc' = "exit0"
  /\ UNCHANGED <<kind, child, ready, pending, sent, got, slept, req, sends>>

-----------------------------------------------------------------------------
(* killer.c.                                                               *)

Fork ==
  /\ kind = "killer" /\ pc = "fork"
  /\ \/ pc' = "poll" /\ child' = "start"
     \/ pc' = "exit1" /\ UNCHANGED child
  /\ UNCHANGED <<kind, ready, pending, sent, got, slept, req, sends>>

\* kill(pid, 0) succeeds for a process that exists, a zombie included; then the
\* signal is sent.
KillChild ==
  /\ kind = "killer" /\ pc = "poll"
  /\ pc' = "waitchild" /\ pending' = <<"USR1">>
  /\ UNCHANGED <<kind, child, ready, sent, got, slept, req, sends>>

\* The child gets to pause(), or the signal gets to the child before.
Pause ==
  /\ child = "start" /\ child' = "pause"
  /\ UNCHANGED <<kind, pc, ready, pending, sent, got, slept, req, sends>>

\* Mutant of Catchit: the handler returns, and the child goes on to its pause().
Catchit_Returns ==
  /\ child \in {"start", "pause"} /\ pending = <<"USR1">>
  /\ pending' = <<>> /\ child' = IF child = "start" THEN "start" ELSE "handler"
  /\ UNCHANGED <<kind, pc, ready, sent, got, slept, req, sends>>

\* The child is ended by catchit(), or by the default action if there is no handler.
Catchit ==
  /\ child \in {"start", "pause"} /\ pending = <<"USR1">>
  /\ pending' = <<>> /\ child' = IF ready THEN "handler" ELSE "default"
  /\ UNCHANGED <<kind, pc, ready, sent, got, slept, req, sends>>

WaitChild ==
  /\ pc = "waitchild" /\ child \in {"handler", "default"}
  /\ pc' = "exit0" /\ child' = "gone" /\ got' = Append(got, child)
  /\ UNCHANGED <<kind, ready, pending, sent, slept, req, sends>>

-----------------------------------------------------------------------------
\* The programs, and the wrapper r_sleep() in one that has a handler.
sigq_rcv == kind = "sigq" /\ (Start \/ Default \/ Catcher)
sigfd_man_eg == kind = "sigfd" /\ (Start \/ Default \/ ReadSigfd)
Sleeper == Start \/ Default \/ Tick \/ Interrupt \/ Invalid \/ SleepOver
nano == kind \in {"nano0", "nano1"} /\ Sleeper
sleepsafe == kind = "sleepsafe" /\ (Start \/ Default \/ Tick \/ Invalid \/ SleepOver)
r_sleep == kind = "r_sleep" /\ Sleeper
killer == kind = "killer" /\ (Start \/ Fork \/ KillChild \/ Pause \/ Catchit \/ WaitChild)

Program == sigq_rcv \/ sigfd_man_eg \/ nano \/ sleepsafe \/ r_sleep \/ killer

Next ==
  \/ Program
  \/ \E v \in Values : Sigqueue(v)
  \/ \E g \in {"INT", "QUIT"} : SendSig(g)

Spec == Init /\ [][Next]_vars

-----------------------------------------------------------------------------
(* Properties.                                                             *)

\* Every variable has its type.
TypeOK ==
  /\ kind \in Kinds
  /\ pc \in {"start", "wait", "fork", "poll", "waitchild", "exit0", "exit1", "killed",
             "invalid"}
  /\ child \in {"none", "start", "pause", "handler", "default", "gone"}
  /\ ready \in BOOLEAN /\ sends \in 0..MaxSends /\ req \in 0..NSec /\ slept \in Nat

\* Every integer that sigqueue() accepted arrives, once and in order.
ValuesInOrder == kind = "sigq" => got \o pending = sent

\* A sleep with nanosleep(), if the time is valid, is neither cut short nor made
\* longer by signals, and one with sleep() is never longer.
SleptExactly ==
  /\ Sleeps /\ kind # "nano0" /\ pc = "exit0" => slept = NSec
  /\ Sleeps => slept + req = NSec

\* No signal ends a program by default once it is ready for it; the child of
\* killer.c, whether it has got to pause() or not, ends in the handler.
ReadyIsSafe ==
  /\ ready => pc # "killed"
  /\ child # "default"
  /\ kind = "killer" /\ pc = "exit0" => got = <<"handler">>

\* Something the program has to take notice of.
Pending == pending # <<>> /\ ~ Over
MustEnd == Sleeps \/ kind = "killer"
=============================================================================
