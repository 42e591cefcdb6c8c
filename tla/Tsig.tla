-------------------------------- MODULE Tsig --------------------------------
(***************************************************************************)
(* pthreads/signalling_mt/tsig.c: signal handling in a multi-threaded      *)
(* process.  main() blocks every signal but the synchronous ones, installs *)
(* handlers for these on an alternate stack, then creates a thread that    *)
(* takes all signals with sigwait() and worker threads, which inherit the  *)
(* mask.  Worker 1 may run into a NULL pointer.                            *)
(***************************************************************************)
EXTENDS Integers

CONSTANTS Async,        \* numbers of signals that are blocked (SIGINT, SIGIO, ...)
          NUM_THREADS   \* worker threads, of which 1 may fault

\* The values the constants may have.
TsigAssumption == NUM_THREADS \in Nat \ {0} /\ Async \subseteq Nat

Workers == 1..NUM_THREADS

\* The synchronous signals: SIGBUS stands for SIGABRT, SIGFPE and SIGILL too,
\* which are treated alike.
Sync == {"SEGV", "BUS"}

Main == 0
Catcher == -1
Threads == {Main, Catcher} \cup Workers

VARIABLES g_opt,           \* the option of the command line
          proc,            \* "up", or how the process ended
          main,            \* progress of main()
          t,               \* its loop counter: threads created
          alive,           \* threads that exist
          blocking,        \* threads whose mask blocks the signals of Async
          altstack,        \* threads that have an alternate signal stack
          installed,       \* signals whose action is fatal_sigs_handler
          pending,         \* signals of Async that wait for the process
          sig,             \* what sigwait() returned and is not stored yet
          signal_handled,
          hsig,            \* signal each thread is handling
          hstep            \* progress of each thread in fatal_sigs_handler()

vars == <<g_opt, proc, main, t, alive, blocking, altstack, installed, pending,
          sig, signal_handled, hsig, hstep>>

Init ==
  /\ g_opt \in {0, 1}
  /\ proc = "up" /\ main = "sigmask" /\ t = 0
  /\ alive = {Main} /\ blocking = {} /\ altstack = {} /\ installed = {}
  /\ pending = {} /\ sig = {} /\ signal_handled = {}
  /\ hsig = [th \in Threads |-> "none"]
  /\ hstep = [th \in Threads |-> "none"]

\* A thread that is in the handler runs nothing else.
Runs(th) == proc = "up" /\ th \in alive /\ hstep[th] = "none"

-----------------------------------------------------------------------------
(* main().  An error of any call exits the process.                        *)

MainStep(from, to) == Runs(Main) /\ main = from /\ main' = to

MainFails ==
  /\ Runs(Main) /\ main # "pause"
  /\ proc' = "failed"
  /\ UNCHANGED <<g_opt, main, t, alive, blocking, altstack, installed, pending, sig,
                 signal_handled, hsig, hstep>>

\* pthread_sigmask().
BlockSignals ==
  /\ MainStep("sigmask", "altstack")
  /\ blocking' = blocking \cup {Main}
  /\ UNCHANGED <<g_opt, proc, t, alive, altstack, installed, pending, sig,
                 signal_handled, hsig, hstep>>

\* setup_altsigstack(): sigaltstack() is for the calling thread.
SetupAltsigstack ==
  /\ MainStep("altstack", "sigaction")
  /\ altstack' = altstack \cup {Main}
  /\ UNCHANGED <<g_opt, proc, t, alive, blocking, installed, pending, sig,
                 signal_handled, hsig, hstep>>

\* Mutant of InstallHandlers: SIGSEGV is left out.
InstallHandlers_NoSegv ==
  /\ MainStep("sigaction", "create_catcher")
  /\ installed' = {"BUS"}
  /\ UNCHANGED <<g_opt, proc, t, alive, blocking, altstack, pending, sig,
                 signal_handled, hsig, hstep>>

\* Mutant of CreateWorker: t <= NUM_THREADS + 1.
CreateWorker_OneMore ==
  /\ MainStep("create_workers", IF t <= NUM_THREADS THEN "create_workers" ELSE "pause")
  /\ t' = t + 1
  /\ UNCHANGED <<g_opt, proc, alive, blocking, altstack, installed, pending, sig,
                 signal_handled, hsig, hstep>>

\* sigaction() for the synchronous signals, SIGSEGV first.
InstallHandlers ==
  /\ \/ MainStep("sigaction", "sigaction") /\ installed = {} /\ installed' = {"SEGV"}
     \/ /\ MainStep("sigaction", "create_catcher")
        /\ installed = {"SEGV"} /\ installed' = Sync
  /\ UNCHANGED <<g_opt, proc, t, alive, blocking, altstack, pending, sig,
                 signal_handled, hsig, hstep>>

\* Mutant of NewThread: the mask of a thread is not that of its creator.
NewThread_Mask(th) ==
  /\ alive' = alive \cup {th}
  /\ UNCHANGED <<g_opt, proc, blocking, altstack, installed, pending, sig,
                 signal_handled, hsig, hstep>>

\* A new thread inherits the mask of its creator, and no alternate stack.
NewThread(th) ==
  /\ alive' = alive \cup {th}
  /\ blocking' = IF Main \in blocking THEN blocking \cup {th} ELSE blocking
  /\ UNCHANGED <<g_opt, proc, altstack, installed, pending, sig, signal_handled,
                 hsig, hstep>>

CreateCatcher ==
  /\ MainStep("create_catcher", "create_workers")
  /\ NewThread(Catcher)
  /\ t' = 1

\* The loop creates the workers; then main() pauses for ever.
CreateWorker ==
  /\ MainStep("create_workers", IF t < NUM_THREADS THEN "create_workers" ELSE "pause")
  /\ NewThread(t)
  /\ t' = t + 1

-----------------------------------------------------------------------------
(* signal_handler(): the thread that takes the blocked signals.            *)

\* Mutant of SigWait: the set has SIGINT only.
SigWait_Some ==
  /\ Runs(Catcher) /\ sig = {}
  /\ \E s \in pending \cap {2} : sig' = {s} /\ pending' = pending \ {s}
  /\ UNCHANGED <<g_opt, proc, main, t, alive, blocking, altstack, installed,
                 signal_handled, hsig, hstep>>

\* sigwait() with the full set: the kernel hands out the lowest number first.
SigWait ==
  /\ Runs(Catcher) /\ sig = {}
  /\ \E s \in pending : /\ \A r \in pending : s <= r
                        /\ sig' = {s} /\ pending' = pending \ {s}
  /\ UNCHANGED <<g_opt, proc, main, t, alive, blocking, altstack, installed,
                 signal_handled, hsig, hstep>>

Store ==
  /\ Runs(Catcher) /\ sig # {}
  /\ signal_handled' = sig
  /\ sig' = {}
  /\ UNCHANGED <<g_opt, proc, main, t, alive, blocking, altstack, installed, pending,
                 hsig, hstep>>

-----------------------------------------------------------------------------
(* work().                                                                 *)

\* A synchronous signal s hits thread th: its handler starts, or the default
\* action ends the process.
Hit(th, s) ==
  /\ IF s \in installed
       THEN /\ hsig' = [hsig EXCEPT ![th] = s]
            /\ hstep' = [hstep EXCEPT ![th] = "print"]
            /\ UNCHANGED proc
       ELSE proc' = "core" /\ UNCHANGED <<hsig, hstep>>
  /\ UNCHANGED <<g_opt, main, t, alive, blocking, altstack, installed, pending, sig,
                 signal_handled>>

\* The NULL pointer of worker 1.
Fault == Runs(1) /\ g_opt = 1 /\ Hit(1, "SEGV")

WorkerExits(w) ==
  /\ Runs(w) /\ w \in Workers /\ (w = 1 => g_opt = 0)
  /\ alive' = alive \ {w}
  /\ UNCHANGED <<g_opt, proc, main, t, blocking, altstack, installed, pending, sig,
                 signal_handled, hsig, hstep>>

-----------------------------------------------------------------------------
(* fatal_sigs_handler().  The signal it handles is blocked in its thread.  *)

\* signal(SIGSEGV, SIG_DFL).
ResetAction(th) ==
  /\ proc = "up" /\ hstep[th] = "print"
  /\ installed' = installed \ {"SEGV"}
  /\ hstep' = [hstep EXCEPT ![th] = "raise"]
  /\ UNCHANGED <<g_opt, proc, main, t, alive, blocking, altstack, pending, sig,
                 signal_handled, hsig>>

\* raise(SIGSEGV): deadly, but only when SIGSEGV is not blocked by the handler.
Raise(th) ==
  /\ proc = "up" /\ hstep[th] = "raise"
  /\ proc' = IF hsig[th] = "SEGV" THEN proc ELSE "core"
  /\ hstep' = [hstep EXCEPT ![th] = "exit"]
  /\ UNCHANGED <<g_opt, main, t, alive, blocking, altstack, installed, pending, sig,
                 signal_handled, hsig>>

\* Mutant of HandlerExit: the handler returns, and the fault happens again.
HandlerExit_Returns(th) ==
  /\ proc = "up" /\ hstep[th] = "exit"
  /\ hstep' = [hstep EXCEPT ![th] = "none"]
  /\ installed' = installed \cup {"SEGV"}
  /\ UNCHANGED <<g_opt, proc, main, t, alive, blocking, altstack, pending, sig,
                 signal_handled, hsig>>

HandlerExit(th) ==
  /\ proc = "up" /\ hstep[th] = "exit"
  /\ proc' = "exit1"
  /\ UNCHANGED <<g_opt, main, t, alive, blocking, altstack, installed, pending, sig,
                 signal_handled, hsig, hstep>>

-----------------------------------------------------------------------------
(* Signals from outside.                                                   *)

\* A signal of Async ends the process if a thread does not block it.
SendAsync(s) ==
  /\ proc = "up"
  /\ IF alive \subseteq blocking
       THEN pending' = pending \cup {s} /\ UNCHANGED proc
       ELSE proc' = "terminated" /\ UNCHANGED pending
  /\ UNCHANGED <<g_opt, main, t, alive, blocking, altstack, installed, sig,
                 signal_handled, hsig, hstep>>

\* A synchronous signal sent with kill() goes to the main thread, which never
\* blocks it outside of the handler.
SendSync(s) == Runs(Main) /\ Hit(Main, s)

-----------------------------------------------------------------------------
MainThread ==
  \/ BlockSignals \/ SetupAltsigstack \/ InstallHandlers \/ CreateCatcher
  \/ CreateWorker

fatal_sigs_handler(th) == ResetAction(th) \/ Raise(th) \/ HandlerExit(th)

Next ==
  \/ MainThread \/ MainFails
  \/ SigWait \/ Store
  \/ Fault \/ \E w \in Workers : WorkerExits(w)
  \/ \E th \in Threads : fatal_sigs_handler(th)
  \/ (\E s \in Async : SendAsync(s)) \/ (\E s \in Sync : SendSync(s))

Spec == Init /\ [][Next]_vars

-----------------------------------------------------------------------------
(* Properties.                                                             *)

\* Every variable has its type: sigwait() returns one signal, and the loop of
\* main() stays within the NUM_THREADS + 1 places of pthrd[].
TypeOK ==
  /\ proc \in {"up", "failed", "terminated", "core", "exit1"}
  /\ main \in {"sigmask", "altstack", "sigaction", "create_catcher",
               "create_workers", "pause"}
  /\ g_opt \in {0, 1} /\ t \in 0..(NUM_THREADS + 1)
  /\ alive \subseteq Threads /\ blocking \subseteq Threads
  /\ altstack \subseteq Threads /\ installed \subseteq Sync
  /\ pending \subseteq Async /\ sig \subseteq Async /\ signal_handled \subseteq Async
  /\ \A g, h \in sig : g = h
  /\ \A g, h \in signal_handled : g = h
  /\ hsig \in [Threads -> Sync \cup {"none"}]
  /\ hstep \in [Threads -> {"none", "print", "raise", "exit"}]

\* The strategy of tsig.c:5-9: once main() has set its mask, no asynchronous
\* signal ends the process, whichever threads exist by then.
MaskInherited == proc = "terminated" => main = "sigmask"

\* A default action of a synchronous signal strikes only before the handlers
\* are there, or after a handler has itself put it back.
CoreExplained ==
  proc = "core" =>
    \/ main \in {"sigmask", "altstack", "sigaction"}
    \/ \E th \in Threads : hstep[th] \in {"raise", "exit"}
=============================================================================
