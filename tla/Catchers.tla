------------------------------ MODULE Catchers ------------------------------
(***************************************************************************)
(* The programs that install a handler and let signals come: sig1.c,       *)
(* sig2.c, sig1_unsafe.c, the two sigxxx.c, catchall.c and sanodef.c       *)
(* (with and without SA_NODEFER).  A handler is the list of its calls that *)
(* matter: "stdio" and "malloc" are not async-signal-safe, and running one *)
(* on top of a call to the same library that a signal has interrupted is   *)
(* undefined: it may work, hang or crash.  Handlers are on a stack, and    *)
(* each blocks what sa_mask and sa_flags say.                              *)
(***************************************************************************)
EXTENDS Naturals, Sequences, FiniteSets

CONSTANTS MAX,        \* sanodef.c: s runs from 1 to MAX - 1
          MaxSends    \* bound on the signals that are sent

\* The values the constants may have.
CatchersAssumption == MAX \in Nat /\ MAX >= 2 /\ MaxSends \in Nat

Sigs == {"INT", "QUIT"}

\* caught: in the order of the calls of sigaction(); mask: the signals a handler
\* blocks, "all", "own" (the one it handles) or "none" (SA_NODEFER); calls: of
\* the handler; loop: main() prints for ever, otherwise it prints once, after the
\* handlers are installed (catchall.c: that SIGKILL cannot be caught), and pauses.
Sig1        == [caught |-> <<"INT", "QUIT">>, mask |-> "all", loop |-> TRUE,
                calls |-> <<"stdio", "write">>]
Sig2        == [caught |-> <<"INT", "QUIT">>, mask |-> "all", loop |-> TRUE,
                calls |-> <<"write">>]
Sig1Unsafe  == [caught |-> <<"INT", "QUIT">>, mask |-> "all", loop |-> TRUE,
                calls |-> <<"malloc", "stdio", "malloc">>]
SigXxx      == [caught |-> <<"INT", "QUIT">>, mask |-> "all", loop |-> TRUE,
                calls |-> <<"stdio", "malloc", "malloc">>]
SigXxxTest  == [caught |-> <<"INT", "QUIT">>, mask |-> "all", loop |-> TRUE,
                calls |-> <<"malloc">>]
Catchall    == [caught |-> <<"INT", "QUIT">>, mask |-> "all", loop |-> FALSE,
                calls |-> <<"stdio">>]
Sanodef0    == [caught |-> <<"INT">>, mask |-> "own", loop |-> FALSE,
                calls |-> <<"stdio", "load", "store", "check", "save", "stdio">>]
Sanodef1    == [caught |-> <<"INT">>, mask |-> "none", loop |-> FALSE,
                calls |-> <<"stdio", "load", "store", "check", "save", "stdio">>]

Programs ==
  [sig1 |-> Sig1, sig2 |-> Sig2, sig1_unsafe |-> Sig1Unsafe, sigxxx |-> SigXxx,
   sigxxx_test |-> SigXxxTest, catchall |-> Catchall, sanodef0 |-> Sanodef0,
   sanodef1 |-> Sanodef1]

Kinds == DOMAIN Programs

VARIABLES kind,
          pc,        \* "setup", "announce", "loop"; the end: "killed", "exit1", "hung",
                     \* "crashed", "badexit" (perror() or exit() in a handler did not work)
          traps,     \* calls of sigaction() so far
          inlib,     \* what main() is inside of: "-", "stdio", "malloc"
          pending,
          stack,     \* the handlers that run, the innermost first: [sig, step, t, saved]
          s,         \* sanodef.c: the static counter of sighdlr()
          sends      \* signals sent so far

vars == <<kind, pc, traps, inlib, pending, stack, s, sends>>

Prog == Programs[kind]

Init ==
  /\ kind \in Kinds /\ pc = "setup" /\ traps = 0 /\ inlib = "-"
  /\ pending = {} /\ stack = <<>> /\ s = 0 /\ sends = 0

Trapped == {Prog.caught[k] : k \in 1..traps}
MaskOf(f) == CASE Prog.mask = "all" -> Sigs [] Prog.mask = "own" -> {f.sig} [] OTHER -> {}
Blocked == UNION {MaskOf(stack[k]) : k \in DOMAIN stack}
Deliverable == pending \ Blocked
Running == pc \in {"setup", "announce", "loop"}

-----------------------------------------------------------------------------
\* One call of sigaction(); it may fail, which only catchall.c survives.
Sigaction ==
  /\ pc = "setup" /\ stack = <<>> /\ Deliverable = {}
  /\ \/ /\ traps' = traps + 1
        /\ pc' = IF traps' < Len(Prog.caught) THEN "setup"
               ELSE IF Prog.loop THEN "loop" ELSE "announce"
     \/ kind # "catchall" /\ pc' = "exit1" /\ UNCHANGED traps
  /\ UNCHANGED <<kind, inlib, pending, stack, s, sends>>

\* main() enters the library to print once, and leaves it.
Announce ==
  /\ pc = "announce" /\ stack = <<>> /\ Deliverable = {}
  /\ IF inlib = "-" THEN inlib' = "stdio" /\ UNCHANGED pc ELSE inlib' = "-" /\ pc' = "loop"
  /\ UNCHANGED <<kind, traps, pending, stack, s, sends>>

\* main() enters and leaves the library while it prints; the others pause().
MainPrints ==
  /\ pc = "loop" /\ Prog.loop /\ stack = <<>> /\ Deliverable = {}
  /\ inlib' \in {"-", "stdio", "malloc"} \ {inlib}
  /\ UNCHANGED <<kind, pc, traps, pending, stack, s, sends>>

\* kill(), ^C or ^\: a standard signal is pending at most once.
SendSig(g) ==
  /\ Running /\ sends < MaxSends
  /\ sends' = sends + 1 /\ pending' = pending \cup {g}
  /\ UNCHANGED <<kind, pc, traps, inlib, stack, s>>

\* Mutant of Deliver: sa_mask is empty.
Deliver_Nested ==
  /\ Running
  /\ \E g \in pending :
       /\ \A k \in DOMAIN stack : stack[k].sig # g
       /\ pending' = pending \ {g}
       /\ IF g \in Trapped
            THEN stack' = <<[sig |-> g, step |-> 1, t |-> 0, saved |-> 1]>> \o stack /\ UNCHANGED pc
            ELSE pc' = "killed" /\ UNCHANGED stack
  /\ UNCHANGED <<kind, traps, inlib, s, sends>>

\* A signal that is not blocked interrupts whatever runs; without a handler the
\* default action ends the program.
Deliver ==
  /\ Running
  /\ \E g \in Deliverable :
       /\ pending' = pending \ {g}
       /\ IF g \in Trapped
            THEN stack' = <<[sig |-> g, step |-> 1, t |-> 0, saved |-> 1]>> \o stack /\ UNCHANGED pc
            ELSE pc' = "killed" /\ UNCHANGED stack
  /\ UNCHANGED <<kind, traps, inlib, s, sends>>

Call == Prog.calls[Head(stack).step]
Step(f) == stack' = <<[f EXCEPT !.step = @ + 1]>> \o Tail(stack)

\* What the handler on top has interrupted is inside lib: main(), or a handler below.
Interrupted(lib) ==
  \/ inlib = lib
  \/ \E k \in 2..Len(stack) :
       stack[k].step <= Len(Prog.calls) /\ Prog.calls[stack[k].step] = lib

\* printf() or malloc() in the handler.
LibCall ==
  /\ Running /\ stack # <<>> /\ Head(stack).step <= Len(Prog.calls)
  /\ Call \in {"stdio", "malloc"}
  /\ \/ Step(Head(stack)) /\ UNCHANGED pc
     \/ Interrupted(Call) /\ pc' \in {"hung", "crashed"} /\ UNCHANGED stack
  /\ UNCHANGED <<kind, traps, inlib, pending, s, sends>>

\* write(), which is safe; if it fails the handler calls perror() and exit(1), which
\* are not.
WriteCall ==
  /\ Running /\ stack # <<>> /\ Head(stack).step <= Len(Prog.calls) /\ Call = "write"
  /\ \/ Step(Head(stack)) /\ UNCHANGED pc
     \/ pc' \in {"exit1"} \cup (IF Interrupted("stdio") THEN {"badexit"} ELSE {}) /\ UNCHANGED stack
  /\ UNCHANGED <<kind, traps, inlib, pending, s, sends>>

\* Mutant of Count: the test comes after the copy.
Count_Late ==
  /\ Running /\ stack # <<>> /\ Head(stack).step <= Len(Prog.calls)
  /\ LET f == Head(stack) IN
       \/ Call = "load"  /\ Step([f EXCEPT !.t = s]) /\ UNCHANGED s
       \/ Call = "store" /\ Step(f) /\ s' = f.t + 1
       \/ Call = "check" /\ Step([f EXCEPT !.saved = s]) /\ UNCHANGED s
       \/ Call = "save"  /\ Step(f) /\ s' = IF s >= MAX THEN 1 ELSE s
  /\ UNCHANGED <<kind, pc, traps, inlib, pending, sends>>

\* sighdlr(): s++, a load and a store; if (s >= MAX) s = 1; saved = s.
Count ==
  /\ Running /\ stack # <<>> /\ Head(stack).step <= Len(Prog.calls)
  /\ LET f == Head(stack) IN
       \/ Call = "load"  /\ Step([f EXCEPT !.t = s]) /\ UNCHANGED s
       \/ Call = "store" /\ Step(f) /\ s' = f.t + 1
       \/ Call = "check" /\ Step(f) /\ s' = IF s >= MAX THEN 1 ELSE s
       \/ Call = "save"  /\ Step([f EXCEPT !.saved = s]) /\ UNCHANGED s
  /\ UNCHANGED <<kind, pc, traps, inlib, pending, sends>>

Return ==
  /\ Running /\ stack # <<>> /\ Head(stack).step > Len(Prog.calls)
  /\ stack' = Tail(stack)
  /\ UNCHANGED <<kind, pc, traps, inlib, pending, s, sends>>

Program == Sigaction \/ Announce \/ Deliver \/ LibCall \/ WriteCall \/ Count \/ Return

Next == Program \/ MainPrints \/ \E g \in Sigs : SendSig(g)

Spec == Init /\ [][Next]_vars

-----------------------------------------------------------------------------
(* Properties.                                                             *)

\* Every variable has its type.
TypeOK ==
  /\ kind \in Kinds /\ pc \in {"setup", "announce", "loop", "killed", "exit1", "hung", "crashed", "badexit"}
  /\ traps \in 0..2 /\ inlib \in {"-", "stdio", "malloc"}
  /\ pending \subseteq Sigs /\ sends \in 0..MaxSends /\ s \in Nat
  /\ Len(stack) <= MaxSends
  /\ \A k \in DOMAIN stack :
       stack[k].sig \in Sigs /\ stack[k].t \in Nat /\ stack[k].saved \in Nat

\* "block all signals while in the handler": only SA_NODEFER lets one handler run
\* on top of another.
OneHandler == kind # "sanodef1" => Len(stack) <= 1

\* A handler that calls only write() never hangs or crashes in a library call, unless
\* write() fails; catchall.c and sanodef.c, which wait in pause() and whose handlers do
\* not interrupt each other, can do so only while main() prints its announcement.
SafeHandlers ==
  pc \in {"hung", "crashed"} =>
    kind # "sig2" /\ (kind \in {"catchall", "sanodef0"} => inlib # "-")

\* sighdlr() re-entered at any point: what it prints is 1..MAX - 1, and between
\* handlers the counter is within bounds.
SavedInRange ==
  /\ \A k \in DOMAIN stack : stack[k].saved \in 1..(MAX - 1)
  /\ stack = <<>> => s \in 0..(MAX - 1)

\* Signals wait to be delivered, or a handler runs, in a program that calls
\* nothing unsafe.
Awaiting == kind \in {"sig2", "catchall", "sanodef0"} /\ Running /\ (pending # {} \/ stack # <<>>)
=============================================================================
