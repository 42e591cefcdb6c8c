----------------------------- MODULE MCSignals ------------------------------
(***************************************************************************)
(* The signal programs on small instances. A behaviour is one of one       *)
(* program: tsig.c, chld_sig.c, sigcrit.c, zombies_clear_traditional.c,    *)
(* one of those that handle SIGSEGV, of those that catch signals, or of    *)
(* those that wait for them.  Variables of the same name are shared; the   *)
(* constants and variables of a program are declared where it is used      *)
(* first.                                                                  *)
(***************************************************************************)
EXTENDS Integers, Sequences, TLAPS

-----------------------------------------------------------------------------
(* chld_sig.c: the invariant.                                              *)

CONSTANTS c1_slptm, c2_slptm,     \* seconds the children sleep
          MaxSigs                \* bound on the signals sent
VARIABLES pc, kid, rem, slept, hits, shown, sigs

SleepTime == [k \in {1, 2} |-> IF k = 1 THEN c1_slptm ELSE c2_slptm]

Chld == INSTANCE ChldSig

\* What a child has slept and what is left make up its time, but for a second for each
\* signal it caught.
ChldInv ==
  /\ Chld!TypeOK /\ Chld!SleptInFull
  /\ rem \in [Chld!Kids -> Nat] /\ slept \in [Chld!Kids -> Nat]
  /\ \A k \in Chld!Kids : /\ slept[k] + rem[k] + hits[k] >= SleepTime[k]
                          /\ kid[k] \in {"zombie", "reaped"} => rem[k] = 0

\* It holds at the start.
LEMMA ChldInit == ASSUME Chld!ChldSigAssumption, Chld!Init PROVE ChldInv
BY DEF Chld!ChldSigAssumption, Chld!Init, ChldInv, Chld!TypeOK, Chld!SleptInFull,
       Chld!Kids

\* Every step of the parent and of its children, and every signal, keeps it.
LEMMA ChldNext ==
  ASSUME Chld!ChldSigAssumption, ChldInv, Chld!Next \/ UNCHANGED Chld!vars
  PROVE  ChldInv'
<1> USE DEF Chld!ChldSigAssumption, ChldInv, Chld!TypeOK, Chld!SleptInFull, Chld!Kids
<1>1. CASE Chld!Sigaction
  BY <1>1 DEF Chld!Sigaction
<1>2. CASE Chld!Wait
  BY <1>2, SMTT(30) DEF Chld!Wait
<1>3. CASE Chld!SigParent
  BY <1>3 DEF Chld!SigParent
<1>4. ASSUME NEW k \in Chld!Kids, Chld!Fork(k) PROVE ChldInv'
  BY <1>4, SMTT(30) DEF Chld!Fork
<1>5. ASSUME NEW k \in Chld!Kids, Chld!Tick(k) PROVE ChldInv'
  BY <1>5, SMTT(30) DEF Chld!Tick
<1>6. ASSUME NEW k \in Chld!Kids, Chld!ChildExits(k) PROVE ChldInv'
  BY <1>6 DEF Chld!ChildExits
<1>7. ASSUME NEW k \in Chld!Kids, Chld!SigChild(k) PROVE ChldInv'
  BY <1>7 DEF Chld!SigChild
<1>8. CASE UNCHANGED Chld!vars
  BY <1>8 DEF Chld!vars
<1> QED
  BY <1>1, <1>2, <1>3, <1>4, <1>5, <1>6, <1>7, <1>8 DEF Chld!Next

-----------------------------------------------------------------------------
(* The programs that handle SIGSEGV: the invariant.                        *)

CONSTANT MaxKills     \* bound on the signals sent
VARIABLES kind, from, args, handler, alt, room, blocked, pending, runs, code, end,
          frame, kills

Segv == INSTANCE SegvHandler

\* The handler is there, with a stack to run on, from the end of the setup until it puts
\* the default action back; from its first entry on SIGSEGV is blocked.
SegvInv ==
  /\ Segv!TypeOK /\ Segv!ReportedOnce /\ Segv!NeverSilent /\ Segv!CoreShowsFault
  /\ kind # "corrupt" => room
  /\ pc # "ended" <=> end = "-"
  /\ pc \in {"setup", "access", "pause"} => runs = 0 /\ ~ blocked
  /\ pc \in {"access", "pause"} => handler /\ (kind # "plain" => alt)
  /\ pc \in {"handler", "reset", "raised"} => runs = 1 /\ blocked
  /\ pc \in {"reset", "raised"} => kind # "plain" /\ ~ handler

\* It holds at the start.
LEMMA SegvInit == ASSUME Segv!SegvHandlerAssumption, Segv!Init PROVE SegvInv
<1>1. {handler, alt, room, blocked, pending} \subseteq BOOLEAN
  BY Zenon DEF Segv!Init
<1> QED
  BY <1>1 DEF Segv!SegvHandlerAssumption, Segv!Init, SegvInv, Segv!TypeOK,
              Segv!ReportedOnce, Segv!NeverSilent, Segv!CoreShowsFault

\* Every step of the three programs, and every signal from outside, keeps it.
LEMMA SegvNext ==
  ASSUME Segv!SegvHandlerAssumption, SegvInv, Segv!Next \/ UNCHANGED Segv!vars
  PROVE  SegvInv'
<1>1. {handler', alt', room', blocked', pending'} \subseteq BOOLEAN
  BY Zenon
     DEF SegvInv, Segv!TypeOK, Segv!Next, Segv!vars, Segv!Program, Segv!handle_segv,
         Segv!handle_segv_altstack, Segv!stackmem_corrupt, Segv!setup, Segv!access,
         Segv!write_underflow, Segv!myfault, Segv!raise, Segv!return, Segv!Kill,
         Segv!Deliver, Segv!Stop
<1> USE DEF Segv!SegvHandlerAssumption, SegvInv, Segv!TypeOK, Segv!ReportedOnce,
            Segv!NeverSilent, Segv!CoreShowsFault, Segv!Kinds, Segv!Stop, Segv!Deliver
<1>2. CASE Segv!setup
  <2>1. CASE pc' = "access" /\ handler' = TRUE
    <3>1. /\ pc = "setup" /\ alt' = (kind # "plain")
          /\ UNCHANGED <<kind, room, blocked, pending, runs, end, frame, code, kills>>
      BY <1>2, <2>1, ZenonT(30) DEF Segv!setup
    <3> QED
      BY <1>1, <2>1, <3>1, ZenonT(30)
  <2>2. CASE Segv!Stop("exit1", "main") /\ UNCHANGED <<handler, alt>>
    BY <1>1, <1>2, <2>2, SMTT(30) DEF Segv!setup
  <2> QED
    BY <1>2, <2>1, <2>2, ZenonT(30) DEF Segv!setup
<1>3. CASE Segv!access
  BY <1>1, <1>3, SMTT(30) DEF Segv!access
<1>4. CASE Segv!write_underflow
  <2>1. /\ pc = "access" /\ kind = "corrupt"
        /\ UNCHANGED <<kind, args, handler, alt, pending, kills>>
    BY <1>4 DEF Segv!write_underflow
  <2>2. CASE Segv!Deliver("SEGV_MAPERR", "access")
    BY <1>1, <2>1, <2>2, SMTT(30)
  <2>3. CASE pc' = "pause" /\ UNCHANGED <<room, from, runs, code, blocked, end, frame>>
    BY <1>1, <2>1, <2>3, SMTT(30)
  <2> QED
    BY <1>4, <2>2, <2>3, ZenonT(30) DEF Segv!write_underflow
<1>5. CASE Segv!myfault
  BY <1>1, <1>5 DEF Segv!myfault
<1>6. CASE Segv!raise
  BY <1>1, <1>6 DEF Segv!raise
<1>7. CASE Segv!return
  BY <1>1, <1>7 DEF Segv!return
<1>8. CASE Segv!Kill
  BY <1>1, <1>8, SMTT(30) DEF Segv!Kill
<1>9. CASE UNCHANGED Segv!vars
  BY <1>9 DEF Segv!vars
<1> QED
  BY <1>2, <1>3, <1>4, <1>5, <1>6, <1>7, <1>8, <1>9
     DEF Segv!Next, Segv!Program, Segv!handle_segv, Segv!handle_segv_altstack,
         Segv!stackmem_corrupt

-----------------------------------------------------------------------------
(* The programs that catch signals: the invariant.                         *)

CONSTANTS MAX, MaxSends     \* MAX of sanodef.c; bound on the signals sent
VARIABLES traps, inlib, stack, s, sends

Catch == INSTANCE Catchers

\* The handlers: that of sanodef.c counts, the others call libraries with all blocked.
Counting == kind \in {"sanodef0", "sanodef1"}
CatchPrograms ==
  LET calls == Catch!Prog.calls  caught == Catch!Prog.caught  mask == Catch!Prog.mask
  IN /\ Counting =>
          /\ Len(calls) = 6 /\ calls[1] = "stdio" /\ calls[2] = "load"
          /\ calls[3] = "store" /\ calls[4] = "check" /\ calls[5] = "save"
          /\ calls[6] = "stdio"
          /\ Len(caught) = 1 /\ caught[1] = "INT"
          /\ kind = "sanodef0" => mask = "own"
     /\ ~ Counting =>
          /\ mask = "all" /\ Len(caught) = 2
          /\ Len(calls) \in 1..3
          /\ \A i \in 1..Len(calls) : calls[i] \in {"stdio", "malloc", "write"}
     /\ kind = "sig2" => Len(calls) = 1 /\ calls[1] = "write"

LEMMA CatchCases ==
  ASSUME kind \in Catch!Kinds
  PROVE  CatchPrograms
<1>1. kind \in {"sig1", "sig2", "sig1_unsafe", "sigxxx", "sigxxx_test", "catchall",
                "sanodef0", "sanodef1"}
  BY DEF Catch!Kinds, Catch!Programs
<1>2. /\ kind = "sig1" => Catch!Prog = Catch!Sig1
      /\ kind = "sig2" => Catch!Prog = Catch!Sig2
      /\ kind = "sig1_unsafe" => Catch!Prog = Catch!Sig1Unsafe
      /\ kind = "sigxxx" => Catch!Prog = Catch!SigXxx
      /\ kind = "sigxxx_test" => Catch!Prog = Catch!SigXxxTest
      /\ kind = "catchall" => Catch!Prog = Catch!Catchall
      /\ kind = "sanodef0" => Catch!Prog = Catch!Sanodef0
      /\ kind = "sanodef1" => Catch!Prog = Catch!Sanodef1
  BY DEF Catch!Prog, Catch!Programs
<1> DEFINE calls == Catch!Prog.calls
           caught == Catch!Prog.caught
<1>3. CASE Counting
  <2>1. /\ calls = <<"stdio", "load", "store", "check", "save", "stdio">>
        /\ caught = <<"INT">>
        /\ kind = "sanodef0" => Catch!Prog.mask = "own"
    BY <1>2, <1>3 DEF Counting, Catch!Sanodef0, Catch!Sanodef1
  <2> HIDE DEF calls, caught
  <2>2. /\ Len(calls) = 6 /\ calls[1] = "stdio" /\ calls[2] = "load"
        /\ calls[3] = "store" /\ calls[4] = "check" /\ calls[5] = "save"
        /\ calls[6] = "stdio" /\ Len(caught) = 1 /\ caught[1] = "INT"
    BY <2>1
  <2> QED
    BY <1>3, <2>1, <2>2 DEF CatchPrograms, Counting, calls, caught
<1>4. CASE ~ Counting
  <2>1. /\ Catch!Prog.mask = "all" /\ caught = <<"INT", "QUIT">>
        /\ kind = "sig2" => calls = <<"write">>
        /\ calls \in {<<"write">>, <<"malloc">>, <<"stdio">>, <<"stdio", "write">>,
                      <<"stdio", "malloc", "malloc">>, <<"malloc", "stdio", "malloc">>}
    BY <1>1, <1>2, <1>4
       DEF Counting, Catch!Sig1, Catch!Sig2, Catch!Sig1Unsafe, Catch!SigXxx,
           Catch!SigXxxTest, Catch!Catchall
  <2> HIDE DEF calls, caught
  <2>2. /\ Len(calls) \in 1..3 /\ Len(caught) = 2
        /\ \A i \in 1..Len(calls) : calls[i] \in {"stdio", "malloc", "write"}
    BY <2>1
  <2>3. kind = "sig2" => Len(calls) = 1 /\ calls[1] = "write"
    BY <2>1
  <2> QED
    BY <1>4, <2>1, <2>2, <2>3 DEF CatchPrograms, Counting, calls, caught
<1> QED
  BY <1>3, <1>4

\* A handler that has tested the counter leaves it within bounds for whatever it has
\* interrupted: what a handler on top of it did in between is over by then.
Frames == [sig : Catch!Sigs, step : 1..7, t : Nat, saved : 1..(MAX - 1)]
Weight(S) == (IF "INT" \in S THEN 1 ELSE 0) + (IF "QUIT" \in S THEN 1 ELSE 0)
CatchInv ==
  /\ kind \in Catch!Kinds /\ inlib \in {"-", "stdio", "malloc"}
  /\ pc \in {"setup", "announce", "loop", "killed", "exit1", "hung", "crashed", "badexit"}
  /\ traps \in 0..(IF Counting THEN 1 ELSE 2)
  /\ pc = "setup" => traps < IF Counting THEN 1 ELSE 2
  /\ pending \subseteq Catch!Sigs /\ sends \in 0..MaxSends
  /\ stack \in Seq(Frames) /\ Len(stack) + Weight(pending) <= sends /\ s \in Nat
  /\ Catch!OneHandler /\ Catch!SafeHandlers
  /\ Counting => \A k \in 1..Len(stack) : stack[k].sig = "INT"
  /\ ~ Counting => s = 0
  /\ stack = <<>> => s \in 0..(MAX - 1)
  /\ Counting /\ stack # <<>> =>
       /\ stack[1].step = 4 => s >= 1
       /\ stack[1].step >= 5 => s \in 1..(MAX - 1)

\* It implies the properties.
LEMMA CatchSafe ==
  ASSUME Catch!CatchersAssumption, CatchInv
  PROVE  /\ Catch!TypeOK /\ Catch!OneHandler /\ Catch!SafeHandlers /\ Catch!SavedInRange
<1>3. Len(stack) <= MaxSends
  BY DEF CatchInv, Catch!CatchersAssumption, Weight
<1>4. ASSUME NEW k \in DOMAIN stack
      PROVE  /\ stack[k].sig \in Catch!Sigs /\ stack[k].t \in Nat
             /\ stack[k].saved \in Nat /\ stack[k].saved \in 1..(MAX - 1)
  <2>1. stack[k] \in Frames
    BY DEF CatchInv
  <2> QED
    BY <2>1 DEF Frames, Catch!CatchersAssumption
<1>6. Catch!TypeOK
  <2>1. /\ kind \in Catch!Kinds /\ inlib \in {"-", "stdio", "malloc"}
        /\ pc \in {"setup", "announce", "loop", "killed", "exit1", "hung", "crashed",
                   "badexit"}
        /\ pending \subseteq Catch!Sigs
        /\ sends \in 0..MaxSends /\ s \in Nat /\ traps \in 0..2
    BY DEF CatchInv
  <2> QED
    BY <1>3, <1>4, <2>1 DEF Catch!TypeOK
<1>7. Catch!SavedInRange
  BY <1>4 DEF CatchInv, Catch!SavedInRange
<1> QED
  BY <1>6, <1>7 DEF CatchInv

\* What pushing, replacing and popping the top of a stack does to its elements.
LEMMA StackSteps ==
  ASSUME NEW F, NEW q \in Seq(F), NEW f \in F
  PROVE  /\ <<f>> \o q \in Seq(F) /\ Len(<<f>> \o q) = Len(q) + 1
         /\ (<<f>> \o q)[1] = f
         /\ \A k \in 2..(Len(q) + 1) : (<<f>> \o q)[k] = q[k - 1]
         /\ q # <<>> =>
              /\ Len(q) >= 1 /\ Head(q) = q[1] /\ q[1] \in F
              /\ Tail(q) \in Seq(F) /\ Len(Tail(q)) = Len(q) - 1
              /\ \A k \in 1..(Len(q) - 1) : Tail(q)[k] = q[k + 1]
              /\ <<f>> \o Tail(q) \in Seq(F) /\ Len(<<f>> \o Tail(q)) = Len(q)
              /\ (<<f>> \o Tail(q))[1] = f
              /\ \A k \in 2..Len(q) : (<<f>> \o Tail(q))[k] = q[k]
<1>1. /\ <<f>> \o q \in Seq(F) /\ Len(<<f>> \o q) = Len(q) + 1
      /\ (<<f>> \o q)[1] = f
      /\ \A k \in 2..(Len(q) + 1) : (<<f>> \o q)[k] = q[k - 1]
  OBVIOUS
<1>2. ASSUME q # <<>>
      PROVE  /\ Len(q) >= 1 /\ Head(q) = q[1] /\ q[1] \in F
             /\ Tail(q) \in Seq(F) /\ Len(Tail(q)) = Len(q) - 1
             /\ \A k \in 1..(Len(q) - 1) : Tail(q)[k] = q[k + 1]
  BY <1>2
<1>3. ASSUME q # <<>>
      PROVE  /\ <<f>> \o Tail(q) \in Seq(F) /\ Len(<<f>> \o Tail(q)) = Len(q)
             /\ (<<f>> \o Tail(q))[1] = f
             /\ \A k \in 2..Len(q) : (<<f>> \o Tail(q))[k] = q[k]
  BY <1>2, <1>3
<1> QED
  BY <1>1, <1>2, <1>3

\* What the assignments to the fields of a frame do.
LEMMA FrameSteps ==
  ASSUME NEW f \in Frames, NEW i \in Nat, NEW v \in 1..(MAX - 1)
  PROVE  /\ f.step \in 1..6 =>
              /\ [f EXCEPT !.step = @ + 1] \in Frames
              /\ [f EXCEPT !.step = @ + 1].step = f.step + 1
              /\ [f EXCEPT !.step = @ + 1].sig = f.sig
         /\ [f EXCEPT !.t = i] \in Frames /\ [f EXCEPT !.t = i].step = f.step
         /\ [f EXCEPT !.t = i].sig = f.sig
         /\ [f EXCEPT !.saved = v] \in Frames /\ [f EXCEPT !.saved = v].step = f.step
         /\ [f EXCEPT !.saved = v].sig = f.sig
BY DEF Frames

\* The invariant holds at the start.
LEMMA CatchInit == ASSUME Catch!CatchersAssumption, Catch!Init PROVE CatchInv
<1>3. Len(stack) = 0 /\ stack \in Seq(Frames) /\ Weight(pending) = 0
  BY DEF Catch!Init, Weight
<1> QED
  BY <1>3 DEF Catch!CatchersAssumption, Catch!Init, CatchInv, Catch!OneHandler,
              Catch!SafeHandlers

\* Every step of main(), of the handlers and of a sender keeps it.
LEMMA CatchNext ==
  ASSUME Catch!CatchersAssumption, CatchInv, Catch!Next \/ UNCHANGED Catch!vars
  PROVE  CatchInv'
<1> DEFINE P == Catch!Prog
<1>1. kind' = kind
  BY DEF Catch!Next, Catch!vars, Catch!Program, Catch!Sigaction, Catch!Announce,
         Catch!Deliver, Catch!LibCall, Catch!WriteCall, Catch!Count, Catch!Return,
         Catch!MainPrints, Catch!SendSig
<1>2. P' = P /\ CatchPrograms
  BY <1>1, CatchCases DEF CatchInv, Catch!Prog
<1> USE DEF Catch!CatchersAssumption, CatchInv, Catch!OneHandler, Catch!SafeHandlers,
            Catch!Running, Catch!Sigs, Weight, Counting
<1>3. CASE Catch!Sigaction
  <2> DEFINE n == Len(P.caught)
  <2>1. n = IF Counting THEN 1 ELSE 2
    BY <1>2 DEF CatchPrograms
  <2>2. \/ /\ traps' = traps + 1
           /\ pc' \in IF traps' < n THEN {"setup"} ELSE {"loop", "announce"}
        \/ pc' = "exit1" /\ UNCHANGED traps
    BY <1>3 DEF Catch!Sigaction
  <2>3. UNCHANGED <<kind, inlib, pending, stack, s, sends>> /\ pc = "setup"
    BY <1>3 DEF Catch!Sigaction
  <2> HIDE DEF n
  <2> QED
    BY <2>1, <2>2, <2>3
<1>4. CASE Catch!Announce
  BY <1>1, <1>2, <1>4 DEF Catch!Announce
<1>5. CASE Catch!MainPrints
  BY <1>1, <1>2, <1>5 DEF Catch!MainPrints
<1>6. ASSUME NEW g \in Catch!Sigs, Catch!SendSig(g) PROVE CatchInv'
  BY <1>1, <1>2, <1>6 DEF Catch!SendSig
<1>7. CASE Catch!Return
  <2>1. stack \in Seq(Frames) /\ stack # <<>> /\ stack' = Tail(stack)
    BY <1>7 DEF Catch!Return
  <2>2. /\ stack[1] \in Frames /\ stack' \in Seq(Frames) /\ Len(stack') = Len(stack) - 1
        /\ Head(stack) = stack[1]
        /\ \A k \in 1..(Len(stack) - 1) : stack'[k] = stack[k + 1]
    <3> HIDE DEF CatchInv
    <3> QED
      BY <2>1, StackSteps
  <2> DEFINE n == Len(P.calls)
  <2>3. (Counting => n = 6) /\ stack[1].step > n
    BY <1>2, <1>7, <2>2 DEF CatchPrograms, Catch!Return
  <2> HIDE DEF n
  <2>4. Counting => s \in 1..(MAX - 1)
    BY <2>1, <2>2, <2>3, SMTT(30) DEF Frames
  <2> QED
    BY <1>1, <1>2, <1>7, <2>1, <2>2, <2>4 DEF Catch!Return
<1>8. CASE UNCHANGED Catch!vars
  BY <1>2, <1>8 DEF Catch!vars
<1>9. CASE Catch!Deliver
  <2>1. PICK g \in Catch!Deliverable :
          /\ pending' = pending \ {g}
          /\ IF g \in Catch!Trapped
               THEN /\ stack' = <<[sig |-> g, step |-> 1, t |-> 0, saved |-> 1]>> \o stack
                    /\ UNCHANGED pc
               ELSE pc' = "killed" /\ UNCHANGED stack
    BY <1>9 DEF Catch!Deliver
  <2>2. UNCHANGED <<kind, traps, inlib, s, sends>>
    BY <1>9 DEF Catch!Deliver
  <2>3. g \in pending /\ g \in Catch!Sigs /\ Weight(pending') + 1 = Weight(pending)
    BY <2>1 DEF Catch!Deliverable
  <2>4. ASSUME g \in Catch!Trapped PROVE CatchInv'
    <3> DEFINE f == [sig |-> g, step |-> 1, t |-> 0, saved |-> 1]
    <3>1. f \in Frames
      BY <2>3 DEF Frames
    <3>2. Counting => g = "INT"
      BY <1>2, <2>4 DEF Catch!Trapped, CatchPrograms
    <3>3. kind # "sanodef1" => stack = <<>>
      <4>1. SUFFICES ASSUME kind # "sanodef1", stack # <<>> PROVE FALSE
        OBVIOUS
      <4>2. 1 \in DOMAIN stack /\ g \notin Catch!MaskOf(stack[1])
        BY <2>1, <4>1 DEF Catch!Deliverable, Catch!Blocked
      <4> QED
        BY <1>2, <2>3, <3>2, <4>1, <4>2 DEF Catch!MaskOf, CatchPrograms
    <3>4. /\ stack' \in Seq(Frames) /\ Len(stack') = Len(stack) + 1 /\ stack'[1] = f
          /\ \A k \in 2..(Len(stack) + 1) : stack'[k] = stack[k - 1]
      <4>1. stack \in Seq(Frames) /\ stack' = <<f>> \o stack
        BY <2>1, <2>4
      <4> HIDE DEF CatchInv, f
      <4> QED
        BY <3>1, <4>1, StackSteps
    <3> QED
      <4>1. Len(stack') + Weight(pending') <= sends' /\ Len(stack') >= 1 /\ stack' # <<>>
        BY <2>2, <2>3, <3>4
      <4>2. Catch!OneHandler'
        BY <2>2, <3>3, <3>4
      <4>3. ASSUME Counting, NEW k \in 1..Len(stack') PROVE stack'[k].sig = "INT"
        <5>1. CASE k = 1
          BY <3>2, <3>4, <4>3, <5>1
        <5>2. CASE k # 1
          <6>1. k \in 2..(Len(stack) + 1) /\ k - 1 \in 1..Len(stack)
            BY <3>4, <4>3, <5>2
          <6> QED
            BY <3>4, <4>3, <6>1
        <5> QED
          BY <5>1, <5>2
      <4> QED
        BY <1>2, <1>9, <2>1, <2>2, <2>3, <2>4, <3>2, <3>4, <4>1, <4>2, <4>3
           DEF Catch!Deliver
  <2>5. ASSUME g \notin Catch!Trapped PROVE CatchInv'
    BY <1>2, <2>1, <2>2, <2>3, <2>5
  <2> QED
    BY <2>4, <2>5
<1>10. ASSUME NEW f \in Frames, stack # <<>>, f.sig = stack[1].sig,
              f.step = stack[1].step + 1,
              stack' = <<f>> \o Tail(stack), s' \in Nat, ~ Counting => s' = 0,
              Counting /\ f.step = 4 => s' >= 1,
              Counting /\ f.step >= 5 => s' \in 1..(MAX - 1),
              UNCHANGED <<kind, pc, traps, inlib, pending, sends>>
       PROVE  CatchInv'
  <2>1. /\ stack' \in Seq(Frames) /\ Len(stack') = Len(stack) /\ stack'[1] = f
        /\ \A k \in 2..Len(stack) : stack'[k] = stack[k]
        /\ stack' # <<>> /\ Len(stack) >= 1
    <3>1. stack \in Seq(Frames)
      OBVIOUS
    <3> HIDE DEF CatchInv
    <3> QED
      BY <1>10, <3>1, StackSteps
  <2>2. Counting => \A k \in 1..Len(stack') : stack'[k].sig = "INT"
    BY <1>10, <2>1
  <2> QED
    BY <1>10, <2>1, <2>2
<1>11. ASSUME stack # <<>>, Head(stack).step <= Len(P.calls)
       PROVE  /\ Head(stack) = stack[1] /\ stack[1] \in Frames
              /\ stack[1].step \in 1..(IF Counting THEN 6 ELSE 3)
              /\ ~ Counting => Catch!Call \in {"stdio", "malloc", "write"}
              /\ Counting =>
                   /\ Catch!Call \in {"stdio", "malloc", "write"} =>
                        stack[1].step \in {1, 6}
                   /\ Catch!Call = "load" => stack[1].step = 2
                   /\ Catch!Call = "store" => stack[1].step = 3
                   /\ Catch!Call = "check" => stack[1].step = 4
                   /\ Catch!Call = "save" => stack[1].step = 5
              /\ kind = "sig2" => Catch!Call = "write"
  <2> DEFINE calls == P.calls
             n == Len(calls)
             k == stack[1].step
  <2>1. Head(stack) = stack[1] /\ stack[1] \in Frames
    BY <1>11
  <2>2. k \in 1..7 /\ k <= n /\ Catch!Call = calls[k]
    BY <1>11, <2>1 DEF Frames, Catch!Call
  <2>3. /\ Counting => /\ n = 6 /\ calls[1] = "stdio" /\ calls[2] = "load"
                       /\ calls[3] = "store" /\ calls[4] = "check" /\ calls[5] = "save"
                       /\ calls[6] = "stdio"
        /\ ~ Counting =>
             n \in 1..3 /\ \A i \in 1..n : calls[i] \in {"stdio", "malloc", "write"}
        /\ kind = "sig2" => n = 1 /\ calls[1] = "write"
    BY <1>2 DEF CatchPrograms
  <2> HIDE DEF calls, n, k, CatchInv
  <2>4. /\ k \in 1..(IF Counting THEN 6 ELSE 3)
        /\ ~ Counting => calls[k] \in {"stdio", "malloc", "write"}
        /\ kind = "sig2" => calls[k] = "write"
    BY <2>2, <2>3
  <2>5. Counting => /\ calls[k] \in {"stdio", "malloc", "write"} => k \in {1, 6}
                    /\ calls[k] = "load" => k = 2
                    /\ calls[k] = "store" => k = 3
                    /\ calls[k] = "check" => k = 4
                    /\ calls[k] = "save" => k = 5
    <3>1. Counting => k \in {1, 2, 3, 4, 5, 6}
      BY <2>2, <2>3
    <3> QED
      BY <2>3, <3>1
  <2> QED
    BY <2>1, <2>2, <2>4, <2>5 DEF k
<1>12. ASSUME NEW f \in Frames, stack # <<>>, f.sig = stack[1].sig,
              f.step = stack[1].step, f.step \in 1..6, Catch!Step(f),
              s' \in Nat, ~ Counting => s' = 0,
              Counting /\ f.step = 3 => s' >= 1,
              Counting /\ f.step >= 4 => s' \in 1..(MAX - 1),
              UNCHANGED <<kind, pc, traps, inlib, pending, sends>>
       PROVE  CatchInv'
  <2> DEFINE h == [f EXCEPT !.step = @ + 1]
  <2>1. /\ h \in Frames /\ h.sig = stack[1].sig /\ h.step = stack[1].step + 1
        /\ stack' = <<h>> \o Tail(stack)
    <3> HIDE DEF CatchInv
    <3>1. 1 \in 1..(MAX - 1)
      OBVIOUS
    <3> QED
      BY <1>12, <3>1, FrameSteps DEF Catch!Step
  <2> HIDE DEF h, CatchInv
  <2>2. /\ Counting /\ h.step = 4 => s' >= 1
        /\ Counting /\ h.step >= 5 => s' \in 1..(MAX - 1)
    BY <1>12, <2>1
  <2> QED
    BY <1>10, <1>12, <2>1, <2>2
<1>13. CASE Catch!LibCall
  <2>1. /\ stack # <<>> /\ Head(stack).step <= Len(P.calls)
        /\ Catch!Call \in {"stdio", "malloc"}
        /\ UNCHANGED <<kind, traps, inlib, pending, s, sends>>
    BY <1>13 DEF Catch!LibCall
  <2>2. /\ Head(stack) = stack[1] /\ stack[1] \in Frames /\ kind # "sig2"
        /\ stack[1].step \in 1..6 /\ (Counting => stack[1].step \in {1, 6})
    BY <1>11, <2>1
  <2>3. CASE Catch!Step(Head(stack)) /\ UNCHANGED pc
    <3>1. s \in Nat /\ (~ Counting => s = 0)
          /\ (Counting /\ stack[1].step >= 4 => s \in 1..(MAX - 1))
      BY <2>1, <2>2
    <3> HIDE DEF CatchInv
    <3> QED
      BY <1>12, <2>1, <2>2, <2>3, <3>1
  <2>4. CASE /\ Catch!Interrupted(Catch!Call) /\ pc' \in {"hung", "crashed"}
             /\ UNCHANGED stack
    <3>1. kind # "sanodef1" => inlib # "-"
      BY <2>1, <2>4 DEF Catch!Interrupted
    <3> QED
      BY <2>1, <2>2, <2>4, <3>1
  <2> QED
    BY <1>13, <2>3, <2>4 DEF Catch!LibCall
<1>14. CASE Catch!WriteCall
  <2>1. /\ stack # <<>> /\ Head(stack).step <= Len(P.calls) /\ Catch!Call = "write"
        /\ UNCHANGED <<kind, traps, inlib, pending, s, sends>>
    BY <1>14 DEF Catch!WriteCall
  <2>2. /\ Head(stack) = stack[1] /\ stack[1] \in Frames
        /\ stack[1].step \in 1..6 /\ (Counting => stack[1].step \in {1, 6})
    BY <1>11, <2>1
  <2>3. CASE Catch!Step(Head(stack)) /\ UNCHANGED pc
    <3>1. s \in Nat /\ (~ Counting => s = 0)
          /\ (Counting /\ stack[1].step >= 4 => s \in 1..(MAX - 1))
      BY <2>1, <2>2
    <3> HIDE DEF CatchInv
    <3> QED
      BY <1>12, <2>1, <2>2, <2>3, <3>1
  <2>4. CASE pc' \in {"exit1", "badexit"} /\ UNCHANGED stack
    BY <2>1, <2>4
  <2> QED
    BY <1>14, <2>3, <2>4 DEF Catch!WriteCall
<1>15. CASE Catch!Count
  <2> DEFINE f == stack[1]
  <2>1. /\ stack # <<>> /\ Head(stack).step <= Len(P.calls)
        /\ UNCHANGED <<kind, pc, traps, inlib, pending, sends>>
        /\ Catch!Call \in {"load", "store", "check", "save"}
    BY <1>15 DEF Catch!Count
  <2>2. Head(stack) = f /\ f \in Frames /\ Counting
    BY <1>11, <2>1
  <2>3. /\ Catch!Call = "load" => f.step = 2 /\ Catch!Step([f EXCEPT !.t = s]) /\ s' = s
        /\ Catch!Call = "store" => f.step = 3 /\ Catch!Step(f) /\ s' = f.t + 1
        /\ Catch!Call = "check" =>
             f.step = 4 /\ Catch!Step(f) /\ s' = IF s >= MAX THEN 1 ELSE s
        /\ Catch!Call = "save" =>
             f.step = 5 /\ Catch!Step([f EXCEPT !.saved = s]) /\ s' = s
    <3> HIDE DEF CatchInv
    <3> QED
      BY <1>11, <1>15, <2>1, <2>2 DEF Catch!Count
  <2>4. /\ s \in Nat /\ f.t \in Nat /\ (f.step = 4 => s >= 1)
        /\ (f.step >= 5 => s \in 1..(MAX - 1))
    BY <2>1, <2>2 DEF Frames
  <2> HIDE DEF CatchInv, f
  <2>5. CASE Catch!Call = "load"
    <3> DEFINE h == [f EXCEPT !.t = s]
    <3>1. h \in Frames /\ h.step = f.step /\ h.sig = f.sig
      <4>1. 1 \in 1..(MAX - 1)
        OBVIOUS
      <4> QED
        BY <2>2, <2>4, <4>1, FrameSteps, ZenonT(30)
    <3>2. Catch!Step(h) /\ s' = s /\ h.step = 2 /\ h.sig = stack[1].sig
      BY <2>3, <2>5, <3>1 DEF f
    <3>3. h.step = stack[1].step
      BY <3>1 DEF f
    <3> HIDE DEF h
    <3> QED
      BY <1>12, <2>1, <2>2, <2>4, <3>1, <3>2, <3>3
  <2>6. CASE Catch!Call = "store"
    BY <1>12, <2>1, <2>2, <2>3, <2>4, <2>6, SMTT(30) DEF f
  <2>7. CASE Catch!Call = "check"
    BY <1>12, <2>1, <2>2, <2>3, <2>4, <2>7 DEF f
  <2>8. CASE Catch!Call = "save"
    <3> DEFINE h == [f EXCEPT !.saved = s]
    <3>1. h \in Frames /\ h.step = f.step /\ h.sig = f.sig
      <4>1. s \in Nat /\ s \in 1..(MAX - 1)
        BY <2>3, <2>4, <2>8
      <4> QED
        BY <2>2, <4>1, FrameSteps, ZenonT(30)
    <3>2. /\ Catch!Step(h) /\ s' = s /\ h.step = 5 /\ h.sig = stack[1].sig
          /\ s \in 1..(MAX - 1)
      BY <2>3, <2>4, <2>8, <3>1 DEF f
    <3>3. h.step = stack[1].step
      BY <3>1 DEF f
    <3> HIDE DEF h
    <3> QED
      BY <1>12, <2>1, <2>2, <2>4, <3>1, <3>2, <3>3
  <2> QED
    BY <2>1, <2>5, <2>6, <2>7, <2>8
<1> QED
  BY <1>3, <1>4, <1>5, <1>6, <1>7, <1>8, <1>9, <1>13, <1>14, <1>15
     DEF Catch!Next, Catch!Program

-----------------------------------------------------------------------------
(* tsig.c: the invariant.                                                  *)

CONSTANTS Async, NUM_THREADS     \* the signals that are blocked; worker threads
VARIABLES g_opt, proc, main, t, alive, blocking, altstack, installed, sig,
          signal_handled, hsig, hstep

Tsig == INSTANCE Tsig

\* Once main() has set its mask every thread has it, and once it has installed the
\* handlers only a thread in one of them takes that of SIGSEGV away.
TsigInv ==
  /\ Tsig!TypeOK /\ Tsig!MaskInherited /\ Tsig!CoreExplained
  /\ main = "sigmask" => alive = {Tsig!Main}
  /\ main # "sigmask" => alive \cup {Tsig!Main} \subseteq blocking
  /\ main = "create_workers" => t \in Tsig!Workers
  /\ main \in {"create_catcher", "create_workers", "pause"} =>
       /\ "BUS" \in installed
       /\ "SEGV" \in installed \/ \E th \in Tsig!Threads : hstep[th] \in {"raise", "exit"}

\* It holds at the start.
LEMMA TsigInit == ASSUME Tsig!TsigAssumption, Tsig!Init PROVE TsigInv
BY DEF Tsig!TsigAssumption, Tsig!Init, TsigInv, Tsig!TypeOK, Tsig!MaskInherited,
       Tsig!CoreExplained, Tsig!Threads, Tsig!Workers, Tsig!Main, Tsig!Catcher

\* Every step of every thread, and every signal from outside, keeps it.
LEMMA TsigNext ==
  ASSUME Tsig!TsigAssumption, TsigInv, Tsig!Next \/ UNCHANGED Tsig!vars
  PROVE  TsigInv'
<1> USE DEF Tsig!TsigAssumption, TsigInv, Tsig!TypeOK, Tsig!MaskInherited,
            Tsig!CoreExplained, Tsig!Threads, Tsig!Workers, Tsig!Main, Tsig!Catcher,
            Tsig!Sync, Tsig!Runs, Tsig!MainStep
<1>2. CASE Tsig!MainFails
  BY <1>2 DEF Tsig!MainFails
<1>3. CASE Tsig!BlockSignals
  BY <1>3 DEF Tsig!BlockSignals
<1>4. CASE Tsig!SetupAltsigstack
  BY <1>4 DEF Tsig!SetupAltsigstack
<1>5. CASE Tsig!InstallHandlers
  BY <1>5 DEF Tsig!InstallHandlers
<1>6. CASE Tsig!CreateCatcher
  BY <1>6, SMTT(30) DEF Tsig!CreateCatcher, Tsig!NewThread
<1>7. CASE Tsig!CreateWorker
  BY <1>7, SMTT(30) DEF Tsig!CreateWorker, Tsig!NewThread
<1>8. CASE Tsig!SigWait
  BY <1>8 DEF Tsig!SigWait
<1>9. CASE Tsig!Store
  BY <1>9 DEF Tsig!Store
<1>10. CASE Tsig!Fault
  BY <1>10 DEF Tsig!Fault, Tsig!Hit
<1>11. ASSUME NEW w \in Tsig!Workers, Tsig!WorkerExits(w) PROVE TsigInv'
  BY <1>11, SMTT(30) DEF Tsig!WorkerExits
<1>12. ASSUME NEW th \in Tsig!Threads, Tsig!ResetAction(th) PROVE TsigInv'
  BY <1>12 DEF Tsig!ResetAction
<1>13. ASSUME NEW th \in Tsig!Threads, Tsig!Raise(th) PROVE TsigInv'
  BY <1>13 DEF Tsig!Raise
<1>14. ASSUME NEW th \in Tsig!Threads, Tsig!HandlerExit(th) PROVE TsigInv'
  BY <1>14 DEF Tsig!HandlerExit
<1>15. ASSUME NEW g \in Async, Tsig!SendAsync(g) PROVE TsigInv'
  BY <1>15, ZenonT(30) DEF Tsig!SendAsync
<1>16. ASSUME NEW g \in Tsig!Sync, Tsig!SendSync(g) PROVE TsigInv'
  BY <1>16, SMTT(30) DEF Tsig!SendSync, Tsig!Hit
<1>17. CASE UNCHANGED Tsig!vars
  BY <1>17, SMTT(30) DEF Tsig!vars
<1> QED
  BY <1>2, <1>3, <1>4, <1>5, <1>6, <1>7, <1>8, <1>9, <1>10, <1>11, <1>12, <1>13, <1>14,
     <1>15, <1>16, <1>17 DEF Tsig!Next, Tsig!MainThread, Tsig!fatal_sigs_handler

-----------------------------------------------------------------------------
(* The programs that wait for signals: the invariant.                      *)

CONSTANTS Values, QMax, NSec     \* integers that are queued, limit; time to sleep
VARIABLES child, ready, sent, got, req

Waits == INSTANCE SignalWaits

\* A program is ready from its start on, and the child of killer.c inherits that; what
\* is slept and what is left make up the time to sleep.
WaitsInv ==
  /\ Waits!TypeOK /\ Waits!ValuesInOrder /\ Waits!SleptExactly /\ Waits!ReadyIsSafe
  /\ ready => pc # "start"
  /\ kind = "sigq" => {got, pending, sent} \subseteq Seq(Values)
  /\ kind # "killer" => child = "none"
  /\ kind = "killer" /\ pc \notin {"start", "exit1"} => ready
  /\ kind = "killer" /\ pc # "exit0" => got = <<>>
  /\ child # "none" => pc \in {"poll", "waitchild", "exit0"}

\* A queue passes its first element on, and takes a new one at the end.
LEMMA QueueSteps ==
  ASSUME NEW V, NEW g \in Seq(V), NEW p \in Seq(V), NEW v \in V
  PROVE  /\ p # <<>> => Append(g, Head(p)) \o Tail(p) = g \o p
         /\ g \o Append(p, v) = Append(g \o p, v)
<1>1. ASSUME p # <<>> PROVE Append(g, Head(p)) \o Tail(p) = g \o p
  BY <1>1
<1>2. g \o Append(p, v) = Append(g \o p, v)
  OBVIOUS
<1> QED
  BY <1>1, <1>2

\* It holds at the start.
LEMMA WaitsInit == ASSUME Waits!SignalWaitsAssumption, Waits!Init PROVE WaitsInv
<1>1. ready \in BOOLEAN
  BY Zenon DEF Waits!Init
<1> QED
  BY <1>1 DEF Waits!SignalWaitsAssumption, Waits!Init, WaitsInv, Waits!TypeOK,
              Waits!ValuesInOrder, Waits!SleptExactly, Waits!ReadyIsSafe, Waits!Sleeps

\* Every step of the programs and of the senders keeps it.
LEMMA WaitsNext ==
  ASSUME Waits!SignalWaitsAssumption, WaitsInv, Waits!Next \/ UNCHANGED Waits!vars
  PROVE  WaitsInv'
<1>0. ready' \in BOOLEAN
  BY Zenon
     DEF WaitsInv, Waits!TypeOK, Waits!Next, Waits!vars, Waits!Program, Waits!sigq_rcv,
         Waits!sigfd_man_eg, Waits!nano, Waits!sleepsafe, Waits!r_sleep, Waits!killer,
         Waits!Sleeper, Waits!Start, Waits!Default, Waits!Catcher, Waits!ReadSigfd,
         Waits!Tick, Waits!Interrupt, Waits!SleepOver, Waits!Invalid, Waits!Fork,
         Waits!KillChild, Waits!Pause, Waits!Catchit, Waits!WaitChild, Waits!Sigqueue,
         Waits!SendSig
<1> USE DEF Waits!SignalWaitsAssumption, WaitsInv, Waits!TypeOK, Waits!ValuesInOrder,
            Waits!SleptExactly, Waits!ReadyIsSafe, Waits!Sleeps, Waits!Kinds, Waits!Over
<1>1. CASE Waits!Start
  BY <1>0, <1>1 DEF Waits!Start
<1>2. CASE Waits!Default
  BY <1>0, <1>2 DEF Waits!Default
<1>3. CASE Waits!Catcher
  <2>1. /\ {got', pending', sent'} \subseteq Seq(Values) 
        /\ got' \o pending' = sent'
    <3>1. /\ {got, pending, sent} \subseteq Seq(Values) /\ pending # <<>>
          /\ got' = Append(got, Head(pending)) /\ pending' = Tail(pending) /\ sent' = sent
      BY <1>3 DEF Waits!Catcher
    <3>2. Head(pending) \in Values /\ Tail(pending) \in Seq(Values)
      BY <3>1
    <3> QED
      <4> HIDE DEF WaitsInv
      <4>1. Append(got, Head(pending)) \o Tail(pending) = got \o pending
        BY <3>1, <3>2, QueueSteps
      <4>2. Append(got, Head(pending)) \in Seq(Values) /\ got \o pending = sent
        BY <1>3, <3>1, <3>2 DEF WaitsInv, Waits!Catcher
      <4> QED
        BY <3>1, <3>2, <4>1, <4>2
  <2> QED
    BY <1>0, <1>3, <2>1 DEF Waits!Catcher
<1>4. CASE Waits!ReadSigfd
  BY <1>0, <1>4 DEF Waits!ReadSigfd
<1>5. CASE Waits!Tick
  BY <1>0, <1>5 DEF Waits!Tick
<1>6. CASE Waits!Interrupt
  BY <1>0, <1>6 DEF Waits!Interrupt
<1>7. CASE Waits!SleepOver
  BY <1>0, <1>7 DEF Waits!SleepOver
<1>16. CASE Waits!Invalid
  BY <1>0, <1>16 DEF Waits!Invalid
<1>8. CASE Waits!Fork
  BY <1>0, <1>8 DEF Waits!Fork
<1>9. CASE Waits!KillChild
  BY <1>0, <1>9 DEF Waits!KillChild
<1>10. CASE Waits!Pause
  BY <1>0, <1>10 DEF Waits!Pause
<1>11. CASE Waits!Catchit
  BY <1>0, <1>11 DEF Waits!Catchit
<1>12. CASE Waits!WaitChild
  <2>1. kind = "killer" /\ got = <<>> /\ child = "handler" /\ ready
    BY <1>12 DEF Waits!WaitChild
  <2>2. got' = <<"handler">>
    BY <1>12, <2>1 DEF Waits!WaitChild
  <2> QED
    BY <1>0, <1>12, <2>1, <2>2 DEF Waits!WaitChild
<1>13. ASSUME NEW v \in Values, Waits!Sigqueue(v) PROVE WaitsInv'
  <2>1. /\ {got', pending', sent'} \subseteq Seq(Values) 
        /\ got' \o pending' = sent'
    <3>1. {got, pending, sent} \subseteq Seq(Values) /\ got \o pending = sent
      BY <1>13 DEF Waits!Sigqueue
    <3> QED
      <4> HIDE DEF WaitsInv
      <4>1. got \o Append(pending, v) = Append(sent, v)
        BY <3>1, QueueSteps, ZenonT(30)
      <4>2. /\ Append(pending, v) \in Seq(Values) /\ Append(sent, v) \in Seq(Values)
        BY <3>1
      <4> QED
        BY <1>13, <3>1, <4>1, <4>2 DEF Waits!Sigqueue
  <2>2. /\ kind = "sigq" /\ sends' \in 0..MaxSends
        /\ UNCHANGED <<kind, pc, child, ready, got, slept, req>>
    BY <1>13 DEF Waits!Sigqueue
  <2>3. Waits!TypeOK' /\ Waits!ValuesInOrder' /\ Waits!SleptExactly' /\ Waits!ReadyIsSafe'
    BY <2>1, <2>2
  <2> QED
    BY <2>1, <2>2, <2>3
<1>14. ASSUME NEW g \in {"INT", "QUIT"}, Waits!SendSig(g) PROVE WaitsInv'
  <2>1. /\ kind # "sigq" /\ kind # "killer" /\ sends' \in 0..MaxSends
        /\ UNCHANGED <<kind, pc, child, ready, sent, got, slept, req>>
    BY <1>14, SMTT(30) DEF Waits!SendSig
  <2>2. Waits!TypeOK' /\ Waits!ValuesInOrder' /\ Waits!SleptExactly' /\ Waits!ReadyIsSafe'
    BY <2>1
  <2> QED
    BY <2>1, <2>2
<1>15. CASE UNCHANGED Waits!vars
  <2>1. UNCHANGED <<kind, pc, child, ready, sends, req, slept, got, pending, sent>>
    BY <1>15 DEF Waits!vars
  <2>2. Waits!TypeOK' /\ Waits!ValuesInOrder' /\ Waits!SleptExactly' /\ Waits!ReadyIsSafe'
    BY <2>1
  <2> QED
    BY <2>1, <2>2
<1> QED
  BY <1>1, <1>2, <1>3, <1>4, <1>5, <1>6, <1>7, <1>8, <1>9, <1>10, <1>11, <1>12, <1>13,
     <1>14, <1>15, <1>16
     DEF Waits!Next, Waits!Program, Waits!sigq_rcv, Waits!sigfd_man_eg, Waits!nano,
         Waits!sleepsafe, Waits!r_sleep, Waits!killer, Waits!Sleeper

-----------------------------------------------------------------------------
(* sigcrit.c: the invariant.                                               *)

CONSTANT MaxSent     \* bound on the signals sent
VARIABLES trapped, handling, count

Crit == INSTANCE SigCrit

\* The mask covers both signals in the critical code, and only there.
CritInv ==
  /\ Crit!TypeOK /\ Crit!CriticalUndisturbed /\ Crit!CountsSent
  /\ pc = "critical" => blocked = Crit!Sigs

\* It holds at the start.
LEMMA CritInit == ASSUME Crit!SigCritAssumption, Crit!Init PROVE CritInv
BY DEF Crit!SigCritAssumption, Crit!Init, CritInv, Crit!TypeOK, Crit!CriticalUndisturbed,
       Crit!CountsSent, Crit!Sigs

\* Every step of main(), of the handler and of a sender keeps it.
LEMMA CritNext ==
  ASSUME Crit!SigCritAssumption, CritInv, Crit!Next \/ UNCHANGED Crit!vars
  PROVE  CritInv'
<1> USE DEF Crit!SigCritAssumption, CritInv, Crit!TypeOK, Crit!CriticalUndisturbed,
            Crit!CountsSent, Crit!Sigs, Crit!MainRuns, Crit!Deliverable
<1>1. CASE Crit!Sigaction
  BY <1>1 DEF Crit!Sigaction
<1>2. CASE Crit!Block
  BY <1>2 DEF Crit!Block
<1>3. CASE Crit!Unblock
  BY <1>3 DEF Crit!Unblock
<1>4. CASE Crit!Sighdlr
  BY <1>4 DEF Crit!Sighdlr
<1>5. ASSUME NEW g \in Crit!Sigs, Crit!Send(g) PROVE CritInv'
  <2>1. sent' \in [Crit!Sigs -> 0..MaxSent] /\ sent'[g] = sent[g] + 1
    BY <1>5 DEF Crit!Send
  <2>2. ASSUME NEW r \in Crit!Sigs, pending' = pending \cup {g} \/ pending' = pending
        PROVE  count[r] + (IF r \in pending' THEN 1 ELSE 0)
                 + (IF handling # <<>> /\ handling[1] = r THEN 1 ELSE 0) <= sent'[r]
    <3> DEFINE h == IF handling # <<>> /\ handling[1] = r THEN 1 ELSE 0
    <3>1. count[r] \in Nat /\ sent[r] \in Nat /\ h \in {0, 1}
      OBVIOUS
    <3>2. sent'[r] = IF r = g THEN sent[r] + 1 ELSE sent[r]
      BY <1>5 DEF Crit!Send
    <3>3. count[r] + (IF r \in pending THEN 1 ELSE 0) + h <= sent[r]
      OBVIOUS
    <3> HIDE DEF h, CritInv
    <3> QED
      <4>1. count[r] + (IF r \in pending' THEN 1 ELSE 0) + h <= sent'[r]
        BY <2>2, <3>1, <3>2, <3>3
      <4> QED
        BY <4>1 DEF h
  <2>3. Crit!CountsSent'
    BY <1>5, <2>2 DEF Crit!Send
  <2> QED
    BY <1>5, <2>1, <2>3 DEF Crit!Send
<1>6. ASSUME NEW g \in Crit!Sigs, Crit!Deliver(g) PROVE CritInv'
  BY <1>6 DEF Crit!Deliver
<1>7. CASE UNCHANGED Crit!vars
  BY <1>7 DEF Crit!vars
<1> QED
  BY <1>1, <1>2, <1>3, <1>4, <1>5, <1>6, <1>7 DEF Crit!Next, Crit!Main

-----------------------------------------------------------------------------
(* zombies_clear_traditional.c: the invariant.                             *)

CONSTANTS Own, Inherited     \* children
VARIABLES clear_zombie, early

Zombies == INSTANCE ClearZombies

\* Nobody is in the handler before it is there, and those who died early did so then.
ZombiesInv ==
  /\ Zombies!TypeOK /\ Zombies!NoZombieForgotten
  /\ pc = "sigaction" => ~ trapped
  /\ ~ trapped => Zombies!Zombies \subseteq early

\* It holds at the start.
LEMMA ZombiesInit == ASSUME Zombies!Init PROVE ZombiesInv
<1>1. trapped \in BOOLEAN /\ pending \in BOOLEAN /\ handler \in BOOLEAN
  BY Zenon DEF Zombies!Init
<1> QED
  BY <1>1 DEF Zombies!Init, ZombiesInv, Zombies!TypeOK, Zombies!NoZombieForgotten,
              Zombies!Zombies, Zombies!Children

\* Every step of the parent, of its handler and of a child keeps it.
LEMMA ZombiesNext ==
  ASSUME ZombiesInv, Zombies!Next \/ UNCHANGED Zombies!vars
  PROVE  ZombiesInv'
<1>1. trapped' \in BOOLEAN /\ pending' \in BOOLEAN /\ handler' \in BOOLEAN
  BY Zenon
     DEF ZombiesInv, Zombies!TypeOK, Zombies!Next, Zombies!vars, Zombies!Sigaction,
         Zombies!Fork, Zombies!Exit, Zombies!Deliver, Zombies!Wait3, Zombies!Die
<1> USE DEF ZombiesInv, Zombies!TypeOK, Zombies!NoZombieForgotten, Zombies!Zombies,
            Zombies!Living, Zombies!Children, Zombies!MainRuns
<1>2. CASE Zombies!Sigaction
  BY <1>1, <1>2 DEF Zombies!Sigaction
<1>3. CASE Zombies!Fork
  BY <1>1, <1>3 DEF Zombies!Fork
<1>4. CASE Zombies!Exit
  BY <1>1, <1>4 DEF Zombies!Exit
<1>5. CASE Zombies!Deliver
  BY <1>1, <1>5 DEF Zombies!Deliver
<1>6. CASE Zombies!Wait3
  BY <1>1, <1>6 DEF Zombies!Wait3
<1>7. ASSUME NEW k \in Zombies!Children, Zombies!Die(k) PROVE ZombiesInv'
  BY <1>1, <1>7 DEF Zombies!Die
<1>8. CASE UNCHANGED Zombies!vars
  BY <1>8 DEF Zombies!vars
<1> QED
  BY <1>2, <1>3, <1>4, <1>5, <1>6, <1>7, <1>8 DEF Zombies!Next

-----------------------------------------------------------------------------
(* One of the programs in each behaviour.                                 *)

VARIABLE program     \* the program of this behaviour

vars == <<program, g_opt, proc, main, t, alive, blocking, altstack, installed, pending,
          sig, signal_handled, hsig, hstep, pc, kid, rem, slept, hits, shown, sigs,
          trapped,
          blocked, handling, count, sent, clear_zombie, early, handler, kind, from,
          args, alt, room, runs, code, end, frame, kills, traps, inlib, stack, s,
          sends, child, ready, got, req>>

\* The variables that one program alone has, and their value when another runs.
ownTsig == <<g_opt, proc, main, t, alive, blocking, altstack, installed, sig,
             signal_handled, hsig, hstep>>
ownChld == <<rem, hits, shown, sigs>>
ownCrit == <<handling, count>>
ownZombies == <<clear_zombie, early>>
ownSegv == <<from, args, alt, room, runs, code, end, frame, kills>>
ownCatch == <<traps, inlib, stack, s>>
ownWaits == <<child, ready, got, req>>

noTsig == g_opt = 0 /\ proc = 0 /\ main = 0 /\ t = 0 /\ alive = 0 /\ blocking = 0
          /\ altstack = 0 /\ installed = 0 /\ sig = 0 /\ signal_handled = 0 /\ hsig = 0
          /\ hstep = 0
noChld == rem = 0 /\ hits = 0 /\ shown = 0 /\ sigs = 0
noCrit == handling = 0 /\ count = 0
noZombies == clear_zombie = 0 /\ early = 0
noSegv == from = 0 /\ args = 0 /\ alt = 0 /\ room = 0 /\ runs = 0 /\ code = 0
          /\ end = 0 /\ frame = 0 /\ kills = 0
noCatch == traps = 0 /\ inlib = 0 /\ stack = 0 /\ s = 0
noWaits == child = 0 /\ ready = 0 /\ got = 0 /\ req = 0

Init ==
  \/ /\ program = "tsig" /\ Tsig!Init /\ noChld /\ noCrit /\ noZombies /\ noSegv
     /\ noCatch /\ noWaits /\ pc = 0 /\ kid = 0 /\ slept = 0 /\ trapped = 0
     /\ blocked = 0 /\ sent = 0 /\ handler = 0 /\ kind = 0 /\ sends = 0
  \/ /\ program = "chld_sig" /\ Chld!Init /\ noTsig /\ noCrit /\ noZombies /\ noSegv
     /\ noCatch /\ noWaits /\ pending = 0 /\ trapped = 0 /\ blocked = 0 /\ sent = 0
     /\ handler = 0 /\ kind = 0 /\ sends = 0
  \/ /\ program = "sigcrit" /\ Crit!Init /\ noTsig /\ noChld /\ noZombies /\ noSegv
     /\ noCatch /\ noWaits /\ kid = 0 /\ slept = 0 /\ handler = 0 /\ kind = 0
     /\ sends = 0
  \/ /\ program = "clearzombies" /\ Zombies!Init /\ noTsig /\ noChld /\ noCrit
     /\ noSegv /\ noCatch /\ noWaits /\ slept = 0 /\ blocked = 0 /\ sent = 0
     /\ kind = 0 /\ sends = 0
  \/ /\ program = "segv" /\ Segv!Init /\ noTsig /\ noChld /\ noCrit /\ noZombies
     /\ noCatch /\ noWaits /\ kid = 0 /\ slept = 0 /\ trapped = 0 /\ sent = 0
     /\ sends = 0
  \/ /\ program = "catchers" /\ Catch!Init /\ noTsig /\ noChld /\ noCrit /\ noZombies
     /\ noSegv /\ noWaits /\ kid = 0 /\ slept = 0 /\ trapped = 0 /\ blocked = 0
     /\ sent = 0 /\ handler = 0
  \/ /\ program = "waits" /\ Waits!Init /\ noTsig /\ noChld /\ noCrit /\ noZombies
     /\ noSegv /\ noCatch /\ kid = 0 /\ trapped = 0 /\ blocked = 0 /\ handler = 0

Next ==
  \/ /\ program = "tsig" /\ Tsig!Next
     /\ UNCHANGED <<program, ownChld, ownCrit, ownZombies, ownSegv, ownCatch, ownWaits,
                   pc, kid, slept, trapped, blocked, sent, handler, kind, sends>>
  \/ /\ program = "chld_sig" /\ Chld!Next
     /\ UNCHANGED <<program, ownTsig, ownCrit, ownZombies, ownSegv, ownCatch, ownWaits,
                   pending, trapped, blocked, sent, handler, kind, sends>>
  \/ /\ program = "sigcrit" /\ Crit!Next
     /\ UNCHANGED <<program, ownTsig, ownChld, ownZombies, ownSegv, ownCatch, ownWaits,
                   kid, slept, handler, kind, sends>>
  \/ /\ program = "clearzombies" /\ Zombies!Next
     /\ UNCHANGED <<program, ownTsig, ownChld, ownCrit, ownSegv, ownCatch, ownWaits,
                   slept, blocked, sent, kind, sends>>
  \/ /\ program = "segv" /\ Segv!Next
     /\ UNCHANGED <<program, ownTsig, ownChld, ownCrit, ownZombies, ownCatch, ownWaits,
                   kid, slept, trapped, sent, sends>>
  \/ /\ program = "catchers" /\ Catch!Next
     /\ UNCHANGED <<program, ownTsig, ownChld, ownCrit, ownZombies, ownSegv, ownWaits,
                   kid, slept, trapped, blocked, sent, handler>>
  \/ /\ program = "waits" /\ Waits!Next
     /\ UNCHANGED <<program, ownTsig, ownChld, ownCrit, ownZombies, ownSegv, ownCatch,
                   kid, trapped, blocked, handler>>

tsig_vars == Tsig!vars
chld_vars == Chld!vars
crit_vars == Crit!vars
zombies_vars == Zombies!vars
segv_vars == Segv!vars
catch_vars == Catch!vars
waits_vars == Waits!vars

Spec == Init /\ [][Next]_vars

\* Every thread and process runs, pending signals are delivered, and a child dies.
\* Tsig: the senders fall silent in the end, as sigwait() may prefer one signal
\* over another for as long as both are sent.
FairSpec ==
  /\ Spec
  /\ WF_tsig_vars(program = "tsig" /\ Tsig!MainThread)
  /\ WF_tsig_vars(program = "tsig" /\ Tsig!SigWait)
  /\ WF_tsig_vars(program = "tsig" /\ Tsig!Store)
  /\ WF_tsig_vars(program = "tsig" /\ Tsig!Fault)
  /\ \A th \in Tsig!Threads :
       WF_tsig_vars(program = "tsig" /\ Tsig!fatal_sigs_handler(th))
  /\ <>[][~(program = "tsig" /\ \E g \in Async : Tsig!SendAsync(g))]_tsig_vars
  /\ WF_chld_vars(program = "chld_sig" /\ (Chld!Sigaction \/ Chld!Wait))
  /\ \A k \in Chld!Kids :
       /\ WF_chld_vars(program = "chld_sig" /\ Chld!Fork(k))
       /\ WF_chld_vars(program = "chld_sig" /\ (Chld!Tick(k) \/ Chld!ChildExits(k)))
  /\ WF_crit_vars(program = "sigcrit" /\ Crit!Main)
  /\ WF_crit_vars(program = "sigcrit" /\ Crit!Sighdlr)
  /\ \A g \in Crit!Sigs : WF_crit_vars(program = "sigcrit" /\ Crit!Deliver(g))
  /\ WF_zombies_vars(program = "clearzombies" /\ (Zombies!Sigaction \/ Zombies!Fork))
  /\ WF_zombies_vars(program = "clearzombies" /\ Zombies!Deliver)
  /\ WF_zombies_vars(program = "clearzombies" /\ Zombies!Wait3)
  /\ WF_zombies_vars(program = "clearzombies" /\ Zombies!Die(Own))
  /\ WF_segv_vars(program = "segv" /\ Segv!Program)
  /\ WF_catch_vars(program = "catchers" /\ Catch!Program)
  /\ WF_waits_vars(program = "waits" /\ Waits!Program)

ASSUME Constants ==
  /\ Tsig!TsigAssumption /\ Chld!ChldSigAssumption /\ Crit!SigCritAssumption
  /\ Zombies!ClearZombiesAssumption /\ Segv!SegvHandlerAssumption
  /\ Catch!CatchersAssumption /\ Waits!SignalWaitsAssumption

-----------------------------------------------------------------------------
(* Properties.                                                             *)

\* The variables of the program that runs have their types; handlers do not nest
\* in sigcrit.c, and the loop of tsig.c stays within pthrd[].
TypeOK ==
  CASE program = "tsig"         -> Tsig!TypeOK
    [] program = "chld_sig"     -> Chld!TypeOK
    [] program = "sigcrit"      -> Crit!TypeOK
    [] program = "clearzombies" -> Zombies!TypeOK
    [] program = "segv"         -> Segv!TypeOK
    [] program = "catchers"     -> Catch!TypeOK
    [] program = "waits"        -> Waits!TypeOK

\* A signal does no harm. tsig.c:5-9: once main() has set its mask no asynchronous
\* signal ends the process, whichever threads exist by then, and a fault ends it
\* with the default action only before the handlers are there or after a handler
\* has put it back. sleep_r() of chld_sig.c: a child never sleeps longer than its
\* time, and lacks at most a second of it for each signal it caught; the parent
\* shows exactly the children it has waited for. sigcrit.c:5, "certain signals are
\* blocked out during that window": no handler runs inside the critical code.  The
\* programs that handle SIGSEGV: a fault is reported once, never silently ends the
\* program, and the core shows where it happened.  The catchers: handlers nest only
\* with SA_NODEFER, and those that call only safe functions never hang or crash.
\* The others: no signal ends a program that is ready for it, or changes how long
\* one sleeps with nanosleep().
SignalsContained ==
  /\ program = "tsig" => Tsig!MaskInherited /\ Tsig!CoreExplained
  /\ program = "chld_sig" => Chld!SleptInFull
  /\ program = "sigcrit" => Crit!CriticalUndisturbed
  /\ program = "segv" => Segv!ReportedOnce /\ Segv!NeverSilent /\ Segv!CoreShowsFault
  /\ program = "catchers" => Catch!OneHandler /\ Catch!SafeHandlers
  /\ program = "waits" => Waits!ReadyIsSafe /\ Waits!SleptExactly

\* No signal and no death is forgotten or made up. sigcrit.c: what is counted,
\* pending or being handled was sent. zombies_clear_traditional.c: once the
\* handler is installed, a dead child has a signal pending or the handler running,
\* however many deaths fall into one SIGCHLD.  The counter of sanodef.c
\* stays in its range however its handlers nest.  sigq_rcv.c gets every value that
\* was queued, in order.
NothingForgotten ==
  /\ program = "sigcrit" => Crit!CountsSent
  /\ program = "clearzombies" => Zombies!NoZombieForgotten
  /\ program = "catchers" => Catch!SavedInRange
  /\ program = "waits" => Waits!ValuesInOrder

\* A signal is on its way to a program that calls nothing unsafe, or that waits.
Outstanding ==
  \/ program = "catchers" /\ Catch!Awaiting
  \/ program = "waits" /\ Waits!Pending

\* A signal is handled in the end. tsig.c: a blocked signal is taken by the signal
\* thread; sigcrit.c: one that arrives in the critical code is handled later;
\* zombies_clear_traditional.c: a child that dies under the handler is cleared, or
\* the parent exits; the programs that catch or await signals: what was sent is
\* handled, one after the other.
SignalHandled ==
  /\ \A g \in Async :
       (program = "tsig" /\ g \in pending)
         ~> (program = "tsig" => proc # "up" \/ sig = {g})
  /\ \A g \in Crit!Sigs :
       (program = "sigcrit" /\ g \in pending)
         ~> (program = "sigcrit" => handling = <<g>> \/ pc = "killed")
  /\ \A k \in Zombies!Children :
       (program = "clearzombies" /\ Zombies!Waits(k))
         ~> (program = "clearzombies" => kid[k] = "gone" \/ pc = "exit")
  /\ Outstanding ~> ~Outstanding

\* tsig.c: a thread that enters the handler of a fault ends the process.
\* chld_sig.c: the parent never waits for ever.  The programs that handle SIGSEGV
\* end after the fault, or rest in pause(); the sleeps end in spite of signals, and
\* so does killer.c.
ProgramEnds ==
  /\ \A th \in Tsig!Threads :
       (program = "tsig" /\ hstep[th] # "none") ~> (program = "tsig" => proc # "up")
  /\ program = "chld_sig" ~> (program = "chld_sig" => Chld!Ended)
  /\ <>[](/\ program = "segv" => Segv!Resting
          /\ program = "waits" => ~Waits!MustEnd \/ Waits!Over)

-----------------------------------------------------------------------------
(* Proofs, from those of the programs.                                     *)

\* The invariant of the program that runs.
SigInv ==
  /\ program \in {"tsig", "chld_sig", "sigcrit", "clearzombies", "segv", "catchers",
                  "waits"}
  /\ program = "tsig" => TsigInv
  /\ program = "chld_sig" => ChldInv
  /\ program = "sigcrit" => CritInv
  /\ program = "clearzombies" => ZombiesInv
  /\ program = "segv" => SegvInv
  /\ program = "catchers" => CatchInv
  /\ program = "waits" => WaitsInv

\* Every program starts with its invariant.
LEMMA SigInit == Init => SigInv
BY Constants, TsigInit, ChldInit, CritInit, ZombiesInit, SegvInit, CatchInit, WaitsInit,
   Zenon DEF Init, SigInv

\* A step of one program keeps its invariant; the program that runs stays the same.
LEMMA SigNext == SigInv /\ [Next]_vars => SigInv'
<1> SUFFICES ASSUME SigInv, [Next]_vars PROVE SigInv'
  OBVIOUS
<1>1. /\ program' = program
      /\ program = "tsig" => Tsig!Next \/ UNCHANGED Tsig!vars
      /\ program = "chld_sig" => Chld!Next \/ UNCHANGED Chld!vars
      /\ program = "sigcrit" => Crit!Next \/ UNCHANGED Crit!vars
      /\ program = "clearzombies" => Zombies!Next \/ UNCHANGED Zombies!vars
      /\ program = "segv" => Segv!Next \/ UNCHANGED Segv!vars
      /\ program = "catchers" => Catch!Next \/ UNCHANGED Catch!vars
      /\ program = "waits" => Waits!Next \/ UNCHANGED Waits!vars
  BY Zenon DEF Next, vars, Tsig!vars, Chld!vars, Crit!vars, Zombies!vars, Segv!vars,
               Catch!vars, Waits!vars
<1>2. program = "tsig" => TsigInv'
  BY <1>1, Constants, TsigNext DEF SigInv
<1>3. program = "chld_sig" => ChldInv'
  BY <1>1, Constants, ChldNext DEF SigInv
<1>4. program = "sigcrit" => CritInv'
  BY <1>1, Constants, CritNext DEF SigInv
<1>5. program = "clearzombies" => ZombiesInv'
  BY <1>1, Constants, ZombiesNext DEF SigInv
<1>6. program = "segv" => SegvInv'
  BY <1>1, Constants, SegvNext DEF SigInv
<1>7. program = "catchers" => CatchInv'
  BY <1>1, Constants, CatchNext DEF SigInv
<1>8. program = "waits" => WaitsInv'
  BY <1>1, Constants, WaitsNext DEF SigInv
<1> QED
  BY <1>1, <1>2, <1>3, <1>4, <1>5, <1>6, <1>7, <1>8 DEF SigInv

\* The invariant holds throughout.
LEMMA SigInvariant == Spec => []SigInv
BY SigInit, SigNext, PTL DEF Spec

\* It implies the properties.
LEMMA SigSafe == SigInv => TypeOK /\ SignalsContained /\ NothingForgotten
BY Constants, CatchSafe
   DEF SigInv, TypeOK, SignalsContained, NothingForgotten, TsigInv, ChldInv, CritInv,
       ZombiesInv, SegvInv, WaitsInv

\* For any number of threads, children and signals, and any times to sleep: the
\* variables of every program have their types.
THEOREM SignalsTyped == Spec => []TypeOK
BY SigInvariant, SigSafe, PTL

\* For any number of threads, children and signals, and any times to sleep: no signal
\* ends a program that has made itself ready, runs a handler in code that is protected
\* from it, or changes how long a program sleeps with nanosleep(); a sleep that sleep_r()
\* of chld_sig.c repeats is never too long, and too short by at most a second for each
\* signal; and a fault is reported.
THEOREM SignalsHarmless == Spec => []SignalsContained
BY SigInvariant, SigSafe, PTL

\* For any number of signals and children: none is forgotten or made up, queued values
\* arrive in order, and the counter of sanodef.c stays in its range however deep its
\* handlers nest.
THEOREM SignalsRemembered == Spec => []NothingForgotten
BY SigInvariant, SigSafe, PTL
=============================================================================
