---------------------------- MODULE SegvHandler -----------------------------
(***************************************************************************)
(* The programs that catch their own segmentation fault: handle_segv.c     *)
(* ("plain": report and exit), handle_segv_altstack.c ("altstack") and     *)
(* stackmem_corrupt.c ("corrupt"), whose handlers run on an alternate      *)
(* stack, set SIGSEGV back to its default and raise it again.  SIGSEGV is  *)
(* blocked while its handler runs, so that the second one is pending until *)
(* the handler has returned: it then ends the process at the instruction   *)
(* that failed.  SIGSEGV may also come from outside (kill).                *)
(***************************************************************************)
EXTENDS Naturals

CONSTANT MaxKills   \* bound on the SIGSEGVs from outside

\* The values the constant may have.
SegvHandlerAssumption == MaxKills \in Nat

Kinds == {"plain", "altstack", "corrupt"}

VARIABLES kind,
          pc,        \* "setup", "access", "pause", "handler", "reset", "raised", "ended"
          from,      \* where main() was when the handler began
          args,      \* argv[1][0], argv[2][0]
          handler,   \* myfault() is installed; otherwise the default action
          alt,       \* there is an alternate stack, and SA_ONSTACK
          room,      \* the regular stack has room for a signal frame
          blocked, pending,   \* SIGSEGV
          runs,      \* how often myfault() was entered
          code,      \* si_code of the report
          end,       \* "-", "exit0", "exit1", "core"
          frame,     \* what the core shows: "main", "myfault"
          kills

vars == <<kind, pc, from, args, handler, alt, room, blocked, pending, runs, code, end, frame,
          kills>>

Init ==
  /\ kind \in Kinds /\ pc = "setup" /\ from = "-"
  /\ args \in {"u", "U", "k", "x"} \X {"r", "R", "w"}
  /\ handler = FALSE /\ alt = FALSE /\ room = TRUE
  /\ blocked = FALSE /\ pending = FALSE /\ runs = 0 /\ code = "-"
  /\ end = "-" /\ frame = "-" /\ kills = 0

Stop(how, where) == pc' = "ended" /\ end' = how /\ frame' = where

\* Mutant of setup: SA_ONSTACK is left out.
setup_NoOnstack ==
  /\ pc = "setup" /\ pc' = "access" /\ handler' = TRUE /\ alt' = FALSE
  /\ UNCHANGED <<kind, from, args, room, blocked, pending, runs, code, end, frame, kills>>

\* setup_altsigstack() and sigaction(): each may fail, which ends the program.
setup ==
  /\ pc = "setup"
  /\ \/ /\ pc' = "access" /\ handler' = TRUE /\ alt' = (kind # "plain")
        /\ UNCHANGED <<end, frame>>
     \/ Stop("exit1", "main") /\ UNCHANGED <<handler, alt>>
  /\ UNCHANGED <<kind, from, args, room, blocked, pending, runs, code, kills>>

\* A signal that is not blocked is delivered: the kernel needs room for a frame on
\* the stack it uses.
Deliver(si, where) ==
  IF handler /\ (alt \/ room')
    THEN /\ pc' = "handler" /\ from' = where /\ runs' = runs + 1 /\ code' = si
         /\ blocked' = TRUE /\ UNCHANGED <<end, frame>>
    ELSE Stop("core", where) /\ UNCHANGED <<from, runs, code, blocked>>

\* tolower(argv[1][0]), but tolower(argv[2][0] == 'r'): only the first letter may
\* be upper case.
Faults ==
  IF args[1] = "x" \/ args[2] = "R" THEN "none"
  ELSE IF args[1] = "k" THEN "SI_KERNEL"
       ELSE IF args[2] = "r" THEN "SEGV_MAPERR" ELSE "SEGV_ACCERR"

\* main() of the first two: the access, or usage().
access ==
  /\ pc = "access" /\ kind # "corrupt" /\ UNCHANGED room
  /\ IF Faults = "none"
       THEN Stop("exit0", "main") /\ UNCHANGED <<from, runs, code, blocked>>
       ELSE Deliver(Faults, "access")
  /\ UNCHANGED <<kind, args, handler, alt, pending, kills>>

\* write_underflow_corruptstack(): memset() below the stack, which may leave no
\* room on it; atoi(NULL) when the script printed nothing; or an early return, and
\* then pause().
write_underflow ==
  /\ pc = "access" /\ kind = "corrupt"
  /\ \/ room' \in BOOLEAN /\ Deliver("SEGV_MAPERR", "access")
     \/ UNCHANGED room /\ Deliver("SEGV_MAPERR", "access")
     \/ pc' = "pause" /\ UNCHANGED <<room, from, runs, code, blocked, end, frame>>
  /\ UNCHANGED <<kind, args, handler, alt, pending, kills>>

\* Somebody sends SIGSEGV.
Kill ==
  /\ pc \in {"access", "pause", "handler", "reset", "raised"} /\ kills < MaxKills
  /\ kills' = kills + 1 /\ UNCHANGED room
  /\ IF blocked THEN pending' = TRUE /\ UNCHANGED <<pc, from, runs, code, blocked, end, frame>>
                ELSE Deliver("SI_USER", pc) /\ UNCHANGED pending
  /\ UNCHANGED <<kind, args, handler, alt>>

\* Mutant of myfault: SIGSEGV is not set back to the default.
myfault_NoReset ==
  /\ pc = "handler"
  /\ IF kind = "plain" THEN Stop("exit1", "myfault") ELSE pc' = "reset" /\ UNCHANGED <<end, frame>>
  /\ UNCHANGED <<kind, from, args, handler, alt, room, blocked, pending, runs, code, kills>>

\* The report; then exit(1), or the default action is set.
myfault ==
  /\ pc = "handler"
  /\ IF kind = "plain" THEN Stop("exit1", "myfault") /\ UNCHANGED handler
     ELSE pc' = "reset" /\ handler' = FALSE /\ UNCHANGED <<end, frame>>
  /\ UNCHANGED <<kind, from, args, alt, room, blocked, pending, runs, code, kills>>

\* Mutant of raise: SIGSEGV is not blocked in the handler (SA_NODEFER).
raise_NoDefer ==
  /\ pc = "reset" /\ Stop("core", "myfault")
  /\ UNCHANGED <<kind, from, args, handler, alt, room, blocked, pending, runs, code, kills>>

\* raise(SIGSEGV): blocked, hence pending.
raise ==
  /\ pc = "reset" /\ pc' = "raised" /\ pending' = TRUE
  /\ UNCHANGED <<kind, from, args, handler, alt, room, blocked, runs, code, end, frame, kills>>

\* The handler returns: the mask is restored, and the pending signal delivered before
\* main() executes another instruction.
return ==
  /\ pc = "raised"
  /\ IF handler
       THEN runs' = runs + 1 /\ pc' = "handler" /\ pending' = FALSE /\ code' = "SI_TKILL"
            /\ UNCHANGED <<blocked, end, frame>>
       ELSE /\ Stop("core", "main") /\ blocked' = FALSE /\ pending' = FALSE
            /\ UNCHANGED <<runs, code>>
  /\ UNCHANGED <<kind, from, args, handler, alt, room, kills>>

\* The programs.
handle_segv == kind = "plain" /\ (setup \/ access \/ myfault)
handle_segv_altstack == kind = "altstack" /\ (setup \/ access \/ myfault \/ raise \/ return)
stackmem_corrupt ==
  kind = "corrupt" /\ (setup \/ write_underflow \/ myfault \/ raise \/ return)

Program == handle_segv \/ handle_segv_altstack \/ stackmem_corrupt

Next == Program \/ Kill

Spec == Init /\ [][Next]_vars

-----------------------------------------------------------------------------
(* Properties.                                                             *)

\* Every variable has its type.
TypeOK ==
  /\ kind \in Kinds /\ kills \in 0..MaxKills /\ runs \in Nat
  /\ pc \in {"setup", "access", "pause", "handler", "reset", "raised", "ended"}
  /\ {handler, alt, room, blocked, pending} \subseteq BOOLEAN
  /\ end \in {"-", "exit0", "exit1", "core"} /\ frame \in {"-", "main", "access", "pause", "myfault"}

\* A fault is reported once, whatever else arrives: the handler is entered at most
\* once, a program that has entered it never ends with exit(0), and nothing is left
\* to chance about the end: handle_segv.c exits with 1, the others dump core.
ReportedOnce ==
  /\ runs <= 1
  /\ pc = "ended" /\ runs = 1 => end = IF kind = "plain" THEN "exit1" ELSE "core"

\* What the alternate stack is for: once the handlers are installed no fault, with or
\* without room on the stack, ends the program unreported.
NeverSilent == end = "core" => runs = 1

\* The core shows main() at the instruction that failed, not the handler ("switching
\* back to the regular stack and re-raising", stackmem_corrupt.c:225-227).
CoreShowsFault == end = "core" => frame # "myfault"

\* The program has ended, or sleeps in pause().
Resting == pc \in {"ended", "pause"}
=============================================================================
