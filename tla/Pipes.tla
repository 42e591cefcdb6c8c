------------------------------- MODULE Pipes -------------------------------
(***************************************************************************)
(* The programs with an unnamed pipe: pipe1.c and pipe2.c (the parent      *)
(* sends a line to its child), pipe-dup2.c (who | wc -l in two processes)  *)
(* and whopipe.c (the same with popen(): the program copies lines from     *)
(* "who" to "wc").  A pipe is the number of bytes (lines, for who) in it   *)
(* and the descriptors open on its two ends: a reader sees end of file     *)
(* when the last descriptor of the write end is closed, a writer gets      *)
(* SIGPIPE when the last one of the read end is.                           *)
(***************************************************************************)
EXTENDS Naturals, FiniteSets

CONSTANTS MAX,     \* size of line[] and buffer[]
          CAP,     \* capacity of a pipe, in lines of who
          Lines    \* bound on the lines that who writes

\* The values the constants may have.
PipesAssumption == MAX \in Nat \ {0, 1} /\ CAP \in Nat \ {0} /\ Lines \in Nat

\* pipe2.c: "dies" is child_exit_flag = 1.
Kinds == {"pipe1", "pipe2", "dies", "dup2", "whopipe"}

\* The writer and the reader of the pipe.  In whopipe.c the program itself, "mid",
\* reads from the pipe of who and writes into that of wc.
Procs == {"w", "r", "mid"}

VARIABLES kind,    \* the program
          pc,      \* where each process is
          wrs,     \* open descriptors <<process, slot>> of the write end
          rds,     \* and of the read end
          chan,    \* bytes (lines) in the pipe
          line,    \* strlen(line) of the parent; lines written by who
          eof,     \* fgets() failed: line[] was never written
          got,     \* bytes the child has read; lines counted by wc
          wrs2, rds2, chan2,   \* whopipe.c: the pipe to wc
          copied   \* whopipe.c: lines that went through the program

vars == <<kind, pc, wrs, rds, chan, line, eof, got, wrs2, rds2, chan2, copied>>

second == <<wrs2, rds2, chan2, copied>>

Init ==
  /\ kind \in Kinds
  /\ pc = [p \in Procs |-> IF p = (IF kind = "whopipe" THEN "mid" ELSE "w") THEN "start"
                                                                          ELSE "none"]
  /\ wrs = {} /\ rds = {} /\ chan = 0 /\ line = 0 /\ eof = FALSE /\ got = 0
  /\ wrs2 = {} /\ rds2 = {} /\ chan2 = 0 /\ copied = 0

Of(p, S) == {d \in S : d[1] = p}
Ended(p) == pc[p] \in {"none", "exit0", "exit1", "killed"}
Go(p, to) == pc' = [pc EXCEPT ![p] = to]

\* The end of a process closes its descriptors.
End(p, how) ==
  /\ Go(p, how)
  /\ wrs' = wrs \ Of(p, wrs) /\ rds' = rds \ Of(p, rds)

-----------------------------------------------------------------------------
(* pipe1.c, pipe2.c and pipe-dup2.c.                                       *)

\* pipe() and fork(): both processes have both ends.
PipeFork ==
  /\ kind # "whopipe" /\ pc["w"] = "start"
  /\ wrs' = {"w", "r"} \X {"fd1"} /\ rds' = {"w", "r"} \X {"fd0"}
  /\ pc' = [pc EXCEPT !["w"] = IF kind = "dies" THEN "sync" ELSE "close",
                      !["r"] = "close"]
  /\ UNCHANGED <<kind, chan, line, eof, got, second>>

PipeForkFails ==
  /\ kind # "whopipe" /\ pc["w"] = "start"
  /\ End("w", "exit1")
  /\ UNCHANGED <<kind, chan, line, eof, got, second>>

\* Mutant of CloseUnused: the reader keeps fd[1].
CloseUnused_Keep(p) ==
  /\ kind # "whopipe" /\ pc[p] = "close" /\ ~ (kind = "dies" /\ p = "r")
  /\ Go(p, IF p = "r" THEN "read" ELSE IF kind = "dup2" THEN "write" ELSE "fgets")
  /\ rds' = IF p = "w" THEN rds \ {<<p, "fd0">>} ELSE rds
  /\ UNCHANGED <<kind, wrs, chan, line, eof, got, second>>

\* The end a process does not use is closed: the writer's fd[0], the reader's
\* fd[1].  pipe-dup2.c moves the other one to stdin or stdout, and calls exec.
CloseUnused(p) ==
  /\ kind # "whopipe" /\ pc[p] = "close" /\ ~ (kind = "dies" /\ p = "r")
  /\ Go(p, IF p = "r" THEN "read" ELSE IF kind = "dup2" THEN "write" ELSE "fgets")
  /\ IF p = "w"
       THEN /\ rds' = rds \ {<<p, "fd0">>}
            /\ wrs' = IF kind = "dup2" THEN (wrs \ {<<p, "fd1">>}) \cup {<<p, "stdout">>}
                                       ELSE wrs
       ELSE /\ wrs' = wrs \ {<<p, "fd1">>}
            /\ rds' = IF kind = "dup2" THEN (rds \ {<<p, "fd0">>}) \cup {<<p, "stdin">>}
                                       ELSE rds
  /\ UNCHANGED <<kind, chan, line, eof, got, second>>

\* pipe-dup2.c: exec of who or wc fails.
ExecFails(p) ==
  /\ kind = "dup2" /\ pc[p] = "close"
  /\ End(p, "exit1")
  /\ UNCHANGED <<kind, chan, line, eof, got, second>>

\* pipe2.c, child_exit_flag: the child ends at once, and the parent waits for it.
ChildDies ==
  /\ kind = "dies" /\ pc["r"] = "close"
  /\ End("r", "exit1")
  /\ UNCHANGED <<kind, chan, line, eof, got, second>>

Sync ==
  /\ pc["w"] = "sync" /\ Ended("r")
  /\ Go("w", "close")
  /\ UNCHANGED <<kind, wrs, rds, chan, line, eof, got, second>>

\* Mutant of Fgets: one byte more is accepted.
Fgets_Long ==
  /\ pc["w"] = "fgets"
  /\ line' \in 1..MAX /\ eof' = FALSE
  /\ Go("w", "write")
  /\ UNCHANGED <<kind, wrs, rds, chan, got, second>>

\* fgets(line, MAX, stdin): at end of file line[] stays uninitialised, and its
\* strlen() is anything, also more than line[] holds.
Fgets ==
  /\ pc["w"] = "fgets"
  /\ \/ line' \in 1..(MAX - 1) /\ eof' = FALSE
     \/ line' \in 0..(MAX + 1) /\ eof' = TRUE
  /\ Go("w", "write")
  /\ UNCHANGED <<kind, wrs, rds, chan, got, second>>

\* Mutant of Write: the handler of SIGPIPE is not installed.
Write_NoHandler ==
  /\ kind \in {"pipe1", "pipe2", "dies"} /\ pc["w"] = "write"
  /\ IF rds # {} THEN Go("w", "closewr") /\ chan' = chan + line /\ UNCHANGED <<wrs, rds>>
                 ELSE End("w", "killed") /\ UNCHANGED chan
  /\ UNCHANGED <<kind, line, eof, got, second>>

\* write(fd[1], line, strlen(line)), less than PIPE_BUF bytes: all or nothing.
\* Without a reader SIGPIPE ends pipe1.c; the handler of pipe2.c returns, and
\* write() fails with EPIPE.
Write ==
  /\ kind \in {"pipe1", "pipe2", "dies"} /\ pc["w"] = "write"
  /\ IF rds = {} /\ line > 0 /\ kind = "pipe1"
       THEN End("w", "killed") /\ UNCHANGED chan
       ELSE /\ Go("w", "closewr")
            /\ chan' = IF rds # {} THEN chan + line ELSE chan
            /\ UNCHANGED <<wrs, rds>>
  /\ UNCHANGED <<kind, line, eof, got, second>>

\* Mutant of CloseWr: wait() before the pipe is closed.
CloseWr_Late ==
  /\ pc["w"] = "closewr" /\ Ended("r")
  /\ Go("w", "wait") /\ wrs' = wrs \ {<<"w", "fd1">>}
  /\ UNCHANGED <<kind, rds, chan, line, eof, got, second>>

CloseWr ==
  /\ pc["w"] = "closewr"
  /\ Go("w", "wait") /\ wrs' = wrs \ {<<"w", "fd1">>}
  /\ UNCHANGED <<kind, rds, chan, line, eof, got, second>>

\* wait(0), and exit.
Wait ==
  /\ pc["w"] = "wait" /\ Ended("r")
  /\ End("w", "exit0")
  /\ UNCHANGED <<kind, chan, line, eof, got, second>>

\* n = read(fd[0], buffer, MAX); buffer[n] = 0; print; exit.
Read ==
  /\ kind \in {"pipe1", "pipe2"} /\ pc["r"] = "read"
  /\ chan > 0 \/ wrs = {}
  /\ LET n == IF chan < MAX THEN chan ELSE MAX
     IN  got' = n /\ chan' = chan - n
  /\ End("r", "exit0")
  /\ UNCHANGED <<kind, line, eof, second>>

\* Somebody kills the child.
KillChild ==
  /\ kind \in {"pipe1", "pipe2"} /\ pc["r"] \in {"close", "read"}
  /\ End("r", "killed")
  /\ UNCHANGED <<kind, chan, line, eof, got, second>>

-----------------------------------------------------------------------------
(* who and wc -l, and whopipe.c between them.                              *)

\* who writes one line; it blocks while the pipe is full.
WhoLine ==
  /\ kind \in {"dup2", "whopipe"} /\ pc["w"] = "write" /\ line < Lines
  /\ IF rds = {}
       THEN End("w", "killed") /\ UNCHANGED <<chan, line>>
       ELSE /\ chan < CAP
            /\ chan' = chan + 1 /\ line' = line + 1
            /\ UNCHANGED <<pc, wrs, rds>>
  /\ UNCHANGED <<kind, eof, got, second>>

WhoEnds ==
  /\ kind \in {"dup2", "whopipe"} /\ pc["w"] = "write"
  /\ End("w", "exit0")
  /\ UNCHANGED <<kind, chan, line, eof, got, second>>

\* wc counts until end of file on its standard input.
WcLine ==
  /\ pc["r"] = "read"
  /\ \/ kind = "dup2" /\ chan > 0 /\ chan' = chan - 1 /\ UNCHANGED chan2
     \/ kind = "whopipe" /\ chan2 > 0 /\ chan2' = chan2 - 1 /\ UNCHANGED chan
  /\ got' = got + 1
  /\ UNCHANGED <<kind, pc, wrs, rds, line, eof, wrs2, rds2, copied>>

WcEof ==
  /\ pc["r"] = "read"
  /\ \/ kind = "dup2" /\ chan = 0 /\ wrs = {}
     \/ kind = "whopipe" /\ chan2 = 0 /\ wrs2 = {}
  /\ End("r", "exit0")
  /\ rds2' = rds2 \ Of("r", rds2)
  /\ UNCHANGED <<kind, chan, line, eof, got, wrs2, chan2, copied>>

\* popen("who", "r"); popen("wc -l", "w"); the second child has no descriptor of
\* the first stream.
Popens ==
  /\ pc["mid"] = "start"
  /\ wrs' = {<<"w", "stdout">>} /\ rds' = {<<"mid", "fp1">>}
  /\ wrs2' = {<<"mid", "fp2">>} /\ rds2' = {<<"r", "stdin">>}
  /\ pc' = [mid |-> "loop", w |-> "write", r |-> "read"]
  /\ UNCHANGED <<kind, chan, line, eof, got, chan2, copied>>

FirstPopenFails ==
  /\ pc["mid"] = "start"
  /\ Go("mid", "exit1")
  /\ UNCHANGED <<kind, wrs, rds, chan, line, eof, got, second>>

\* The second popen() fails: pclose(fp1) closes the pipe of who and waits.
SecondPopenFails ==
  /\ pc["mid"] = "start"
  /\ wrs' = {<<"w", "stdout">>} /\ rds' = {}
  /\ pc' = [pc EXCEPT !["mid"] = "undo", !["w"] = "write"]
  /\ UNCHANGED <<kind, chan, line, eof, got, second>>

Undo ==
  /\ pc["mid"] = "undo" /\ Ended("w")
  /\ Go("mid", "exit1")
  /\ UNCHANGED <<kind, wrs, rds, chan, line, eof, got, second>>

\* while (fgets(s, LINELENGTH, fp1) != NULL) fputs(s, fp2);
CopyLine ==
  /\ pc["mid"] = "loop" /\ chan > 0 /\ chan2 < CAP
  /\ chan' = chan - 1 /\ chan2' = chan2 + 1 /\ copied' = copied + 1
  /\ UNCHANGED <<kind, pc, wrs, rds, line, eof, got, wrs2, rds2>>

\* pclose(fp1): close, then wait for who.
Pclose1 ==
  /\ pc["mid"] = "loop" /\ chan = 0 /\ wrs = {}
  /\ Go("mid", "pclose2") /\ rds' = rds \ Of("mid", rds)
  /\ UNCHANGED <<kind, wrs, chan, line, eof, got, second>>

\* Mutant of Pclose2: the stream is waited for before it is closed.
Pclose2_Late ==
  /\ pc["mid"] = "pclose2" /\ Ended("r")
  /\ Go("mid", "waitwc") /\ wrs2' = wrs2 \ Of("mid", wrs2)
  /\ UNCHANGED <<kind, wrs, rds, chan, line, eof, got, rds2, chan2, copied>>

\* Mutant of Pclose2: fclose() instead, which does not wait.
Pclose2_NoWait ==
  /\ pc["mid"] = "pclose2"
  /\ Go("mid", "exit0") /\ wrs2' = wrs2 \ Of("mid", wrs2)
  /\ UNCHANGED <<kind, wrs, rds, chan, line, eof, got, rds2, chan2, copied>>

\* pclose(fp2): flush and close, then wait for wc.
Pclose2 ==
  /\ pc["mid"] = "pclose2"
  /\ Go("mid", "waitwc") /\ wrs2' = wrs2 \ Of("mid", wrs2)
  /\ UNCHANGED <<kind, wrs, rds, chan, line, eof, got, rds2, chan2, copied>>

WaitWc ==
  /\ pc["mid"] = "waitwc" /\ Ended("r")
  /\ Go("mid", "exit0")
  /\ UNCHANGED <<kind, wrs, rds, chan, line, eof, got, second>>

-----------------------------------------------------------------------------
Sender == PipeFork \/ PipeForkFails \/ CloseUnused("w") \/ Sync \/ Fgets \/ Write
            \/ CloseWr \/ Wait

Child == CloseUnused("r") \/ ChildDies \/ Read

Who == WhoLine \/ WhoEnds

Wc == WcLine \/ WcEof

Whopipe == Popens \/ FirstPopenFails \/ SecondPopenFails \/ Undo \/ CopyLine
             \/ Pclose1 \/ Pclose2 \/ WaitWc

\* The programs; a child of the first two may be killed, or dies by itself (pipe2.c).
pipe1 == kind = "pipe1" /\ (Sender \/ Child \/ KillChild)
pipe2 == kind \in {"pipe2", "dies"} /\ (Sender \/ Child \/ KillChild)
pipe_dup2 ==
  kind = "dup2" /\ (Sender \/ Child \/ Who \/ Wc \/ \E p \in {"w", "r"} : ExecFails(p))
whopipe == kind = "whopipe" /\ (Whopipe \/ Who \/ Wc)

Next == pipe1 \/ pipe2 \/ pipe_dup2 \/ whopipe

Spec == Init /\ [][Next]_vars

-----------------------------------------------------------------------------
(* Properties.                                                             *)

\* Every variable has its type; no pipe holds more than it can.
TypeOK ==
  /\ kind \in Kinds
  /\ pc \in [Procs -> {"none", "start", "sync", "close", "fgets", "write", "closewr", "wait",
                       "read", "loop", "undo", "pclose2", "waitwc", "exit0", "exit1", "killed"}]
  /\ wrs \subseteq Procs \X {"fd1", "stdout"} /\ rds \subseteq Procs \X {"fd0", "stdin", "fp1"}
  /\ wrs2 \subseteq Procs \X {"fp2"} /\ rds2 \subseteq Procs \X {"stdin"}
  /\ chan \in Nat /\ chan2 \in 0..CAP
  /\ line \in Nat /\ got \in Nat /\ copied \in Nat /\ eof \in BOOLEAN

\* Nothing is lost or made up on the way: the child that ends by itself has the
\* whole line that the user gave, or nothing because the parent ended without
\* writing; wc has counted every line that was written, and the program that runs
\* "who | wc -l" with popen() ends after the count is known.
LineArrives ==
  /\ kind \in {"pipe1", "pipe2"} /\ pc["r"] = "exit0" /\ ~ eof =>
       got = IF pc["w"] = "exit1" THEN 0 ELSE line
  /\ kind = "dup2" /\ pc["r"] = "exit0" => got = line /\ Ended("w")
  /\ kind = "whopipe" /\ pc["mid"] = "exit0" => got = line /\ copied = line

\* The terminating NUL of the child is inside buffer[] when the parent had a line
\* to send.
NulInside == kind \in {"pipe1", "pipe2"} /\ ~ eof => got <= MAX - 1

\* SIGPIPE ends no process of pipe2.c.
HandlerKeeps == kind \in {"pipe2", "dies"} => pc["w"] # "killed"

Over == \A p \in Procs : Ended(p)
=============================================================================
