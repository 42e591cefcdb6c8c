------------------------------- MODULE Shell -------------------------------
(***************************************************************************)
(* The two small shells: fork/mysh/mysh.c (arguments, wait3() with         *)
(* WUNTRACED) and fork/mysh_simple/mysh_simple.c (no arguments, wait()).   *)
(* The input is a sequence of lines, of which only the last may lack its   *)
(* newline; a child may be stopped and continued, and ends by itself, by a *)
(* signal, or because exec failed.  The test for too many arguments        *)
(* (mysh.c) never succeeds: LEN - 1 characters hold at most LEN/2 words,   *)
(* far fewer than MAXARGS.                                                 *)
(***************************************************************************)
EXTENDS Naturals, FiniteSets, Sequences

CONSTANTS MaxLines,   \* bound on the lines of the input
          MaxStops    \* bound on how often a child is stopped

\* The values the constants may have.
ShellAssumption == MaxLines \in Nat /\ MaxStops \in Nat

Kinds == {"mysh", "simple"}

\* A line by what the shell makes of it: a command, more than LEN - 1 characters,
\* one blank, nothing, the letter q, or q and one more letter.
LineKinds == {"cmd", "long", "blank", "empty", "q", "qx"}

\* What is left of a long line after the first fgets(); it fits into cmd[].
Rests == LineKinds \ {"long"}

VARIABLES kind,     \* which shell
          pc,       \* "prompt", "fork", "wait", "spin" (end of the input), "exit0", "exit1"
          input,    \* the lines not yet read
          nl,       \* the last line ends in a newline
          cmd,      \* what cmd[] holds: a member of LineKinds, or "cut" (a character is lost)
          st,       \* the children, in order of creation: "run", "stopped", "zombie", "gone"
          told,     \* the stopped children wait3() has reported
          stops,    \* returns of wait3() that were about a stopped child
          stopped,  \* how often a child was stopped
          quit      \* the user has asked for the end: see AsksToQuit

vars == <<kind, pc, input, nl, cmd, st, told, stops, stopped, quit>>

Init ==
  /\ kind \in Kinds
  /\ pc = "prompt" /\ cmd = "empty"
  /\ input \in UNION {[1..n -> LineKinds] : n \in 0..MaxLines}
  /\ nl \in BOOLEAN
  /\ st = <<>> /\ told = {} /\ stops = 0 /\ stopped = 0 /\ quit = FALSE

Kids == DOMAIN st
Unreaped == {c \in Kids : st[c] # "gone"}

\* fgets() and the removal of the last character, which is the newline unless the
\* line is too long or is the last one.  A long line gives a command without its
\* last character, and its rest is read as a line of its own.
Stripped(l, newline) ==
  IF newline THEN l
  ELSE CASE l \in {"cmd", "long"} -> "cut" [] l = "qx" -> "q" [] OTHER -> "empty"

\* A line q, or q and a letter at the very end of the input, of which the letter is
\* taken for the newline.
AsksToQuit(l, newline) == (l = "q" /\ newline) \/ (l = "qx" /\ ~ newline)

\* Mutant of Quit: the q that is the last character of the input also ends the shell.
Quit_Eof ==
  /\ pc = "prompt" /\ input # <<>> /\ Head(input) = "q"
  /\ pc' = "exit0" /\ quit' = AsksToQuit("q", Len(input) > 1 \/ nl)
  /\ input' = Tail(input)
  /\ UNCHANGED <<kind, nl, cmd, st, told, stops, stopped>>

\* The line is q: free_args(), exit(0).
Quit ==
  /\ pc = "prompt" /\ input # <<>>
  /\ Stripped(Head(input), Len(input) > 1 \/ nl) = "q"
  /\ pc' = "exit0" /\ quit' = AsksToQuit(Head(input), Len(input) > 1 \/ nl)
  /\ input' = Tail(input)
  /\ UNCHANGED <<kind, nl, cmd, st, told, stops, stopped>>

\* Any other line: an empty one gives a new prompt, the others are split into
\* words (blanks only give no word: exec will fail) and go on to fork().
ReadLine ==
  /\ pc = "prompt" /\ input # <<>>
  /\ LET newline == Len(input) > 1 \/ nl
         l == Stripped(Head(input), newline)
     IN  /\ l # "q"
         /\ cmd' = IF Head(input) = "long" THEN "cut" ELSE l
         /\ pc' = IF cmd' = "empty" THEN "prompt" ELSE "fork"
         /\ \/ Head(input) # "long" /\ input' = Tail(input)
            \/ Head(input) = "long" /\ \E r \in Rests : input' = <<r>> \o Tail(input)
  /\ UNCHANGED <<kind, nl, st, told, stops, stopped, quit>>

\* End of the input: fgets() returns NULL, and so it does at every further turn of
\* the loop.
Eof ==
  /\ pc = "prompt" /\ input = <<>>
  /\ pc' = "spin"
  /\ UNCHANGED <<kind, input, nl, cmd, st, told, stops, stopped, quit>>

\* fork(): exec in the child fails for a command that does not exist, or for no
\* word at all.
Fork ==
  /\ pc = "fork"
  /\ st' = Append(st, "run")
  /\ pc' = "wait"
  /\ UNCHANGED <<kind, input, nl, cmd, told, stops, stopped, quit>>

\* Mutant of ForkFails: wait() although there is no child.
ForkFails_Waits ==
  /\ pc = "fork"
  /\ pc' = "wait"
  /\ UNCHANGED <<kind, input, nl, cmd, st, told, stops, stopped, quit>>

ForkFails ==
  /\ pc = "fork"
  /\ pc' = "prompt"
  /\ UNCHANGED <<kind, input, nl, cmd, st, told, stops, stopped, quit>>

\* wait3() or wait() returns with a child that has ended; without any child it
\* fails, and the shell ends.
WaitEnded ==
  /\ pc = "wait"
  /\ IF Unreaped = {}
       THEN pc' = "exit1" /\ UNCHANGED st
       ELSE /\ \E c \in Kids : st[c] = "zombie" /\ st' = [st EXCEPT ![c] = "gone"]
            /\ pc' = "prompt"
  /\ UNCHANGED <<kind, input, nl, cmd, told, stops, stopped, quit>>

\* wait3() with WUNTRACED also returns with a child that has been stopped.
WaitStopped ==
  /\ pc = "wait" /\ kind = "mysh"
  /\ \E c \in Kids :
       /\ st[c] = "stopped" /\ c \notin told
       /\ told' = told \cup {c}
  /\ stops' = stops + 1
  /\ pc' = "prompt"
  /\ UNCHANGED <<kind, input, nl, cmd, st, stopped, quit>>

\* The command ends, or exec failed.
ChildEnds(c) ==
  /\ c \in Kids /\ st[c] = "run"
  /\ st' = [st EXCEPT ![c] = "zombie"]
  /\ UNCHANGED <<kind, pc, input, nl, cmd, told, stops, stopped, quit>>

\* SIGTSTP, SIGSTOP and SIGCONT, from the terminal or from another process.
Stop(c) ==
  /\ c \in Kids /\ st[c] = "run" /\ stopped < MaxStops
  /\ st' = [st EXCEPT ![c] = "stopped"] /\ told' = told \ {c}
  /\ stopped' = stopped + 1
  /\ UNCHANGED <<kind, pc, input, nl, cmd, stops, quit>>

Continue(c) ==
  /\ c \in Kids /\ st[c] = "stopped"
  /\ st' = [st EXCEPT ![c] = "run"]
  /\ UNCHANGED <<kind, pc, input, nl, cmd, told, stops, stopped, quit>>

-----------------------------------------------------------------------------
Loop == Quit \/ ReadLine \/ Eof \/ Fork \/ ForkFails \/ WaitEnded \/ WaitStopped

mysh == kind = "mysh" /\ Loop
mysh_simple == kind = "simple" /\ Loop

\* A long line makes two commands: 2 * MaxLines children at most.
Next == mysh \/ mysh_simple \/ \E c \in 1..(2 * MaxLines) : ChildEnds(c) \/ Stop(c) \/ Continue(c)

Spec == Init /\ [][Next]_vars

-----------------------------------------------------------------------------
(* Properties.                                                             *)

\* Every variable has its type.
TypeOK ==
  /\ kind \in Kinds
  /\ pc \in {"prompt", "fork", "wait", "spin", "exit0", "exit1"}
  /\ input \in Seq(LineKinds) /\ nl \in BOOLEAN /\ quit \in BOOLEAN
  /\ cmd \in LineKinds \cup {"cut"}
  /\ st \in Seq({"run", "stopped", "zombie", "gone"})
  /\ told \subseteq Kids /\ stops \in 0..MaxStops /\ stopped \in 0..MaxStops

\* Each return of wait() takes one child away or reports one stop: at the prompt
\* there are as many children left as wait3() has reported stops, so mysh_simple.c
\* never has one, and wait() never fails.
OneWaitPerChild ==
  /\ pc \in {"prompt", "fork", "spin"} => Cardinality(Unreaped) = stops
  /\ pc = "wait" => Unreaped # {}

\* Only a user who asks for it ends the shell: neither the end of the input does,
\* nor a q that lacks its newline, nor a wait() without children.
OnlyQEnds == pc \in {"exit0", "exit1"} => quit

\* mysh.c 204-205: "WUNTRACED => can't be spoofed into unblocking wait on child
\* getting stopped and not dead": the shell does not prompt while the child it
\* waits for lives.
NotUnblockedByStop == pc = "prompt" => \A c \in Kids : st[c] \in {"zombie", "gone"}

\* The shell has come to an end of its work: it has ended, or there is no input, or
\* mysh_simple.c waits for a child that nobody continues.
Resting ==
  \/ pc \in {"exit0", "spin"}
  \/ pc = "wait" /\ \E c \in Kids : st[c] = "stopped"
=============================================================================
