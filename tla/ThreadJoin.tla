----------------------------- MODULE ThreadJoin -----------------------------
(***************************************************************************)
(* Programs that create threads and then join them, leave them, or cancel  *)
(* them: main_dies.c, worker_dies.c, pt1.c, ptst.c, pt2-join.c,            *)
(* pthread_test.c, prg12.9.c, whichexit.c, thread_cancel.c,                *)
(* mt_fork_exec.c, cr8ManyThrds.c and rlim_threads.c.  A program is a      *)
(* record; what the threads print is left out.                             *)
(***************************************************************************)
EXTENDS Naturals

CONSTANT N   \* the threads of the programs that create several of one kind

\* The values the constant may have.
ThreadJoinAssumption == N \in Nat /\ N >= 2

\* n: threads; join: "all" after the last create, "each" after its create, "none",
\* or "stray"; ends: the thread's function ends; leave: how main() ends.
MainDies    == [n |-> N, join |-> "none",  ends |-> FALSE, leave |-> "pthread_exit"]
WorkerDies  == [n |-> N, join |-> "all",   ends |-> TRUE,  leave |-> "pthread_exit"]
Pt1         == [n |-> N, join |-> "none",  ends |-> TRUE,  leave |-> "pthread_exit"]
Ptst        == [n |-> N, join |-> "none",  ends |-> FALSE, leave |-> "pthread_exit"]
Pt2Join     == [n |-> N, join |-> "all",   ends |-> TRUE,  leave |-> "pthread_exit"]
PthreadTest == [n |-> N, join |-> "each",  ends |-> TRUE,  leave |-> "pthread_exit"]
Prg12_9     == [n |-> N, join |-> "stray", ends |-> TRUE,  leave |-> "return"]
WhichExit   == [n |-> 1, join |-> "all",   ends |-> TRUE,  leave |-> "return"]
ThreadCancel == [n |-> 1, join |-> "all",  ends |-> FALSE, leave |-> "exit"]
MtForkExec  == [n |-> 2, join |-> "all",   ends |-> TRUE,  leave |-> "exit"]
Cr8ManyThrds == [n |-> N, join |-> "none", ends |-> FALSE, leave |-> "pthread_exit"]
RlimThreads == [n |-> 1, join |-> "none",  ends |-> TRUE,  leave |-> "pthread_exit"]

Programs ==
  [main_dies |-> MainDies, worker_dies |-> WorkerDies, pt1 |-> Pt1, ptst |-> Ptst,
   pt2_join |-> Pt2Join, pthread_test |-> PthreadTest, prg12_9 |-> Prg12_9,
   whichexit |-> WhichExit, cancel |-> ThreadCancel, mt_fork |-> MtForkExec,
   cr8 |-> Cr8ManyThrds, rlim |-> RlimThreads]

Kinds == DOMAIN Programs
Threads == 0..(N - 1)

VARIABLES kind,
          pc,      \* main(): "create", "cancel", "join", "tail", "gone"
          proc,    \* the process: "up", "exit0", "exit1", "killed"
          i,       \* the index of main()'s loops
          th,      \* each thread: "none", "new", "run", "waits", "done", "canceled"
          joined,  \* the threads whose end main() has collected
          creq,    \* pthread_cancel() was called
          saw,     \* the argument each thread has seen; N + 1: none yet
          child    \* mt_fork_exec.c: "none", "run", "zombie", "gone"

vars == <<kind, pc, proc, i, th, joined, creq, saw, child>>

Prog == Programs[kind]
Mine == 0..(Prog.n - 1)
Up == proc = "up"
Ended(t) == th[t] \in {"done", "canceled"}

Init ==
  /\ kind \in Kinds /\ pc = "create" /\ proc = "up" /\ i = 0
  /\ th = [t \in Threads |-> "none"] /\ joined = {} /\ creq = FALSE
  /\ saw = [t \in Threads |-> N + 1] /\ child = "none"

-----------------------------------------------------------------------------
(* main().                                                                 *)

\* A wrong argument, or a file that is not there.
Refuse ==
  /\ Up /\ pc = "create" /\ i = 0 /\ kind \in {"cr8", "mt_fork"}
  /\ proc' = "exit1"
  /\ UNCHANGED <<kind, pc, i, th, joined, creq, saw, child>>

Create ==
  /\ Up /\ pc = "create" /\ i < Prog.n /\ th[i] = "none"
  /\ th' = [th EXCEPT ![i] = "new"]
  /\ IF Prog.join = "each" THEN pc' = "join" /\ UNCHANGED i ELSE i' = i + 1 /\ UNCHANGED pc
  /\ UNCHANGED <<kind, proc, joined, creq, saw, child>>

\* All of them end the process, except prg12.9.c, which marks the thread as its own.
CreateFails ==
  /\ Up /\ pc = "create" /\ i < Prog.n
  /\ IF kind = "prg12_9" THEN i' = i + 1 /\ UNCHANGED proc ELSE proc' = "exit1" /\ UNCHANGED i
  /\ UNCHANGED <<kind, pc, th, joined, creq, saw, child>>

CreatesDone ==
  /\ Up /\ pc = "create" /\ i = Prog.n
  /\ pc' = IF kind = "cancel" THEN "cancel"
           ELSE IF Prog.join \in {"none", "each"} THEN "tail" ELSE "join"
  /\ i' = IF Prog.join = "all" THEN 0 ELSE i
  /\ UNCHANGED <<kind, proc, th, joined, creq, saw, child>>

\* pthread_cancel() after some time.
Cancel ==
  /\ Up /\ pc = "cancel"
  /\ creq' = TRUE /\ pc' = "join"
  /\ UNCHANGED <<kind, proc, i, th, joined, saw, child>>

\* Mutant of Join: it does not wait.
Join_NoWait ==
  /\ Up /\ pc = "join" /\ Prog.join \in {"all", "each"} /\ i < Prog.n
  /\ joined' = joined \cup {i} /\ i' = i + 1
  /\ pc' = IF Prog.join = "each" THEN "create" ELSE IF i + 1 = Prog.n THEN "tail" ELSE "join"
  /\ UNCHANGED <<kind, proc, th, creq, saw, child>>

\* pthread_join() of the thread that is next in the array.
Join ==
  /\ Up /\ pc = "join" /\ Prog.join \in {"all", "each"} /\ i < Prog.n /\ Ended(i)
  /\ joined' = joined \cup {i} /\ i' = i + 1
  /\ pc' = IF Prog.join = "each" THEN "create" ELSE IF i + 1 = Prog.n THEN "tail" ELSE "join"
  /\ UNCHANGED <<kind, proc, th, creq, saw, child>>

\* prg12.9.c: without braces, the only pthread_join() is the one after the loop, of
\* tid[NUMTHREADS], which is no thread: it fails, or the process crashes.
JoinStray ==
  /\ Up /\ pc = "join" /\ Prog.join = "stray"
  /\ \/ pc' = "tail" /\ UNCHANGED proc
     \/ proc' = "killed" /\ UNCHANGED pc
  /\ UNCHANGED <<kind, i, th, joined, creq, saw, child>>

\* Mutant of Leave: main() ends with exit() where it calls pthread_exit().
Leave_Exit ==
  /\ Up /\ pc = "tail" /\ pc' = "gone" /\ proc' = "exit0"
  /\ UNCHANGED <<kind, i, th, joined, creq, saw, child>>

\* pthread_exit() ends main() only; exit() and return end every thread.
Leave ==
  /\ Up /\ pc = "tail"
  /\ pc' = "gone" /\ proc' = IF Prog.leave = "pthread_exit" THEN "up" ELSE "exit0"
  /\ UNCHANGED <<kind, i, th, joined, creq, saw, child>>

\* rlim_threads.c: setrlimit() fails, and main() returns -1.
SetrlimitFails ==
  /\ Up /\ pc = "tail" /\ kind = "rlim"
  /\ proc' = "exit1"
  /\ UNCHANGED <<kind, pc, i, th, joined, creq, saw, child>>

\* The last thread has ended after main(): the process exits with 0.
LastEnds ==
  /\ Up /\ pc = "gone" /\ \A t \in Mine : Ended(t)
  /\ proc' = "exit0"
  /\ UNCHANGED <<kind, pc, i, th, joined, creq, saw, child>>

main ==
  Create \/ CreatesDone \/ Cancel \/ Join \/ JoinStray \/ Leave \/ LastEnds

-----------------------------------------------------------------------------
(* The threads.                                                            *)

\* Mutant of Start: every thread is given the address of main()'s index.
Start_ByReference(t) ==
  /\ Up /\ th[t] = "new"
  /\ th' = [th EXCEPT ![t] = "run"] /\ saw' = [saw EXCEPT ![t] = i]
  /\ UNCHANGED <<kind, pc, proc, i, joined, creq, child>>

\* The thread looks at its argument: a value, or in prg12.9.c main()'s index.
Start(t) ==
  /\ Up /\ th[t] = "new"
  /\ th' = [th EXCEPT ![t] = "run"]
  /\ saw' = [saw EXCEPT ![t] = IF kind = "prg12_9" THEN i ELSE t]
  /\ UNCHANGED <<kind, pc, proc, i, joined, creq, child>>

\* It returns, or calls pthread_exit(); thrd_p3() has something to do first.
Ends(t) ==
  /\ Up /\ th[t] = "run" /\ Prog.ends /\ ~ (kind = "mt_fork" /\ t = 1)
  /\ th' = [th EXCEPT ![t] = "done"]
  /\ UNCHANGED <<kind, pc, proc, i, joined, creq, saw, child>>

\* A cancellation point: printf() or sleep() in threadFunc().
Canceled(t) ==
  /\ Up /\ th[t] \in {"new", "run"} /\ creq
  /\ th' = [th EXCEPT ![t] = "canceled"]
  /\ UNCHANGED <<kind, pc, proc, i, joined, creq, saw, child>>

\* thrd_p3() forks; the child has only this thread, and becomes evince or exits.
ForkP3 ==
  /\ Up /\ kind = "mt_fork" /\ th[1] = "run"
  /\ \/ th' = [th EXCEPT ![1] = "waits"] /\ child' = "run" /\ UNCHANGED proc
     \/ proc' = "exit1" /\ UNCHANGED <<th, child>>
  /\ UNCHANGED <<kind, pc, i, joined, creq, saw>>

ChildEnds ==
  /\ child = "run" /\ child' = "zombie"
  /\ UNCHANGED <<kind, pc, proc, i, th, joined, creq, saw>>

\* wait(0), and pthread_exit().
WaitP3 ==
  /\ Up /\ th[1] = "waits" /\ child = "zombie"
  /\ child' = "gone" /\ th' = [th EXCEPT ![1] = "done"]
  /\ UNCHANGED <<kind, pc, proc, i, joined, creq, saw>>

Thread(t) == Start(t) \/ Ends(t) \/ Canceled(t)
thrd_p3 == ForkP3 \/ ChildEnds \/ WaitP3

Next ==
  \/ main \/ Refuse \/ CreateFails \/ SetrlimitFails \/ thrd_p3
  \/ \E t \in Threads : Thread(t)

Spec == Init /\ [][Next]_vars

-----------------------------------------------------------------------------
(* Properties.                                                             *)

\* Every variable has its type.
TypeOK ==
  /\ kind \in Kinds /\ pc \in {"create", "cancel", "join", "tail", "gone"}
  /\ proc \in {"up", "exit0", "exit1", "killed"} /\ i \in 0..N
  /\ th \in [Threads -> {"none", "new", "run", "waits", "done", "canceled"}]
  /\ joined \subseteq Threads /\ creq \in BOOLEAN /\ saw \in [Threads -> 0..(N + 1)]
  /\ child \in {"none", "run", "zombie", "gone"}

\* A process that ends with 0 has let all its threads finish, whether main() joined
\* them or left with pthread_exit(), and no child of its own behind; of the
\* programs, only prg12.9.c does not keep this.
NoThreadCut ==
  proc = "exit0" /\ kind # "prg12_9" =>
    /\ \A t \in Mine : Ended(t)
    /\ Prog.join \in {"all", "each"} => joined = Mine
    /\ child \in {"none", "gone"}

\* A thread that was given a value sees its own; one that was given the address of
\* main()'s index sees its own number or a later one.
ArgumentSeen ==
  \A t \in Mine : saw[t] # N + 1 => IF kind = "prg12_9" THEN saw[t] >= t ELSE saw[t] = t

\* thread_cancel.c: the thread that is joined was canceled.
OnlyCanceled == kind = "cancel" /\ 0 \in joined => th[0] = "canceled"

\* The programs whose process must end: those whose threads do.
MustEnd == Prog.ends \/ kind = "cancel"
=============================================================================
