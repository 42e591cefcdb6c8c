------------------------------- MODULE Forks -------------------------------
(***************************************************************************)
(* The demonstrations of fork() and wait(): fork2c.c, fork_ret.c,          *)
(* fork_demo.c, orphan.c, zombie.c, wait_fail.c, forkbomb1.c,              *)
(* fork_data_addr.c, no_pclose_zomb.c, whose children are those of         *)
(* popen(), and zombies_clear_linux26.c, which sets SA_NOCLDWAIT.          *)
(* A program is a record: how many children it creates, how it waits, and  *)
(* whether parent and children end by themselves.  The process table is    *)
(* the kernel's: a child that has ended is a zombie until its parent, or   *)
(* init once the parent is gone, has waited for it.                        *)
(***************************************************************************)
EXTENDS Naturals, FiniteSets

CONSTANT N   \* children of the programs whose number of children is a parameter

\* The values the constant may have.
ForksAssumption == N \in Nat /\ N >= 2

Children == 1..N

\* wait: "all" until wait() fails, "one" wait(), or "none".
\* childEnds, parentEnds: FALSE when the process sleeps in pause() for ever.
Fork2c      == [children |-> 2, wait |-> "all",  childEnds |-> TRUE,  parentEnds |-> TRUE]
ForkRet     == [children |-> 1, wait |-> "one",  childEnds |-> TRUE,  parentEnds |-> TRUE]
ForkDemo    == [children |-> 1, wait |-> "none", childEnds |-> TRUE,  parentEnds |-> TRUE]
Orphan      == [children |-> 1, wait |-> "none", childEnds |-> TRUE,  parentEnds |-> TRUE]
Zombie      == [children |-> 1, wait |-> "none", childEnds |-> TRUE,  parentEnds |-> TRUE]
WaitFail    == [children |-> 0, wait |-> "one",  childEnds |-> TRUE,  parentEnds |-> TRUE]
Forkbomb1   == [children |-> N, wait |-> "none", childEnds |-> FALSE, parentEnds |-> TRUE]
ForkData    == [children |-> 1, wait |-> "none", childEnds |-> TRUE,  parentEnds |-> TRUE]
NoPclose    == [children |-> N, wait |-> "none", childEnds |-> TRUE,  parentEnds |-> FALSE]
NoCldWait   == [children |-> 1, wait |-> "none", childEnds |-> TRUE,  parentEnds |-> FALSE]

Programs ==
  [fork2c |-> Fork2c, fork_ret |-> ForkRet, fork_demo |-> ForkDemo, orphan |-> Orphan,
   zombie |-> Zombie, wait_fail |-> WaitFail, forkbomb |-> Forkbomb1, data |-> ForkData,
   no_pclose |-> NoPclose, no_cldwait |-> NoCldWait]

Kinds == DOMAIN Programs

VARIABLES kind,     \* the program
          pc,       \* the parent: "fork", "wait", "tail", "exit0", "exit1"
          made,     \* children created so far
          st,       \* each child: "none", "run", "zombie", "gone"
          ppid,     \* its parent: "parent" or "init"
          seen,     \* the children whose end the parent has been told
          ij,       \* fork_data_addr.c: <<i, j, first byte of *p>> of parent (0) and child (1)
          done      \* fork_data_addr.c: the processes that have updated their data

vars == <<kind, pc, made, st, ppid, seen, ij, done>>

Prog == Programs[kind]

\* main() up to the first fork(): i = 5, j = 6, p = malloc(pgsz) holds nothing yet.
Init ==
  /\ kind \in Kinds
  /\ pc = "fork" /\ made = 0
  /\ st = [c \in Children |-> "none"] /\ ppid = [c \in Children |-> "none"]
  /\ seen = {} /\ ij = [p \in {0, 1} |-> <<5, 6, "-">>] /\ done = {}

Alive(c) == st[c] = "run"
Mine == {c \in Children : ppid[c] = "parent" /\ st[c] \in {"run", "zombie"}}

\* The end of the parent makes init the parent of every child it has left.
Exit(how) ==
  /\ pc' = how
  /\ ppid' = [c \in Children |-> IF ppid[c] = "parent" THEN "init" ELSE ppid[c]]

-----------------------------------------------------------------------------
\* fork(), or popen(): the child gets a copy of the parent's data.
Fork ==
  /\ pc = "fork" /\ made < Prog.children
  /\ made' = made + 1
  /\ st' = [st EXCEPT ![made + 1] = "run"]
  /\ ppid' = [ppid EXCEPT ![made + 1] = "parent"]
  /\ ij' = [ij EXCEPT ![1] = ij[0]]
  /\ UNCHANGED <<kind, pc, seen, done>>

\* fork() or popen() fails: the program ends, with whatever children it has.
ForkFails ==
  /\ pc = "fork" /\ made < Prog.children
  /\ Exit("exit1")
  /\ UNCHANGED <<kind, made, st, seen, ij, done>>

\* Mutant of Forked: the second wait() is dropped.
Forked_One ==
  /\ pc = "fork" /\ made = Prog.children
  /\ pc' = IF Prog.wait = "none" THEN "tail" ELSE "waitone"
  /\ UNCHANGED <<kind, made, st, ppid, seen, ij, done>>

\* All the children are there.
Forked ==
  /\ pc = "fork" /\ made = Prog.children
  /\ pc' = CASE Prog.wait = "none" -> "tail" [] Prog.wait = "one" -> "waitone"
             [] Prog.wait = "all" -> "waitall"
  /\ UNCHANGED <<kind, made, st, ppid, seen, ij, done>>

\* wait(&stat) of a child that has ended.
Wait ==
  /\ pc \in {"waitone", "waitall"}
  /\ \E c \in Mine :
       /\ st[c] = "zombie"
       /\ st' = [st EXCEPT ![c] = "gone"]
       /\ seen' = seen \cup {c}
  /\ pc' = IF pc = "waitone" THEN "tail" ELSE pc
  /\ UNCHANGED <<kind, made, ppid, ij, done>>

\* wait() with no child left: -1.  wait_fail.c exits with 1.
WaitNoChild ==
  /\ pc \in {"waitone", "waitall"} /\ Mine = {}
  /\ IF kind = "wait_fail" THEN Exit("exit1") ELSE pc' = "tail" /\ UNCHANGED ppid
  /\ UNCHANGED <<kind, made, st, seen, ij, done>>

\* Mutant of Update: the child runs in the memory of the parent, as after vfork().
Update_Shared(p) ==
  /\ kind = "data" /\ p \notin done /\ (p = 0 => pc = "tail") /\ (p = 1 => Alive(1))
  /\ LET d == ij[p] IN
       ij' = [q \in {0, 1} |-> IF p = 0 THEN <<d[1] + 1, d[2] - 1, "p">>
                                        ELSE <<d[1] - 1, d[2] + 1, "c">>]
  /\ done' = done \cup {p}
  /\ UNCHANGED <<kind, pc, made, st, ppid, seen>>

\* fork_data_addr.c: the child does i--, j++ and fills *p with 'c', the parent
\* i++, j-- and 'p', each in its own copy.
Update(p) ==
  /\ kind = "data" /\ p \notin done /\ (p = 0 => pc = "tail") /\ (p = 1 => Alive(1))
  /\ LET d == ij[p] IN
       ij' = [ij EXCEPT ![p] = IF p = 0 THEN <<d[1] + 1, d[2] - 1, "p">>
                                        ELSE <<d[1] - 1, d[2] + 1, "c">>]
  /\ done' = done \cup {p}
  /\ UNCHANGED <<kind, pc, made, st, ppid, seen>>

\* The parent's sleep, if any, and exit(0).
ParentEnds ==
  /\ pc = "tail" /\ Prog.parentEnds /\ (kind = "data" => 0 \in done)
  /\ Exit("exit0")
  /\ UNCHANGED <<kind, made, st, seen, ij, done>>

\* Mutant of Dead: SA_NOCLDWAIT is left out.
Dead_NoFlag(c) == "zombie"

\* What becomes of a child: under SA_NOCLDWAIT the kernel keeps nothing of it.
Dead(c) == IF kind = "no_cldwait" THEN "gone" ELSE "zombie"

\* The child's sleep, if any, and exit(0).
ChildEnds(c) ==
  /\ Alive(c) /\ Prog.childEnds /\ (kind = "data" => 1 \in done)
  /\ st' = [st EXCEPT ![c] = Dead(c)]
  /\ UNCHANGED <<kind, pc, made, ppid, seen, ij, done>>

\* A signal from outside ends the parent, or a child.
Killed ==
  \/ /\ pc \notin {"exit0", "exit1", "killed"}
     /\ Exit("killed")
     /\ UNCHANGED <<kind, made, st, seen, ij, done>>
  \/ \E c \in Children :
       /\ Alive(c)
       /\ st' = [st EXCEPT ![c] = Dead(c)]
       /\ UNCHANGED <<kind, pc, made, ppid, seen, ij, done>>

\* init waits for every child it has been given.
InitReaps(c) ==
  /\ ppid[c] = "init" /\ st[c] = "zombie"
  /\ st' = [st EXCEPT ![c] = "gone"]
  /\ UNCHANGED <<kind, pc, made, ppid, seen, ij, done>>

-----------------------------------------------------------------------------
Parent == Fork \/ ForkFails \/ Forked \/ Wait \/ WaitNoChild \/ Update(0) \/ ParentEnds

Child(c) == ChildEnds(c) \/ (c = 1 /\ Update(1))

Next ==
  \/ Parent
  \/ \E c \in Children : Child(c) \/ InitReaps(c)
  \/ Killed

Spec == Init /\ [][Next]_vars

-----------------------------------------------------------------------------
(* Properties.                                                             *)

\* Every variable has its type, and a child exists once it has been created.
TypeOK ==
  /\ kind \in Kinds
  /\ pc \in {"fork", "waitone", "waitall", "tail", "exit0", "exit1", "killed"}
  /\ made \in 0..N
  /\ st \in [Children -> {"none", "run", "zombie", "gone"}]
  /\ ppid \in [Children -> {"none", "parent", "init"}]
  /\ \A c \in Children : (c <= made) = (st[c] # "none")
  /\ seen \subseteq Children /\ done \subseteq {0, 1}

Waits == kind \in {"fork2c", "fork_ret"}

\* "all children dead, exiting": a parent that waits and gets to exit(0) leaves
\* neither an orphan nor a zombie, and has been told of each child.
AllChildrenDead ==
  Waits /\ pc = "exit0" =>
    seen = 1..made /\ \A c \in 1..made : st[c] = "gone"

\* A zombie that stays has a parent that is still there and does not ask for
\* SA_NOCLDWAIT.
ZombieHasParent ==
  \A c \in Children : st[c] = "zombie" /\ ppid[c] = "parent" =>
    pc \notin {"exit0", "exit1", "killed"} /\ kind # "no_cldwait"

\* What fork_data_addr.c is there to show: parent and child end with their own
\* values, whoever runs first.
DataCopied ==
  kind = "data" => /\ 0 \in done => ij[0] = <<6, 5, "p">>
                   /\ 1 \in done => ij[1] = <<4, 7, "c">>

\* Nothing is left of a program whose processes end by themselves.
AllGone == \A c \in Children : st[c] \in {"none", "gone"}
Over == pc \in {"exit0", "exit1", "killed"} /\ AllGone

\* A process of the program sleeps for ever.
StaysUp == ~ (Prog.childEnds /\ Prog.parentEnds)
=============================================================================
