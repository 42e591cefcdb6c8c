------------------------------- MODULE MCIpc --------------------------------
(***************************************************************************)
(* The programs of ipc/ on small instances. The processes of a behaviour   *)
(* run real/sem1.c and real/sem2.c on the same key or simple/sem1.c,       *)
(* semdemo.c and semrm.c, one of the parent/child pairs, a program with a  *)
(* named POSIX semaphore, the POSIX or the System V message queue, the     *)
(* unnamed pipes, the fork() programs, one of the shells, or a writer and  *)
(* a reader at a named object.  Variables of the same name are shared; the *)
(* constants and variables of a program are declared where it is used      *)
(* first.                                                                  *)
(***************************************************************************)
EXTENDS Integers, Sequences, TLAPS

-----------------------------------------------------------------------------
(* The file locks: their invariant.                                        *)

CONSTANTS Processes,     \* all but those that run semrm.c
          MaxTries       \* sem2.c: MAX_TRIES
VARIABLES main, exists, val, otime, undo, pc, tries

File == INSTANCE SysvFileLock WITH Procs <- Processes

\* What makes the locks of sem1.c and sem2.c inductive.
FileInv ==
  /\ File!TypeOK
  /\ File!MutualExclusion
  /\ File!HeldIsCounted
  /\ \A p \in Processes :
       /\ pc[p] \in {"start", "stat", "poll"} => tries[p] < MaxTries
       /\ pc[p] = "initelement" => main[p] = "sem2"
       /\ pc[p] \in {"initelement", "stat", "poll", "lock", "open", "write", "unlock",
                     "exit"} => exists
       /\ undo[p] < 0 => val > 0
       /\ undo[p] = 1 => pc[p] = "exit"
  /\ \A p, q \in Processes : undo[p] < 0 /\ undo[q] < 0 => p = q
  /\ File!NoSem2 =>
       /\ val \in {0, 1}
       /\ val = 1 => \E p \in Processes : undo[p] = -1
       /\ \A p \in Processes :
            /\ undo[p] # 1
            /\ pc[p] \in {"open", "write", "unlock"} => undo[p] = -1

\* It holds at the start.
LEMMA FileInit == ASSUME File!SysvFileLockAssumption, File!Init PROVE FileInv
<1> USE DEF File!SysvFileLockAssumption, File!Init
<1>1. main \in [Processes -> {"sem1", "sem2", "simple"}]
  OBVIOUS
<1>2. exists \in BOOLEAN /\ otime \in BOOLEAN
  OBVIOUS
<1>3. File!TypeOK
  BY <1>1, <1>2 DEF File!TypeOK, File!PC
<1> QED
  BY <1>3 DEF FileInv, File!MutualExclusion, File!HeldIsCounted, File!Inside, File!NoSem2

\* Every step of every process keeps it.
LEMMA FileNext ==
  ASSUME File!SysvFileLockAssumption, FileInv, File!Next \/ UNCHANGED File!vars
  PROVE  FileInv'
<1> USE DEF File!SysvFileLockAssumption, FileInv, File!TypeOK, File!PC, File!Ended,
       File!MutualExclusion, File!HeldIsCounted, File!Inside, File!NoSem2, File!Go
<1>0. CASE UNCHANGED File!vars
  BY <1>0 DEF File!vars
<1> SUFFICES ASSUME File!Next PROVE FileInv'
  BY <1>0
<1>1. PICK p \in Processes : File!Proc(p) \/ File!Kill(p)
  BY DEF File!Next
<1>2. exists' \in BOOLEAN /\ otime' \in BOOLEAN /\ main' = main
  BY <1>1, Zenon
     DEF File!Proc, File!Sem1Fetch, File!Sem1Create, File!Sem2Create, File!NewSem,
         File!InitElement, File!StatOverrun, File!Poll, File!SimpleCreate, File!Lock,
         File!OpenFile, File!WriteFile, File!FgetsFails, File!Unlock, File!Exit,
         File!Kill, File!Undo
<1>3. CASE File!Sem1Fetch(p)
  BY <1>2, <1>3 DEF File!Sem1Fetch
<1>4. CASE File!Sem1Create(p)
  BY <1>2, <1>4 DEF File!Sem1Create, File!NewSem
<1>5. CASE File!Sem2Create(p)
  BY <1>2, <1>5 DEF File!Sem2Create, File!NewSem
<1>6. CASE File!InitElement(p)
  BY <1>2, <1>6 DEF File!InitElement
<1>7. CASE File!StatOverrun(p)
  BY <1>2, <1>7 DEF File!StatOverrun
<1>8. CASE File!Poll(p)
  BY <1>2, <1>8 DEF File!Poll
<1>9. CASE File!SimpleCreate(p)
  BY <1>2, <1>9 DEF File!SimpleCreate, File!NewSem
<1>10. CASE File!Lock(p)
  BY <1>2, <1>10 DEF File!Lock
<1>11. CASE File!OpenFile(p)
  BY <1>2, <1>11 DEF File!OpenFile
<1>12. CASE File!WriteFile(p)
  BY <1>2, <1>12 DEF File!WriteFile
<1>13. CASE File!FgetsFails(p)
  BY <1>2, <1>13 DEF File!FgetsFails
<1>14. CASE File!Unlock(p)
  BY <1>2, <1>14 DEF File!Unlock
<1>15. CASE File!Exit(p)
  BY <1>2, <1>15 DEF File!Exit, File!Undo
<1>16. CASE File!Kill(p)
  BY <1>2, <1>16 DEF File!Kill, File!Undo
<1> QED
  BY <1>1, <1>3, <1>4, <1>5, <1>6, <1>7, <1>8, <1>9, <1>10, <1>11, <1>12, <1>13,
     <1>14, <1>15, <1>16 DEF File!Proc

-----------------------------------------------------------------------------
(* semdemo.c and semrm.c: the invariant.                                   *)

CONSTANTS Removers,              \* the processes that run semrm.c
          MaxRetries, MaxSets    \* semdemo.c: MAX_RETRIES; bound on sets created
VARIABLES key, last, id

Demo == INSTANCE SemDemo WITH Procs <- Processes

\* What makes the lock of semdemo.c inductive.
DemoInv ==
  /\ Demo!TypeOK
  /\ Demo!InitialisedBeforeUse
  /\ \A p \in Processes :
       /\ pc[p] \in {"initsem", "fetch", "wait_init"} => tries[p] < MaxRetries
       /\ pc[p] = "locked" => undo[p] = 1
       /\ undo[p] = 1 => id[p] # 0 /\ pc[p] \in {"locked", "failed"}
       /\ undo[p] = 1 /\ id[p] = key => pc[p] = "locked" /\ val[key] = 0 /\ otime[key]
       /\ pc[p] = "first_semop" => id[p] # 0
       /\ pc[p] = "first_semop" /\ id[p] = key => ~otime[key]
  /\ \A p, q \in Processes : undo[p] = 1 /\ undo[q] = 1 /\ id[p] = id[q] => p = q
  /\ \A p, q \in Processes :
       pc[p] = "first_semop" /\ pc[q] = "first_semop" /\ id[p] = id[q] => p = q
  /\ \A g \in Demo!Sets : g > last => ~otime[g]
  /\ \A g \in Demo!Sets : ~otime[g] => val[g] = 0
  /\ key # 0 /\ otime[key] /\ val[key] = 0 =>
       \E p \in Processes : undo[p] = 1 /\ id[p] = key

\* It holds at the start.
LEMMA DemoInit == ASSUME Demo!SemDemoAssumption, Demo!Init PROVE DemoInv
BY DEF Demo!SemDemoAssumption, Demo!Init, DemoInv, Demo!TypeOK, Demo!InitialisedBeforeUse,
   Demo!Sets, Demo!All, Demo!Ended, Demo!Valid

\* Every step of every process keeps it.
LEMMA DemoNext ==
  ASSUME Demo!SemDemoAssumption, DemoInv, Demo!Next \/ UNCHANGED Demo!vars
  PROVE  DemoInv'
<1> USE DEF Demo!SemDemoAssumption, DemoInv, Demo!TypeOK, Demo!InitialisedBeforeUse,
       Demo!Sets, Demo!All, Demo!Ended, Demo!Valid, Demo!Go
<1>0. CASE UNCHANGED Demo!vars
  BY <1>0 DEF Demo!vars
<1>1. ASSUME NEW p \in Processes, Demo!CreateSet(p) PROVE DemoInv'
  BY <1>1, SMTT(30) DEF Demo!CreateSet
<1>2. ASSUME NEW p \in Processes, Demo!ExistsAlready(p) PROVE DemoInv'
  BY <1>2 DEF Demo!ExistsAlready
<1>3. ASSUME NEW p \in Processes, Demo!FirstSemop(p) PROVE DemoInv'
  <2> USE <1>3 DEF Demo!FirstSemop
  <2>1. CASE Demo!Valid(p)
    <3>1. key \in Demo!Sets /\ id[p] = key /\ ~otime[key] /\ val[key] = 0
      BY <2>1
    <3>2. /\ val' = [val EXCEPT ![key] = 1] /\ otime' = [otime EXCEPT ![key] = TRUE]
          /\ pc' = [pc EXCEPT ![p] = "press"] /\ pc[p] = "first_semop"
          /\ UNCHANGED <<key, last, undo, id, tries>>
      BY <2>1, <3>1
    <3>3. otime' \in [Demo!Sets -> BOOLEAN]
      BY <3>2, Zenon
    <3> HIDE <1>3
    <3> QED
      BY <3>1, <3>2, <3>3
  <2>2. CASE ~Demo!Valid(p)
    <3>1. /\ pc' = [pc EXCEPT ![p] = "failed"] /\ (undo[p] = 1 => pc[p] = "locked")
          /\ UNCHANGED <<key, last, val, otime, undo, id, tries>>
      BY <2>2
    <3> HIDE <1>3
    <3> QED
      BY <2>2, <3>1
  <2> QED
    BY <2>1, <2>2
<1>4. ASSUME NEW p \in Processes, Demo!Fetch(p) PROVE DemoInv'
  <2>0. /\ pc[p] = "fetch" /\ id' = [id EXCEPT ![p] = key]
        /\ pc' = [pc EXCEPT ![p] = IF key = 0 THEN "failed" ELSE "wait_init"]
        /\ UNCHANGED <<key, last, val, otime, undo, tries>>
    BY <1>4, Zenon DEF Demo!Fetch
  <2>1. undo[p] = 0
    BY <2>0
  <2>2. /\ pc'[p] \in {"failed", "wait_init"}
        /\ \A q \in Demo!All : q # p => pc'[q] = pc[q] /\ id'[q] = id[q]
    BY <2>0, <2>1
  <2>3. Demo!TypeOK'
    BY <2>0, <2>1
  <2>4. Demo!InitialisedBeforeUse'
    BY <2>0, <2>1, <2>2
  <2> HIDE DEF Demo!TypeOK, Demo!InitialisedBeforeUse
  <2> QED
    BY <2>0, <2>1, <2>2, <2>3, <2>4
<1>5. ASSUME NEW p \in Processes, Demo!WaitInit(p) PROVE DemoInv'
  <2>1. PICK ready \in Demo!OtimeSeen(p) :
          /\ pc[p] = "wait_init"
          /\ tries' = [tries EXCEPT ![p] = @ + 1]
          /\ pc' = [pc EXCEPT ![p] = IF ready THEN "press"
                                     ELSE IF tries'[p] < MaxRetries THEN "wait_init"
                                     ELSE "timeout"]
          /\ UNCHANGED <<key, last, val, otime, undo, id>>
    BY <1>5 DEF Demo!WaitInit
  <2>2. tries' \in [Processes -> 0..MaxRetries] /\ tries'[p] \in Nat
    BY <2>1
  <2>3. ready /\ Demo!Valid(p) => otime[key]
    BY <2>1, Zenon DEF Demo!OtimeSeen
  <2>4. pc'[p] \in {"press", "wait_init", "timeout"}
    BY <2>1
  <2>5. pc'[p] = "press" => ready
    BY <2>1
  <2>6. pc'[p] = "wait_init" => tries'[p] < MaxRetries
    BY <2>1
  <2>7. pc' = [pc EXCEPT ![p] = pc'[p]]
    BY <2>1
  <2> QED
    BY <2>1, <2>2, <2>3, <2>4, <2>5, <2>6, <2>7, SMTT(30)
<1>6. ASSUME NEW p \in Processes, Demo!Lock(p) PROVE DemoInv'
  <2> USE <1>6 DEF Demo!Lock
  <2>1. CASE Demo!Valid(p)
    <3>1. /\ key \in Demo!Sets /\ id[p] = key /\ val[key] = 1 /\ undo[p] = 0
          /\ otime[key] /\ pc[p] = "press"
      BY <2>1
    <3>2. /\ val' = [val EXCEPT ![key] = 0] /\ undo' = [undo EXCEPT ![p] = 1]
          /\ pc' = [pc EXCEPT ![p] = "locked"]
          /\ UNCHANGED <<key, last, otime, id, tries>>
      BY <2>1, <3>1
    <3>3. \A q \in Processes : undo[q] = 1 => id[q] # key
      BY <3>1
    <3> HIDE <1>6
    <3> QED
      BY <3>1, <3>2, <3>3
  <2>2. CASE ~Demo!Valid(p)
    <3>1. /\ pc' = [pc EXCEPT ![p] = "failed"] /\ (undo[p] = 1 => pc[p] = "locked")
          /\ UNCHANGED <<key, last, val, otime, undo, id, tries>>
      BY <2>2
    <3> HIDE <1>6
    <3> QED
      BY <2>2, <3>1
  <2> QED
    BY <2>1, <2>2
<1>7. ASSUME NEW p \in Processes, Demo!Unlock(p) PROVE DemoInv'
  <2> USE <1>7 DEF Demo!Unlock
  <2>1. CASE Demo!Valid(p)
    <3>1. /\ key \in Demo!Sets /\ id[p] = key /\ val[key] = 0 /\ undo[p] = 1
          /\ otime[key] /\ pc[p] = "locked"
      BY <2>1
    <3>2. /\ val' = [val EXCEPT ![key] = 1] /\ undo' = [undo EXCEPT ![p] = 0]
          /\ pc' = [pc EXCEPT ![p] = "exit"]
          /\ UNCHANGED <<key, last, otime, id, tries>>
      BY <2>1, <3>1
    <3>3. \A q \in Processes : undo[q] = 1 /\ id[q] = key => q = p
      BY <3>1
    <3> HIDE <1>7
    <3> QED
      BY <3>1, <3>2, <3>3
  <2>2. CASE ~Demo!Valid(p)
    <3>1. /\ pc' = [pc EXCEPT ![p] = "failed"] /\ (undo[p] = 1 => pc[p] = "locked")
          /\ UNCHANGED <<key, last, val, otime, undo, id, tries>>
      BY <2>2
    <3> HIDE <1>7
    <3> QED
      BY <2>2, <3>1
  <2> QED
    BY <2>1, <2>2
<1>8. ASSUME NEW p \in Processes, Demo!Exit(p) PROVE DemoInv'
  BY <1>8 DEF Demo!Exit, Demo!Undo
<1>9. ASSUME NEW p \in Processes, Demo!Kill(p) PROVE DemoInv'
  BY <1>9, SMTT(30) DEF Demo!Kill, Demo!Undo
<1>10. ASSUME NEW r \in Removers, Demo!RmSemget(r) PROVE DemoInv'
  BY <1>10 DEF Demo!RmSemget
<1>11. ASSUME NEW r \in Removers, Demo!RmSemctl(r) PROVE DemoInv'
  BY <1>11, SMTT(30) DEF Demo!RmSemctl
<1> QED
  BY <1>0, <1>1, <1>2, <1>3, <1>4, <1>5, <1>6, <1>7, <1>8, <1>9, <1>10, <1>11
     DEF Demo!Next, Demo!Proc

\* Those who have taken the unit of the set under the key: nobody, or the one holder.
Owing == {p \in Processes : id[p] = key /\ undo[p] = 1}
LEMMA DemoOwing ==
  ASSUME Demo!SemDemoAssumption, DemoInv, key # 0
  PROVE  \/ Owing = {} /\ val[key] = IF otime[key] THEN 1 ELSE 0
         \/ \E p \in Processes : Owing = {p} /\ val[key] = 0 /\ otime[key]
<1> USE DEF DemoInv, Owing
<1>1. key \in Demo!Sets /\ val[key] \in 0..1
  BY DEF Demo!TypeOK, Demo!Sets, Demo!SemDemoAssumption
<1>2. CASE Owing = {}
  BY <1>1, <1>2
<1>3. CASE Owing # {}
  <2>1. PICK p \in Processes : id[p] = key /\ undo[p] = 1
    BY <1>3
  <2>2. Owing = {p}
    BY <2>1
  <2> QED
    BY <2>1, <2>2
<1> QED
  BY <1>2, <1>3

-----------------------------------------------------------------------------
(* The named semaphore: the invariant.                                     *)

CONSTANTS Rounds,                \* turns of the loop
          LEN, Times, Chunk      \* sizes of the region
VARIABLES kind, sem, named, out, udata, i, k

Named == INSTANCE PosixSem

\* What makes the exclusion by the named semaphore inductive.
NamedInv ==
  /\ Named!TypeOK
  /\ kind = "lock" =>
       /\ \A q \in Named!Procs :
            /\ pc[q] \in Named!Writing \cup {"failed"} => sem = 0
            /\ pc[q] \in Named!Writing \cup {"none", "fork", "sem_wait"} => i[q] < Rounds
            /\ pc[q] # "update"
       /\ \A q, r \in Named!Procs :
            {pc[q], pc[r]} \subseteq Named!Writing \cup {"failed"} => q = r
  /\ kind # "lock" =>
       \A q \in Named!Procs : pc[q] \notin {"fopen", "fclose", "failed"}
  /\ kind = "order" =>
       /\ pc["p"] \notin {"sem_wait", "none"}
       /\ pc["c"] \notin {"sem_post", "wait", "fork"}
       /\ pc["p"] \in {"fork", "update", "sem_post"} =>
            sem = 0 /\ pc["c"] \in {"none", "sem_wait"}
  /\ kind = "race" =>
       \A q \in Named!Procs : pc[q] \notin {"sem_wait", "sem_post"}
  /\ pc["p"] = "fork" <=> pc["c"] = "none" /\ pc["p"] # "exit"

\* Exclusion follows from the invariant.
LEMMA NamedSafe == ASSUME NamedInv PROVE Named!OneInside
BY DEF NamedInv, Named!OneInside, Named!Procs, Named!Writing, Named!TypeOK

\* The invariant holds at the start.
LEMMA NamedInit == ASSUME Named!PosixSemAssumption, Named!Init PROVE NamedInv
<1> USE DEF Named!PosixSemAssumption, Named!Init
<1>1. Named!Total \in Nat /\ Named!Total \div Chunk \in Nat
  BY DEF Named!Total
<1> QED
  BY <1>1 DEF NamedInv, Named!TypeOK, Named!Writing, Named!Procs, Named!StartValue

\* Every step of parent and child keeps it.
LEMMA NamedNext ==
  ASSUME Named!PosixSemAssumption, NamedInv, Named!Next \/ UNCHANGED Named!vars
  PROVE  NamedInv'
<1> DEFINE T == Named!Total
<1>0. T \in Nat /\ T \div Chunk \in Nat /\ T % Chunk \in 0..(Chunk - 1)
  BY DEF Named!PosixSemAssumption, Named!Total
<1> USE DEF Named!PosixSemAssumption, NamedInv, Named!TypeOK, Named!Writing, Named!Procs
<1>12. CASE UNCHANGED Named!vars
  BY <1>12 DEF Named!vars
<1> SUFFICES ASSUME Named!Next PROVE NamedInv'
  BY <1>12
<1>1. named' \in BOOLEAN
  BY Zenon DEF Named!Next, Named!Fork, Named!ForkFails, Named!WaitChild, Named!Proc,
    Named!SemWait, Named!SemPost, Named!Fopen, Named!FopenFails, Named!Fclose,
    Named!UpdateByte, Named!UpdateEnds
<1>2. CASE Named!Fork
  BY <1>0, <1>1, <1>2 DEF Named!Fork, Named!AfterFork
<1>3. CASE Named!ForkFails
  BY <1>0, <1>1, <1>3 DEF Named!ForkFails
<1>4. CASE Named!WaitChild
  BY <1>0, <1>1, <1>4 DEF Named!WaitChild
<1>5. ASSUME NEW q \in Named!Procs, Named!SemWait(q) PROVE NamedInv'
  BY <1>0, <1>1, <1>5, SMTT(30) DEF Named!SemWait
<1>6. ASSUME NEW q \in Named!Procs, Named!SemPost(q) PROVE NamedInv'
  BY <1>0, <1>1, <1>6, SMTT(30) DEF Named!SemPost, Named!AfterPost
<1>7. ASSUME NEW q \in Named!Procs, Named!Fopen(q) PROVE NamedInv'
  BY <1>0, <1>1, <1>7, SMTT(30) DEF Named!Fopen
<1>8. ASSUME NEW q \in Named!Procs, Named!FopenFails(q) PROVE NamedInv'
  BY <1>0, <1>1, <1>8, SMTT(30) DEF Named!FopenFails
<1>9. ASSUME NEW q \in Named!Procs, Named!Fclose(q) PROVE NamedInv'
  BY <1>0, <1>1, <1>9, SMTT(30) DEF Named!Fclose
<1>10. ASSUME NEW q \in Named!Procs, Named!UpdateByte(q) PROVE NamedInv'
  <2> USE <1>10 DEF Named!UpdateByte
  <2>1. UNCHANGED <<kind, sem, named, out, pc>> /\ kind # "lock" /\ pc[q] = "update"
    OBVIOUS
  <2>2. udata' \in [0..(Named!Size - 1) -> {"0", "p", "c"}]
    OBVIOUS
  <2> DEFINE Q == T \div Chunk
             R == T % Chunk
             more == IF k[q] + 1 = Chunk THEN 0 ELSE k[q] + 1
  <2>3. /\ k[q] \in 0..(Chunk - 1) /\ i[q] \in 0..Q
        /\ i[q] = Q => k[q] < R
    BY <2>1
  <2>4. /\ i' = IF k[q] + 1 = Chunk THEN [i EXCEPT ![q] = i[q] + 1] ELSE i
        /\ k' = [k EXCEPT ![q] = more]
    OBVIOUS
  <2>5. Chunk \in Nat /\ Q \in Nat /\ R \in 0..(Chunk - 1)
    BY <1>0
  <2>6. i \in [Named!Procs -> 0..Q] /\ k \in [Named!Procs -> 0..(Chunk - 1)]
    BY <2>1
  <2> HIDE <1>10 DEF Q, R
  <2>7. (k[q] + 1 = Chunk => i[q] + 1 \in 0..Q) /\ more \in 0..(Chunk - 1)
    BY <2>3, <2>5, SMTT(30)
  <2>8. i' \in [Named!Procs -> 0..Q] /\ k' \in [Named!Procs -> 0..(Chunk - 1)]
    BY <2>4, <2>6, <2>7
  <2> QED
    BY <1>0, <1>1, <2>1, <2>2, <2>8 DEF Q
<1>11. ASSUME NEW q \in Named!Procs, Named!UpdateEnds(q) PROVE NamedInv'
  BY <1>0, <1>1, <1>11 DEF Named!UpdateEnds, Named!AfterUpdate
<1> QED
  BY <1>2, <1>3, <1>4, <1>5, <1>6, <1>7, <1>8, <1>9, <1>10, <1>11
     DEF Named!Next, Named!Proc

-----------------------------------------------------------------------------
(* The fork() programs: the invariant.                                     *)

CONSTANT N                       \* children
VARIABLES made, st, ppid, seen, ij, done

Family == INSTANCE Forks

ParentOver == {"exit0", "exit1", "killed"}

\* The account of one child: it has the parent while that lives, init afterwards; the
\* parent was told of it when it is gone; and a parent past its waiting was told of it.
FamilyChild(c) ==
  /\ pc \in ParentOver => ppid[c] # "parent"
  /\ pc \notin ParentOver /\ c <= made => ppid[c] = "parent"
  /\ pc \notin ParentOver /\ kind # "no_cldwait" => (st[c] = "gone" <=> c \in seen)
  /\ kind = "no_cldwait" => st[c] # "zombie"
  /\ Family!Waits /\ pc \in {"tail", "exit0"} /\ c <= made =>
       st[c] = "gone" /\ c \in seen

\* What makes the accounts of the fork() programs inductive.
FamilyInv ==
  /\ Family!TypeOK
  /\ made <= Family!Prog.children
  /\ pc \in {"waitone", "waitall", "tail"} => made = Family!Prog.children
  /\ kind = "fork2c" => pc # "waitone"
  /\ kind = "fork_ret" => pc # "waitall"
  /\ seen \subseteq 1..made
  /\ \A c \in Family!Children : FamilyChild(c)

\* The records of the programs that the accounts need.
LEMMA FamilyPrograms ==
  ASSUME Family!ForksAssumption, kind \in Family!Kinds
  PROVE  /\ Family!Prog.children \in 0..N /\ Family!Prog.wait \in {"none", "one", "all"}
         /\ kind = "fork2c" => Family!Prog.wait = "all"
         /\ kind = "fork_ret" => Family!Prog.wait = "one" /\ Family!Prog.children = 1
<1> USE DEF Family!ForksAssumption
<1>1. kind \in {"fork2c", "fork_ret", "fork_demo", "orphan", "zombie", "wait_fail",
                "forkbomb", "data", "no_pclose", "no_cldwait"}
  BY DEF Family!Kinds, Family!Programs
<1>2. CASE kind = "fork2c"
  <2>1. Family!Prog = Family!Fork2c
    BY <1>2 DEF Family!Prog, Family!Programs
  <2> QED
    BY <1>2, <2>1 DEF Family!Fork2c
<1>3. CASE kind = "fork_ret"
  <2>1. Family!Prog = Family!ForkRet
    BY <1>3 DEF Family!Prog, Family!Programs
  <2> QED
    BY <1>3, <2>1 DEF Family!ForkRet
<1>4. CASE kind \notin {"fork2c", "fork_ret"}
  <2>1. Family!Prog \in {Family!ForkDemo, Family!Orphan, Family!Zombie, Family!WaitFail,
                         Family!Forkbomb1, Family!ForkData, Family!NoPclose,
                         Family!NoCldWait}
    BY <1>1, <1>4 DEF Family!Prog, Family!Programs
  <2>2. Family!Prog.children \in {0, 1, N} /\ Family!Prog.wait \in {"none", "one"}
    BY <2>1 DEF Family!ForkDemo, Family!Orphan, Family!Zombie, Family!WaitFail,
         Family!Forkbomb1, Family!ForkData, Family!NoPclose, Family!NoCldWait
  <2> QED
    BY <1>4, <2>2
<1> QED
  BY <1>2, <1>3, <1>4

\* The invariant holds at the start.
LEMMA FamilyInit == ASSUME Family!ForksAssumption, Family!Init PROVE FamilyInv
<1>1. kind \in Family!Kinds
  BY DEF Family!Init
<1> QED
  BY <1>1, FamilyPrograms
     DEF Family!ForksAssumption, Family!Init, FamilyInv, FamilyChild, Family!TypeOK,
         Family!Children, ParentOver, Family!Waits

\* Every step of parent, children and init keeps it.
LEMMA FamilyNext ==
  ASSUME Family!ForksAssumption, FamilyInv, Family!Next \/ UNCHANGED Family!vars
  PROVE  FamilyInv'
<1> DEFINE P == Family!Prog
<1>0. /\ P' = P /\ kind' = kind
      /\ P.children \in 0..N /\ P.wait \in {"none", "one", "all"}
      /\ kind = "fork2c" => P.wait = "all"
      /\ kind = "fork_ret" => P.wait = "one" /\ P.children = 1
  <2>1. kind \in Family!Kinds
    BY DEF FamilyInv, Family!TypeOK
  <2>2. kind' = kind
    BY DEF Family!Next, Family!vars, Family!Parent, Family!Child, Family!Killed,
           Family!InitReaps, Family!ChildEnds, Family!ParentEnds, Family!Update,
           Family!WaitNoChild, Family!Wait, Family!Forked, Family!ForkFails, Family!Fork
  <2> QED
    BY <2>1, <2>2, FamilyPrograms DEF Family!Prog
<1>1. kind \in Family!Kinds /\ kind' \in Family!Kinds
  BY <1>0 DEF FamilyInv, Family!TypeOK
<1> HIDE DEF P
<1> USE <1>0, <1>1 DEF Family!ForksAssumption, FamilyInv, FamilyChild, Family!TypeOK,
     Family!Children, ParentOver, Family!Waits
<1>12. CASE UNCHANGED Family!vars
  BY <1>12 DEF Family!vars, P
<1>2. CASE Family!Fork
  <2>1. /\ pc = "fork" /\ made < P.children /\ made' = made + 1 /\ made + 1 \in 1..N
        /\ st' = [st EXCEPT ![made + 1] = "run"]
        /\ ppid' = [ppid EXCEPT ![made + 1] = "parent"]
        /\ UNCHANGED <<pc, seen, done>>
    BY <1>2 DEF Family!Fork, P
  <2> HIDE DEF FamilyChild
  <2>2. Family!TypeOK'
    BY <2>1
  <2>3. ASSUME NEW c \in Family!Children PROVE FamilyChild(c)'
    <3>1. FamilyChild(c)
      OBVIOUS
    <3>2. CASE c = made + 1
      BY <2>1, <3>1, <3>2 DEF FamilyChild
    <3>3. CASE c # made + 1
      BY <2>1, <3>1, <3>3 DEF FamilyChild
    <3> QED
      BY <3>2, <3>3
  <2>4. /\ made' <= P.children /\ seen' \subseteq 1..made'
        /\ pc' = "fork"
    BY <2>1
  <2> QED
    BY <2>2, <2>3, <2>4 DEF P
<1>3. CASE Family!ForkFails
  BY <1>3 DEF Family!ForkFails, Family!Exit, P
<1>4. CASE Family!Forked
  <2>1. /\ pc = "fork" /\ made = P.children /\ UNCHANGED <<made, st, ppid, seen, done>>
        /\ pc' \in {"tail", "waitone", "waitall"}
        /\ kind = "fork2c" => pc' = "waitall"
        /\ kind = "fork_ret" => pc' = "waitone"
    BY <1>4 DEF Family!Forked, P
  <2> QED
    BY <2>1 DEF P
<1>5. CASE Family!Wait
  <2>1. PICK c \in Family!Children :
          /\ ppid[c] = "parent" /\ st[c] = "zombie"
          /\ st' = [st EXCEPT ![c] = "gone"] /\ seen' = seen \cup {c}
    BY <1>5, ZenonT(30) DEF Family!Wait, Family!Mine
  <2>2. /\ pc \in {"waitone", "waitall"} /\ pc' = IF pc = "waitone" THEN "tail" ELSE pc
        /\ UNCHANGED <<made, ppid, done>>
    BY <1>5 DEF Family!Wait
  <2>3. c \in 1..made
    BY <2>1
  <2> HIDE DEF FamilyChild
  <2>4. Family!TypeOK' /\ seen' \subseteq 1..made'
    BY <2>1, <2>2, <2>3
  <2>5. ASSUME NEW d \in Family!Children PROVE FamilyChild(d)'
    <3>1. FamilyChild(d) /\ FamilyChild(c)
      OBVIOUS
    <3>2. CASE d = c
      BY <2>1, <2>2, <3>1, <3>2 DEF FamilyChild
    <3>3. CASE d # c
      <4>1. st'[d] = st[d] /\ (d \in seen' <=> d \in seen)
        BY <2>1, <3>3
      <4>2. kind = "fork_ret" /\ d <= made => FALSE
        BY <2>1, <2>2, <2>3, <3>3 DEF P
      <4>3. pc' = "tail" => kind # "fork2c"
        BY <2>2
      <4> HIDE DEF FamilyInv, Family!TypeOK
      <4> QED
        BY <2>2, <3>1, <4>1, <4>2, <4>3, SMTT(30) DEF FamilyChild
    <3> QED
      BY <3>2, <3>3
  <2> QED
    BY <2>2, <2>4, <2>5 DEF P
<1>6. CASE Family!WaitNoChild
  <2>1. /\ pc \in {"waitone", "waitall"} /\ UNCHANGED <<made, st, seen, done>>
        /\ \A c \in Family!Children : ppid[c] = "parent" => st[c] \notin {"run", "zombie"}
        /\ \/ kind = "wait_fail" /\ pc' = "exit1"
              /\ ppid' = [c \in Family!Children |->
                             IF ppid[c] = "parent" THEN "init" ELSE ppid[c]]
           \/ pc' = "tail" /\ UNCHANGED ppid
    BY <1>6 DEF Family!WaitNoChild, Family!Mine, Family!Exit
  <2> HIDE DEF FamilyChild
  <2>2. Family!TypeOK' /\ seen' \subseteq 1..made'
    BY <2>1
  <2>3. ASSUME NEW c \in Family!Children PROVE FamilyChild(c)'
    <3>1. FamilyChild(c) /\ (c <= made) = (st[c] # "none")
      OBVIOUS
    <3> QED
      BY <2>1, <3>1 DEF FamilyChild
  <2> QED
    BY <2>1, <2>2, <2>3 DEF P
<1>7. ASSUME NEW p \in {0, 1}, Family!Update(p) PROVE FamilyInv'
  BY <1>7 DEF Family!Update, P
<1>8. CASE Family!ParentEnds
  BY <1>8 DEF Family!ParentEnds, Family!Exit, P
<1>9. ASSUME NEW c \in Family!Children, Family!ChildEnds(c) PROVE FamilyInv'
  BY <1>9 DEF Family!ChildEnds, Family!Alive, Family!Dead, P
<1>10. ASSUME NEW c \in Family!Children, Family!InitReaps(c) PROVE FamilyInv'
  BY <1>10 DEF Family!InitReaps, P
<1>11. CASE Family!Killed
  <2>1. CASE /\ pc \notin ParentOver /\ Family!Exit("killed")
             /\ UNCHANGED <<made, st, seen, done>>
    BY <2>1 DEF Family!Exit, P
  <2>2. ASSUME NEW c \in Family!Children, Family!Alive(c),
               st' = [st EXCEPT ![c] = Family!Dead(c)],
               UNCHANGED <<pc, made, ppid, seen, done>>
        PROVE  FamilyInv'
    BY <2>2 DEF Family!Alive, Family!Dead, P
  <2> QED
    BY <1>11, <2>1, <2>2, ZenonT(30) DEF Family!Killed
<1> QED
  BY <1>2, <1>3, <1>4, <1>5, <1>6, <1>7, <1>8, <1>9, <1>10, <1>11,
     <1>12, ZenonT(30) DEF Family!Next, Family!Parent, Family!Child

\* The accounts follow from the invariant.
LEMMA FamilySafe ==
  ASSUME Family!ForksAssumption, FamilyInv
  PROVE  Family!AllChildrenDead /\ Family!ZombieHasParent
<1> USE DEF FamilyInv, FamilyChild, ParentOver, Family!TypeOK, Family!Children,
        Family!ForksAssumption
<1>1. Family!ZombieHasParent
  BY DEF Family!ZombieHasParent
<1>2. ASSUME Family!Waits, pc = "exit0"
      PROVE  1..made \subseteq seen /\ \A c \in 1..made : st[c] = "gone"
  BY <1>2
<1> QED
  BY <1>1, <1>2, ZenonT(30) DEF Family!AllChildrenDead

-----------------------------------------------------------------------------
(* What the locks promise, which counts processes.                         *)

INSTANCE FiniteSetTheorems

\* The properties of the file locks follow from the invariant.
LEMMA FileSafe ==
  ASSUME File!SysvFileLockAssumption, FileInv
  PROVE  File!MutualExclusion /\ File!UnlockSucceeds /\ File!ValueIsHolder
<1> USE DEF FileInv
<1>1. File!UnlockSucceeds
  BY DEF File!UnlockSucceeds, File!HeldIsCounted, File!Inside
<1>2. ASSUME File!NoSem2
      PROVE  val = Cardinality({p \in Processes : undo[p] = -1})
  <2> DEFINE Holding == {p \in Processes : undo[p] = -1}
  <2>1. CASE val = 0
    <3>1. Holding = {}
      BY <2>1
    <3> QED
      BY <2>1, <3>1, FS_EmptySet
  <2>2. CASE val = 1
    <3>1. PICK p \in Processes : undo[p] = -1
      BY <1>2, <2>2
    <3>2. Holding = {p}
      BY <3>1
    <3> QED
      BY <2>2, <3>2, FS_Singleton
  <2> QED
    BY <1>2, <2>1, <2>2
<1> QED
  BY <1>1, <1>2
     DEF File!ValueIsHolder, File!Cardinality, Cardinality, File!IsFiniteSet, IsFiniteSet

\* The properties of the lock follow from the invariant.
LEMMA DemoSafe ==
  ASSUME Demo!SemDemoAssumption, DemoInv
  PROVE  Demo!MutualExclusion /\ Demo!UnitConserved /\ Demo!InitialisedBeforeUse
<1>1. Demo!MutualExclusion /\ Demo!InitialisedBeforeUse
  BY DEF DemoInv, Demo!MutualExclusion
<1>2. ASSUME key # 0
      PROVE  val[key] + Cardinality(Owing) = IF otime[key] THEN 1 ELSE 0
  <2>1. CASE Owing = {} /\ val[key] = IF otime[key] THEN 1 ELSE 0
    <3>1. Cardinality(Owing) = 0
      BY <2>1, FS_EmptySet
    <3> QED
      BY <2>1, <3>1
  <2>2. ASSUME NEW p \in Processes, Owing = {p}, val[key] = 0, otime[key]
        PROVE  val[key] + Cardinality(Owing) = 1
    <3>1. Cardinality(Owing) = 1
      BY <2>2, FS_Singleton
    <3> QED
      BY <2>2, <3>1
  <2> QED
    BY <1>2, <2>1, <2>2, DemoOwing
<1> QED
  BY <1>1, <1>2 DEF Owing,
     Demo!UnitConserved, Demo!Cardinality, Demo!IsFiniteSet, Cardinality, IsFiniteSet

-----------------------------------------------------------------------------
(* The shells: the invariant.                                              *)

CONSTANTS MaxLines, MaxStops     \* bounds on lines and stops
VARIABLES input, nl, cmd, told, stops, stopped, quit

Sh == INSTANCE Shell

\* The number of children left.
ShLeft == Cardinality(Sh!Unreaped)

\* What makes the accounts of the shells inductive: while the shell waits there is
\* one child more.
ShInv ==
  /\ pc \in {"prompt", "fork", "wait", "spin", "exit0"}
  /\ input \in Seq(Sh!LineKinds) /\ stops \in Nat
  /\ st \in Seq({"run", "stopped", "zombie", "gone"})
  /\ pc \in {"prompt", "fork", "spin"} => ShLeft = stops
  /\ pc = "wait" => ShLeft = stops + 1
  /\ pc = "exit0" => quit

\* It holds at the start.
LEMMA ShInit == ASSUME Sh!ShellAssumption, Sh!Init PROVE ShInv
<1> USE DEF Sh!ShellAssumption, Sh!Init
<1>1. PICK n \in 0..MaxLines : input \in [1..n -> Sh!LineKinds]
  OBVIOUS
<1>2. input \in Seq(Sh!LineKinds)
  BY <1>1
<1>3. Sh!Unreaped = {}
  BY DEF Sh!Unreaped, Sh!Kids
<1>4. ShLeft = 0
  BY <1>3, FS_EmptySet, SMTT(30) DEF ShLeft
<1>5. pc = "prompt" /\ st = <<>> /\ stops = 0
  OBVIOUS
<1> HIDE DEF Sh!Init
<1> QED
  BY <1>2, <1>4, <1>5, SMTT(30) DEF ShInv

\* Every step of the shell and of its children keeps it.
LEMMA ShNext ==
  ASSUME ShInv, Sh!Next \/ UNCHANGED Sh!vars
  PROVE  ShInv'
<1> DEFINE States == {"run", "stopped", "zombie", "gone"}
<1> USE DEF ShInv
<1>0. /\ Sh!Kids = 1..Len(st) /\ Len(st) \in Nat /\ IsFiniteSet(Sh!Unreaped)
      /\ st \in [Sh!Kids -> States]
  <2>1. Sh!Kids = 1..Len(st) /\ Len(st) \in Nat /\ st \in [Sh!Kids -> States]
    BY DEF Sh!Kids
  <2>2. Sh!Unreaped \subseteq 1..Len(st)
    BY <2>1 DEF Sh!Unreaped
  <2>3. IsFiniteSet(1..Len(st))
    BY <2>1, FS_Interval
  <2>4. IsFiniteSet(Sh!Unreaped)
    BY <2>2, <2>3, FS_Subset
  <2> QED
    BY <2>1, <2>4
<1>10. UNCHANGED st => ShLeft' = ShLeft
  BY DEF ShLeft, Sh!Unreaped, Sh!Kids
<1>9. CASE UNCHANGED Sh!vars
  BY <1>9, <1>10 DEF Sh!vars
<1>1. CASE Sh!Quit
  <2>1. Head(input) \in Sh!LineKinds /\ Tail(input) \in Seq(Sh!LineKinds)
    BY <1>1 DEF Sh!Quit
  <2>2. quit'
    BY <1>1, <2>1 DEF Sh!Quit, Sh!Stripped, Sh!AsksToQuit, Sh!LineKinds
  <2> QED
    BY <1>1, <2>1, <2>2 DEF Sh!Quit
<1>2. CASE Sh!ReadLine
  <2>1. /\ pc = "prompt" /\ pc' \in {"prompt", "fork"} /\ UNCHANGED <<st, stops, quit>>
        /\ Head(input) \in Sh!LineKinds /\ Tail(input) \in Seq(Sh!LineKinds)
    BY <1>2 DEF Sh!ReadLine
  <2>2. \/ input' = Tail(input)
        \/ \E r \in Sh!LineKinds : input' = <<r>> \o Tail(input)
    BY <1>2 DEF Sh!ReadLine, Sh!Rests
  <2>3. input' \in Seq(Sh!LineKinds)
    <3>1. CASE input' = Tail(input)
      BY <2>1, <3>1
    <3>2. ASSUME NEW r \in Sh!LineKinds, input' = <<r>> \o Tail(input)
          PROVE  input' \in Seq(Sh!LineKinds)
      <4>1. <<r>> \in Seq(Sh!LineKinds)
        OBVIOUS
      <4> QED
        BY <2>1, <3>2, <4>1
    <3> QED
      BY <2>2, <3>1, <3>2
  <2> QED
    BY <1>10, <2>1, <2>3
<1>3. CASE Sh!Eof
  BY <1>3, <1>10 DEF Sh!Eof
<1>4. CASE Sh!Fork
  <2>1. /\ pc = "fork" /\ pc' = "wait" /\ st' = Append(st, "run")
        /\ UNCHANGED <<input, stops, quit>>
    BY <1>4 DEF Sh!Fork
  <2>2. /\ Len(st') = Len(st) + 1 /\ st'[Len(st) + 1] = "run"
        /\ \A c \in 1..Len(st) : st'[c] = st[c]
        /\ st' \in Seq(States) /\ DOMAIN st' = 1..(Len(st) + 1)
    BY <1>0, <2>1
  <2>3. Len(st) + 1 \notin Sh!Unreaped
    BY <1>0 DEF Sh!Unreaped
  <2>4. Sh!Unreaped' = Sh!Unreaped \cup {Len(st) + 1}
    BY <1>0, <2>2 DEF Sh!Unreaped, Sh!Kids
  <2>5. ShLeft' = ShLeft + 1
    <3> HIDE DEF ShInv
    <3>1. Cardinality(Sh!Unreaped \cup {Len(st) + 1}) = Cardinality(Sh!Unreaped) + 1
      BY <1>0, <2>3, FS_AddElement
    <3> QED
      BY <2>4, <3>1 DEF ShLeft
  <2> QED
    BY <2>1, <2>2, <2>5
<1>5. CASE Sh!ForkFails
  BY <1>5, <1>10 DEF Sh!ForkFails
<1>6. CASE Sh!WaitEnded
  <2>1. Sh!Unreaped # {}
    <3>1. ShLeft # 0
      BY <1>6 DEF Sh!WaitEnded
    <3> QED
      BY <3>1, FS_EmptySet DEF ShLeft
  <2>2. PICK c \in Sh!Kids : st[c] = "zombie" /\ st' = [st EXCEPT ![c] = "gone"]
    BY <1>6, <2>1 DEF Sh!WaitEnded
  <2>3. pc = "wait" /\ pc' = "prompt" /\ UNCHANGED <<input, stops, quit>>
    BY <1>6, <2>1 DEF Sh!WaitEnded
  <2>4. st' \in Seq(States) /\ DOMAIN st' = Sh!Kids
    BY <1>0, <2>2 DEF Sh!Kids
  <2>5. c \in Sh!Unreaped /\ Sh!Unreaped' = Sh!Unreaped \ {c}
    BY <1>0, <2>2, <2>4 DEF Sh!Unreaped, Sh!Kids
  <2>6. ShLeft' = ShLeft - 1
    <3> HIDE DEF ShInv
    <3>1. Cardinality(Sh!Unreaped \ {c}) = Cardinality(Sh!Unreaped) - 1
      BY <1>0, <2>5, FS_RemoveElement
    <3> QED
      BY <2>5, <3>1 DEF ShLeft
  <2> QED
    BY <2>3, <2>4, <2>6
<1>7. CASE Sh!WaitStopped
  BY <1>7, <1>10 DEF Sh!WaitStopped
<1>8. ASSUME NEW c, Sh!ChildEnds(c) \/ Sh!Stop(c) \/ Sh!Continue(c)
      PROVE  ShInv'
  <2>1. PICK new \in {"zombie", "stopped", "run"} :
          /\ c \in Sh!Kids /\ st[c] # "gone" /\ st' = [st EXCEPT ![c] = new]
          /\ UNCHANGED <<pc, input, stops, quit>>
    BY <1>8 DEF Sh!ChildEnds, Sh!Stop, Sh!Continue
  <2>2. st' \in Seq(States) /\ DOMAIN st' = Sh!Kids
    BY <1>0, <2>1 DEF Sh!Kids
  <2>3. Sh!Unreaped' = Sh!Unreaped
    BY <1>0, <2>1, <2>2 DEF Sh!Unreaped, Sh!Kids
  <2>4. ShLeft' = ShLeft
    BY <2>3 DEF ShLeft
  <2> QED
    BY <2>1, <2>2, <2>4
<1> QED
  BY <1>1, <1>2, <1>3, <1>4, <1>5, <1>6, <1>7, <1>8, <1>9
     DEF Sh!Next, Sh!mysh, Sh!mysh_simple, Sh!Loop

\* The accounts follow from the invariant.
LEMMA ShSafe == ASSUME ShInv PROVE Sh!OneWaitPerChild /\ Sh!OnlyQEnds
<1> USE DEF ShInv
<1>1. Sh!OnlyQEnds
  BY DEF Sh!OnlyQEnds
<1>2. pc = "wait" => Sh!Unreaped # {}
  <2>1. pc = "wait" => ShLeft # 0
    OBVIOUS
  <2> QED
    BY <2>1, FS_EmptySet DEF ShLeft
<1>3. pc \in {"prompt", "fork", "spin"} => Cardinality(Sh!Unreaped) = stops
  BY DEF ShLeft
<1> QED
  BY <1>1, <1>2, <1>3
     DEF Sh!OneWaitPerChild, Sh!Cardinality, Sh!IsFiniteSet, Cardinality, IsFiniteSet

-----------------------------------------------------------------------------
(* The other programs, and one of all of them in each behaviour.           *)

CONSTANTS MaxRuns, MaxMsg,       \* pairs: bound on starts; attr.mq_maxmsg
          Senders, PrioMax, QueueMax, MaxStarts,   \* POSIX queue
          Writers, Readers,      \* System V queue
          MAX, CAP, Lines,       \* pipes: sizes
          ObjectRuns, NUM, LINELENGTH, SIZE   \* named objects: bound on runs, sizes
VARIABLES run, name, zero, gone, left, par, chi, at, prio, queue, recv, buf, printed,
          lost, since, starts, got, wrs, rds, chan, line, eof, wrs2, rds2, chan2, copied,
          wpc, rpc, wruns, rruns, obj, wobj, robj, mem, wp, rp, lines, shown, clean,
          fresh, killed, end

VARIABLE program     \* the program of this behaviour

\* Programs whose properties are only model-checked.
Pair    == INSTANCE Handover
Prio    == INSTANCE PosixMq
Typed   == INSTANCE SysvMq
Unnamed == INSTANCE Pipes
Objects == INSTANCE NamedObjects WITH MaxRuns <- ObjectRuns

vars == <<program, main, exists, val, otime, undo, pc, tries, key, last, id, kind, run,
          name, zero, gone, left, par, chi, seen, udata, sem, named, i, k, out, at,
          prio, queue, recv, buf, printed, lost, since, starts, got, wrs, rds, chan,
          line, eof, wrs2, rds2, chan2, copied, made, st, ppid, ij, done, input, nl,
          cmd, told, stops, stopped, quit, wpc, rpc, wruns, rruns, obj, wobj, robj, mem,
          wp, rp, lines, shown, clean, fresh, killed, end>>

\* The variables that one program alone has, and their value when another runs.
ownDemo == <<key, last, id>>
ownPair == <<run, name, zero, gone, left, par, chi>>
ownNamed == <<named, out, udata, i, k>>
ownPrio == <<prio, recv, buf, printed, lost, since, starts>>
ownUnnamed == <<wrs, rds, chan, line, eof, wrs2, rds2, chan2, copied>>
ownFamily == <<made, ppid, ij, done>>
ownSh == <<input, nl, cmd, told, stops, stopped, quit>>
ownObjects == <<wpc, rpc, wruns, rruns, obj, wobj, robj, mem, wp, rp, lines, shown,
                clean, fresh, killed, end>>

noDemo == key = 0 /\ last = 0 /\ id = 0
noPair == run = 0 /\ name = 0 /\ zero = 0 /\ gone = 0 /\ left = 0 /\ par = 0 /\ chi = 0
noNamed == named = 0 /\ out = 0 /\ udata = 0 /\ i = 0 /\ k = 0
noPrio == prio = 0 /\ recv = 0 /\ buf = 0 /\ printed = 0 /\ lost = 0 /\ since = 0
          /\ starts = 0
noUnnamed == wrs = 0 /\ rds = 0 /\ chan = 0 /\ line = 0 /\ eof = 0 /\ wrs2 = 0
             /\ rds2 = 0 /\ chan2 = 0 /\ copied = 0
noFamily == made = 0 /\ ppid = 0 /\ ij = 0 /\ done = 0
noSh == input = 0 /\ nl = 0 /\ cmd = 0 /\ told = 0 /\ stops = 0 /\ stopped = 0
        /\ quit = 0
noObjects == wpc = 0 /\ rpc = 0 /\ wruns = 0 /\ rruns = 0 /\ obj = 0 /\ wobj = 0
             /\ robj = 0 /\ mem = 0 /\ wp = 0 /\ rp = 0 /\ lines = 0 /\ shown = 0
             /\ clean = 0 /\ fresh = 0 /\ killed = 0 /\ end = 0

Init ==
  \/ /\ program = "file_lock" /\ File!Init /\ noDemo /\ noPair /\ noNamed /\ noPrio
     /\ noUnnamed /\ noFamily /\ noSh /\ noObjects /\ kind = 0 /\ seen = 0 /\ sem = 0
     /\ at = 0 /\ queue = 0 /\ got = 0 /\ st = 0
  \/ /\ program = "semdemo" /\ Demo!Init /\ main = 0 /\ noPair /\ noNamed /\ noPrio
     /\ noUnnamed /\ noFamily /\ noSh /\ noObjects /\ exists = 0 /\ kind = 0
     /\ seen = 0 /\ sem = 0 /\ at = 0 /\ queue = 0 /\ got = 0 /\ st = 0
  \/ /\ program = "pair" /\ Pair!Init /\ main = 0 /\ noDemo /\ noNamed /\ noPrio
     /\ noUnnamed /\ noFamily /\ noSh /\ noObjects /\ exists = 0 /\ otime = 0
     /\ undo = 0 /\ pc = 0 /\ tries = 0 /\ sem = 0 /\ at = 0 /\ queue = 0 /\ got = 0
     /\ st = 0
  \/ /\ program = "named" /\ Named!Init /\ main = 0 /\ noDemo /\ noPair /\ noPrio
     /\ noUnnamed /\ noFamily /\ noSh /\ noObjects /\ exists = 0 /\ val = 0
     /\ otime = 0 /\ undo = 0 /\ tries = 0 /\ seen = 0 /\ queue = 0 /\ got = 0
     /\ st = 0 /\ at = 0
  \/ /\ program = "posix_mq" /\ Prio!Init /\ main = 0 /\ noDemo /\ noPair /\ noNamed
     /\ noUnnamed /\ noFamily /\ noSh /\ noObjects /\ val = 0 /\ otime = 0 /\ undo = 0
     /\ pc = 0 /\ tries = 0 /\ kind = 0 /\ seen = 0 /\ sem = 0 /\ got = 0 /\ st = 0
  \/ /\ program = "sysv_mq" /\ Typed!Init /\ main = 0 /\ noDemo /\ noPair /\ noNamed
     /\ noPrio /\ noUnnamed /\ noFamily /\ noSh /\ noObjects /\ val = 0 /\ otime = 0
     /\ undo = 0 /\ pc = 0 /\ tries = 0 /\ kind = 0 /\ seen = 0 /\ sem = 0 /\ st = 0
  \/ /\ program = "pipes" /\ Unnamed!Init /\ main = 0 /\ noDemo /\ noPair /\ noNamed
     /\ noPrio /\ noFamily /\ noSh /\ noObjects /\ exists = 0 /\ val = 0 /\ otime = 0
     /\ undo = 0 /\ tries = 0 /\ seen = 0 /\ sem = 0 /\ at = 0 /\ queue = 0 /\ st = 0
  \/ /\ program = "forks" /\ Family!Init /\ main = 0 /\ noDemo /\ noPair /\ noNamed
     /\ noPrio /\ noUnnamed /\ noSh /\ noObjects /\ exists = 0 /\ val = 0 /\ otime = 0
     /\ undo = 0 /\ tries = 0 /\ sem = 0 /\ at = 0 /\ queue = 0 /\ got = 0
  \/ /\ program = "shell" /\ Sh!Init /\ main = 0 /\ noDemo /\ noPair /\ noNamed
     /\ noPrio /\ noUnnamed /\ noFamily /\ noObjects /\ exists = 0 /\ val = 0
     /\ otime = 0 /\ undo = 0 /\ tries = 0 /\ seen = 0 /\ sem = 0 /\ at = 0
     /\ queue = 0 /\ got = 0
  \/ /\ program = "objects" /\ Objects!Init /\ main = 0 /\ noDemo /\ noPair /\ noNamed
     /\ noPrio /\ noUnnamed /\ noFamily /\ noSh /\ exists = 0 /\ val = 0 /\ otime = 0
     /\ undo = 0 /\ pc = 0 /\ tries = 0 /\ seen = 0 /\ at = 0 /\ queue = 0 /\ got = 0
     /\ st = 0

Next ==
  \/ /\ program = "file_lock" /\ File!Next
     /\ UNCHANGED <<program, ownDemo, ownPair, ownNamed, ownPrio, ownUnnamed, ownFamily,
                    ownSh, ownObjects, kind, seen, sem, at, queue, got, st>>
  \/ /\ program = "semdemo" /\ Demo!Next
     /\ UNCHANGED <<program, main, ownPair, ownNamed, ownPrio, ownUnnamed, ownFamily,
                    ownSh, ownObjects, exists, kind, seen, sem, at, queue, got, st>>
  \/ /\ program = "pair" /\ Pair!Next
     /\ UNCHANGED <<program, main, ownDemo, ownNamed, ownPrio, ownUnnamed, ownFamily,
                    ownSh, ownObjects, exists, otime, undo, pc, tries, sem, at, queue,
                    got, st>>
  \/ /\ program = "named" /\ Named!Next
     /\ UNCHANGED <<program, main, ownDemo, ownPair, ownPrio, ownUnnamed, ownFamily,
                    ownSh, ownObjects, exists, val, otime, undo, tries, seen, queue,
                    got, st, at>>
  \/ /\ program = "posix_mq" /\ Prio!Next
     /\ UNCHANGED <<program, main, ownDemo, ownPair, ownNamed, ownUnnamed, ownFamily,
                    ownSh, ownObjects, val, otime, undo, pc, tries, kind, seen, sem,
                    got, st>>
  \/ /\ program = "sysv_mq" /\ Typed!Next
     /\ UNCHANGED <<program, main, ownDemo, ownPair, ownNamed, ownPrio, ownUnnamed,
                    ownFamily, ownSh, ownObjects, val, otime, undo, pc, tries, kind,
                    seen, sem, st>>
  \/ /\ program = "pipes" /\ Unnamed!Next
     /\ UNCHANGED <<program, main, ownDemo, ownPair, ownNamed, ownPrio, ownFamily,
                    ownSh, ownObjects, exists, val, otime, undo, tries, seen, sem, at,
                    queue, st>>
  \/ /\ program = "forks" /\ Family!Next
     /\ UNCHANGED <<program, main, ownDemo, ownPair, ownNamed, ownPrio, ownUnnamed,
                    ownSh, ownObjects, exists, val, otime, undo, tries, sem, at, queue,
                    got>>
  \/ /\ program = "shell" /\ Sh!Next
     /\ UNCHANGED <<program, main, ownDemo, ownPair, ownNamed, ownPrio, ownUnnamed,
                    ownFamily, ownObjects, exists, val, otime, undo, tries, seen, sem,
                    at, queue, got>>
  \/ /\ program = "objects" /\ Objects!Next
     /\ UNCHANGED <<program, main, ownDemo, ownPair, ownNamed, ownPrio, ownUnnamed,
                    ownFamily, ownSh, exists, val, otime, undo, pc, tries, seen, at,
                    queue, got, st>>

file_vars == File!vars
demo_vars == Demo!vars
pair_vars == Pair!vars
named_vars == Named!vars
prio_vars == Prio!vars
typed_vars == Typed!vars
unnamed_vars == Unnamed!vars
family_vars == Family!vars
sh_vars == Sh!vars
objects_vars == Objects!vars

Spec == Init /\ [][Next]_vars

\* Every process runs when it can; one may be killed at any time.
FairSpec ==
  /\ Spec
  /\ \A p \in Processes : WF_file_vars(program = "file_lock" /\ File!Proc(p))
  /\ \A p \in Processes : WF_demo_vars(program = "semdemo" /\ Demo!Proc(p))
  /\ WF_pair_vars(program = "pair" /\ Pair!ParentStep)
  /\ WF_pair_vars(program = "pair" /\ Pair!Child)
  /\ WF_named_vars(program = "named" /\ (Named!Fork \/ Named!WaitChild))
  /\ \A q \in Named!Procs : WF_named_vars(program = "named" /\ Named!Proc(q))
  /\ WF_prio_vars(program = "posix_mq" /\ (Prio!Receive \/ Prio!Show))
  /\ \A s \in Senders : WF_prio_vars(program = "posix_mq" /\ Prio!Sender(s))
  /\ \A w \in Writers : WF_typed_vars(program = "sysv_mq" /\ Typed!Writer(w))
  /\ \A r \in Readers : WF_typed_vars(program = "sysv_mq" /\ Typed!Reader(r))
  /\ WF_unnamed_vars(program = "pipes" /\ Unnamed!Sender)
  /\ WF_unnamed_vars(program = "pipes" /\ Unnamed!Child)
  /\ WF_unnamed_vars(program = "pipes" /\ Unnamed!Who)
  /\ WF_unnamed_vars(program = "pipes" /\ Unnamed!Wc)
  /\ WF_unnamed_vars(program = "pipes" /\ Unnamed!Whopipe)
  /\ WF_family_vars(program = "forks" /\ Family!Parent)
  /\ \A c \in Family!Children :
       WF_family_vars(program = "forks" /\ (Family!Child(c) \/ Family!InitReaps(c)))
  /\ WF_sh_vars(program = "shell" /\ Sh!Loop)
  /\ \A c \in 1..(2 * MaxLines) : WF_sh_vars(program = "shell" /\ Sh!ChildEnds(c))
  /\ WF_objects_vars(program = "objects" /\ Objects!Program)

ASSUME Constants ==
  /\ File!SysvFileLockAssumption /\ Demo!SemDemoAssumption
  /\ Pair!HandoverAssumption /\ Named!PosixSemAssumption
  /\ Prio!PosixMqAssumption /\ Typed!SysvMqAssumption
  /\ Unnamed!PipesAssumption /\ Family!ForksAssumption /\ Sh!ShellAssumption
  /\ Objects!NamedObjectsAssumption

-----------------------------------------------------------------------------
(* Properties.                                                             *)

\* The variables of the programs that run have their types.
TypeOK ==
  CASE program = "file_lock" -> File!TypeOK
    [] program = "semdemo" -> Demo!TypeOK
    [] program = "pair" -> Pair!TypeOK
    [] program = "named" -> Named!TypeOK
    [] program = "posix_mq" -> Prio!TypeOK
    [] program = "sysv_mq" -> Typed!TypeOK
    [] program = "pipes" -> Unnamed!TypeOK
    [] program = "forks" -> Family!TypeOK
    [] program = "shell" -> Sh!TypeOK
    [] program = "objects" -> Objects!TypeOK

\* One process at a time works on the file, whatever mix of sem1.c and sem2.c
\* runs, whoever is killed, and also when sem2.c sets the value under a lock.
\* semdemo.c: a set of the key is a lock for those that use it, also after it was
\* removed and replaced.  The named POSIX semaphore: parent and child are not
\* both at output.txt, nor in the region if the semaphore orders them.
MutualExclusion ==
  CASE program = "file_lock" -> File!MutualExclusion
    [] program = "semdemo" -> Demo!MutualExclusion
    [] program = "named" -> Named!OneInside
    [] OTHER -> TRUE

\* The value of the semaphore is right. sem1.c: it tells exactly whether a live
\* process has the lock, so a death never leaves the file locked and a late undo
\* never unlocks somebody else; the unlock, with IPC_NOWAIT, never finds 0, with
\* sem2.c on the same key neither. semdemo.c: the unit of the set is in the
\* semaphore or with the process that has to give it back, and nobody gets past
\* "wait for other process to initialize the semaphore" (semdemo.c:59) with a set
\* its creator has not freed yet.
UnitConserved ==
  CASE program = "file_lock" -> File!UnlockSucceeds /\ File!ValueIsHolder
    [] program = "semdemo" -> Demo!UnitConserved /\ Demo!InitialisedBeforeUse
    [] OTHER -> TRUE


\* A parent knows of its children.  The fork() programs: one that waits for all
\* leaves neither orphan nor zombie, and a zombie stays only while its parent is
\* there and has not declined to be told.  The shells: at the prompt there are as
\* many children left as stops were reported, and only q ends the shell.
ChildrenAccounted ==
  /\ program = "forks" => Family!AllChildrenDead /\ Family!ZombieHasParent
  /\ program = "shell" => Sh!OneWaitPerChild /\ Sh!OnlyQEnds

\* The process waits for its lock.
Waits(p) ==
  \/ program = "file_lock" /\ File!NoSem2 /\ pc[p] = "lock"
  \/ program = "semdemo" /\ pc[p] = "press"

\* Writer and reader of the FIFO have met, or the POSIX reader waits and was told.
Met == program = "objects" /\ (Objects!Meeting \/ Objects!Posted)

\* Nobody waits for ever: a process that wants the lock of sem1.c gets it or dies; one
\* that wants the lock of semdemo.c gets it or finds the set removed.  A writer and a
\* reader that have met at a FIFO go on, and so does the POSIX reader that was told.
LockObtained ==
  /\ \A p \in Processes : []<>(~ Waits(p))
  /\ []<>(~ Met)

\* The other programs end.  The pairs: unless they are stuck on what a killed run
\* left.  named_sem_demo.c: unless one of the two exits with the lock.  A sender:
\* unless there is no receiver to make room.  The reader of msg1_r.c: when it is
\* alone and two writers have run.  The pipes: all processes, however the line ends
\* and whoever dies.  The fork() programs: nothing of a family is left, unless the
\* parent never ends.  The shells: at q, at the end of the input, or in wait() for
\* a child that stays stopped.
ProgramEnds ==
  <>[](CASE program = "pair"     -> par \in Pair!Over \/ Pair!StuckOnLeftover
         [] program = "named"    -> Named!BothEnded
         [] program = "posix_mq" -> \A s \in Senders : Prio!SenderEnded(s)
         [] program = "sysv_mq"  ->
              \A r \in Readers : Typed!Alone(r) => Typed!ReaderEnded(r)
         [] program = "pipes"    -> Unnamed!Over
         [] program = "forks"    -> Family!StaysUp \/ Family!Over
         [] program = "shell"    -> Sh!Resting
         [] OTHER -> TRUE)

-----------------------------------------------------------------------------
(* Proofs, from those of the programs.                                     *)

\* The invariant of the program that runs.
IpcInv ==
  /\ program = "file_lock" => FileInv
  /\ program = "semdemo" => DemoInv
  /\ program = "named" => NamedInv
  /\ program = "forks" => FamilyInv
  /\ program = "shell" => ShInv

\* These programs start with their invariants.
LEMMA IpcInit == Init => IpcInv
BY Constants, FileInit, DemoInit, NamedInit, FamilyInit, ShInit, Zenon
   DEF Init, IpcInv

\* A step of one program keeps its invariant; the program that runs stays the same.
LEMMA IpcNext == IpcInv /\ [Next]_vars => IpcInv'
<1> SUFFICES ASSUME IpcInv, [Next]_vars PROVE IpcInv'
  OBVIOUS
<1>1. /\ program' = program
      /\ program = "file_lock" => File!Next \/ UNCHANGED File!vars
      /\ program = "semdemo" => Demo!Next \/ UNCHANGED Demo!vars
      /\ program = "named" => Named!Next \/ UNCHANGED Named!vars
      /\ program = "forks" => Family!Next \/ UNCHANGED Family!vars
      /\ program = "shell" => Sh!Next \/ UNCHANGED Sh!vars
  BY Zenon DEF Next, vars, File!vars, Demo!vars, Named!vars, Family!vars, Sh!vars
<1>2. program = "file_lock" => FileInv'
  BY <1>1, Constants, FileNext DEF IpcInv
<1>3. program = "semdemo" => DemoInv'
  BY <1>1, Constants, DemoNext DEF IpcInv
<1>4. program = "named" => NamedInv'
  BY <1>1, Constants, NamedNext DEF IpcInv
<1>5. program = "forks" => FamilyInv'
  BY <1>1, Constants, FamilyNext DEF IpcInv
<1>6. program = "shell" => ShInv'
  BY <1>1, Constants, ShNext DEF IpcInv
<1> QED
  BY <1>1, <1>2, <1>3, <1>4, <1>5, <1>6 DEF IpcInv

\* The invariant holds throughout.
LEMMA IpcInvariant == Spec => []IpcInv
BY IpcInit, IpcNext, PTL DEF Spec

\* It implies the properties.
LEMMA IpcSafe == IpcInv => MutualExclusion /\ UnitConserved /\ ChildrenAccounted
BY Constants, FileSafe, DemoSafe, NamedSafe, FamilySafe, ShSafe
   DEF IpcInv, MutualExclusion, UnitConserved, ChildrenAccounted

\* Any number of processes in any mix of sem1.c and sem2.c, or of simple/sem1.c, keep
\* each other out of the file, whoever is killed; so do those of semdemo.c on one
\* set, whatever semrm.c removes, and parent and child at the named semaphore.
THEOREM LocksExclude == Spec => []MutualExclusion
BY IpcInvariant, IpcSafe, PTL

\* SEM_UNDO keeps the value of the semaphore right for any number of processes: no
\* death and no late undo loses or doubles the unit, and no unlock finds 0.
THEOREM UndoConserves == Spec => []UnitConserved
BY IpcInvariant, IpcSafe, PTL

\* For any number of children and lines of input: a parent that waits for all leaves
\* neither orphan nor zombie, and at the prompt of a shell as many children are left
\* as stops were reported, so that its wait() never fails.
THEOREM ParentsAccount == Spec => []ChildrenAccounted
BY IpcInvariant, IpcSafe, PTL
=============================================================================
