----------------------------- MODULE Handover ------------------------------
(***************************************************************************)
(* The parent/child pairs of more_demos/hildstrom_ipc_sysv_posix, of       *)
(* older/sem_posix and of shm_posix.  A parent creates a named IPC object, *)
(* forks, signals the child through it or reads from it what the child     *)
(* wrote, waits for the child and removes the name.  In most pairs the     *)
(* child execs a program that opens the object by its name.                *)
(*                                                                         *)
(* The pair can be killed at any point and started again: the object and   *)
(* what is in it stay, and most of the programs open an object that is     *)
(* there already.                                                          *)
(***************************************************************************)
EXTENDS Naturals

CONSTANTS MaxRuns,   \* bound: how often the pair is started
          MaxMsg     \* attr.mq_maxmsg of posix_message_queue_parent.c

\* The values the constants may have.
HandoverAssumption == MaxRuns \in Nat \ {0} /\ MaxMsg \in Nat \ {0}

Sems  == {"posix_sem", "opencsf_sem", "sysv_sem"}
Mqs   == {"posix_mq", "sysv_mq"}
Shms  == {"posix_shm", "sysv_shm", "private_shm", "opencsf_shm"}
Kinds == Sems \cup Mqs \cup Shms

\* The programs without exec(): the child has the handle of the parent.
Inherits == {"opencsf_sem", "opencsf_shm", "private_shm"}

\* Objects with a System V identifier, which may be 0.
Ids == {"sysv_sem", "sysv_mq", "sysv_shm", "private_shm"}

\* Removal destroys these at once; the others live on for who has them open.
DiesAtOnce == {"sysv_sem", "sysv_mq"}

VARIABLES kind,    \* which of the programs
          run,     \* number of starts so far
          name,    \* the name, key or identifier denotes an object
          zero,    \* its System V identifier is 0
          gone,    \* the object the pair uses has been destroyed
          val,     \* semaphore value, messages queued, or the run that wrote last
          left,    \* val as the parent found it
          par, chi,  \* where parent and child are
          seen     \* what the parent read from the memory

vars == <<kind, run, name, zero, gone, val, left, par, chi, seen>>

Init ==
  /\ kind \in Kinds
  /\ run = 0 /\ name = FALSE /\ zero = FALSE /\ gone = FALSE /\ val = 0 /\ left = 0
  /\ par = "none" /\ chi = "none" /\ seen = 0

-----------------------------------------------------------------------------
(* The parent.                                                             *)

\* No parent is running.
Over == {"none", "exit", "failed", "killed"}

Start ==
  /\ par \in Over /\ chi \in {"none", "done", "failed", "killed"}
  /\ run < MaxRuns
  /\ run' = run + 1
  /\ par' = "create" /\ chi' = "none" /\ seen' = 0
  /\ UNCHANGED <<kind, name, zero, gone, val, left>>

\* An object that exists is opened as it is, by all but opencsf_shm, which
\* unlinks the name first, and private_shm, whose object has no name.
Create ==
  /\ par = "create"
  /\ LET found == name /\ kind \notin {"opencsf_shm", "private_shm"}
     IN  /\ val' = IF found THEN val ELSE 0
         /\ zero' \in IF found THEN {zero} ELSE {FALSE, (kind \in Ids)}
  /\ left' = val'
  /\ name' = TRUE /\ gone' = FALSE
  /\ par' = IF kind = "sysv_sem" THEN "raise" ELSE "fork"
  /\ UNCHANGED <<kind, run, chi, seen>>

CreateFails ==
  /\ par = "create"
  /\ par' = "failed"
  /\ name' = (name /\ kind # "opencsf_shm")
  /\ UNCHANGED <<kind, run, zero, gone, val, left, chi, seen>>

\* sysv_semaphore_file_parent.c: semop(+1) before the fork.
Raise ==
  /\ par = "raise"
  /\ val' = val + 1
  /\ par' = "fork"
  /\ UNCHANGED <<kind, run, name, zero, gone, left, chi, seen>>

Fork ==
  /\ par = "fork"
  /\ par' = IF kind \in Shms THEN "wait" ELSE "post"
  /\ chi' = IF kind \in Inherits THEN "act" ELSE "exec"
  /\ UNCHANGED <<kind, run, name, zero, gone, val, left, seen>>

\* The programs of opencsf exit at once, by an assert() or by exit(1).
ForkFails ==
  /\ par = "fork"
  /\ par' = IF kind \in {"opencsf_sem", "opencsf_shm"} THEN "failed" ELSE "cleanup"
  /\ UNCHANGED <<kind, run, name, zero, gone, val, left, chi, seen>>

\* The signal to the child changes val to v; it fails when the object is gone.
Signal(v) ==
  /\ par = "post"
  /\ val' = IF gone THEN val ELSE v
  /\ par' = IF gone THEN "cleanup" ELSE "wait"
  /\ UNCHANGED <<kind, run, name, zero, gone, left, chi, seen>>

\* sem_post().
Post == kind \in {"posix_sem", "opencsf_sem"} /\ Signal(val + 1)

\* mq_send(), which blocks while the queue is full.
SendMq == kind = "posix_mq" /\ val < MaxMsg /\ Signal(val + 1)

\* msgsnd().
SendMsg == kind = "sysv_mq" /\ Signal(val + 1)

\* semop(-1).
Lower == kind = "sysv_sem" /\ (gone \/ val > 0) /\ Signal(val - 1)

\* Mutant of Wait: the parent does not wait for the child.
Wait_Not ==
  /\ par = "wait"
  /\ par' = IF kind \in Shms THEN "read" ELSE "cleanup"
  /\ UNCHANGED <<kind, run, name, zero, gone, val, left, chi, seen>>

\* wait(0).
Wait ==
  /\ par = "wait" /\ chi \in {"done", "failed"}
  /\ par' = IF kind \in Shms THEN "read" ELSE "cleanup"
  /\ UNCHANGED <<kind, run, name, zero, gone, val, left, chi, seen>>

\* The memory stays attached, whoever has removed it.
Read ==
  /\ par = "read"
  /\ seen' = val
  /\ par' = "cleanup"
  /\ UNCHANGED <<kind, run, name, zero, gone, val, left, chi>>

\* Mutant of Removed: the object is closed and not removed.
Removed_Not == UNCHANGED <<name, gone>>

\* The label cleanup.  posix_mq only closes its descriptor, its mq_unlink() is
\* commented out, and a System V object is removed if its identifier is > 0.
Removed ==
  /\ name' = (name /\ (kind = "posix_mq" \/ zero))
  /\ gone' = (gone \/ (kind \in DiesAtOnce /\ ~zero))

Cleanup ==
  /\ par = "cleanup"
  /\ Removed
  /\ par' = "exit"
  /\ UNCHANGED <<kind, run, zero, val, left, chi, seen>>

\* The steps of the process that is the parent.
ParentStep ==
  Create \/ CreateFails \/ Raise \/ Fork \/ ForkFails
    \/ Post \/ SendMq \/ SendMsg \/ Lower \/ Wait \/ Read \/ Cleanup

-----------------------------------------------------------------------------
(* The child.                                                              *)

Exec ==
  /\ chi = "exec"
  /\ chi' = "open"
  /\ UNCHANGED <<kind, run, name, zero, gone, val, left, par, seen>>

\* execl() fails: the child goes to the cleanup of the parent, and removes the
\* object under it.
ExecFails ==
  /\ chi = "exec"
  /\ Removed
  /\ chi' = "failed"
  /\ UNCHANGED <<kind, run, zero, val, left, par, seen>>

Open ==
  /\ chi = "open"
  /\ chi' = IF name THEN "act" ELSE "failed"
  /\ UNCHANGED <<kind, run, name, zero, gone, val, left, par, seen>>

\* The child does what it is there for, and val becomes v.
Does(v) ==
  /\ chi = "act"
  /\ val' = IF gone THEN val ELSE v
  /\ chi' = IF gone THEN "failed" ELSE IF kind = "private_shm" THEN "cleanup" ELSE "done"
  /\ UNCHANGED <<kind, run, name, zero, gone, left, par, seen>>

\* sem_wait().
WaitSem == kind \in {"posix_sem", "opencsf_sem"} /\ val > 0 /\ Does(val - 1)

\* mq_receive().
ReceiveMq == kind = "posix_mq" /\ val > 0 /\ Does(val - 1)

\* msgrcv() of any type.
ReceiveMsg == kind = "sysv_mq" /\ (gone \/ val > 0) /\ Does(val - 1)

\* semop(0), which waits for the value 0.
WaitZero == kind = "sysv_sem" /\ (gone \/ val = 0) /\ Does(val)

\* The text is written into the memory.
WriteShm == kind \in Shms /\ Does(run)

\* sysv_shared_memory_private.c: the child runs into the cleanup, too.
ChildCleanup ==
  /\ chi = "cleanup"
  /\ Removed
  /\ chi' = "done"
  /\ UNCHANGED <<kind, run, zero, val, left, par, seen>>

\* The steps of the other one, in either program.
Child ==
  Exec \/ ExecFails \/ Open \/ WaitSem \/ ReceiveMq \/ ReceiveMsg \/ WaitZero
    \/ WriteShm \/ ChildCleanup

\* ^C, which both processes get.
Kill ==
  /\ par \notin Over
  /\ par' = "killed"
  /\ chi' = IF chi \in {"none", "done", "failed"} THEN chi ELSE "killed"
  /\ UNCHANGED <<kind, run, name, zero, gone, val, left, seen>>

-----------------------------------------------------------------------------
(* The programs.                                                           *)

Parent == Create \/ CreateFails \/ Fork \/ ForkFails \/ Wait \/ Cleanup
ParentExec == Parent \/ Exec \/ ExecFails

posix_semaphore_parent == kind = "posix_sem" /\ (ParentExec \/ Post)
posix_semaphore_child == kind = "posix_sem" /\ (Open \/ WaitSem)
posix_message_queue_parent == kind = "posix_mq" /\ (ParentExec \/ SendMq)
posix_message_queue_child == kind = "posix_mq" /\ (Open \/ ReceiveMq)
posix_shared_memory_parent == kind = "posix_shm" /\ (ParentExec \/ Read)
posix_shared_memory_child == kind = "posix_shm" /\ (Open \/ WriteShm)
sysv_semaphore_file_parent == kind = "sysv_sem" /\ (ParentExec \/ Raise \/ Lower)
sysv_semaphore_file_child == kind = "sysv_sem" /\ (Open \/ WaitZero)
sysv_message_queue_file_parent == kind = "sysv_mq" /\ (ParentExec \/ SendMsg)
sysv_message_queue_file_child == kind = "sysv_mq" /\ (Open \/ ReceiveMsg)
sysv_shared_memory_file_parent == kind = "sysv_shm" /\ (ParentExec \/ Read)
sysv_shared_memory_file_child == kind = "sysv_shm" /\ (Open \/ WriteShm)
sysv_shared_memory_private ==
  kind = "private_shm" /\ (Parent \/ Read \/ WriteShm \/ ChildCleanup)
opencsf_sem_posix == kind = "opencsf_sem" /\ (Parent \/ Post \/ WaitSem)
opencsf_shm_posix == kind = "opencsf_shm" /\ (Parent \/ Read \/ WriteShm)

Program ==
  \/ posix_semaphore_parent \/ posix_semaphore_child
  \/ posix_message_queue_parent \/ posix_message_queue_child
  \/ posix_shared_memory_parent \/ posix_shared_memory_child
  \/ sysv_semaphore_file_parent \/ sysv_semaphore_file_child
  \/ sysv_message_queue_file_parent \/ sysv_message_queue_file_child
  \/ sysv_shared_memory_file_parent \/ sysv_shared_memory_file_child
  \/ sysv_shared_memory_private \/ opencsf_sem_posix \/ opencsf_shm_posix

Next == Start \/ Program \/ Kill

Spec == Init /\ [][Next]_vars
-----------------------------------------------------------------------------
(* Properties.                                                             *)

TypeOK ==
  /\ kind \in Kinds /\ run \in 0..MaxRuns
  /\ name \in BOOLEAN /\ zero \in BOOLEAN /\ gone \in BOOLEAN
  /\ val \in 0..(MaxRuns + 1) /\ left \in 0..MaxRuns /\ seen \in 0..MaxRuns
  /\ par \in Over \cup {"create", "raise", "fork", "post", "wait", "read", "cleanup"}
  /\ chi \in {"none", "exec", "open", "act", "cleanup", "done", "failed", "killed"}
  /\ kind = "posix_mq" => val <= MaxMsg

\* The parent has given the signal, or will not.
Signalled == par \in {"wait", "cleanup"} \cup Over

\* The object is there for a child that is about to open it, or uses it: the
\* parent keeps it until the child has ended.
ChildFindsObject == chi \in {"exec", "open", "act"} => (name /\ ~gone)

\* A child gets past its wait before the parent has posted, sent or decremented
\* only on what an earlier, killed run left in the object: "first" comes
\* before "second".
ChildAfterSignal ==
  (kind \notin Shms /\ chi = "done" /\ ~Signalled) => left > 0

\* What the parent prints from the memory is what the child of this run wrote,
\* whenever that child did write: nothing of an earlier run, and not the empty
\* memory, also when the child has removed the segment already.
ParentReadsChild ==
  (kind \in Shms /\ par \in {"cleanup", "exit"} /\ chi = "done") => seen = run

\* A parent that gets to its end leaves no object behind, but for the queue of
\* posix_mq and a System V object with identifier 0.
NothingLeft == (par = "exit" /\ name) => (kind = "posix_mq" \/ zero)

\* All of the above.
HandedOver ==
  ChildFindsObject /\ ChildAfterSignal /\ ParentReadsChild /\ NothingLeft

\* What a killed run left makes two of the programs wait for ever: the
\* semaphore of sysv_sem does not come down to 0 again, and posix_mq sends to
\* a full queue that a child whose exec failed will not read.
StuckOnLeftover ==
  \/ kind = "sysv_sem" /\ left > 0
  \/ kind = "posix_mq" /\ left = MaxMsg /\ chi = "failed"
=============================================================================
