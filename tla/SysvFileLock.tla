---------------------------- MODULE SysvFileLock ----------------------------
(***************************************************************************)
(* The System V semaphore programs of ipc/SYS_V_ipc/sem that lock a file:  *)
(* real/sem1.c and real/sem2.c, which use the same key, and simple/sem1.c, *)
(* which has a key of its own.                                             *)
(*                                                                         *)
(* All of them lock with one atomic semop() of two operations, "wait until *)
(* the value is 0, then add 1", unlock by subtracting 1, and use SEM_UNDO  *)
(* so that the kernel gives the lock back when a process dies.  They       *)
(* differ in how they get the semaphore.                                   *)
(***************************************************************************)
EXTENDS Integers, FiniteSets

CONSTANTS Procs,    \* the processes
          MaxTries  \* MAX_TRIES of real/sem2.c

\* The values the constants may have.
SysvFileLockAssumption == MaxTries \in Nat \ {0}

VARIABLES main,    \* the program of each process: "sem1", "sem2" or "simple"
          exists,  \* the key has a semaphore; nobody ever removes it
          val,     \* its value
          otime,   \* its sem_otime is not 0: a semop() succeeded
          undo,    \* the kernel's adjustment for the exit of each process
          pc,      \* where each process is in main()
          tries    \* i of the waiting loop of sem2.c

vars == <<main, exists, val, otime, undo, pc, tries>>

\* simple/sem1.c has a key of its own, and a semaphore of its own.
Init ==
  /\ main \in [Procs -> {"sem1", "sem2"}] \cup [Procs -> {"simple"}]
  /\ exists = FALSE /\ val = 0 /\ otime = FALSE
  /\ undo = [p \in Procs |-> 0]
  /\ pc = [p \in Procs |-> "start"]
  /\ tries = [p \in Procs |-> 0]

Go(p, from, to) == pc[p] = from /\ pc' = [pc EXCEPT ![p] = to]

\* semget() with IPC_CREAT|IPC_EXCL that succeeds: a new semaphore is 0.
NewSem ==
  /\ ~exists
  /\ exists' = TRUE /\ val' = 0 /\ otime' = FALSE

-----------------------------------------------------------------------------
(* Getting the semaphore: real/sem1.c.                                     *)

Sem1Fetch(p) ==
  /\ main[p] = "sem1"
  /\ Go(p, "start", IF exists THEN "lock" ELSE "create")
  /\ UNCHANGED <<main, exists, val, otime, undo, tries>>

\* When somebody else created it in between, the program fetches it and exits
\* with "semget failure 2".  Any other failure leaves id = -1, and the lock
\* then fails.
Sem1Create(p) ==
  /\ \/ Go(p, "create", "lock") /\ NewSem
     \/ /\ exists /\ Go(p, "create", "race_lost")
        /\ UNCHANGED <<exists, val, otime>>
     \/ /\ ~exists /\ Go(p, "create", "no_sem")
        /\ UNCHANGED <<exists, val, otime>>
  /\ UNCHANGED <<main, undo, tries>>

-----------------------------------------------------------------------------
(* Getting the semaphore: real/sem2.c.                                     *)

Sem2Create(p) ==
  /\ main[p] = "sem2"
  /\ \/ Go(p, "start", "initelement") /\ NewSem
     \/ /\ exists /\ Go(p, "start", "stat")
        /\ UNCHANGED <<exists, val, otime>>
     \/ /\ ~exists /\ Go(p, "start", "no_sem")
        /\ UNCHANGED <<exists, val, otime>>
  /\ UNCHANGED <<main, undo, tries>>

\* initelement(id, 0, 1): SETVAL also clears the adjustments of all processes.
InitElement(p) ==
  /\ Go(p, "initelement", "lock")
  /\ val' = 1
  /\ undo' = [q \in Procs |-> 0]
  /\ UNCHANGED <<main, exists, otime, tries>>

\* The first IPC_STAT writes a semid_ds over the local variables next to arg:
\* the process is unharmed, or what it does next fails.
StatOverrun(p) ==
  /\ Go(p, "stat", "poll") \/ Go(p, "stat", "failed")
  /\ UNCHANGED <<main, exists, val, otime, undo, tries>>

\* Mutant of Poll: the loop runs to i <= MAX_TRIES.
Poll_OffByOne(p) ==
  /\ pc[p] = "poll"
  /\ tries' = [tries EXCEPT ![p] = @ + 1]
  /\ pc' = [pc EXCEPT ![p] = IF otime THEN "lock"
                             ELSE IF tries'[p] <= MaxTries THEN "poll" ELSE "timeout"]
  /\ UNCHANGED <<main, exists, val, otime, undo>>

\* One iteration of the loop that waits for sem_otime.
Poll(p) ==
  /\ pc[p] = "poll"
  /\ tries' = [tries EXCEPT ![p] = @ + 1]
  /\ pc' = [pc EXCEPT ![p] = IF otime THEN "lock"
                             ELSE IF tries'[p] < MaxTries THEN "poll" ELSE "timeout"]
  /\ UNCHANGED <<main, exists, val, otime, undo>>

-----------------------------------------------------------------------------
(* Getting the semaphore: simple/sem1.c creates it or fetches it.          *)

SimpleCreate(p) ==
  /\ main[p] = "simple"
  /\ \/ Go(p, "start", "lock") /\ NewSem
     \/ /\ exists /\ Go(p, "start", "lock")
        /\ UNCHANGED <<exists, val, otime>>
     \/ /\ ~exists /\ Go(p, "start", "no_sem")
        /\ UNCHANGED <<exists, val, otime>>
  /\ UNCHANGED <<main, undo, tries>>

-----------------------------------------------------------------------------
(* Locking, the work on the file, unlocking.                               *)

\* Mutant of Lock: the wait and the addition are not one operation.
Lock_NoWait(p) ==
  /\ Go(p, "lock", "open")
  /\ val' = val + 1 /\ otime' = TRUE
  /\ undo' = [undo EXCEPT ![p] = @ - 1]
  /\ UNCHANGED <<main, exists, tries>>

\* Mutant of Lock: without SEM_UNDO.
Lock_NoUndo(p) ==
  /\ Go(p, "lock", "open")
  /\ val = 0
  /\ val' = 1 /\ otime' = TRUE
  /\ UNCHANGED <<main, exists, undo, tries>>

\* semop() of both operations, restarted by r_semop() after a signal.
Lock(p) ==
  /\ Go(p, "lock", "open")
  /\ val = 0
  /\ val' = 1 /\ otime' = TRUE
  /\ undo' = [undo EXCEPT ![p] = @ - 1]
  /\ UNCHANGED <<main, exists, tries>>

\* A failed open() exits with the lock held.
OpenFile(p) ==
  /\ Go(p, "open", "write") \/ Go(p, "open", "exit")
  /\ UNCHANGED <<main, exists, val, otime, undo, tries>>

\* The record is written, or the write fails: both unlock and exit.
WriteFile(p) ==
  /\ Go(p, "write", "unlock")
  /\ UNCHANGED <<main, exists, val, otime, undo, tries>>

\* simple/sem1.c unlocks with nsops = 2 and an array of one when fgets() fails:
\* the operation after the array is garbage, and semop() works or fails.
FgetsFails(p) ==
  /\ main[p] = "simple"
  /\ Go(p, "write", "unlock") \/ Go(p, "write", "exit")
  /\ UNCHANGED <<main, exists, val, otime, undo, tries>>

\* Mutant of Unlock: without SEM_UNDO.
Unlock_NoUndo(p) ==
  /\ Go(p, "unlock", "exit")
  /\ val' = IF val > 0 THEN val - 1 ELSE val
  /\ otime' = TRUE
  /\ UNCHANGED <<main, exists, undo, tries>>

\* IPC_NOWAIT: with a value of 0 the call fails, and the program exits.
Unlock(p) ==
  /\ Go(p, "unlock", "exit")
  /\ IF val > 0
       THEN /\ val' = val - 1 /\ otime' = TRUE
            /\ undo' = [undo EXCEPT ![p] = @ + 1]
       ELSE UNCHANGED <<val, otime, undo>>
  /\ UNCHANGED <<main, exists, tries>>

-----------------------------------------------------------------------------
(* The end of a process: the kernel applies its adjustment, not below 0.   *)

Undo(p) ==
  /\ val' = IF val + undo[p] < 0 THEN 0 ELSE val + undo[p]
  /\ undo' = [undo EXCEPT ![p] = 0]
  /\ UNCHANGED <<main, exists, otime, tries>>

Exit(p) == Go(p, "exit", "exited") /\ Undo(p)

Ended == {"race_lost", "no_sem", "failed", "timeout", "exited", "killed"}

Kill(p) ==
  /\ pc[p] \notin Ended
  /\ pc' = [pc EXCEPT ![p] = "killed"]
  /\ Undo(p)

-----------------------------------------------------------------------------
Proc(p) ==
  \/ Sem1Fetch(p) \/ Sem1Create(p)
  \/ Sem2Create(p) \/ InitElement(p) \/ StatOverrun(p) \/ Poll(p)
  \/ SimpleCreate(p)
  \/ Lock(p) \/ OpenFile(p) \/ WriteFile(p) \/ FgetsFails(p) \/ Unlock(p) \/ Exit(p)

Next == \E p \in Procs : Proc(p) \/ Kill(p)

Spec == Init /\ [][Next]_vars

\* Every process runs when it can.
FairSpec == Spec /\ \A p \in Procs : WF_vars(Proc(p))

-----------------------------------------------------------------------------
(* Properties.                                                             *)

PC == {"start", "create", "initelement", "stat", "poll", "lock", "open", "write",
       "unlock", "exit"} \cup Ended

Inside == {p \in Procs : pc[p] \in {"open", "write", "unlock"}}

\* Every variable has its type.
TypeOK ==
  /\ main \in [Procs -> {"sem1", "sem2", "simple"}]
  /\ exists \in BOOLEAN /\ otime \in BOOLEAN
  /\ val \in Nat
  /\ undo \in [Procs -> {-1, 0, 1}]
  /\ pc \in [Procs -> PC]
  /\ tries \in [Procs -> 0..MaxTries]

\* One process at a time works on the file, whatever mix of the programs runs,
\* whoever is killed, and also when sem2.c sets the value under a lock.
MutualExclusion == \A p, q \in Inside : p = q

\* What makes it inductive: a lock that is held shows in the value, and a
\* pending decrement belongs to a process that holds the lock.
HeldIsCounted ==
  /\ Inside # {} => val > 0
  /\ \A p \in Procs : undo[p] < 0 => (p \in Inside \/ pc[p] = "exit")
  /\ \A p \in Procs : undo[p] < 0 => \A q \in Inside : q = p

\* The unlock with IPC_NOWAIT never finds the value 0.
UnlockSucceeds == \A p \in Procs : pc[p] = "unlock" => val > 0

NoSem2 == \A p \in Procs : main[p] # "sem2"

\* Without sem2.c the value tells exactly whether a live process holds the
\* lock (one that is about to exit with the lock counts), so a death never
\* leaves the file locked and a late undo never unlocks somebody else.
ValueIsHolder ==
  NoSem2 =>
    /\ val = Cardinality({p \in Procs : undo[p] = -1})
    /\ \A p \in Procs : pc[p] \in {"open", "write", "unlock"} => undo[p] = -1

\* "the process that initialized the semaphore has successfully called semop
\* (which it must do)" (real/sem2.c:142-144).
InitialiserLocks ==
  \A p \in Procs : main[p] = "sem2" /\ pc[p] = "lock" ~> pc[p] # "lock"
=============================================================================
