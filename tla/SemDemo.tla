------------------------------ MODULE SemDemo -------------------------------
(***************************************************************************)
(* ipc/SYS_V_ipc/sem/real/beej: processes of semdemo.c create, or wait for *)
(* the initialisation of, a System V semaphore and use it as a lock;       *)
(* semrm.c removes it.  A removed set and a new one under the same key are *)
(* different sets, numbered in the order of their creation (0: none).      *)
(***************************************************************************)
EXTENDS Integers, FiniteSets

CONSTANTS Procs,       \* processes that run semdemo.c
          Removers,    \* processes that run semrm.c
          MaxRetries,  \* MAX_RETRIES
          MaxSets      \* bound: sets created in a behaviour

\* The values the constants may have.
SemDemoAssumption ==
  /\ Procs \cap Removers = {}
  /\ MaxRetries \in Nat \ {0} /\ MaxSets \in Nat \ {0}

Sets == 1..MaxSets

VARIABLES key,    \* the set the key denotes
          last,   \* number of sets created
          val,    \* value of each set's only semaphore
          otime,  \* sem_otime of each set is not 0
          undo,   \* adjustment the kernel makes when a process exits
          id,     \* semid of each process
          tries,  \* i in initsem()
          pc

vars == <<key, last, val, otime, undo, id, tries, pc>>

All == Procs \cup Removers

Init ==
  /\ key = 0 /\ last = 0
  /\ val = [g \in Sets |-> 0] /\ otime = [g \in Sets |-> FALSE]
  /\ undo = [p \in Procs |-> 0]
  /\ id = [p \in All |-> 0]
  /\ tries = [p \in Procs |-> 0]
  /\ pc = [p \in All |-> IF p \in Procs THEN "initsem" ELSE "rm_semget"]

Go(p, from, to) == pc[p] = from /\ pc' = [pc EXCEPT ![p] = to]

\* The set of the process has not been removed.
Valid(p) == id[p] # 0 /\ id[p] = key

-----------------------------------------------------------------------------
(* initsem().                                                              *)

CreateSet(p) ==
  /\ Go(p, "initsem", "first_semop")
  /\ key = 0 /\ last < MaxSets
  /\ last' = last + 1 /\ key' = last + 1
  /\ id' = [id EXCEPT ![p] = last + 1]
  /\ UNCHANGED <<val, otime, undo, tries>>

\* EEXIST: someone else got it first.
ExistsAlready(p) ==
  /\ Go(p, "initsem", "fetch")
  /\ key # 0
  /\ UNCHANGED <<key, last, val, otime, undo, id, tries>>

\* The creator frees the semaphore with a semop(), which sets sem_otime.
FirstSemop(p) ==
  /\ IF Valid(p)
       THEN /\ Go(p, "first_semop", "press")
            /\ val' = [val EXCEPT ![id[p]] = @ + 1]
            /\ otime' = [otime EXCEPT ![id[p]] = TRUE]
       ELSE Go(p, "first_semop", "failed") /\ UNCHANGED <<val, otime>>
  /\ UNCHANGED <<key, last, undo, id, tries>>

Fetch(p) ==
  /\ Go(p, "fetch", IF key = 0 THEN "failed" ELSE "wait_init")
  /\ id' = [id EXCEPT ![p] = key]
  /\ UNCHANGED <<key, last, val, otime, undo, tries>>

\* The outcomes of IPC_STAT: its failure is not noticed, and buf then keeps what
\* the last call put there, or is uninitialised in the first iteration.
OtimeSeen(p) ==
  IF Valid(p) THEN {otime[id[p]]}
  ELSE IF tries[p] = 0 THEN BOOLEAN ELSE {FALSE}

\* Mutant of WaitInit: the process does not wait for sem_otime.
WaitInit_No(p) ==
  /\ Go(p, "wait_init", "press")
  /\ UNCHANGED <<key, last, val, otime, undo, id, tries>>

\* One iteration of the loop that waits for the initialisation.
WaitInit(p) ==
  /\ pc[p] = "wait_init"
  /\ \E ready \in OtimeSeen(p) :
       /\ tries' = [tries EXCEPT ![p] = @ + 1]
       /\ pc' = [pc EXCEPT ![p] = IF ready THEN "press"
                                  ELSE IF tries'[p] < MaxRetries THEN "wait_init"
                                  ELSE "timeout"]
  /\ UNCHANGED <<key, last, val, otime, undo, id>>

-----------------------------------------------------------------------------
(* main(): lock, unlock (both with SEM_UNDO), exit.                        *)

\* Mutant of Lock: without SEM_UNDO.
Lock_NoUndo(p) ==
  /\ pc[p] = "press" /\ (Valid(p) => val[id[p]] > 0)
  /\ IF Valid(p)
       THEN Go(p, "press", "locked") /\ val' = [val EXCEPT ![id[p]] = @ - 1]
       ELSE Go(p, "press", "failed") /\ UNCHANGED val
  /\ UNCHANGED <<key, last, otime, undo, id, tries>>

\* semop() blocks while the value is 0; it fails when the set is, or gets, removed.
Lock(p) ==
  /\ pc[p] = "press" /\ (Valid(p) => val[id[p]] > 0)
  /\ IF Valid(p)
       THEN /\ Go(p, "press", "locked")
            /\ val' = [val EXCEPT ![id[p]] = @ - 1]
            /\ undo' = [undo EXCEPT ![p] = @ + 1]
       ELSE Go(p, "press", "failed") /\ UNCHANGED <<val, undo>>
  /\ UNCHANGED <<key, last, otime, id, tries>>

\* Mutant of Unlock: without SEM_UNDO, so that the exit gives the unit back again.
Unlock_NoUndo(p) ==
  /\ IF Valid(p)
       THEN Go(p, "locked", "exit") /\ val' = [val EXCEPT ![id[p]] = @ + 1]
       ELSE Go(p, "locked", "failed") /\ UNCHANGED val
  /\ UNCHANGED <<key, last, otime, undo, id, tries>>

Unlock(p) ==
  /\ IF Valid(p)
       THEN /\ Go(p, "locked", "exit")
            /\ val' = [val EXCEPT ![id[p]] = @ + 1]
            /\ undo' = [undo EXCEPT ![p] = @ - 1]
       ELSE Go(p, "locked", "failed") /\ UNCHANGED <<val, undo>>
  /\ UNCHANGED <<key, last, otime, id, tries>>

\* The kernel applies the adjustment if the set still exists.
Undo(p) ==
  /\ val' = IF Valid(p) THEN [val EXCEPT ![id[p]] = @ + undo[p]] ELSE val
  /\ undo' = [undo EXCEPT ![p] = 0]
  /\ UNCHANGED <<key, last, otime, id, tries>>

Exit(p) == Go(p, "exit", "exited") /\ Undo(p)

Ended == {"failed", "timeout", "exited", "killed", "removed"}

Kill(p) == pc[p] \notin Ended /\ pc' = [pc EXCEPT ![p] = "killed"] /\ Undo(p)

-----------------------------------------------------------------------------
(* semrm.c.                                                                *)

RmSemget(r) ==
  /\ Go(r, "rm_semget", IF key = 0 THEN "failed" ELSE "rm_semctl")
  /\ id' = [id EXCEPT ![r] = key]
  /\ UNCHANGED <<key, last, val, otime, undo, tries>>

\* Mutant of RmSemctl: the set under the key is removed and made again.
RmSemctl_Reset(r) ==
  /\ Go(r, "rm_semctl", IF Valid(r) THEN "removed" ELSE "failed")
  /\ val' = IF Valid(r) THEN [val EXCEPT ![key] = 1] ELSE val
  /\ UNCHANGED <<key, last, otime, undo, id, tries>>

RmSemctl(r) ==
  /\ Go(r, "rm_semctl", IF Valid(r) THEN "removed" ELSE "failed")
  /\ key' = IF Valid(r) THEN 0 ELSE key
  /\ UNCHANGED <<last, val, otime, undo, id, tries>>

-----------------------------------------------------------------------------
Proc(p) ==
  \/ CreateSet(p) \/ ExistsAlready(p) \/ FirstSemop(p) \/ Fetch(p) \/ WaitInit(p)
  \/ Lock(p) \/ Unlock(p) \/ Exit(p)

Next ==
  \/ \E p \in Procs : Proc(p) \/ Kill(p)
  \/ \E r \in Removers : RmSemget(r) \/ RmSemctl(r)

Spec == Init /\ [][Next]_vars

-----------------------------------------------------------------------------
(* Properties.                                                             *)

\* Every variable has its type.
TypeOK ==
  /\ key \in 0..last /\ last \in 0..MaxSets
  /\ val \in [Sets -> 0..1] /\ otime \in [Sets -> BOOLEAN]
  /\ undo \in [Procs -> 0..1]
  /\ id \in [All -> 0..last]
  /\ tries \in [Procs -> 0..MaxRetries]
  /\ pc \in [All -> Ended \cup {"initsem", "first_semop", "fetch", "wait_init",
                                "press", "locked", "exit", "rm_semget", "rm_semctl"}]

\* A set is a lock for the processes that use it, to the end, also after it was
\* removed and replaced by another one under the same key.
MutualExclusion ==
  \A p, q \in Procs :
    pc[p] = "locked" /\ pc[q] = "locked" /\ id[p] = id[q] => p = q

\* The unit of the set under the key is in the semaphore or with the process
\* that has to give it back; deaths and unlocks neither lose nor double it.
UnitConserved ==
  key # 0 =>
    val[key] + Cardinality({p \in Procs : id[p] = key /\ undo[p] = 1}) =
      IF otime[key] THEN 1 ELSE 0

\* "wait for other process to initialize the semaphore" (semdemo.c:59): nobody
\* gets past initsem() with a set that its creator has not freed yet.
InitialisedBeforeUse ==
  \A p \in Procs : pc[p] \in {"press", "locked"} /\ Valid(p) => otime[key]
=============================================================================
