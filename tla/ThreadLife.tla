----------------------------- MODULE ThreadLife -----------------------------
(***************************************************************************)
(* The programs about how threads begin and end (cancelled with a cleanup  *)
(* handler, joined or left alone, with data of their own), side by side,   *)
(* with the proof that each is correct for every number of threads: an     *)
(* inductive invariant XInv that holds when the program starts (XInit) and *)
(* that its steps keep (XNext).  A section declares what those before it   *)
(* have not: variables of the same name are shared; MCThreads lets one     *)
(* program run in a behaviour.                                             *)
(***************************************************************************)
EXTENDS Integers, TLAPS

-----------------------------------------------------------------------------
(* strerror().                                                             *)

VARIABLES kind, proc, pc, once, spec, buf, str, mem, heap, frees, shown

Errors == INSTANCE Strerror

\* What the proof uses of the five programs.
LEMMA ErrorsLinked ==
  ASSUME kind \in Errors!Linked
  PROVE  /\ kind.test \in BOOLEAN
         /\ kind.impl \in {"static", "tls", "tsd"}
         /\ kind = Errors!TestStatic <=> (kind.test = TRUE /\ kind.impl = "static")
         /\ kind.impl = "tsd" => kind.test = TRUE
<1> USE DEF Errors!TestStatic, Errors!TestTls, Errors!TestTsd, Errors!EgStatic,
    Errors!EgTls
<1>1. CASE kind = Errors!TestStatic BY <1>1
<1>2. CASE kind = Errors!TestTls BY <1>2
<1>3. CASE kind = Errors!TestTsd BY <1>3
<1>4. CASE kind = Errors!EgStatic BY <1>4
<1>5. CASE kind = Errors!EgTls BY <1>5
<1> HIDE DEF Errors!TestStatic, Errors!TestTls, Errors!TestTsd, Errors!EgStatic,
    Errors!EgTls
<1> QED BY <1>1, <1>2, <1>3, <1>4, <1>5 DEF Errors!Linked

\* strerror_test.c, tls_eg.  The buffer each thread gets from its strerror().
ErrorsOwn(t) ==
  IF kind.impl = "static" THEN 1
  ELSE IF kind.impl = "tls" THEN (IF t = "main" THEN 2 ELSE 3)
  ELSE (IF t = "main" THEN 4 ELSE 5)

\* main() has not created the thread yet; it has collected its end.
ErrorsAlone == pc["main"] \in {"call", "get", "malloc", "set", "copy", "create"}
               \/ (pc["main"] = "print" /\ kind.test = FALSE)
ErrorsJoined == pc["main"] = "exit" \/ (pc["main"] = "print" /\ kind.test = TRUE)

\* The two threads run one after the other.
ErrorsOrder ==
  /\ ErrorsAlone <=> pc["thread"] = "none"
  /\ ErrorsJoined => pc["thread"] = "done"
  /\ pc["main"] # "none" /\ pc["main"] \notin {"end", "done"}
  /\ pc["thread"] \notin {"create", "join", "exit"}

\* With a key, each thread has its own block from the moment it calls malloc().
ErrorsKeys ==
  /\ kind.impl # "tsd" =>
       /\ heap = 0 /\ spec["main"] = 0 /\ spec["thread"] = 0
       /\ \A t \in Errors!Callers : pc[t] \notin {"get", "malloc", "set"}
  /\ kind.impl = "tsd" =>
       /\ pc["main"] \in {"call", "get", "malloc"} => heap = 0 /\ spec["main"] = 0
       /\ pc["main"] = "set" => heap = 1 /\ buf["main"] = 4
       /\ pc["main"] \notin {"call", "get", "malloc", "set"} => spec["main"] = 4
       /\ pc["main"] # "call" => once = TRUE
       /\ pc["thread"] = "none" => spec["thread"] = 0
       /\ pc["thread"] = "none" /\ pc["main"] \notin {"call", "get", "malloc"} => heap = 1
       /\ pc["thread"] \in {"call", "get", "malloc"} => heap = 1 /\ spec["thread"] = 0
       /\ pc["thread"] = "set" => heap = 2 /\ buf["thread"] = 5
       /\ pc["thread"] \notin {"none", "call", "get", "malloc", "set"} =>
            heap = 2 /\ spec["thread"] = 5

\* Each has its own buffer, except with the static one; what a thread has copied stays
\* there, except what main() has in that one; only the thread's block is freed.
ErrorsTexts ==
  /\ \A t \in Errors!Callers : pc[t] = "copy" => buf[t] = ErrorsOwn(t)
  /\ pc["main"] \in {"create", "join", "print", "exit"} =>
       /\ str["main"] = ErrorsOwn("main")
       /\ mem[ErrorsOwn("main")] =
            IF kind.impl = "static" /\ pc["thread"] \in {"print", "end", "done"}
              THEN "thread" ELSE "main"
  /\ pc["thread"] \in {"print", "end", "done"} =>
       str["thread"] = ErrorsOwn("thread") /\ mem[ErrorsOwn("thread")] = "thread"
  /\ \A a \in Errors!Addresses :
       frees[a] = IF a = 5 /\ kind.impl = "tsd" /\ pc["thread"] = "done" THEN 1 ELSE 0

\* All of it.
ErrorsInv ==
  Errors!TypeOK /\ ErrorsOrder /\ ErrorsKeys /\ ErrorsTexts /\ Errors!StringKept

\* The invariant holds when the program starts.
LEMMA ErrorsInit == Errors!Init => ErrorsInv
<1> SUFFICES ASSUME Errors!Init PROVE ErrorsInv OBVIOUS
<1> USE DEF Errors!Init, Errors!Callers, Errors!NULL
<1>1. once \in BOOLEAN BY Zenon
<1>a. pc = [t \in Errors!Callers |-> IF t = "main" THEN "call" ELSE "none"] OBVIOUS
<1>2. Errors!TypeOK BY <1>1, <1>a DEF Errors!TypeOK
<1>3. ErrorsOrder BY <1>a, ErrorsLinked DEF ErrorsOrder, ErrorsAlone, ErrorsJoined
<1>4. ErrorsKeys BY <1>a, ErrorsLinked DEF ErrorsKeys
<1>5. ErrorsTexts BY <1>a DEF ErrorsTexts, Errors!Addresses
<1>6. Errors!StringKept BY DEF Errors!StringKept
<1> QED BY <1>2, <1>3, <1>4, <1>5, <1>6 DEF ErrorsInv

\* The invariant is kept by both threads and by the destructor.
LEMMA ErrorsNext ==
  ASSUME ErrorsInv, Errors!Next \/ UNCHANGED Errors!vars
  PROVE  ErrorsInv'
<1>k. kind' = kind /\ once' \in BOOLEAN
  <2>1. once \in BOOLEAN BY DEF ErrorsInv, Errors!TypeOK
  <2> QED BY Zenon, <2>1
      DEF Errors!Next, Errors!main, Errors!threadFunc, Errors!strerror, Errors!Place,
          Errors!createKey, Errors!Getspecific, Errors!Malloc, Errors!Setspecific,
          Errors!Copy, Errors!Use, Errors!Create, Errors!destructor, Errors!Join,
          Errors!Exit, Errors!Go, Errors!Fails, Errors!vars
<1>l. /\ kind \in Errors!Linked /\ kind.test \in BOOLEAN
      /\ kind.impl \in {"static", "tls", "tsd"}
      /\ kind = Errors!TestStatic <=> (kind.test = TRUE /\ kind.impl = "static")
      /\ kind.impl = "tsd" => kind.test = TRUE
  BY ErrorsLinked DEF ErrorsInv, Errors!TypeOK
<1>o. Errors!TestStatic' = Errors!TestStatic BY DEF Errors!TestStatic
<1> USE <1>k, <1>l, <1>o
    DEF ErrorsInv, Errors!Callers, Errors!NULL, Errors!At, Errors!Go, Errors!Fails,
        Errors!TypeOK
<1>1. ASSUME NEW t \in Errors!Callers, Errors!Place(t) PROVE ErrorsInv'
  <2> USE <1>1
      DEF Errors!Place, Errors!Addresses, Errors!Heap, Errors!Local, Errors!Static
  <2>1. Errors!TypeOK' BY SMTT(30) DEF ErrorsKeys, ErrorsTexts
  <2>2. ErrorsOrder' BY SMTT(30) DEF ErrorsOrder, ErrorsAlone, ErrorsJoined
  <2>3. ErrorsKeys'
    BY SMTT(30) DEF ErrorsOrder, ErrorsKeys, ErrorsAlone, ErrorsJoined
  <2>4. ErrorsTexts'
    BY SMTT(30)
       DEF ErrorsOrder, ErrorsKeys, ErrorsTexts, ErrorsOwn, ErrorsAlone, ErrorsJoined
  <2>5. Errors!StringKept'
    BY SMTT(30)
       DEF Errors!StringKept, ErrorsOrder, ErrorsTexts, ErrorsOwn, ErrorsAlone,
           ErrorsJoined
  <2> QED BY <2>1, <2>2, <2>3, <2>4, <2>5
<1>2. ASSUME NEW t \in Errors!Callers, Errors!createKey(t) PROVE ErrorsInv'
  <2> USE <1>2
      DEF Errors!createKey, Errors!Addresses, Errors!Heap, Errors!Local, Errors!Static
  <2>1. Errors!TypeOK' BY SMTT(30) DEF ErrorsKeys, ErrorsTexts
  <2>2. ErrorsOrder' BY SMTT(30) DEF ErrorsOrder, ErrorsAlone, ErrorsJoined
  <2>3. ErrorsKeys'
    BY SMTT(30) DEF ErrorsOrder, ErrorsKeys, ErrorsAlone, ErrorsJoined
  <2>4. ErrorsTexts'
    BY SMTT(30)
       DEF ErrorsOrder, ErrorsKeys, ErrorsTexts, ErrorsOwn, ErrorsAlone, ErrorsJoined
  <2>5. Errors!StringKept'
    BY SMTT(30)
       DEF Errors!StringKept, ErrorsOrder, ErrorsTexts, ErrorsOwn, ErrorsAlone,
           ErrorsJoined
  <2> QED BY <2>1, <2>2, <2>3, <2>4, <2>5
<1>3. ASSUME NEW t \in Errors!Callers, Errors!Getspecific(t) PROVE ErrorsInv'
  <2> USE <1>3
      DEF Errors!Getspecific, Errors!Addresses, Errors!Heap, Errors!Local, Errors!Static
  <2>1. Errors!TypeOK' BY SMTT(30) DEF ErrorsKeys, ErrorsTexts
  <2>2. ErrorsOrder' BY SMTT(30) DEF ErrorsOrder, ErrorsAlone, ErrorsJoined
  <2>3. ErrorsKeys'
    BY SMTT(30) DEF ErrorsOrder, ErrorsKeys, ErrorsAlone, ErrorsJoined
  <2>4. ErrorsTexts'
    BY SMTT(30)
       DEF ErrorsOrder, ErrorsKeys, ErrorsTexts, ErrorsOwn, ErrorsAlone, ErrorsJoined
  <2>5. Errors!StringKept'
    BY SMTT(30)
       DEF Errors!StringKept, ErrorsOrder, ErrorsTexts, ErrorsOwn, ErrorsAlone,
           ErrorsJoined
  <2> QED BY <2>1, <2>2, <2>3, <2>4, <2>5
<1>4. ASSUME NEW t \in Errors!Callers, Errors!Malloc(t) PROVE ErrorsInv'
  <2> USE <1>4
      DEF Errors!Malloc, Errors!Addresses, Errors!Heap, Errors!Local, Errors!Static
  <2>1. Errors!TypeOK' BY SMTT(30) DEF ErrorsKeys, ErrorsTexts
  <2>2. ErrorsOrder' BY SMTT(30) DEF ErrorsOrder, ErrorsAlone, ErrorsJoined
  <2>3. ErrorsKeys'
    BY SMTT(30) DEF ErrorsOrder, ErrorsKeys, ErrorsAlone, ErrorsJoined
  <2>4. ErrorsTexts'
    BY SMTT(30)
       DEF ErrorsOrder, ErrorsKeys, ErrorsTexts, ErrorsOwn, ErrorsAlone, ErrorsJoined
  <2>5. Errors!StringKept'
    BY SMTT(30)
       DEF Errors!StringKept, ErrorsOrder, ErrorsTexts, ErrorsOwn, ErrorsAlone,
           ErrorsJoined
  <2> QED BY <2>1, <2>2, <2>3, <2>4, <2>5
<1>5. ASSUME NEW t \in Errors!Callers, Errors!Setspecific(t) PROVE ErrorsInv'
  <2> USE <1>5
      DEF Errors!Setspecific, Errors!Addresses, Errors!Heap, Errors!Local, Errors!Static
  <2>1. Errors!TypeOK' BY SMTT(30) DEF ErrorsKeys, ErrorsTexts
  <2>2. ErrorsOrder' BY SMTT(30) DEF ErrorsOrder, ErrorsAlone, ErrorsJoined
  <2>3. ErrorsKeys'
    BY SMTT(30) DEF ErrorsOrder, ErrorsKeys, ErrorsAlone, ErrorsJoined
  <2>4. ErrorsTexts'
    BY SMTT(30)
       DEF ErrorsOrder, ErrorsKeys, ErrorsTexts, ErrorsOwn, ErrorsAlone, ErrorsJoined
  <2>5. Errors!StringKept'
    BY SMTT(30)
       DEF Errors!StringKept, ErrorsOrder, ErrorsTexts, ErrorsOwn, ErrorsAlone,
           ErrorsJoined
  <2> QED BY <2>1, <2>2, <2>3, <2>4, <2>5
<1>6. ASSUME NEW t \in Errors!Callers, Errors!Copy(t) PROVE ErrorsInv'
  <2> USE <1>6
      DEF Errors!Copy, Errors!Addresses, Errors!Heap, Errors!Local, Errors!Static
  <2>1. Errors!TypeOK' BY SMTT(30) DEF ErrorsKeys, ErrorsTexts, ErrorsOwn
  <2>2. ErrorsOrder' BY SMTT(30) DEF ErrorsOrder, ErrorsAlone, ErrorsJoined
  <2>3. ErrorsKeys'
    BY SMTT(30) DEF ErrorsOrder, ErrorsKeys, ErrorsAlone, ErrorsJoined
  <2>4. ErrorsTexts'
    BY SMTT(30)
       DEF ErrorsOrder, ErrorsKeys, ErrorsTexts, ErrorsOwn, ErrorsAlone, ErrorsJoined
  <2>5. Errors!StringKept'
    BY SMTT(30)
       DEF Errors!StringKept, ErrorsOrder, ErrorsTexts, ErrorsOwn, ErrorsAlone,
           ErrorsJoined
  <2> QED BY <2>1, <2>2, <2>3, <2>4, <2>5
<1>7. ASSUME NEW t \in Errors!Callers, Errors!Use(t) PROVE ErrorsInv'
  <2> USE <1>7
      DEF Errors!Use, Errors!Addresses, Errors!Heap, Errors!Local, Errors!Static
  <2>1. Errors!TypeOK' BY SMTT(30) DEF ErrorsKeys, ErrorsTexts
  <2>2. ErrorsOrder' BY SMTT(30) DEF ErrorsOrder, ErrorsAlone, ErrorsJoined
  <2>3. ErrorsKeys'
    BY SMTT(30) DEF ErrorsOrder, ErrorsKeys, ErrorsAlone, ErrorsJoined
  <2>4. ErrorsTexts'
    BY SMTT(30)
       DEF ErrorsOrder, ErrorsKeys, ErrorsTexts, ErrorsOwn, ErrorsAlone, ErrorsJoined
  <2>5. Errors!StringKept'
    BY SMTT(30)
       DEF Errors!StringKept, ErrorsOrder, ErrorsTexts, ErrorsOwn, ErrorsAlone,
           ErrorsJoined
  <2> QED BY <2>1, <2>2, <2>3, <2>4, <2>5
<1>8. CASE Errors!Create
  <2> USE <1>8
      DEF Errors!Create, Errors!Addresses, Errors!Heap, Errors!Local, Errors!Static
  <2>1. Errors!TypeOK' BY SMTT(30) DEF ErrorsKeys, ErrorsTexts
  <2>2. ErrorsOrder' BY SMTT(30) DEF ErrorsOrder, ErrorsAlone, ErrorsJoined
  <2>3. ErrorsKeys'
    BY SMTT(30) DEF ErrorsOrder, ErrorsKeys, ErrorsAlone, ErrorsJoined
  <2>4. ErrorsTexts'
    BY SMTT(30)
       DEF ErrorsOrder, ErrorsKeys, ErrorsTexts, ErrorsOwn, ErrorsAlone, ErrorsJoined
  <2>5. Errors!StringKept' BY DEF Errors!StringKept
  <2> QED BY <2>1, <2>2, <2>3, <2>4, <2>5
<1>9. CASE Errors!destructor
  <2> USE <1>9
      DEF Errors!destructor, Errors!Addresses, Errors!Heap, Errors!Local, Errors!Static
  <2>1. Errors!TypeOK' BY SMTT(30) DEF ErrorsKeys, ErrorsTexts
  <2>2. ErrorsOrder' BY SMTT(30) DEF ErrorsOrder, ErrorsAlone, ErrorsJoined
  <2>3. ErrorsKeys'
    BY SMTT(30) DEF ErrorsOrder, ErrorsKeys, ErrorsAlone, ErrorsJoined
  <2>4. ErrorsTexts'
    BY SMTT(30)
       DEF ErrorsOrder, ErrorsKeys, ErrorsTexts, ErrorsOwn, ErrorsAlone, ErrorsJoined
  <2>5. Errors!StringKept' BY DEF Errors!StringKept
  <2> QED BY <2>1, <2>2, <2>3, <2>4, <2>5
<1>10. CASE Errors!Join
  <2> USE <1>10
      DEF Errors!Join, Errors!Addresses, Errors!Heap, Errors!Local, Errors!Static
  <2>1. Errors!TypeOK' BY SMTT(30) DEF ErrorsKeys, ErrorsTexts
  <2>2. ErrorsOrder' BY SMTT(30) DEF ErrorsOrder, ErrorsAlone, ErrorsJoined
  <2>3. ErrorsKeys'
    BY SMTT(30) DEF ErrorsOrder, ErrorsKeys, ErrorsAlone, ErrorsJoined
  <2>4. ErrorsTexts'
    BY SMTT(30)
       DEF ErrorsOrder, ErrorsKeys, ErrorsTexts, ErrorsOwn, ErrorsAlone, ErrorsJoined
  <2>5. Errors!StringKept' BY DEF Errors!StringKept
  <2> QED BY <2>1, <2>2, <2>3, <2>4, <2>5
<1>11. CASE Errors!Exit
  <2> USE <1>11
      DEF Errors!Exit, Errors!Addresses, Errors!Heap, Errors!Local, Errors!Static
  <2>1. Errors!TypeOK' BY SMTT(30) DEF ErrorsKeys, ErrorsTexts
  <2>2. ErrorsOrder' BY SMTT(30) DEF ErrorsOrder, ErrorsAlone, ErrorsJoined
  <2>3. ErrorsKeys'
    BY SMTT(30) DEF ErrorsOrder, ErrorsKeys, ErrorsAlone, ErrorsJoined
  <2>4. ErrorsTexts'
    BY SMTT(30)
       DEF ErrorsOrder, ErrorsKeys, ErrorsTexts, ErrorsOwn, ErrorsAlone, ErrorsJoined
  <2>5. Errors!StringKept' BY DEF Errors!StringKept
  <2> QED BY <2>1, <2>2, <2>3, <2>4, <2>5
<1>12. CASE UNCHANGED Errors!vars
  <2> USE <1>12 DEF Errors!vars
  <2>1. Errors!TypeOK' OBVIOUS
  <2>2. ErrorsOrder' BY DEF ErrorsOrder, ErrorsAlone, ErrorsJoined
  <2>3. ErrorsKeys' BY DEF ErrorsKeys
  <2>4. ErrorsTexts' BY DEF ErrorsTexts, ErrorsOwn, Errors!Addresses
  <2>5. Errors!StringKept' BY DEF Errors!StringKept
  <2> QED BY <2>1, <2>2, <2>3, <2>4, <2>5
<1> HIDE DEF ErrorsInv, Errors!TypeOK
<1> QED BY <1>1, <1>2, <1>3, <1>4, <1>5, <1>6, <1>7, <1>8, <1>9, <1>10, <1>11, <1>12
      DEF Errors!Next, Errors!main, Errors!threadFunc, Errors!strerror

\* Of the two blocks of strerror_tsd.c only that of the thread is freed.
LEMMA ErrorsFreed == ErrorsInv => Errors!BuffersFreed
<1> SUFFICES ASSUME ErrorsInv, pc.main \in {"print", "exit"}, pc.thread = "done"
             PROVE  {a \in Errors!Heap : a < 4 + heap /\ frees[a] = 0}
                      = IF kind.impl = "tsd" THEN {str.main} ELSE {}
  BY DEF Errors!BuffersFreed
<1> USE DEF ErrorsInv, ErrorsKeys, ErrorsTexts, ErrorsOwn, Errors!TypeOK,
    Errors!Addresses, Errors!Heap
<1>1. kind.impl \in {"static", "tls", "tsd"} BY ErrorsLinked
<1>2. CASE kind.impl = "tsd"
  <2>1. heap = 2 /\ str["main"] = 4 /\ frees[4] = 0 /\ frees[5] = 1 BY <1>2
  <2> QED BY <1>2, <2>1
<1>3. CASE kind.impl # "tsd"
  <2>1. heap = 0 BY <1>3
  <2> QED BY <1>3, <2>1
<1> QED BY <1>2, <1>3

-----------------------------------------------------------------------------
(* The programs that create threads and join, leave or cancel them.        *)

CONSTANT N

VARIABLES i, th, joined, creq, saw, child

Joins == INSTANCE ThreadJoin

\* What the proof uses of the twelve records.
LEMMA JoinsPrograms ==
  ASSUME Joins!ThreadJoinAssumption, kind \in Joins!Kinds
  PROVE  /\ Joins!Prog.n \in 1..N
         /\ Joins!Prog.join \in {"all", "each", "none", "stray"}
         /\ kind = "prg12_9" <=> Joins!Prog.join = "stray"
         /\ kind = "cancel" =>
              Joins!Prog.n = 1 /\ Joins!Prog.join = "all" /\ Joins!Prog.ends = FALSE
         /\ kind = "mt_fork" => Joins!Prog.n = 2 /\ Joins!Prog.join = "all"
         /\ Joins!Prog.leave # "pthread_exit" => Joins!Prog.join \in {"all", "stray"}
<1> USE DEF Joins!ThreadJoinAssumption
<1>1. kind \in {"main_dies", "worker_dies", "pt1", "ptst", "pt2_join", "pthread_test",
                "prg12_9", "whichexit", "cancel", "mt_fork", "cr8", "rlim"}
  BY DEF Joins!Kinds, Joins!Programs
<1>2. CASE kind = "main_dies"
  <2>1. Joins!Prog = Joins!MainDies BY <1>2 DEF Joins!Prog, Joins!Programs
  <2> QED BY <1>2, <2>1 DEF Joins!MainDies
<1>3. CASE kind = "worker_dies"
  <2>1. Joins!Prog = Joins!WorkerDies BY <1>3 DEF Joins!Prog, Joins!Programs
  <2> QED BY <1>3, <2>1 DEF Joins!WorkerDies
<1>4. CASE kind = "pt1"
  <2>1. Joins!Prog = Joins!Pt1 BY <1>4 DEF Joins!Prog, Joins!Programs
  <2> QED BY <1>4, <2>1 DEF Joins!Pt1
<1>5. CASE kind = "ptst"
  <2>1. Joins!Prog = Joins!Ptst BY <1>5 DEF Joins!Prog, Joins!Programs
  <2> QED BY <1>5, <2>1 DEF Joins!Ptst
<1>6. CASE kind = "pt2_join"
  <2>1. Joins!Prog = Joins!Pt2Join BY <1>6 DEF Joins!Prog, Joins!Programs
  <2> QED BY <1>6, <2>1 DEF Joins!Pt2Join
<1>7. CASE kind = "pthread_test"
  <2>1. Joins!Prog = Joins!PthreadTest BY <1>7 DEF Joins!Prog, Joins!Programs
  <2> QED BY <1>7, <2>1 DEF Joins!PthreadTest
<1>8. CASE kind = "prg12_9"
  <2>1. Joins!Prog = Joins!Prg12_9 BY <1>8 DEF Joins!Prog, Joins!Programs
  <2> QED BY <1>8, <2>1 DEF Joins!Prg12_9
<1>9. CASE kind = "whichexit"
  <2>1. Joins!Prog = Joins!WhichExit BY <1>9 DEF Joins!Prog, Joins!Programs
  <2> QED BY <1>9, <2>1 DEF Joins!WhichExit
<1>10. CASE kind = "cancel"
  <2>1. Joins!Prog = Joins!ThreadCancel BY <1>10 DEF Joins!Prog, Joins!Programs
  <2> QED BY <1>10, <2>1 DEF Joins!ThreadCancel
<1>11. CASE kind = "mt_fork"
  <2>1. Joins!Prog = Joins!MtForkExec BY <1>11 DEF Joins!Prog, Joins!Programs
  <2> QED BY <1>11, <2>1 DEF Joins!MtForkExec
<1>12. CASE kind = "cr8"
  <2>1. Joins!Prog = Joins!Cr8ManyThrds BY <1>12 DEF Joins!Prog, Joins!Programs
  <2> QED BY <1>12, <2>1 DEF Joins!Cr8ManyThrds
<1>13. CASE kind = "rlim"
  <2>1. Joins!Prog = Joins!RlimThreads BY <1>13 DEF Joins!Prog, Joins!Programs
  <2> QED BY <1>13, <2>1 DEF Joins!RlimThreads
<1> QED BY <1>1, <1>2, <1>3, <1>4, <1>5, <1>6, <1>7, <1>8, <1>9, <1>10, <1>11, <1>12,
    <1>13

\* How far the loops of main() have come, and what is left of thrd_p3() and its child.
JoinsSteps ==
  /\ \A t \in joined : Joins!Ended(t)
  /\ pc = "create" => i <= Joins!Prog.n
  /\ pc = "cancel" => kind = "cancel" /\ i = 0
  /\ Joins!Prog.join = "each" =>
       /\ joined = 0..(i - 1)
       /\ pc = "join" => i < Joins!Prog.n
       /\ pc \in {"tail", "gone"} => i = Joins!Prog.n
  /\ Joins!Prog.join = "all" =>
       /\ pc \in {"create", "cancel"} => joined = {}
       /\ pc = "join" => joined = 0..(i - 1) /\ i < Joins!Prog.n
       /\ pc \in {"tail", "gone"} => joined = Joins!Mine
  /\ kind = "prg12_9" => \A t \in Joins!Threads : th[t] # "none" => t < i
  /\ kind = "cancel" => \A t \in Joins!Threads : th[t] # "done"
  /\ child # "none" => kind = "mt_fork"
  /\ child \in {"run", "zombie"} => th[1] = "waits"

\* All of it.
JoinsInv ==
  /\ Joins!TypeOK /\ JoinsSteps
  /\ Joins!NoThreadCut /\ Joins!ArgumentSeen /\ Joins!OnlyCanceled

\* The invariant holds when the program starts.
LEMMA JoinsInit ==
  ASSUME Joins!ThreadJoinAssumption
  PROVE  Joins!Init => JoinsInv
<1> SUFFICES ASSUME Joins!Init PROVE JoinsInv OBVIOUS
<1> USE DEF Joins!ThreadJoinAssumption
<1>1. creq \in BOOLEAN BY Zenon DEF Joins!Init
<1>2. Joins!TypeOK BY <1>1 DEF Joins!Init, Joins!TypeOK, Joins!Threads
<1>3. JoinsSteps
  BY <1>2, JoinsPrograms DEF Joins!Init, JoinsSteps, Joins!TypeOK, Joins!Threads
<1>4. Joins!NoThreadCut BY DEF Joins!Init, Joins!NoThreadCut
<1>5. Joins!ArgumentSeen
  <2>1. Joins!Mine \subseteq Joins!Threads
    BY <1>2, JoinsPrograms DEF Joins!Mine, Joins!Threads, Joins!TypeOK
  <2> QED BY <2>1 DEF Joins!Init, Joins!ArgumentSeen
<1>6. Joins!OnlyCanceled BY DEF Joins!Init, Joins!OnlyCanceled
<1> QED BY <1>2, <1>3, <1>4, <1>5, <1>6 DEF JoinsInv

\* The invariant is kept by main(), by every thread and by the child.
LEMMA JoinsNext ==
  ASSUME Joins!ThreadJoinAssumption, JoinsInv, Joins!Next \/ UNCHANGED Joins!vars
  PROVE  JoinsInv'
<1> USE DEF Joins!ThreadJoinAssumption
<1>k. kind' = kind /\ Joins!Prog' = Joins!Prog /\ Joins!Mine' = Joins!Mine
  <2>1. kind' = kind
    BY Zenon
       DEF Joins!Next, Joins!main, Joins!thrd_p3, Joins!Thread, Joins!Refuse,
           Joins!Create, Joins!CreateFails, Joins!CreatesDone, Joins!Cancel, Joins!Join,
           Joins!JoinStray, Joins!Leave, Joins!SetrlimitFails, Joins!LastEnds,
           Joins!Start, Joins!Ends, Joins!Canceled, Joins!ForkP3, Joins!ChildEnds,
           Joins!WaitP3, Joins!vars
  <2> QED BY <2>1 DEF Joins!Prog, Joins!Mine
<1>p. /\ Joins!Prog.n \in 1..N
      /\ Joins!Prog.join \in {"all", "each", "none", "stray"}
      /\ kind = "prg12_9" <=> Joins!Prog.join = "stray"
      /\ kind = "cancel" =>
              Joins!Prog.n = 1 /\ Joins!Prog.join = "all" /\ Joins!Prog.ends = FALSE
      /\ kind = "mt_fork" => Joins!Prog.n = 2 /\ Joins!Prog.join = "all"
      /\ Joins!Prog.leave # "pthread_exit" => Joins!Prog.join \in {"all", "stray"}
  BY JoinsPrograms DEF JoinsInv, Joins!TypeOK
<1>m. Joins!Mine = 0..(Joins!Prog.n - 1) /\ Joins!Mine \subseteq Joins!Threads
      /\ (\A t \in Joins!Threads : t \in 0..(N - 1)) /\ 1 \in Joins!Threads /\ N \in Nat
  BY <1>p DEF Joins!Mine, Joins!Threads
<1>b. creq' \in BOOLEAN
  <2>1. creq \in BOOLEAN BY DEF JoinsInv, Joins!TypeOK
  <2> QED
    BY Zenon, <2>1
       DEF Joins!Next, Joins!main, Joins!thrd_p3, Joins!Thread, Joins!Refuse,
           Joins!Create, Joins!CreateFails, Joins!CreatesDone, Joins!Cancel, Joins!Join,
           Joins!JoinStray, Joins!Leave, Joins!SetrlimitFails, Joins!LastEnds,
           Joins!Start, Joins!Ends, Joins!Canceled, Joins!ForkP3, Joins!ChildEnds,
           Joins!WaitP3, Joins!vars
<1> USE <1>k, <1>p, <1>m, <1>b DEF JoinsInv, Joins!Up
<1>1. CASE Joins!Refuse
  <2>1. Joins!TypeOK' BY <1>1, SMTT(30) DEF Joins!Refuse, Joins!TypeOK
  <2>2. JoinsSteps'
    BY <1>1, SMTT(30) DEF Joins!Refuse, Joins!TypeOK, JoinsSteps, Joins!Ended
  <2>3. Joins!NoThreadCut' /\ Joins!ArgumentSeen' /\ Joins!OnlyCanceled'
    BY <1>1 DEF Joins!Refuse, Joins!NoThreadCut, Joins!ArgumentSeen, Joins!OnlyCanceled
  <2> QED BY <2>1, <2>2, <2>3
<1>2. CASE Joins!Create
  <2>0. i \in Joins!Threads /\ th' = [th EXCEPT ![i] = "new"] /\ ~Joins!Ended(i)
    BY <1>2 DEF Joins!Create, Joins!TypeOK, Joins!Ended, Joins!Threads
  <2>1. Joins!TypeOK' BY <1>2, <2>0, SMTT(30) DEF Joins!Create, Joins!TypeOK
  <2>2. JoinsSteps'
    BY <1>2, <2>0, SMTT(30)
       DEF Joins!Create, Joins!TypeOK, JoinsSteps, Joins!Ended
  <2>3. Joins!NoThreadCut' /\ Joins!ArgumentSeen' /\ Joins!OnlyCanceled'
    BY <1>2, <2>0
       DEF Joins!Create, Joins!TypeOK, Joins!NoThreadCut, Joins!ArgumentSeen,
           Joins!OnlyCanceled, JoinsSteps, Joins!Ended
  <2> QED BY <2>1, <2>2, <2>3
<1>3. CASE Joins!CreateFails
  <2>1. Joins!TypeOK' BY <1>3, SMTT(30) DEF Joins!CreateFails, Joins!TypeOK
  <2>2. JoinsSteps'
    BY <1>3, SMTT(30) DEF Joins!CreateFails, Joins!TypeOK, JoinsSteps, Joins!Ended
  <2>3. Joins!NoThreadCut' /\ Joins!ArgumentSeen' /\ Joins!OnlyCanceled'
    BY <1>3
       DEF Joins!CreateFails, Joins!NoThreadCut, Joins!ArgumentSeen, Joins!OnlyCanceled
  <2> QED BY <2>1, <2>2, <2>3
<1>4. CASE Joins!CreatesDone
  <2>1. Joins!TypeOK' BY <1>4, SMTT(30) DEF Joins!CreatesDone, Joins!TypeOK
  <2>0. 0..(0 - 1) = {} OBVIOUS
  <2>2. JoinsSteps'
    <3> USE <1>4 DEF Joins!CreatesDone, Joins!TypeOK, JoinsSteps, Joins!Ended
    <3>1. CASE Joins!Prog.join = "all"
      <4>1. joined' = {} /\ i' = 0 /\ pc' \in {"cancel", "join"} BY <3>1
      <4>2. joined' = 0..(i' - 1) BY <2>0, <4>1
      <4> QED BY <3>1, <4>1, <4>2
    <3>2. CASE Joins!Prog.join # "all" BY <3>2
    <3> QED BY <3>1, <3>2
  <2>3. Joins!NoThreadCut' /\ Joins!ArgumentSeen' /\ Joins!OnlyCanceled'
    BY <1>4
       DEF Joins!CreatesDone, Joins!NoThreadCut, Joins!ArgumentSeen, Joins!OnlyCanceled
  <2> QED BY <2>1, <2>2, <2>3
<1>5. CASE Joins!Cancel
  <2>1. Joins!TypeOK' BY <1>5, SMTT(30) DEF Joins!Cancel, Joins!TypeOK
  <2>2. JoinsSteps'
    BY <1>5, SMTT(30) DEF Joins!Cancel, Joins!TypeOK, JoinsSteps, Joins!Ended
  <2>3. Joins!NoThreadCut' /\ Joins!ArgumentSeen' /\ Joins!OnlyCanceled'
    BY <1>5 DEF Joins!Cancel, Joins!NoThreadCut, Joins!ArgumentSeen, Joins!OnlyCanceled
  <2> QED BY <2>1, <2>2, <2>3
<1>6. CASE Joins!Join
  <2>a. i \in Nat /\ i < Joins!Prog.n /\ joined = 0..(i - 1)
    BY <1>6 DEF Joins!Join, Joins!TypeOK, JoinsSteps
  <2>b. joined' = 0..((i + 1) - 1) BY <1>6, <2>a DEF Joins!Join
  <2>c. /\ pc = "join" /\ Joins!Ended(i) /\ i' = i + 1 /\ joined' = joined \cup {i}
        /\ proc' = proc /\ th' = th /\ creq' = creq /\ saw' = saw /\ child' = child
        /\ pc' \in {"create", "tail", "join"}
    BY <1>6 DEF Joins!Join
  <2>d. i \in Joins!Threads /\ i + 1 \in 0..N BY <2>a DEF Joins!Threads
  <2>1. Joins!TypeOK'
    <3>1. joined' \subseteq Joins!Threads BY <2>c, <2>d DEF Joins!TypeOK
    <3> QED BY <2>c, <2>d, <3>1, SMTT(30) DEF Joins!TypeOK
  <2>2. JoinsSteps'
    <3>1. \A t \in joined' : Joins!Ended(t)' BY <2>c DEF JoinsSteps, Joins!Ended
    <3>2. pc' = "create" => i' <= Joins!Prog.n BY <2>a, <2>c
    <3>3. Joins!Prog.join = "each" =>
            joined' = 0..(i' - 1) /\ pc' = "create" /\ i' <= Joins!Prog.n
      BY <1>6, <2>a, <2>b, <2>c DEF Joins!Join
    <3>4. ASSUME Joins!Prog.join = "all"
          PROVE  /\ joined' = 0..(i' - 1)
                 /\ \/ pc' = "join" /\ i' < Joins!Prog.n
                    \/ pc' = "tail" /\ joined' = Joins!Mine
      <4>0. pc' = IF i + 1 = Joins!Prog.n THEN "tail" ELSE "join"
        BY <1>6, <3>4 DEF Joins!Join
      <4>1. joined' = 0..(i' - 1) BY <2>b, <2>c
      <4>2. CASE i + 1 = Joins!Prog.n
        <5>1. pc' = "tail" BY <4>0, <4>2
        <5>2. joined' = Joins!Mine BY <2>c, <4>1, <4>2
        <5> QED BY <4>1, <5>1, <5>2
      <4>3. CASE i + 1 # Joins!Prog.n
        <5>1. pc' = "join" BY <4>0, <4>3
        <5>2. i' < Joins!Prog.n BY <2>a, <2>c, <4>3
        <5> QED BY <4>1, <5>1, <5>2
      <4> QED BY <4>2, <4>3
    <3>5. kind = "prg12_9" => \A t \in Joins!Threads : th[t] # "none" => t < i'
      BY <2>a, <2>c DEF JoinsSteps
    <3> QED BY <2>c, <3>1, <3>2, <3>3, <3>4, <3>5, SMTT(30) DEF JoinsSteps
  <2>3. Joins!NoThreadCut' /\ Joins!ArgumentSeen' /\ Joins!OnlyCanceled'
    BY <1>6
       DEF Joins!Join, Joins!NoThreadCut, Joins!ArgumentSeen, Joins!OnlyCanceled,
           Joins!Ended, JoinsSteps, Joins!Threads
  <2> QED BY <2>1, <2>2, <2>3
<1>7. CASE Joins!JoinStray
  <2>1. Joins!TypeOK' BY <1>7, SMTT(30) DEF Joins!JoinStray, Joins!TypeOK
  <2>2. JoinsSteps'
    BY <1>7, SMTT(30) DEF Joins!JoinStray, Joins!TypeOK, JoinsSteps, Joins!Ended
  <2>3. Joins!NoThreadCut' /\ Joins!ArgumentSeen' /\ Joins!OnlyCanceled'
    BY <1>7
       DEF Joins!JoinStray, Joins!NoThreadCut, Joins!ArgumentSeen, Joins!OnlyCanceled
  <2> QED BY <2>1, <2>2, <2>3
<1>8. CASE Joins!Leave
  <2>1. Joins!TypeOK' BY <1>8, SMTT(30) DEF Joins!Leave, Joins!TypeOK
  <2>2. JoinsSteps'
    BY <1>8, SMTT(30) DEF Joins!Leave, Joins!TypeOK, JoinsSteps, Joins!Ended
  <2>3. Joins!NoThreadCut'
    BY <1>8 DEF Joins!Leave, Joins!NoThreadCut, JoinsSteps, Joins!Ended, Joins!TypeOK
  <2>4. Joins!ArgumentSeen' /\ Joins!OnlyCanceled'
    BY <1>8 DEF Joins!Leave, Joins!ArgumentSeen, Joins!OnlyCanceled
  <2> QED BY <2>1, <2>2, <2>3, <2>4
<1>9. CASE Joins!SetrlimitFails
  <2>1. Joins!TypeOK' BY <1>9, SMTT(30) DEF Joins!SetrlimitFails, Joins!TypeOK
  <2>2. JoinsSteps' BY <1>9
      DEF Joins!SetrlimitFails, Joins!TypeOK, JoinsSteps, Joins!Ended
  <2>3. Joins!NoThreadCut' /\ Joins!ArgumentSeen' /\ Joins!OnlyCanceled'
    BY <1>9
       DEF Joins!SetrlimitFails, Joins!NoThreadCut, Joins!ArgumentSeen,
           Joins!OnlyCanceled
  <2> QED BY <2>1, <2>2, <2>3
<1>10. CASE Joins!LastEnds
  <2>1. Joins!TypeOK' BY <1>10, SMTT(30) DEF Joins!LastEnds, Joins!TypeOK
  <2>2. JoinsSteps'
    BY <1>10, SMTT(30) DEF Joins!LastEnds, Joins!TypeOK, JoinsSteps, Joins!Ended
  <2>3. Joins!NoThreadCut'
    BY <1>10
       DEF Joins!LastEnds, Joins!NoThreadCut, JoinsSteps, Joins!Ended, Joins!TypeOK
  <2>4. Joins!ArgumentSeen' /\ Joins!OnlyCanceled'
    BY <1>10 DEF Joins!LastEnds, Joins!ArgumentSeen, Joins!OnlyCanceled
  <2> QED BY <2>1, <2>2, <2>3, <2>4
<1>11. ASSUME NEW t \in Joins!Threads, Joins!Start(t) PROVE JoinsInv'
  <2>0. ~Joins!Ended(t) BY <1>11 DEF Joins!Start, Joins!Ended
  <2>1. Joins!TypeOK' BY <1>11, SMTT(30) DEF Joins!Start, Joins!TypeOK
  <2>2. JoinsSteps' BY <1>11, <2>0
      DEF Joins!Start, Joins!TypeOK, JoinsSteps, Joins!Ended
  <2>3. Joins!NoThreadCut' /\ Joins!OnlyCanceled'
    BY <1>11, <2>0
       DEF Joins!Start, Joins!TypeOK, Joins!NoThreadCut, Joins!OnlyCanceled, JoinsSteps,
           Joins!Ended
  <2>4. Joins!ArgumentSeen'
    BY <1>11 DEF Joins!Start, Joins!TypeOK, Joins!ArgumentSeen, JoinsSteps
  <2> QED BY <2>1, <2>2, <2>3, <2>4
<1>12. ASSUME NEW t \in Joins!Threads, Joins!Ends(t) \/ Joins!Canceled(t) PROVE JoinsInv'
  <2>0. PICK to \in {"done", "canceled"} : th' = [th EXCEPT ![t] = to]
                                         /\ (kind = "cancel" => to = "canceled")
    BY <1>12 DEF Joins!Ends, Joins!Canceled
  <2>a. /\ Joins!Up /\ th[t] \in {"new", "run"} /\ pc' = pc /\ proc' = proc /\ i' = i
        /\ joined' = joined /\ saw' = saw /\ child' = child
    BY <1>12 DEF Joins!Ends, Joins!Canceled
  <2> USE <2>0, <2>a DEF Joins!TypeOK
  <2>1. Joins!TypeOK' OBVIOUS
  <2>2. JoinsSteps' BY DEF JoinsSteps, Joins!Ended
  <2>3. Joins!NoThreadCut' /\ Joins!ArgumentSeen' /\ Joins!OnlyCanceled'
    BY DEF Joins!NoThreadCut, Joins!ArgumentSeen, Joins!OnlyCanceled, JoinsSteps,
       Joins!Ended
  <2> QED BY <2>1, <2>2, <2>3
<1>13. CASE Joins!ForkP3
  <2>1. Joins!TypeOK' BY <1>13, SMTT(30) DEF Joins!ForkP3, Joins!TypeOK
  <2>2. JoinsSteps'
    BY <1>13, SMTT(30) DEF Joins!ForkP3, Joins!TypeOK, JoinsSteps, Joins!Ended
  <2>3. Joins!NoThreadCut' /\ Joins!ArgumentSeen' /\ Joins!OnlyCanceled'
    BY <1>13
       DEF Joins!ForkP3, Joins!TypeOK, Joins!NoThreadCut, Joins!ArgumentSeen,
           Joins!OnlyCanceled, JoinsSteps, Joins!Ended
  <2> QED BY <2>1, <2>2, <2>3
<1>14. CASE Joins!ChildEnds
  <2>1. Joins!TypeOK' BY <1>14, SMTT(30) DEF Joins!ChildEnds, Joins!TypeOK
  <2>2. JoinsSteps'
    BY <1>14, SMTT(30) DEF Joins!ChildEnds, Joins!TypeOK, JoinsSteps, Joins!Ended
  <2>3. Joins!NoThreadCut' /\ Joins!ArgumentSeen' /\ Joins!OnlyCanceled'
    BY <1>14
       DEF Joins!ChildEnds, Joins!NoThreadCut, Joins!ArgumentSeen, Joins!OnlyCanceled
  <2> QED BY <2>1, <2>2, <2>3
<1>15. CASE Joins!WaitP3
  <2>1. Joins!TypeOK' BY <1>15, SMTT(30) DEF Joins!WaitP3, Joins!TypeOK
  <2>2. JoinsSteps'
    BY <1>15, SMTT(30) DEF Joins!WaitP3, Joins!TypeOK, JoinsSteps, Joins!Ended
  <2>3. Joins!NoThreadCut' /\ Joins!ArgumentSeen' /\ Joins!OnlyCanceled'
    BY <1>15
       DEF Joins!WaitP3, Joins!TypeOK, Joins!NoThreadCut, Joins!ArgumentSeen,
           Joins!OnlyCanceled, JoinsSteps, Joins!Ended
  <2> QED BY <2>1, <2>2, <2>3
<1>16. CASE UNCHANGED Joins!vars
  <2>1. Joins!TypeOK' BY <1>16 DEF Joins!vars, Joins!TypeOK
  <2>2. JoinsSteps' BY <1>16 DEF Joins!vars, JoinsSteps, Joins!Ended
  <2>3. Joins!NoThreadCut' BY <1>16 DEF Joins!vars, Joins!NoThreadCut, Joins!Ended
  <2>4. Joins!ArgumentSeen' BY <1>16 DEF Joins!vars, Joins!ArgumentSeen
  <2>5. Joins!OnlyCanceled' BY <1>16 DEF Joins!vars, Joins!OnlyCanceled
  <2> QED BY <2>1, <2>2, <2>3, <2>4, <2>5
<1> QED BY <1>1, <1>2, <1>3, <1>4, <1>5, <1>6, <1>7, <1>8, <1>9, <1>10, <1>11, <1>12,
    <1>13, <1>14, <1>15, <1>16 DEF Joins!Next, Joins!main, Joins!thrd_p3, Joins!Thread

-----------------------------------------------------------------------------
(* thread_cleanup.c.                                                       *)

CONSTANT MaxSpurious

VARIABLES mode, main, mtx, glob, waiting, cancel, spurious

Clean == INSTANCE ThreadCleanup

\* Who holds the mutex where; the thread blocks only on a predicate it
\* has seen false under the mutex, and only main() of the cancelling mode cancels.
CleanSteps ==
  /\ mtx = "thread" <=> pc \in {"test", "block", "handler"}
  /\ mtx = "main" <=> main = "unlock"
  /\ pc = "block" => glob = 0
  /\ main \in {"create", "cancel", "signal"} => glob = 0
  /\ main \in {"signal", "unlock", "wake"} => mode = "signal"
  /\ main = "cancel" \/ cancel => mode = "cancel"
  /\ main \in {"create", "fatal"} => pc = "none"
  /\ frees = IF pc \in {"returned", "canceled"} THEN 1 ELSE 0

\* All of it.
CleanInv ==
  /\ Clean!TypeOK /\ CleanSteps /\ Clean!MutexReleased /\ Clean!BufferFreedOnce
  /\ Clean!NoLostWakeup

\* The invariant holds when the program starts.
LEMMA CleanInit ==
  ASSUME Clean!ThreadCleanupAssumption
  PROVE  Clean!Init => CleanInv
<1> SUFFICES ASSUME Clean!Init PROVE CleanInv OBVIOUS
<1>1. waiting \in BOOLEAN /\ cancel \in BOOLEAN /\ ~waiting /\ ~cancel
  BY Zenon DEF Clean!Init
<1> QED BY <1>1
    DEF Clean!ThreadCleanupAssumption, CleanInv, CleanSteps, Clean!Init, Clean!TypeOK,
        Clean!MutexReleased, Clean!BufferFreedOnce, Clean!NoLostWakeup, Clean!Gone

\* The invariant is kept by main(), by the thread, and by a wake-up nobody sent.
LEMMA CleanNext ==
  ASSUME Clean!ThreadCleanupAssumption, CleanInv, Clean!Next \/ UNCHANGED Clean!vars
  PROVE  CleanInv'
<1>1. waiting' \in BOOLEAN /\ cancel' \in BOOLEAN
  BY Zenon
     DEF Clean!Next, Clean!Main, Clean!threadFunc, Clean!SpuriousWake, Clean!Create,
         Clean!Cancel, Clean!SetGlob, Clean!Unlock, Clean!Signal, Clean!Join,
         Clean!PrintAddress, Clean!Lock, Clean!Test, Clean!Wait, Clean!Woken,
         Clean!CanceledWait, Clean!cleanupHandler, Clean!vars, CleanInv, Clean!TypeOK
<1> USE <1>1 DEF Clean!ThreadCleanupAssumption, CleanInv, CleanSteps, Clean!TypeOK,
      Clean!MutexReleased, Clean!BufferFreedOnce, Clean!NoLostWakeup, Clean!Gone
<1>2. CASE Clean!Create BY <1>2 DEF Clean!Create
<1>3. CASE Clean!Cancel BY <1>3 DEF Clean!Cancel
<1>4. CASE Clean!SetGlob BY <1>4 DEF Clean!SetGlob
<1>5. CASE Clean!Unlock BY <1>5 DEF Clean!Unlock
<1>6. CASE Clean!Signal BY <1>6 DEF Clean!Signal
<1>7. CASE Clean!Join BY <1>7 DEF Clean!Join
<1>8. CASE Clean!PrintAddress BY <1>8 DEF Clean!PrintAddress
<1>9. CASE Clean!Lock BY <1>9 DEF Clean!Lock
<1>10. CASE Clean!Test BY <1>10 DEF Clean!Test
<1>11. CASE Clean!Wait BY <1>11 DEF Clean!Wait
<1>12. CASE Clean!SpuriousWake BY <1>12 DEF Clean!SpuriousWake
<1>13. CASE Clean!Woken BY <1>13 DEF Clean!Woken
<1>14. CASE Clean!CanceledWait BY <1>14 DEF Clean!CanceledWait
<1>15. CASE Clean!cleanupHandler BY <1>15 DEF Clean!cleanupHandler
<1>16. CASE UNCHANGED Clean!vars BY <1>16 DEF Clean!vars
<1> QED BY <1>2, <1>3, <1>4, <1>5, <1>6, <1>7, <1>8, <1>9, <1>10, <1>11, <1>12, <1>13,
    <1>14, <1>15, <1>16 DEF Clean!Next, Clean!Main, Clean!threadFunc
=============================================================================
