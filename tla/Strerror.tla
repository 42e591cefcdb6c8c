------------------------------ MODULE Strerror ------------------------------
(***************************************************************************)
(* The implementations of strerror() that return a static buffer           *)
(* (strerror.c), one in thread-local storage (strerror_tls.c) and one that *)
(* is thread-specific data (strerror_tsd.c), linked with strerror_test.c,  *)
(* whose main() uses its string after a second thread has called           *)
(* strerror() and ended; and the two programs of tls_eg, whose main() uses *)
(* it at once.  The message a thread asks for is named after the thread.   *)
(***************************************************************************)
EXTENDS Naturals

Callers == {"main", "thread"}

\* The five programs: which main(), and which strerror() it is linked with.
TestStatic == [test |-> TRUE,  impl |-> "static"]
TestTls    == [test |-> TRUE,  impl |-> "tls"]
TestTsd    == [test |-> TRUE,  impl |-> "tsd"]
EgStatic   == [test |-> FALSE, impl |-> "static"]
EgTls      == [test |-> FALSE, impl |-> "tls"]

Linked == {TestStatic, TestTls, TestTsd, EgStatic, EgTls}

\* Addresses: NULL, the static buffer, the two thread-local ones, and the heap.
NULL == 0
Static == 1
Local == [main |-> 2, thread |-> 3]
Heap == 4..5
Addresses == {Static, Local.main, Local.thread} \cup Heap

VARIABLES kind,     \* what is linked
          proc,     \* the process: "up", "exit0", "exit1"
          pc,       \* each thread
          once,     \* createKey() has been run: strerrorKey exists
          spec,     \* the value of the key in each thread
          buf,      \* the local buf of strerror() in each thread
          str,      \* the string each has got
          mem,      \* whose message is at an address; "none" at first
          heap,     \* blocks allocated so far
          frees,    \* how often each address was freed
          shown     \* what each thread has printed as its message

vars == <<kind, proc, pc, once, spec, buf, str, mem, heap, frees, shown>>

Init ==
  /\ kind \in Linked /\ proc = "up" /\ pc = [main |-> "call", thread |-> "none"]
  /\ once = FALSE /\ spec = [t \in Callers |-> NULL]
  /\ buf = [t \in Callers |-> NULL] /\ str = [t \in Callers |-> NULL]
  /\ mem = [a \in Addresses |-> "none"] /\ heap = 0
  /\ frees = [a \in Addresses |-> 0] /\ shown = [t \in Callers |-> "none"]

Go(t, l) == pc' = [pc EXCEPT ![t] = l] /\ UNCHANGED proc
At(t, l) == proc = "up" /\ pc[t] = l

\* handleErr(..., TRUE): the process exits.
Fails == proc' = "exit1" /\ UNCHANGED pc

-----------------------------------------------------------------------------
(* strerror().                                                             *)

\* The buffer that the compiler has given a place.
Place(t) ==
  /\ At(t, "call") /\ kind.impl # "tsd"
  /\ buf' = [buf EXCEPT ![t] = IF kind.impl = "static" THEN Static ELSE Local[t]]
  /\ Go(t, "copy")
  /\ UNCHANGED <<kind, once, spec, str, mem, heap, frees, shown>>

\* pthread_once(&once, createKey); the creation of the key may fail.
createKey(t) ==
  /\ At(t, "call") /\ kind.impl = "tsd"
  /\ \/ once' = TRUE /\ Go(t, "get")
     \/ ~once /\ Fails /\ UNCHANGED once
  /\ UNCHANGED <<kind, spec, buf, str, mem, heap, frees, shown>>

\* Mutant of Getspecific: a value for all threads.
Getspecific_Shared(t) ==
  /\ At(t, "get")
  /\ LET v == IF spec[t] # NULL THEN spec[t] ELSE spec.main
     IN  /\ buf' = [buf EXCEPT ![t] = v] /\ spec' = [spec EXCEPT ![t] = v]
         /\ Go(t, IF v = NULL THEN "malloc" ELSE "copy")
  /\ UNCHANGED <<kind, once, str, mem, heap, frees, shown>>

\* pthread_getspecific(strerrorKey).
Getspecific(t) ==
  /\ At(t, "get")
  /\ buf' = [buf EXCEPT ![t] = spec[t]]
  /\ Go(t, IF spec[t] = NULL THEN "malloc" ELSE "copy")
  /\ UNCHANGED <<kind, once, spec, str, mem, heap, frees, shown>>

Malloc(t) ==
  /\ At(t, "malloc")
  /\ \/ /\ heap' = heap + 1 /\ buf' = [buf EXCEPT ![t] = 4 + heap]
        /\ Go(t, "set")
     \/ Fails /\ UNCHANGED <<heap, buf>>
  /\ UNCHANGED <<kind, once, spec, str, mem, frees, shown>>

\* Mutant of Setspecific: forgotten.
Setspecific_Not(t) ==
  /\ At(t, "set") /\ Go(t, "copy")
  /\ UNCHANGED <<kind, once, spec, buf, str, mem, heap, frees, shown>>

Setspecific(t) ==
  /\ At(t, "set")
  /\ \/ spec' = [spec EXCEPT ![t] = buf[t]] /\ Go(t, "copy")
     \/ Fails /\ UNCHANGED spec
  /\ UNCHANGED <<kind, once, buf, str, mem, heap, frees, shown>>

\* The message is copied and the buffer returned; main() of tls_eg uses it at once.
Copy(t) ==
  /\ At(t, "copy")
  /\ mem' = [mem EXCEPT ![buf[t]] = t] /\ str' = [str EXCEPT ![t] = buf[t]]
  /\ Go(t, IF t = "main" /\ kind.test THEN "create" ELSE "print")
  /\ UNCHANGED <<kind, once, spec, buf, heap, frees, shown>>

strerror(t) ==
  Place(t) \/ createKey(t) \/ Getspecific(t) \/ Malloc(t) \/ Setspecific(t) \/ Copy(t)

-----------------------------------------------------------------------------
(* The two threads.                                                        *)

\* The printf() of str; what a freed buffer holds is undefined.
Use(t) ==
  /\ At(t, "print")
  /\ shown' = [shown EXCEPT ![t] = IF frees[str[t]] = 0 THEN mem[str[t]] ELSE "undefined"]
  /\ Go(t, IF t = "thread" THEN "end" ELSE IF kind.test THEN "exit" ELSE "create")
  /\ UNCHANGED <<kind, once, spec, buf, str, mem, heap, frees>>

Create ==
  /\ At("main", "create")
  /\ \/ pc' = [main |-> "join", thread |-> "call"] /\ UNCHANGED proc
     \/ Fails
  /\ UNCHANGED <<kind, once, spec, buf, str, mem, heap, frees, shown>>

\* The thread ends; destructor() is called with its value, if there is one.
destructor ==
  /\ At("thread", "end") /\ Go("thread", "done")
  /\ frees' = IF once /\ spec.thread # NULL THEN [frees EXCEPT ![spec.thread] = @ + 1]
              ELSE frees
  /\ UNCHANGED <<kind, once, spec, buf, str, mem, heap, shown>>

Join ==
  /\ At("main", "join") /\ pc.thread = "done"
  /\ Go("main", IF kind.test THEN "print" ELSE "exit")
  /\ UNCHANGED <<kind, once, spec, buf, str, mem, heap, frees, shown>>

\* exit(EXIT_SUCCESS), or the return of main(): no destructor is called.
Exit ==
  /\ At("main", "exit") /\ proc' = "exit0"
  /\ UNCHANGED <<kind, pc, once, spec, buf, str, mem, heap, frees, shown>>

main == strerror("main") \/ Use("main") \/ Create \/ Join \/ Exit

threadFunc == strerror("thread") \/ Use("thread") \/ destructor

Next == main \/ threadFunc

Spec == Init /\ [][Next]_vars

-----------------------------------------------------------------------------
(* Properties.                                                             *)

\* Every variable has its type.
TypeOK ==
  /\ kind \in Linked /\ proc \in {"up", "exit0", "exit1"} /\ once \in BOOLEAN
  /\ pc \in [Callers -> {"none", "call", "get", "malloc", "set", "copy", "create", "join",
                         "print", "end", "done", "exit"}]
  /\ spec \in [Callers -> Heap \cup {NULL}] /\ heap \in 0..2
  /\ buf \in [Callers -> Addresses \cup {NULL}] /\ str \in [Callers -> Addresses \cup {NULL}]
  /\ mem \in [Addresses -> Callers \cup {"none"}] /\ frees \in [Addresses -> 0..1]
  /\ shown \in [Callers -> Callers \cup {"none", "undefined"}]

\* Each thread prints the message it has asked for, although another has called
\* strerror() and ended in between; with the static buffer main() prints the one of
\* the other thread, as strerror_test.c:51 says.
StringKept ==
  \A t \in Callers : shown[t] # "none" =>
     shown[t] = IF t = "main" /\ kind = TestStatic
                THEN "thread" ELSE t

\* When main() has joined the thread, the buffers that strerror_tsd.c has allocated
\* and nobody has freed are its own one.
BuffersFreed ==
  pc.main \in {"print", "exit"} /\ pc.thread = "done" =>
     {a \in Heap : a < 4 + heap /\ frees[a] = 0}
       = IF kind.impl = "tsd" THEN {str.main} ELSE {}
=============================================================================
