------------------------------- MODULE SysvMq ------------------------------
(***************************************************************************)
(* msg1_w.c and msg1_r.c: a writer creates or fetches the System V message *)
(* queue and sends a message of type 2 and one of type 5; a reader takes   *)
(* the first message, then one of type 5, then one of type 2.  The queue   *)
(* and its messages outlive all of them, and any of them can be killed.    *)
(***************************************************************************)
EXTENDS Naturals, Sequences, SequencesExt

CONSTANTS Writers, Readers    \* the runs of msg1_w and of msg1_r

\* The constants name different runs.
SysvMqAssumption == Writers \cap Readers = {}

Runs == Writers \cup Readers

VARIABLES exists,   \* the queue of KEY_VAL exists
          queue,    \* its messages: [type, from], oldest first
          at,       \* where each run is
          got       \* what each reader has received, with the bytes copied

vars == <<exists, queue, at, got>>

Init ==
  /\ exists = FALSE /\ queue = <<>>
  /\ at = [w \in Runs |-> IF w \in Writers THEN "create" ELSE "fetch"]
  /\ got = [r \in Readers |-> <<>>]

-----------------------------------------------------------------------------
(* msg1_w.c                                                                *)

\* Mutant of Create: with EEXIST the program gives up.
Create_GivesUp(w) ==
  /\ at[w] = "create"
  /\ exists' = TRUE
  /\ at' = [at EXCEPT ![w] = IF exists THEN "failed" ELSE "send2"]
  /\ UNCHANGED <<queue, got>>

\* msgget(IPC_CREAT|IPC_EXCL), and msgget() again after EEXIST.
Create(w) ==
  /\ at[w] = "create"
  /\ exists' = TRUE
  /\ at' = [at EXCEPT ![w] = IF exists THEN "fetch" ELSE "send2"]
  /\ UNCHANGED <<queue, got>>

\* Writer: the second msgget().  Reader: the only one, which fails when no
\* writer has been there.
Fetch(w) ==
  /\ at[w] = "fetch"
  /\ at' = [at EXCEPT ![w] = IF ~exists THEN "failed"
                             ELSE IF w \in Writers THEN "send2" ELSE "first"]
  /\ UNCHANGED <<exists, queue, got>>

Send(w, from, type, to) ==
  /\ at[w] = from
  /\ queue' = Append(queue, [type |-> type, from |-> w])
  /\ at' = [at EXCEPT ![w] = to]
  /\ UNCHANGED <<exists, got>>

Writer(w) ==
  Create(w) \/ Fetch(w) \/ Send(w, "send2", 2, "send5") \/ Send(w, "send5", 5, "done")

-----------------------------------------------------------------------------
(* msg1_r.c                                                                *)

\* strlen() of the two texts, "Message of type 2" and "Message of type 5!".
TextLen(type) == IF type = 2 THEN 17 ELSE 18

\* msgrcv_r(): takes the oldest message of the type, of any for type 0, and
\* copies at most size bytes of it; it waits while there is none, also when a
\* signal interrupts the wait (EINTR).
Receive(r, from, type, size, to) ==
  /\ at[r] = from
  /\ \E k \in DOMAIN queue :
       LET m == queue[k]
           n == TextLen(m.type)
       IN  /\ type \in {0, m.type}
           /\ \A j \in 1..(k - 1) : type \notin {0, queue[j].type}
           /\ queue' = RemoveAt(queue, k)
           /\ got' = [got EXCEPT ![r] = Append(@, [msg |-> m, n |-> IF n > size THEN size ELSE n])]
  /\ at' = [at EXCEPT ![r] = to]
  /\ UNCHANGED exists

\* Mutant of Reader: the second receive takes any message.
Reader_AnySecond(r) ==
  \/ Fetch(r)
  \/ Receive(r, "first", 0, 180, "five")
  \/ Receive(r, "five", 0, 180, "two")
  \/ Receive(r, "two", 2, 10, "done")

\* MSGSZ_MAX is 180; the last call has MSG_NOERROR and room for 10 bytes.
Reader(r) ==
  \/ Fetch(r)
  \/ Receive(r, "first", 0, 180, "five")
  \/ Receive(r, "five", 5, 180, "two")
  \/ Receive(r, "two", 2, 10, "done")

Ended == {"done", "failed", "killed"}

Kill(w) ==
  /\ at[w] \notin Ended
  /\ at' = [at EXCEPT ![w] = "killed"]
  /\ UNCHANGED <<exists, queue, got>>

Next ==
  \/ \E w \in Writers : Writer(w)
  \/ \E r \in Readers : Reader(r)
  \/ \E w \in Runs : Kill(w)

Spec == Init /\ [][Next]_vars
-----------------------------------------------------------------------------
(* Properties.                                                             *)

TypeOK ==
  /\ exists \in BOOLEAN
  /\ queue \in Seq([type : {2, 5}, from : Writers])
  /\ at \in [Runs -> {"create", "fetch", "send2", "send5", "first", "five", "two"} \cup Ended]
  /\ got \in [Readers -> Seq([msg : [type : {2, 5}, from : Writers], n : 0..180])]

\* The messages a writer has sent.
SentBy(w) ==
  {m \in [type : {2, 5}, from : {w}] : at[w] = "done" \/ (at[w] = "send5" /\ m.type = 2)}

\* Every message is in the queue or with one reader, and there once: competing
\* readers never get the same message, and a killed run loses none that was not
\* received.
EachOnce ==
  LET have == {h \in Readers \X (1..3) : h[2] <= Len(got[h[1]])}
      all  == ToSet(queue) \cup {got[h[1]][h[2]].msg : h \in have}
  IN  /\ IsInjective(queue)
      /\ \A g, h \in have : got[g[1]][g[2]].msg = got[h[1]][h[2]].msg => g = h
      /\ \A h \in have : got[h[1]][h[2]].msg \notin ToSet(queue)
      /\ \A w \in Writers : at[w] # "killed" => SentBy(w) \subseteq all

\* What a reader receives is a message whole, then the whole of one of type 5,
\* then 10 bytes of one of type 2.
ReaderGot ==
  \A r \in Readers : \A k \in DOMAIN got[r] :
     LET g == got[r][k]
     IN  /\ k < 3 => g.n = TextLen(g.msg.type)
         /\ k = 2 => g.msg.type = 5
         /\ k = 3 => (g.msg.type = 2 /\ g.n = 10)

\* One run of the writer is not enough for the reader, which takes its message
\* of type 2 first and then waits for another.  Two are, if the reader is alone.
ReaderEnded(r) == at[r] \in Ended \/ \E w \in Writers : at[w] = "killed"

\* No other reader has taken, or will take, a message.
Alone(r) == \A q \in Readers \ {r} : got[q] = <<>> /\ at[q] \in Ended
=============================================================================
