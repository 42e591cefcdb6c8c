------------------------------ MODULE PosixMq ------------------------------
(***************************************************************************)
(* sender_mq.c and recv_mq.c: each sender puts one message with a priority *)
(* into a POSIX message queue, the receiver takes and prints messages for  *)
(* ever.  Whoever comes first creates the queue; nobody removes it.  The   *)
(* receiver can be killed and started again (test.sh kills stale ones).    *)
(***************************************************************************)
EXTENDS Naturals, Sequences, SequencesExt

CONSTANTS Senders,     \* the runs of sender_mq
          PrioMax,     \* sysconf(_SC_MQ_PRIO_MAX)
          QueueMax,    \* messages the queue holds (msg_default)
          MaxStarts    \* bound: starts of the receiver

\* The values the constants may have.
PosixMqAssumption ==
  PrioMax \in Nat \ {0} /\ QueueMax \in Nat \ {0} /\ MaxStarts \in Nat \ {0}

VARIABLES prio,      \* argv[2] of each sender
          exists,    \* MQNAME exists
          queue,     \* the senders whose messages are in the queue
          at,        \* where each sender is
          recv,      \* where the receiver is
          buf,       \* the message it has taken and not printed yet
          printed,   \* the messages printed
          lost,      \* messages a killed receiver had in its buffer
          since,     \* how many messages were taken at the last send or kill
          starts     \* starts of the receiver

vars == <<prio, exists, queue, at, recv, buf, printed, lost, since, starts>>

Nobody == "nobody"

Init ==
  /\ prio \in [Senders -> 0..(PrioMax + 1)]
  /\ exists = FALSE /\ queue = <<>>
  /\ at = [s \in Senders |-> "check"]
  /\ recv = "down" /\ buf = Nobody /\ printed = <<>> /\ lost = {}
  /\ since = 0 /\ starts = 0

-----------------------------------------------------------------------------
(* sender_mq.c                                                             *)

\* Mutant of Check: the range the error message prints is not checked.
Check_Not(s) ==
  /\ at[s] = "check"
  /\ at' = [at EXCEPT ![s] = "create"]
  /\ UNCHANGED <<prio, exists, queue, recv, buf, printed, lost, since, starts>>

\* PrioMax itself passes.
Check(s) ==
  /\ at[s] = "check"
  /\ at' = [at EXCEPT ![s] = IF prio[s] > PrioMax THEN "invalid" ELSE "create"]
  /\ UNCHANGED <<prio, exists, queue, recv, buf, printed, lost, since, starts>>

\* Mutant of Create: EEXIST is an error as any other.
Create_Excl(s) ==
  /\ at[s] = "create"
  /\ exists' = TRUE
  /\ at' = [at EXCEPT ![s] = IF exists THEN "failed" ELSE "send"]
  /\ UNCHANGED <<prio, queue, recv, buf, printed, lost, since, starts>>

\* mq_open() with O_EXCL.
Create(s) ==
  /\ at[s] = "create"
  /\ exists' = TRUE
  /\ at' = [at EXCEPT ![s] = IF exists THEN "open" ELSE "send"]
  /\ UNCHANGED <<prio, queue, recv, buf, printed, lost, since, starts>>

Open(s) ==
  /\ at[s] = "open"
  /\ at' = [at EXCEPT ![s] = IF exists THEN "send" ELSE "failed"]
  /\ UNCHANGED <<prio, exists, queue, recv, buf, printed, lost, since, starts>>

\* mq_send() of the kernel: behind all messages of at least this priority.
Insert(s) ==
  LET before(t) == prio[t] >= prio[s]
  IN  SelectSeq(queue, before) \o <<s>> \o SelectSeq(queue, LAMBDA t : ~before(t))

\* How many messages are printed once the receiver has printed what it has.
Taken == Len(printed) + (IF buf = Nobody THEN 0 ELSE 1)

\* mq_send(): EINVAL for a priority that is not below PrioMax; blocks while the
\* queue is full.
Send(s) ==
  /\ at[s] = "send"
  /\ \/ /\ prio[s] >= PrioMax
        /\ at' = [at EXCEPT ![s] = "failed"] /\ UNCHANGED queue
     \/ /\ prio[s] < PrioMax /\ Len(queue) < QueueMax
        /\ queue' = Insert(s)
        /\ at' = [at EXCEPT ![s] = "sent"]
  /\ since' = Taken
  /\ UNCHANGED <<prio, exists, recv, buf, printed, lost, starts>>

Sender(s) == Check(s) \/ Create(s) \/ Open(s) \/ Send(s)

-----------------------------------------------------------------------------
(* recv_mq.c                                                               *)

\* The start, with the queue created or opened.
Start ==
  /\ recv = "down" /\ starts < MaxStarts
  /\ starts' = starts + 1
  /\ exists' = TRUE
  /\ recv' = "receive"
  /\ UNCHANGED <<prio, queue, at, buf, printed, lost, since>>

Receive ==
  /\ recv = "receive" /\ queue # <<>>
  /\ buf' = Head(queue) /\ queue' = Tail(queue)
  /\ recv' = "print"
  /\ UNCHANGED <<prio, exists, at, printed, lost, since, starts>>

Show ==
  /\ recv = "print"
  /\ printed' = Append(printed, buf) /\ buf' = Nobody
  /\ recv' = "receive"
  /\ UNCHANGED <<prio, exists, queue, at, lost, since, starts>>

\* pkill: what is in the buffer is gone, what is in the queue stays.
Kill ==
  /\ recv # "down"
  /\ lost' = lost \cup ({buf} \ {Nobody}) /\ buf' = Nobody
  /\ since' = Len(printed)
  /\ recv' = "down"
  /\ UNCHANGED <<prio, exists, queue, at, printed, starts>>

Next == Start \/ Receive \/ Show \/ Kill \/ \E s \in Senders : Sender(s)

Spec == Init /\ [][Next]_vars
-----------------------------------------------------------------------------
(* Properties.                                                             *)

TypeOK ==
  /\ prio \in [Senders -> 0..(PrioMax + 1)] /\ exists \in BOOLEAN
  /\ queue \in Seq(Senders) /\ Len(queue) <= QueueMax
  /\ at \in [Senders -> {"check", "invalid", "create", "open", "send", "sent", "failed"}]
  /\ recv \in {"down", "receive", "print"} /\ buf \in Senders \cup {Nobody}
  /\ printed \in Seq(Senders) /\ lost \subseteq Senders
  /\ since \in 0..(Len(printed) + 1) /\ starts \in 0..MaxStarts

\* A message whose sender reported it sent is in exactly one place and there
\* once: in the queue, with the receiver, printed, or lost with a receiver that
\* was killed between mq_receive() and printf().
SentIsSomewhere ==
  /\ IsInjective(queue \o printed)
  /\ {s \in Senders : at[s] = "sent"}
       = ToSet(queue) \cup ToSet(printed) \cup lost \cup ({buf} \ {Nobody})
  /\ ToSet(queue) \cap ToSet(printed) = {}
  /\ (lost \cup {buf}) \cap (ToSet(queue) \cup ToSet(printed)) = {}

\* "the receiver gets messages in priority order (max->min)" (test.sh): of what
\* one receiver prints after the last send.
DrainedInOrder ==
  \A j, k \in (since + 1)..Len(printed) : j < k => prio[printed[j]] >= prio[printed[k]]

\* A sender fails only with the priority PrioMax, which the program's check
\* admits and mq_send() does not: two that race to create the queue both get it.
FailsOnlyAtMax == \A s \in Senders : at[s] = "failed" => prio[s] = PrioMax

\* The sender has ended, or there is no receiver that makes room.
SenderEnded(s) == at[s] \in {"sent", "invalid", "failed"} \/ recv = "down"
=============================================================================
