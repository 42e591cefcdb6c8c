----------------------------- MODULE ForkServer -----------------------------
(***************************************************************************)
(* The concurrent servers that fork a child for every client:              *)
(* cpudtl_tstsvr.c (sends the cpu details), sfingr.c (reads a user name,   *)
(* sends its data) and unix_svr.c (sends a greeting and shuts down).       *)
(* A connection is named by its client, and its descriptors by it too: a   *)
(* client sees end of file when the last of them is closed.                *)
(***************************************************************************)
EXTENDS Naturals, Sequences, FiniteSets

CONSTANTS Clients,    \* each connects at most once
          QLENGTH,    \* backlog of listen()
          MaxFds,     \* connections for which the parent has descriptors
          Reads,      \* sfingr.c: the child reads a request first
          Shuts       \* unix_svr.c: the child calls shutdown()

\* The values the constants may have.
ForkServerAssumption ==
  /\ QLENGTH \in Nat \ {0} /\ MaxFds \in Nat \ {0}
  /\ Reads \in BOOLEAN /\ Shuts \in BOOLEAN
  /\ "sd" \notin Clients

VARIABLES parent,   \* "accept", "fork", "close" or "stopped"
          newsd,    \* result of the last accept(): {} or {client}
          fds,      \* connections the parent has open
          failed,   \* connections whose fork() failed
          queue,    \* connections that wait for accept()
          cli,      \* state of each client
          child,    \* progress of the child of each connection
          cfds,     \* descriptors each child has: connections and "sd"
          got,      \* clients that have their reply
          shut      \* connections that were shut down

vars == <<parent, newsd, fds, failed, queue, cli, child, cfds, got, shut>>

Init ==
  /\ parent = "accept" /\ newsd = {} /\ fds = {} /\ failed = {}
  /\ queue = <<>>
  /\ cli = [c \in Clients |-> "idle"]
  /\ child = [c \in Clients |-> "none"]
  /\ cfds = [c \in Clients |-> {}]
  /\ got = {} /\ shut = {}

Over(c) == child[c] \in {"done", "failed"}

\* Children and parent hold descriptors; the client of an accepted connection reads
\* end of file when none is left or after a shutdown.
Held(c) == c \in fds \/ \E k \in Clients : c \in cfds[k]
Accepted(c) == cli[c] # "idle" /\ \A k \in 1..Len(queue) : queue[k] # c
Eof(c) == Accepted(c) /\ (c \in shut \/ ~ Held(c))

\* The listening socket is open in the parent, or in a child that has not closed it.
Listening == parent # "stopped" \/ \E k \in Clients : "sd" \in cfds[k]

-----------------------------------------------------------------------------
(* The clients.                                                            *)

Connect(c) ==
  /\ cli[c] = "idle" /\ Listening /\ Len(queue) <= QLENGTH
  /\ cli' = [cli EXCEPT ![c] = "connected"]
  /\ queue' = Append(queue, c)
  /\ UNCHANGED <<parent, newsd, fds, failed, child, cfds, got, shut>>

Request(c) ==
  /\ Reads /\ cli[c] = "connected"
  /\ cli' = [cli EXCEPT ![c] = "asked"]
  /\ UNCHANGED <<parent, newsd, fds, failed, queue, child, cfds, got, shut>>

\* A client may go away at any time.
Leave(c) ==
  /\ cli[c] \in {"connected", "asked"}
  /\ cli' = [cli EXCEPT ![c] = "gone"]
  /\ UNCHANGED <<parent, newsd, fds, failed, queue, child, cfds, got, shut>>

-----------------------------------------------------------------------------
(* The parent.                                                             *)

\* Mutant of Accept: without SA_RESTART the SIGCHLD of a child interrupts it.
Accept_EINTR ==
  /\ parent = "accept" /\ queue # <<>>
  /\ IF Cardinality(fds) >= MaxFds \/ \E c \in Clients : Over(c)
       THEN parent' = "stopped" /\ fds' = {} /\ UNCHANGED <<newsd, queue>>
       ELSE /\ parent' = "fork"
            /\ newsd' = {Head(queue)}
            /\ fds' = fds \cup {Head(queue)}
            /\ queue' = Tail(queue)
  /\ UNCHANGED <<failed, cli, child, cfds, got, shut>>

\* accept() is restarted after a SIGCHLD (SA_RESTART).  With no descriptor left
\* it fails, and the server exits, which closes the descriptors it has left open.
Accept ==
  /\ parent = "accept" /\ queue # <<>>
  /\ IF Cardinality(fds) >= MaxFds
       THEN parent' = "stopped" /\ fds' = {} /\ UNCHANGED <<newsd, queue>>
       ELSE /\ parent' = "fork"
            /\ newsd' = {Head(queue)}
            /\ fds' = fds \cup {Head(queue)}
            /\ queue' = Tail(queue)
  /\ UNCHANGED <<failed, cli, child, cfds, got, shut>>

\* The child gets a copy of the descriptor table.
Fork ==
  /\ parent = "fork"
  /\ \E c \in newsd :
       /\ child' = [child EXCEPT ![c] = "start"]
       /\ cfds' = [cfds EXCEPT ![c] = fds \cup {"sd"}]
  /\ parent' = "close"
  /\ UNCHANGED <<newsd, fds, failed, queue, cli, got, shut>>

\* case -1: newsd is not closed.
ForkFails ==
  /\ parent = "fork"
  /\ failed' = failed \cup newsd
  /\ parent' = "accept"
  /\ UNCHANGED <<newsd, fds, queue, cli, child, cfds, got, shut>>

\* Mutant of CloseNewsd: the default case is forgotten.
CloseNewsd_No ==
  /\ parent = "close"
  /\ parent' = "accept"
  /\ UNCHANGED <<newsd, fds, failed, queue, cli, child, cfds, got, shut>>

\* default: close(newsd).
CloseNewsd ==
  /\ parent = "close"
  /\ fds' = fds \ newsd
  /\ parent' = "accept"
  /\ UNCHANGED <<newsd, failed, queue, cli, child, cfds, got, shut>>

-----------------------------------------------------------------------------
(* The child for connection c.                                             *)

CloseSd(c) ==
  /\ child[c] = "start"
  /\ child' = [child EXCEPT ![c] = IF Reads THEN "read" ELSE "write"]
  /\ cfds' = [cfds EXCEPT ![c] = @ \ {"sd"}]
  /\ UNCHANGED <<parent, newsd, fds, failed, queue, cli, got, shut>>

\* Exit closes all descriptors of the child; the flag SA_NOCLDWAIT of the parent
\* leaves no zombie.
Exit(c, how) ==
  /\ child' = [child EXCEPT ![c] = how]
  /\ cfds' = [cfds EXCEPT ![c] = {}]

\* read() returns the request, or 0 if the client has left; with either the
\* child goes on (an unknown name gets an answer too).
Read(c) ==
  /\ child[c] = "read" /\ cli[c] \in {"asked", "gone"}
  /\ child' = [child EXCEPT ![c] = "write"]
  /\ UNCHANGED <<parent, newsd, fds, failed, queue, cli, cfds, got, shut>>

\* Mutant of Write: the answer is forgotten.
Write_No(c) ==
  /\ child[c] = "write"
  /\ child' = [child EXCEPT ![c] = "close"]
  /\ UNCHANGED <<parent, newsd, fds, failed, queue, cli, cfds, got, shut>>

\* The answer; a client that has left makes the write fail (EPIPE or SIGPIPE),
\* which ends the child.
Write(c) ==
  /\ child[c] = "write"
  /\ \/ /\ cli[c] # "gone"
        /\ got' = got \cup {c}
        /\ child' = [child EXCEPT ![c] = "close"]
        /\ UNCHANGED cfds
     \/ cli[c] = "gone" /\ Exit(c, "failed") /\ UNCHANGED got
  /\ UNCHANGED <<parent, newsd, fds, failed, queue, cli, shut>>

\* Mutant of Finish: the child goes on to accept() without exit().
Finish_NoExit(c) ==
  /\ child[c] = "close"
  /\ child' = [child EXCEPT ![c] = "accept"]
  /\ UNCHANGED <<parent, newsd, fds, failed, queue, cli, cfds, got, shut>>

\* close() or shutdown(), then exit().
Finish(c) ==
  /\ child[c] = "close"
  /\ shut' = IF Shuts THEN shut \cup {c} ELSE shut
  /\ Exit(c, "done")
  /\ UNCHANGED <<parent, newsd, fds, failed, queue, cli, got>>

\* No memory, popen() fails, ...: the child exits.
ChildFails(c) ==
  /\ child[c] \in {"read", "write", "close"}
  /\ Exit(c, "failed")
  /\ UNCHANGED <<parent, newsd, fds, failed, queue, cli, got, shut>>

-----------------------------------------------------------------------------
Parent == Accept \/ Fork \/ ForkFails \/ CloseNewsd

Child(c) == CloseSd(c) \/ Read(c) \/ Write(c) \/ Finish(c)

Next ==
  \/ Parent
  \/ \E c \in Clients : Child(c) \/ ChildFails(c)
  \/ \E c \in Clients : Connect(c) \/ Request(c) \/ Leave(c)

Spec == Init /\ [][Next]_vars

-----------------------------------------------------------------------------
(* Properties.                                                             *)

\* Every variable has its type; the queue holds no client twice.
TypeOK ==
  /\ parent \in {"accept", "fork", "close", "stopped"}
  /\ newsd \subseteq Clients /\ fds \subseteq Clients /\ failed \subseteq Clients
  /\ queue \in Seq(Clients) /\ Len(queue) <= QLENGTH + 1
  /\ \A i, j \in 1..Len(queue) : queue[i] = queue[j] => i = j
  /\ cli \in [Clients -> {"idle", "connected", "asked", "gone"}]
  /\ child \in [Clients -> {"none", "start", "read", "write", "close", "done", "failed"}]
  /\ cfds \in [Clients -> SUBSET (Clients \cup {"sd"})]
  /\ got \subseteq Clients /\ shut \subseteq Clients

\* Whatever the clients and the children do, the server exits only after MaxFds
\* calls of fork() have failed: children that die and clients that leave do not
\* stop it (signals, EPIPE), and served connections use up no descriptor.
StopExplained == parent = "stopped" => Cardinality(failed) >= MaxFds

\* No child has the connection of another client, except of one whose fork()
\* failed: otherwise the other client would wait for its end of file until this
\* child ends.
NoStrayHolder ==
  \A c, k \in Clients : c # k /\ c \in cfds[k] => c \in failed

\* A client that reads end of file has its answer, unless its child failed, or fork()
\* failed for it and the server has exited since: the connection is never closed for
\* another reason.
AnsweredBeforeEof ==
  \A c \in Clients :
    Eof(c) => c \in got \/ child[c] = "failed" \/ (c \in failed /\ parent = "stopped")

\* The client has seen the end of its connection, or has left, or fork() failed
\* for it, or the server has stopped.
Settled(c) == Eof(c) \/ cli[c] = "gone" \/ c \in failed \/ parent = "stopped"
=============================================================================
