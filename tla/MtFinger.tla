------------------------------ MODULE MtFinger ------------------------------
(***************************************************************************)
(* mt_sfingr.c, the finger server with a detached thread for each client.  *)
(* The thread gets its descriptor by value; threads and main() share all   *)
(* descriptors, and whatever ends the process ends every thread: exit() in *)
(* main(), its return, and SIGPIPE.  A descriptor is named by its client.  *)
(***************************************************************************)
EXTENDS Naturals, FiniteSets

CONSTANTS Clients,
          NoClient,   \* newsd and p2 before the first accept()
          MaxFds      \* descriptors left for connections

\* The values the constants may have.
MtFingerAssumption == NoClient \notin Clients /\ MaxFds \in Nat

VARIABLES proc,     \* main(): "accept", "create", "detach"; the end: "exit5", "returned", "killed"
          newsd,    \* the descriptor accept() returned last
          p2,       \* the thread created last; the first time NoClient: uninitialised
          failed,   \* pthread_create() failed for this turn of the loop
          thr,      \* the thread of each client
          sd,       \* its descriptor
          fds,      \* open connections
          leaked,   \* open connections that no thread will close
          cli,      \* "idle", "queued", "connected", "asked", "gone"
          got       \* clients that have been sent an answer

vars == <<proc, newsd, p2, failed, thr, sd, fds, leaked, cli, got>>

Init ==
  /\ proc = "accept" /\ newsd = NoClient /\ p2 = NoClient /\ failed = FALSE
  /\ thr = [c \in Clients |-> "none"] /\ sd = [c \in Clients |-> NoClient]
  /\ fds = {} /\ leaked = {}
  /\ cli = [c \in Clients |-> "idle"] /\ got = {}

Up == proc \in {"accept", "create", "detach"}

-----------------------------------------------------------------------------
(* main().                                                                 *)

\* accept(); without a free descriptor it fails, and err_exit() ends the process.
Accept ==
  /\ proc = "accept"
  /\ \E c \in Clients :
       /\ cli[c] = "queued"
       /\ IF Cardinality(fds) = MaxFds
            THEN proc' = "exit5" /\ UNCHANGED <<newsd, fds, cli>>
            ELSE /\ newsd' = c /\ fds' = fds \cup {c} /\ proc' = "create"
                 /\ cli' = [cli EXCEPT ![c] = "connected"]
  /\ UNCHANGED <<p2, failed, thr, sd, leaked, got>>

\* Mutant of Create: the thread is given &newsd, and reads it when it starts.
Create_ByReference ==
  /\ proc = "create"
  /\ proc' = "detach" /\ p2' = newsd /\ failed' = FALSE
  /\ thr' = [thr EXCEPT ![newsd] = "start"]
  /\ sd' = [c \in Clients |-> IF thr'[c] = "start" THEN newsd ELSE sd[c]]
  /\ UNCHANGED <<newsd, fds, leaked, cli, got>>

\* pthread_create(&p2, NULL, process_client, (void *)newsd).
Create ==
  /\ proc = "create"
  /\ proc' = "detach" /\ p2' = newsd /\ failed' = FALSE
  /\ thr' = [thr EXCEPT ![newsd] = "start"]
  /\ sd' = [sd EXCEPT ![newsd] = newsd]
  /\ UNCHANGED <<newsd, fds, leaked, cli, got>>

\* It fails: the error is printed, p2 keeps its value, newsd stays open.
CreateFails ==
  /\ proc = "create"
  /\ proc' = "detach" /\ failed' = TRUE /\ leaked' = leaked \cup {newsd}
  /\ UNCHANGED <<newsd, p2, thr, sd, fds, cli, got>>

\* pthread_detach(p2).
Detach ==
  /\ proc = "detach" /\ ~ failed
  /\ proc' = "accept"
  /\ UNCHANGED <<newsd, p2, failed, thr, sd, fds, leaked, cli, got>>

\* After a failed create p2 is the thread of an earlier turn, already detached:
\* EINVAL while it runs, and main() returns.  Once that thread has ended, or when p2
\* was never set, the outcome is undefined: an error, a crash, or 0.
DetachStale ==
  /\ proc = "detach" /\ failed
  /\ proc' \in IF p2 # NoClient /\ thr[p2] \notin {"done", "failed"}
                 THEN {"returned"} ELSE {"returned", "killed", "accept"}
  /\ UNCHANGED <<newsd, p2, failed, thr, sd, fds, leaked, cli, got>>

-----------------------------------------------------------------------------
(* process_client().                                                       *)

\* The thread ends without close(): no memory, before or after the read(), or a failed
\* read() (RST).
ThreadFails(t) ==
  /\ Up /\ (thr[t] \in {"start", "write"} \/ (thr[t] = "read" /\ cli[sd[t]] = "gone"))
  /\ thr' = [thr EXCEPT ![t] = "failed"] /\ leaked' = leaked \cup {sd[t]}
  /\ UNCHANGED <<proc, newsd, p2, failed, sd, fds, cli, got>>

Start(t) ==
  /\ Up /\ thr[t] = "start"
  /\ thr' = [thr EXCEPT ![t] = "read"]
  /\ UNCHANGED <<proc, newsd, p2, failed, sd, fds, leaked, cli, got>>

\* read(): the name, or end of file (an empty name).
Read(t) ==
  /\ Up /\ thr[t] = "read" /\ cli[sd[t]] \in {"asked", "gone"}
  /\ thr' = [thr EXCEPT ![t] = "write"]
  /\ UNCHANGED <<proc, newsd, p2, failed, sd, fds, leaked, cli, got>>

\* The entry or "unable to get info" is written.  When the client is gone, write()
\* succeeds, or fails and the thread ends without close(), or SIGPIPE comes.
Write(t) ==
  /\ Up /\ thr[t] = "write"
  /\ \/ /\ thr' = [thr EXCEPT ![t] = "close"] /\ got' = got \cup {sd[t]}
        /\ UNCHANGED <<proc, leaked>>
     \/ /\ cli[sd[t]] = "gone"
        /\ thr' = [thr EXCEPT ![t] = "failed"] /\ leaked' = leaked \cup {sd[t]}
        /\ UNCHANGED <<proc, got>>
     \/ /\ cli[sd[t]] = "gone"
        /\ proc' = "killed"
        /\ UNCHANGED <<thr, leaked, got>>
  /\ UNCHANGED <<newsd, p2, failed, sd, fds, cli>>

\* Mutant of Close: a thread, so the socket is not closed.
Close_Skipped(t) ==
  /\ Up /\ thr[t] = "close"
  /\ thr' = [thr EXCEPT ![t] = "done"]
  /\ UNCHANGED <<proc, newsd, p2, failed, sd, fds, leaked, cli, got>>

Close(t) ==
  /\ Up /\ thr[t] = "close"
  /\ fds' = fds \ {sd[t]}
  /\ thr' = [thr EXCEPT ![t] = "done"]
  /\ UNCHANGED <<proc, newsd, p2, failed, sd, leaked, cli, got>>

-----------------------------------------------------------------------------
(* The clients.                                                            *)

Connect(c) ==
  /\ cli[c] = "idle" /\ Up
  /\ cli' = [cli EXCEPT ![c] = "queued"]
  /\ UNCHANGED <<proc, newsd, p2, failed, thr, sd, fds, leaked, got>>

Request(c) ==
  /\ cli[c] = "connected"
  /\ cli' = [cli EXCEPT ![c] = "asked"]
  /\ UNCHANGED <<proc, newsd, p2, failed, thr, sd, fds, leaked, got>>

Leave(c) ==
  /\ cli[c] \in {"connected", "asked"}
  /\ cli' = [cli EXCEPT ![c] = "gone"]
  /\ UNCHANGED <<proc, newsd, p2, failed, thr, sd, fds, leaked, got>>

Main == Accept \/ Create \/ CreateFails \/ Detach \/ DetachStale

process_client(t) == ThreadFails(t) \/ Start(t) \/ Read(t) \/ Write(t) \/ Close(t)

Next ==
  \/ Main
  \/ \E c \in Clients : process_client(c) \/ Connect(c) \/ Request(c) \/ Leave(c)

Spec == Init /\ [][Next]_vars

-----------------------------------------------------------------------------
(* Properties.                                                             *)

\* Every variable has its type.
TypeOK ==
  /\ proc \in {"accept", "create", "detach", "exit5", "returned", "killed"}
  /\ newsd \in Clients \cup {NoClient} /\ p2 \in Clients \cup {NoClient}
  /\ thr \in [Clients -> {"none", "start", "read", "write", "close", "done", "failed"}]
  /\ sd \in [Clients -> Clients \cup {NoClient}]
  /\ fds \subseteq Clients /\ leaked \subseteq Clients /\ got \subseteq Clients
  /\ cli \in [Clients -> {"idle", "queued", "connected", "asked", "gone"}]

Busy == {t \in Clients : thr[t] \in {"start", "read", "write", "close"}}

\* Every open connection is in the hands of one thread, or of main() until the
\* thread is there, or was given up by an error path; a thread's is open.
OnePlace ==
  Up => /\ fds = {sd[t] : t \in Busy} \cup leaked
                   \cup (IF proc = "create" THEN {newsd} ELSE {})
        /\ \A t, u \in Busy : sd[t] = sd[u] => t = u
        /\ \A t \in Busy : sd[t] \notin leaked

\* The server ends only after an error path has left a connection open, a client
\* has gone, or as many clients as there are descriptors are connected.
StopExplained ==
  /\ proc = "returned" => leaked # {}
  /\ proc = "killed" => leaked # {} \/ \E c \in Clients : cli[c] = "gone"
  /\ proc = "exit5" => Cardinality(leaked) + Cardinality(Busy) = MaxFds

\* While the server runs, a client sees the end of its connection only after its
\* answer.
Eof(c) == cli[c] \notin {"idle", "queued"} /\ c \notin fds
AnsweredBeforeEof == \A c \in Clients : Eof(c) => c \in got

\* The client has its answer, or has left, or an error path gave it up, or the
\* server has stopped.
Settled(c) == c \in got \/ cli[c] = "gone" \/ c \in leaked \/ ~ Up
=============================================================================
