------------------------------ MODULE SvrPreMt ------------------------------
(***************************************************************************)
(* The pre-threaded server of                                              *)
(* ipc/net_sockets/inet_domain/server_pre_threaded/svr_pre_mt.c.           *)
(*                                                                         *)
(* main() creates a pool of detached threads and pauses for ever.  Every   *)
(* thread loops: lock mlock, accept a connection, unlock, send the client  *)
(* a file or an error message.  The threads share the process: its         *)
(* descriptors, and an exit() of any of them ends them all.                *)
(***************************************************************************)
EXTENDS Naturals, Sequences, FiniteSets

CONSTANTS Threads,   \* the THREADS_COUNT slots of threads[]
          Clients,   \* connections that may be made
          Nobody,    \* mlock is free
          MaxFds,    \* descriptors left after stdio and the listening socket
          QlenMax    \* QLEN_MAX, the backlog of the listening socket

\* The values the constants may have.
SvrPreMtAssumption ==
  /\ Nobody \notin Threads
  /\ IsFiniteSet(Threads) /\ IsFiniteSet(Clients)
  /\ MaxFds \in Nat /\ QlenMax \in Nat

VARIABLES proc,     \* "up", "fatal" (a fatal_error() ended it) or "stats" (SIGINT did)
          pc,       \* where each thread is in enter_server_loop()
          mlock,    \* the thread that holds mlock
          sock,     \* client_socket of each thread: the clients it serves (at most one)
          backlog,  \* connections that wait for accept()
          conn,     \* what happened to each client
          open,     \* clients whose socket the server holds open
          leaked    \* file descriptors that transfer_file_contents() lost

vars == <<proc, pc, mlock, sock, backlog, conn, open, leaked>>

\* Descriptors in use: sockets, the files being sent, and the lost ones.
Fds == Cardinality(open) + Cardinality({t \in Threads : pc[t] = "sendfile"}) + leaked

\* setup_listening_socket() succeeded and no thread exists yet.
Init ==
  /\ proc = "up"
  /\ pc = [t \in Threads |-> "none"]
  /\ mlock = Nobody
  /\ sock = [t \in Threads |-> {}]
  /\ backlog = <<>>
  /\ conn = [c \in Clients |-> "idle"]
  /\ open = {} /\ leaked = 0

Go(t, from, to) == proc = "up" /\ pc[t] = from /\ pc' = [pc EXCEPT ![t] = to]

-----------------------------------------------------------------------------
(* main() and the signal handler.                                          *)

\* create_thread(): a failure is only reported, the slot stays without thread.
CreateThread(t) ==
  /\ Go(t, "none", "lock") \/ Go(t, "none", "failed")
  /\ UNCHANGED <<proc, mlock, sock, backlog, conn, open, leaked>>

\* print_stats(), the handler of SIGINT, exits the process.
PrintStats ==
  /\ proc = "up"
  /\ proc' = "stats"
  /\ UNCHANGED <<pc, mlock, sock, backlog, conn, open, leaked>>

-----------------------------------------------------------------------------
(* enter_server_loop().                                                    *)

\* Mutant of Lock: the #if 1 around pthread_mutex_lock() is an #if 0.
Lock_None(t) ==
  /\ Go(t, "lock", "accept")
  /\ mlock' = t
  /\ UNCHANGED <<proc, sock, backlog, conn, open, leaked>>

Lock(t) ==
  /\ Go(t, "lock", "accept")
  /\ mlock = Nobody
  /\ mlock' = t
  /\ UNCHANGED <<proc, sock, backlog, conn, open, leaked>>

\* Mutant of Accept: the connection is only looked at, and stays queued.
Accept_Peek(t) ==
  /\ Go(t, "accept", "unlock")
  /\ Fds < MaxFds /\ backlog # <<>>
  /\ sock' = [sock EXCEPT ![t] = {Head(backlog)}]
  /\ open' = open \cup {Head(backlog)}
  /\ UNCHANGED <<proc, mlock, backlog, conn, leaked>>

\* accept() blocks while nobody is queued.
Accept(t) ==
  /\ Go(t, "accept", "unlock")
  /\ Fds < MaxFds /\ backlog # <<>>
  /\ sock' = [sock EXCEPT ![t] = {Head(backlog)}]
  /\ open' = open \cup {Head(backlog)}
  /\ backlog' = Tail(backlog)
  /\ UNCHANGED <<proc, mlock, conn, leaked>>

\* Mutant of AcceptFails: the -1 is handed to handle_client().
AcceptFails_Unchecked(t) ==
  /\ Go(t, "accept", "unlock")
  /\ Fds >= MaxFds
  /\ sock' = [sock EXCEPT ![t] = {Nobody}]
  /\ UNCHANGED <<proc, mlock, backlog, conn, open, leaked>>

\* accept() fails when no descriptor is left, queued clients or not; the
\* thread unlocks before it calls fatal_error().
AcceptFails(t) ==
  /\ Go(t, "accept", "fatal")
  /\ Fds >= MaxFds
  /\ mlock' = Nobody
  /\ UNCHANGED <<proc, sock, backlog, conn, open, leaked>>

\* Mutant of Unlock: missing.
Unlock_Missing(t) ==
  /\ Go(t, "unlock", "transfer")
  /\ UNCHANGED <<proc, mlock, sock, backlog, conn, open, leaked>>

Unlock(t) ==
  /\ Go(t, "unlock", "transfer")
  /\ mlock' = Nobody
  /\ UNCHANGED <<proc, sock, backlog, conn, open, leaked>>

\* fatal_error() exits the whole process.
FatalError(t) ==
  /\ Go(t, "fatal", "fatal")
  /\ proc' = "fatal"
  /\ UNCHANGED <<mlock, sock, backlog, conn, open, leaked>>

-----------------------------------------------------------------------------
(* handle_client() and transfer_file_contents().                           *)

\* Return codes 1 to 4: stat() failed, not a regular file, an empty file, or
\* open() failed.
TransferFails(t) ==
  /\ Go(t, "transfer", "reply")
  /\ UNCHANGED <<proc, mlock, sock, backlog, conn, open, leaked>>

\* stat() and open() succeed: the file takes a descriptor until it is closed.
OpenFile(t) ==
  /\ Go(t, "transfer", "sendfile")
  /\ Fds < MaxFds
  /\ UNCHANGED <<proc, mlock, sock, backlog, conn, open, leaked>>

\* Mutant of SendFile: the case 0 of handle_client() falls through.
SendFile_FallThrough(t) ==
  /\ Go(t, "sendfile", "fatal")
  /\ conn' = [c \in Clients |->
                IF c \in sock[t] /\ conn[c] = "queued" THEN "file" ELSE conn[c]]
  /\ UNCHANGED <<proc, mlock, sock, backlog, open, leaked>>

\* sendfile() succeeded: the file is closed, the client's socket is not.
SendFile(t) ==
  /\ Go(t, "sendfile", "lock")
  /\ conn' = [c \in Clients |->
                IF c \in sock[t] /\ conn[c] = "queued" THEN "file" ELSE conn[c]]
  /\ sock' = [sock EXCEPT ![t] = {}]
  /\ UNCHANGED <<proc, mlock, backlog, open, leaked>>

\* Return code 5: the client is gone, and fd is never closed.
SendFileFails(t) ==
  /\ Go(t, "sendfile", "reply")
  /\ \E c \in sock[t] : conn[c] = "hup"
  /\ leaked' = leaked + 1
  /\ UNCHANGED <<proc, mlock, sock, backlog, conn, open>>

\* Mutant of SendError: the error message is not sent.
SendError_Missing(t) ==
  /\ Go(t, "reply", "lock")
  /\ sock' = [sock EXCEPT ![t] = {}]
  /\ UNCHANGED <<proc, mlock, backlog, conn, open, leaked>>

\* The error message is sent.
SendError(t) ==
  /\ Go(t, "reply", "lock")
  /\ conn' = [c \in Clients |->
                IF c \in sock[t] /\ conn[c] = "queued" THEN "error" ELSE conn[c]]
  /\ sock' = [sock EXCEPT ![t] = {}]
  /\ UNCHANGED <<proc, mlock, backlog, open, leaked>>

\* send() fails (SIGPIPE is ignored) only when the client is gone.
SendErrorFails(t) ==
  /\ Go(t, "reply", "fatal")
  /\ \E c \in sock[t] : conn[c] = "hup"
  /\ UNCHANGED <<proc, mlock, sock, backlog, conn, open, leaked>>

-----------------------------------------------------------------------------
(* The clients: the kernel completes a connection and queues it, and a     *)
(* client may hang up at any time; once it was answered the server never   *)
(* touches its socket again, so only the earlier times matter.             *)

Connect(c) ==
  /\ proc = "up"
  /\ conn[c] = "idle" /\ Len(backlog) < QlenMax
  /\ conn' = [conn EXCEPT ![c] = "queued"]
  /\ backlog' = Append(backlog, c)
  /\ UNCHANGED <<proc, pc, mlock, sock, open, leaked>>

HangUp(c) ==
  /\ proc = "up"
  /\ conn[c] = "queued"
  /\ conn' = [conn EXCEPT ![c] = "hup"]
  /\ UNCHANGED <<proc, pc, mlock, sock, backlog, open, leaked>>

-----------------------------------------------------------------------------
enter_server_loop(t) ==
  \/ Lock(t) \/ Accept(t) \/ AcceptFails(t) \/ Unlock(t) \/ FatalError(t)
  \/ TransferFails(t) \/ OpenFile(t) \/ SendFile(t) \/ SendFileFails(t)
  \/ SendError(t) \/ SendErrorFails(t)

Next ==
  \/ PrintStats
  \/ \E t \in Threads : CreateThread(t) \/ enter_server_loop(t)
  \/ \E c \in Clients : Connect(c) \/ HangUp(c)

Spec == Init /\ [][Next]_vars

-----------------------------------------------------------------------------
(* Properties.                                                             *)

PC == {"none", "failed", "lock", "accept", "unlock", "transfer", "sendfile",
       "reply", "fatal"}

Serving == {"unlock", "transfer", "sendfile", "reply"}

\* Every variable has its type.
TypeOK ==
  /\ proc \in {"up", "fatal", "stats"}
  /\ pc \in [Threads -> PC]
  /\ mlock \in Threads \cup {Nobody}
  /\ sock \in [Threads -> SUBSET Clients]
  /\ backlog \in Seq(Clients)
  /\ conn \in [Clients -> {"idle", "queued", "file", "error", "hup"}]
  /\ open \in SUBSET Clients
  /\ leaked \in Nat

\* "only one thread in the thread pool can actually be blocked in accept()"
\* (svr_pre_mt.c:307-309).
OneInAccept ==
  \A t, u \in Threads : pc[t] = "accept" /\ pc[u] = "accept" => t = u

\* What makes it inductive: who is between lock and unlock holds mlock.
HolderLocks == \A t \in Threads : pc[t] \in {"accept", "unlock"} => mlock = t

\* A connection is in one place: waiting in the backlog (once), or in the hands
\* of one thread, which holds an open socket for it.
OnePlace ==
  /\ \A t, u \in Threads : t # u => sock[t] \cap sock[u] = {}
  /\ \A t \in Threads : \A i \in 1..Len(backlog) : backlog[i] \notin sock[t]
  /\ \A i, j \in 1..Len(backlog) : backlog[i] = backlog[j] => i = j
  /\ \A t \in Threads : sock[t] \subseteq open
  /\ \A t \in Threads : pc[t] \in Serving => sock[t] # {}

\* Without SIGINT and without a client that hangs up, the server does not stop
\* before its sockets and the files the threads may have open at a time have
\* used up the descriptors.
StopExplained ==
  proc = "fatal" =>
    \/ \E c \in Clients : conn[c] = "hup"
    \/ Cardinality(open) + leaked + Cardinality(Threads) > MaxFds

\* The server has a thread and c waits in its backlog; c was taken from it, or
\* the server has ended; c has its file, an error message or has left.
Queued(c) ==
  /\ \E t \in Threads : pc[t] \notin {"none", "failed"}
  /\ \E i \in 1..Len(backlog) : backlog[i] = c
Accepted(c) == proc # "up" \/ \A i \in 1..Len(backlog) : backlog[i] # c
Answered(c) == proc # "up" \/ conn[c] \in {"file", "error", "hup"}

\* "Once the request is served, it closes the client connection and goes back to
\* waiting for a new client connection" (svr_pre_mt.c:304-305).
ClosedWhenServed ==
  open = UNION {sock[t] : t \in Threads}
=============================================================================
