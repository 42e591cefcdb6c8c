---------------------------- MODULE SelectServer ----------------------------
(***************************************************************************)
(* selectserver.c, the chat server that serves all its clients from one    *)
(* process with select(): what one client says is sent to all the others.  *)
(* The sets master and read_fds, fdmax and the two loops over descriptors  *)
(* are the program's; a step of the scan handles the next descriptor that  *)
(* is set in read_fds, and a step of the broadcast sends to one other.     *)
(***************************************************************************)
EXTENDS Integers, FiniteSets, Sequences

CONSTANTS Clients,   \* the clients; each connects once
          MaxSays,   \* bound on the messages of a client
          FdLimits   \* the largest descriptor: the limits it may be started with

listener == 3        \* the first descriptor after the standard three

\* The values the constants may have.
SelectServerAssumption == MaxSays \in Nat /\ \A l \in FdLimits : l \in Nat /\ l >= listener

NoFd == 0

VARIABLES pc,        \* "select", "scan", "bcast", "killed" (SIGPIPE), "badfd", "exit" (startup)
          limit,     \* the largest descriptor the process may open
          master, readfds, fdmax,
          i,         \* the outer loop has got to here
          j,         \* the inner loop
          conn,      \* each client: "out", "queued", "in", "left" (it has hung up), "gone"
          fd,        \* the server's descriptor for it
          inbox,     \* messages of a client the server has not read
          says,      \* how often a client has spoken
          reset,     \* the clients whose host has answered with RST
          hist,      \* the messages read by the server, as <<client, number>>
          joined,    \* length of hist when the client was accepted
          heard      \* the messages sent to a client

vars == <<pc, limit, master, readfds, fdmax, i, j, conn, fd, inbox, says, reset, hist, joined, heard>>

\* main() up to the loop; when the address cannot be had the program ends there.
Init ==
  /\ pc \in {"select", "exit"} /\ limit \in FdLimits
  /\ master = {listener} /\ readfds = {} /\ fdmax = listener
  /\ i = 0 /\ j = 0
  /\ conn = [c \in Clients |-> "out"] /\ fd = [c \in Clients |-> NoFd]
  /\ inbox = [c \in Clients |-> <<>>] /\ says = [c \in Clients |-> 0]
  /\ reset = {} /\ hist = <<>>
  /\ joined = [c \in Clients |-> 0] /\ heard = [c \in Clients |-> <<>>]

Fds == listener..limit

Open == {listener} \cup {fd[c] : c \in {d \in Clients : conn[d] \in {"in", "left"}}}
Owner(f) == CHOOSE c \in Clients : fd[c] = f /\ conn[c] \in {"in", "left"}
Queue == {c \in Clients : conn[c] = "queued"}

\* What select() reports: a connection to accept, data, or end of file.
Ready(f) ==
  IF f = listener THEN Queue # {}
  ELSE inbox[Owner(f)] # <<>> \/ conn[Owner(f)] = "left"

\* The next descriptor after f that is set in S, or one past fdmax.
After(f, S) ==
  LET rest == {g \in S : g > f /\ g <= fdmax}
  IN  IF rest = {} THEN fdmax + 1 ELSE CHOOSE g \in rest : \A h \in rest : g <= h

server == <<limit, master, readfds, fdmax, i, j>>
clients == <<conn, fd, inbox, says, reset>>
record == <<hist, joined, heard>>

-----------------------------------------------------------------------------
\* The scan goes on after descriptor i, or is over.
NextFd(m, r, top) ==
  LET n == After(i, r)
  IN  /\ i' = n
      /\ pc' = IF n > fdmax THEN "select" ELSE "scan"
      /\ master' = m /\ readfds' = r /\ fdmax' = top

\* read_fds = master; select(): EBADF when a descriptor in it is closed.
Select ==
  /\ pc = "select"
  /\ IF master \subseteq Open
       THEN LET r == {f \in master : f <= fdmax /\ Ready(f)}
            IN  /\ r # {}
                /\ readfds' = r /\ i' = (CHOOSE g \in r : \A h \in r : g <= h)
                /\ pc' = "scan"
       ELSE pc' = "badfd" /\ UNCHANGED <<readfds, i>>
  /\ UNCHANGED <<limit, master, fdmax, j, clients, record>>

\* Mutant of Accept: fdmax is not kept.
Accept_NoMax ==
  /\ pc = "scan" /\ i = listener /\ Queue # {}
  /\ \E c \in Queue :
       IF Fds \ Open = {}
         THEN UNCHANGED <<conn, fd, joined>> /\ NextFd(master, readfds, fdmax)
         ELSE LET newfd == CHOOSE f \in Fds \ Open : \A g \in Fds \ Open : f <= g
              IN  /\ conn' = [conn EXCEPT ![c] = "in"] /\ fd' = [fd EXCEPT ![c] = newfd]
                  /\ joined' = [joined EXCEPT ![c] = Len(hist)]
                  /\ NextFd(master \cup {newfd}, readfds, fdmax)
  /\ UNCHANGED <<limit, j, inbox, says, reset, hist, heard>>

\* A new connection: the lowest free descriptor, if there is one.
Accept ==
  /\ pc = "scan" /\ i = listener /\ Queue # {}
  /\ \E c \in Queue :
       IF Fds \ Open = {}
         THEN UNCHANGED <<conn, fd, joined>> /\ NextFd(master, readfds, fdmax)
         ELSE LET newfd == CHOOSE f \in Fds \ Open : \A g \in Fds \ Open : f <= g
              IN  /\ conn' = [conn EXCEPT ![c] = "in"] /\ fd' = [fd EXCEPT ![c] = newfd]
                  /\ joined' = [joined EXCEPT ![c] = Len(hist)]
                  /\ NextFd(master \cup {newfd}, readfds,
                            IF newfd > fdmax THEN newfd ELSE fdmax)
  /\ UNCHANGED <<limit, j, inbox, says, reset, hist, heard>>

\* Mutant of HungUp: FD_CLR() is forgotten.
HungUp_NoClr ==
  /\ pc = "scan" /\ i # listener
  /\ LET c == Owner(i)
     IN  /\ inbox[c] = <<>> /\ conn[c] = "left"
         /\ conn' = [conn EXCEPT ![c] = "gone"]
         /\ NextFd(master, readfds, fdmax)
  /\ UNCHANGED <<limit, j, fd, inbox, says, reset, record>>

\* recv() <= 0: close() and FD_CLR().
HungUp ==
  /\ pc = "scan" /\ i # listener
  /\ LET c == Owner(i)
     IN  /\ inbox[c] = <<>> /\ conn[c] = "left"
         /\ conn' = [conn EXCEPT ![c] = "gone"]
         /\ NextFd(master \ {i}, readfds, fdmax)
  /\ UNCHANGED <<limit, j, fd, inbox, says, reset, record>>

\* recv() of a message; the broadcast begins with the first descriptor in master.
Recv ==
  /\ pc = "scan" /\ i # listener
  /\ LET c == Owner(i)
     IN  /\ inbox[c] # <<>>
         /\ inbox' = [inbox EXCEPT ![c] = Tail(inbox[c])]
         /\ hist' = Append(hist, <<c, Head(inbox[c])>>)
  /\ j' = After(0, master) /\ pc' = "bcast"
  /\ UNCHANGED <<limit, master, readfds, fdmax, i, conn, fd, says, reset, joined, heard>>

\* Mutant of Send: the sender is not left out.
Send_Self ==
  /\ pc = "bcast" /\ j <= fdmax
  /\ LET c == Owner(j) IN
       IF j = listener \/ conn[c] # "in"
         THEN pc' = pc /\ UNCHANGED <<heard, reset>>
         ELSE /\ heard' = [heard EXCEPT ![c] = Append(@, hist[Len(hist)])]
              /\ UNCHANGED <<pc, reset>>
  /\ j' = After(j, master)
  /\ UNCHANGED <<limit, master, readfds, fdmax, i, conn, fd, inbox, says, hist, joined>>

\* send() to every descriptor of master but the listener and the sender.  A
\* client that has hung up answers the first send() with RST, and a later one
\* raises SIGPIPE, once that answer has come.
Send ==
  /\ pc = "bcast" /\ j <= fdmax
  /\ IF j = listener \/ j = i THEN UNCHANGED <<pc, heard, reset>>
     ELSE LET c == Owner(j) IN
            \/ /\ conn[c] = "in"
               /\ heard' = [heard EXCEPT ![c] = Append(@, hist[Len(hist)])]
               /\ UNCHANGED <<pc, reset>>
            \/ /\ conn[c] = "left"
               /\ pc' \in IF c \in reset THEN {pc, "killed"} ELSE {pc}
               /\ reset' = reset \cup {c} /\ UNCHANGED heard
  /\ j' = After(j, master)
  /\ UNCHANGED <<limit, master, readfds, fdmax, i, conn, fd, inbox, says, hist, joined>>

SendsDone ==
  /\ pc = "bcast" /\ j > fdmax
  /\ NextFd(master, readfds, fdmax)
  /\ UNCHANGED <<limit, j, clients, record>>

-----------------------------------------------------------------------------
\* The clients.
Connect(c) ==
  /\ conn[c] = "out" /\ conn' = [conn EXCEPT ![c] = "queued"]
  /\ UNCHANGED <<pc, server, fd, inbox, says, reset, record>>

Say(c) ==
  /\ conn[c] = "in" /\ says[c] < MaxSays
  /\ says' = [says EXCEPT ![c] = @ + 1]
  /\ inbox' = [inbox EXCEPT ![c] = Append(@, says[c] + 1)]
  /\ UNCHANGED <<pc, server, conn, fd, reset, record>>

HangUp(c) ==
  /\ conn[c] = "in" /\ conn' = [conn EXCEPT ![c] = "left"]
  /\ UNCHANGED <<pc, server, fd, inbox, says, reset, record>>

Server == Select \/ Accept \/ HungUp \/ Recv \/ Send \/ SendsDone

Next ==
  \/ Server
  \/ \E c \in Clients : Connect(c) \/ Say(c) \/ HangUp(c)

Spec == Init /\ [][Next]_vars

-----------------------------------------------------------------------------
(* Properties.                                                             *)

\* Every variable has its type.
TypeOK ==
  /\ pc \in {"select", "scan", "bcast", "killed", "badfd", "exit"}
  /\ limit \in FdLimits /\ master \subseteq Fds /\ readfds \subseteq Fds /\ fdmax \in Fds
  /\ i \in 0..(limit + 1) /\ j \in 0..(limit + 1)
  /\ conn \in [Clients -> {"out", "queued", "in", "left", "gone"}]
  /\ fd \in [Clients -> Fds \cup {NoFd}]
  /\ inbox \in [Clients -> Seq(1..MaxSays)] /\ says \in [Clients -> 0..MaxSays]
  /\ reset \subseteq Clients

Alive == pc \in {"select", "scan", "bcast"}
Connected == {c \in Clients : conn[c] \in {"in", "left"}}

\* master has the listener and exactly the descriptors of the open connections,
\* none above fdmax and no two the same; so select() never fails, and what is set
\* in read_fds and still to be scanned is open.
MasterIsOpen ==
  Alive => /\ master = Open
           /\ \A c \in Connected : fd[c] <= fdmax
           /\ \A c, d \in Connected : fd[c] = fd[d] => c = d
           /\ pc = "scan" => {f \in readfds : f >= i} \subseteq Open

\* recv() never blocks the server: the descriptor the scan has got to is ready.
RecvNeverBlocks == pc = "scan" => Ready(i)

\* What client d should have heard, in this order: all that was read since it was
\* accepted, but for its own words.
Due(d, h) ==
  SelectSeq(SubSeq(h, joined[d] + 1, Len(h)), LAMBDA m : m[1] # d)

\* Every client that is still there has heard exactly what it should have, in the
\* same order as everybody else; during a broadcast the message being sent may be
\* missing.
HeardAll ==
  \A d \in Clients : conn[d] = "in" /\ Alive =>
    \/ heard[d] = Due(d, hist)
    \/ pc = "bcast" /\ j <= fd[d] /\ heard[d] = Due(d, SubSeq(hist, 1, Len(hist) - 1))

\* Only a client that has hung up, and that the scan has not yet come to, can end
\* the server once it is in its loop.
StopExplained ==
  /\ pc # "badfd"
  /\ pc = "killed" => \E c \in reset : conn[c] = "left" /\ fd[c] \in master

\* A client whose words wait to be read, or that waits to be accepted.
Waiting(c) ==
  \/ conn[c] \in {"in", "left"} /\ inbox[c] # <<>>
  \/ conn[c] = "queued" /\ Fds \ Open # {}
=============================================================================
