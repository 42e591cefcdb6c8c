----------------------------- MODULE MCServers ------------------------------
(***************************************************************************)
(* The concurrent servers on small instances. A behaviour is one of one    *)
(* server: the pre-threaded svr_pre_mt.c, sfingr.c, which forks for each   *)
(* connection and reads a request, unix_svr.c, which forks and shuts the   *)
(* connection down, mt_sfingr.c, which creates a thread for each           *)
(* connection, selectserver.c, which has one process for all, or           *)
(* xfer_file.c, which sends a file to one client after the other;          *)
(* cpudtl_tstsvr.c forks as they do, and differs in its reply (IoLoops).   *)
(***************************************************************************)
EXTENDS Naturals

CONSTANTS Threads, Clients,
          Nobody,            \* svr_pre_mt.c: mlock is free
          MaxFds, QlenMax,   \* svr_pre_mt.c: descriptors and backlog
          FewClients, FewFds,   \* sfingr.c: its clients and descriptors
          ForkFds, QLENGTH,  \* unix_svr.c, mt_sfingr.c: descriptors; backlog
          MaxSays, FdLimits,   \* selectserver.c: messages of a client; descriptors
          NoClient,            \* mt_sfingr.c, xfer_file.c: no client yet
          Sizes, PAGE, SENDMAX, SOCKBUF   \* xfer_file.c: sizes

VARIABLE program     \* the program of this behaviour

\* The variables of the programs; those of the same name are shared.
VARIABLES proc, pc, mlock, sock, backlog, conn, open, leaked, parent, newsd, fds,
          failed, queue, cli, child, cfds, got, shut, p2, thr, sd, limit, master,
          readfds, fdmax, i, j, fd, inbox, says, reset, hist, joined, heard, how, size,
          pos, left, name, cpc, asked, dest, cut

PreMt  == INSTANCE SvrPreMt
Finger == INSTANCE ForkServer WITH Clients <- FewClients, MaxFds <- FewFds, Reads <- TRUE,
                              Shuts <- FALSE
Unix   == INSTANCE ForkServer WITH MaxFds <- ForkFds, Reads <- FALSE, Shuts <- TRUE
Mt     == INSTANCE MtFinger WITH MaxFds <- ForkFds
Chat   == INSTANCE SelectServer WITH Clients <- FewClients
Xfer   == INSTANCE XferFile WITH Clients <- FewClients

vars == <<program, proc, pc, mlock, sock, backlog, conn, open, leaked, parent, newsd,
          fds, failed, queue, cli, child, cfds, got, shut, p2, thr, sd, limit, master,
          readfds, fdmax, i, j, fd, inbox, says, reset, hist, joined, heard, how, size,
          pos, left, name, cpc, asked, dest, cut>>

\* The variables that one program alone has, and their value when another runs.
ownPreMt == <<mlock, backlog, open>>
ownMt == <<p2, thr, sd>>
ownChat == <<limit, master, readfds, fdmax, i, j, fd, inbox, says, reset, hist, joined,
             heard>>
ownXfer == <<how, size, pos, left, name, cpc, asked, dest, cut>>

noPreMt == mlock = 0 /\ backlog = 0 /\ open = 0
noMt == p2 = 0 /\ thr = 0 /\ sd = 0
noChat == limit = 0 /\ master = 0 /\ readfds = 0 /\ fdmax = 0 /\ i = 0 /\ j = 0
          /\ fd = 0 /\ inbox = 0 /\ says = 0 /\ reset = 0 /\ hist = 0 /\ joined = 0
          /\ heard = 0
noXfer == how = 0 /\ size = 0 /\ pos = 0 /\ left = 0 /\ name = 0 /\ cpc = 0
          /\ asked = 0 /\ dest = 0 /\ cut = 0

Init ==
  \/ /\ program = "svr_pre_mt" /\ PreMt!Init /\ noMt /\ noChat /\ noXfer /\ parent = 0
     /\ newsd = 0 /\ fds = 0 /\ failed = 0 /\ queue = 0 /\ cli = 0 /\ child = 0
     /\ cfds = 0 /\ got = 0 /\ shut = 0
  \/ /\ program = "sfingr" /\ Finger!Init /\ noPreMt /\ noMt /\ noChat /\ noXfer
     /\ proc = 0 /\ pc = 0 /\ sock = 0 /\ conn = 0 /\ leaked = 0
  \/ /\ program = "unix_svr" /\ Unix!Init /\ noPreMt /\ noMt /\ noChat /\ noXfer
     /\ proc = 0 /\ pc = 0 /\ sock = 0 /\ conn = 0 /\ leaked = 0
  \/ /\ program = "mt_sfingr" /\ Mt!Init /\ noPreMt /\ noChat /\ noXfer /\ pc = 0
     /\ sock = 0 /\ conn = 0 /\ parent = 0 /\ queue = 0 /\ child = 0 /\ cfds = 0
     /\ shut = 0
  \/ /\ program = "selectserver" /\ Chat!Init /\ noPreMt /\ noMt /\ noXfer /\ proc = 0
     /\ sock = 0 /\ leaked = 0 /\ parent = 0 /\ newsd = 0 /\ fds = 0 /\ failed = 0
     /\ queue = 0 /\ cli = 0 /\ child = 0 /\ cfds = 0 /\ got = 0 /\ shut = 0
  \/ /\ program = "xfer_file" /\ Xfer!Init /\ noPreMt /\ noMt /\ noChat /\ proc = 0
     /\ leaked = 0 /\ parent = 0 /\ fds = 0 /\ failed = 0 /\ queue = 0 /\ cli = 0
     /\ child = 0 /\ cfds = 0 /\ got = 0 /\ shut = 0

Next ==
  \/ /\ program = "svr_pre_mt" /\ PreMt!Next
     /\ UNCHANGED <<program, ownMt, ownChat, ownXfer, parent, newsd, fds, failed,
                   queue, cli, child, cfds, got, shut>>
  \/ /\ program = "sfingr" /\ Finger!Next
     /\ UNCHANGED <<program, ownPreMt, ownMt, ownChat, ownXfer, proc, pc, sock, conn,
                   leaked>>
  \/ /\ program = "unix_svr" /\ Unix!Next
     /\ UNCHANGED <<program, ownPreMt, ownMt, ownChat, ownXfer, proc, pc, sock, conn,
                   leaked>>
  \/ /\ program = "mt_sfingr" /\ Mt!Next
     /\ UNCHANGED <<program, ownPreMt, ownChat, ownXfer, pc, sock, conn, parent, queue,
                   child, cfds, shut>>
  \/ /\ program = "selectserver" /\ Chat!Next
     /\ UNCHANGED <<program, ownPreMt, ownMt, ownXfer, proc, sock, leaked, parent,
                   newsd, fds, failed, queue, cli, child, cfds, got, shut>>
  \/ /\ program = "xfer_file" /\ Xfer!Next
     /\ UNCHANGED <<program, ownPreMt, ownMt, ownChat, proc, leaked, parent, fds,
                   failed, queue, cli, child, cfds, got, shut>>

premt_vars == PreMt!vars
finger_vars == Finger!vars
unix_vars == Unix!vars
mt_vars == Mt!vars
chat_vars == Chat!vars
xfer_vars == Xfer!vars

\* The server threads, the parent and its children run, and a client that is
\* connected sends its request; the clients need not come, and may leave.
FairSpec ==
  /\ Init /\ [][Next]_vars
  /\ \A t \in Threads :
       /\ WF_premt_vars(program = "svr_pre_mt" /\ PreMt!CreateThread(t))
       /\ WF_premt_vars(program = "svr_pre_mt" /\ PreMt!enter_server_loop(t))
  /\ WF_finger_vars(program = "sfingr" /\ Finger!Parent)
  /\ WF_unix_vars(program = "unix_svr" /\ Unix!Parent)
  /\ \A c \in FewClients :
       /\ WF_finger_vars(program = "sfingr" /\ Finger!Child(c))
       /\ WF_finger_vars(program = "sfingr" /\ Finger!Request(c))
  /\ \A c \in Clients :
       /\ WF_unix_vars(program = "unix_svr" /\ Unix!Child(c))
       /\ WF_unix_vars(program = "unix_svr" /\ Unix!Request(c))
       /\ WF_mt_vars(program = "mt_sfingr" /\ Mt!process_client(c))
       /\ WF_mt_vars(program = "mt_sfingr" /\ Mt!Request(c))
  /\ WF_mt_vars(program = "mt_sfingr" /\ Mt!Main)
  /\ WF_chat_vars(program = "selectserver" /\ Chat!Server)
  /\ WF_xfer_vars(program = "xfer_file" /\ (Xfer!Accept \/ Xfer!process_client))
  /\ \A c \in FewClients : WF_xfer_vars(program = "xfer_file" /\ Xfer!Client(c))

ASSUME Constants ==
  /\ PreMt!SvrPreMtAssumption /\ Finger!ForkServerAssumption
  /\ Unix!ForkServerAssumption /\ Mt!MtFingerAssumption
  /\ Chat!SelectServerAssumption /\ Xfer!XferFileAssumption

-----------------------------------------------------------------------------
(* Properties.                                                             *)

\* The variables of the server that runs have their types, and no queue of
\* connections is longer than its backlog allows.
TypeOK ==
  CASE program = "svr_pre_mt" -> PreMt!TypeOK
    [] program = "sfingr"     -> Finger!TypeOK
    [] program = "unix_svr"   -> Unix!TypeOK
    [] program = "mt_sfingr"    -> Mt!TypeOK
    [] program = "selectserver" -> Chat!TypeOK
    [] program = "xfer_file"    -> Xfer!TypeOK

\* A connection is in one place. svr_pre_mt.c: it is in the backlog, once, or in
\* the hands of one thread, which has an open socket for it, and "only one thread
\* in the thread pool can actually be blocked in accept()" (svr_pre_mt.c:307-309).
\* The forking servers: no child has the connection of another client open,
\* except of one whose fork() failed.  mt_sfingr.c: it is with one thread, or given
\* up by an error path.  selectserver.c: master is exactly the open descriptors, so
\* recv() never blocks the server.  xfer_file.c: every byte of a transfer is still
\* to be sent, on its way, or in the file of the client.
OnePlace ==
  /\ program = "svr_pre_mt" => PreMt!OneInAccept /\ PreMt!OnePlace
  /\ program = "sfingr" => Finger!NoStrayHolder
  /\ program = "unix_svr" => Unix!NoStrayHolder
  /\ program = "mt_sfingr" => Mt!OnePlace
  /\ program = "selectserver" => Chat!MasterIsOpen /\ Chat!RecvNeverBlocks
  /\ program = "xfer_file" => Xfer!OnePlace

\* A server ends for the reasons its code gives only. svr_pre_mt.c: SIGINT, a
\* client that hangs up, or no descriptors left; the forking servers: as many
\* failed calls of fork() as there are descriptors.  mt_sfingr.c: an error path, a
\* client that left, or no descriptors; selectserver.c: a client that hung up and
\* was not yet scanned; xfer_file.c: a bad name, or a client that ended first.
StopExplained ==
  CASE program = "svr_pre_mt" -> PreMt!StopExplained
    [] program = "sfingr"     -> Finger!StopExplained
    [] program = "unix_svr"   -> Unix!StopExplained
    [] program = "mt_sfingr"    -> Mt!StopExplained
    [] program = "selectserver" -> Chat!StopExplained
    [] program = "xfer_file"    -> Xfer!StopExplained

\* The forking servers: a client that reads the end of the connection has its
\* answer, unless its child failed, or fork() failed for it and the server has
\* exited; mt_sfingr.c: whatever happens while the server runs.  A client of
\* xfer_file.c that ends without an error has the whole file.  selectserver.c: whoever
\* is there has heard everything that was said since, in one order.
AnsweredBeforeEof ==
  /\ program = "sfingr" => Finger!AnsweredBeforeEof
  /\ program = "unix_svr" => Unix!AnsweredBeforeEof
  /\ program = "mt_sfingr" => Mt!AnsweredBeforeEof
  /\ program = "selectserver" => Chat!HeardAll
  /\ program = "xfer_file" => Xfer!WholeFile

\* The client is waiting to be accepted, answered, heard or sent its file.
Unserved(c) ==
  \/ program = "svr_pre_mt" /\ PreMt!Queued(c) /\ ~PreMt!Accepted(c)
  \/ program = "svr_pre_mt" /\ c \in open /\ ~PreMt!Answered(c)
  \/ program = "unix_svr" /\ cli[c] # "idle" /\ ~Unix!Settled(c)
  \/ c \in FewClients /\ program = "sfingr" /\ cli[c] # "idle" /\ ~Finger!Settled(c)
  \/ program = "mt_sfingr" /\ cli[c] # "idle" /\ ~Mt!Settled(c)
  \/ c \in FewClients /\ program = "selectserver" /\ Chat!Alive /\ Chat!Waiting(c)
  \/ c \in FewClients /\ program = "xfer_file" /\ cpc[c] # "idle" /\ ~Xfer!Settled(c)

\* A client that connects and stays is served. svr_pre_mt.c: as long as the server
\* is up and has a thread, its connection is accepted, and then it gets the file or
\* an error message. The forking servers: it is answered and sees the end of the
\* connection, unless fork() failed for it or the server stopped.  The others:
\* nobody waits for ever.  (A client stops waiting only by being served or by what
\* the definition of Unserved excepts.)
ClientServed == \A c \in Clients : []<>(~ Unserved(c))
=============================================================================
