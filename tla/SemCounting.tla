---------------------------- MODULE SemCounting ----------------------------
(***************************************************************************)
(* The counting-semaphore client/server demo of                            *)
(* ipc/posix_ipc/more_demos/appdemo_sem_as_counting.                       *)
(*                                                                         *)
(* A server creates a named POSIX semaphore of value MaxSemCount and a     *)
(* named message queue, and serves the requests of the queue one by one,   *)
(* posting the semaphore after each.  A client takes a unit of the         *)
(* semaphore, sends its request into the queue, and exits.                 *)
(*                                                                         *)
(* The server can be killed and started again: every start unlinks both    *)
(* names, but a client that still has the old semaphore or queue open      *)
(* goes on using it.  Objects are therefore numbered by the server run     *)
(* that created them, and a name maps to a run (0: no such name).          *)
(***************************************************************************)
EXTENDS Naturals, Sequences, FiniteSets, Functions

CONSTANTS Clients,      \* client processes, each runs main() once
          MaxSemCount,  \* argv[1] of the server
          MaxRuns,      \* bound: how many times the server is started
          MaxMsg        \* mq_maxmsg of a queue created with default attributes

ASSUME SemCountingAssumption ==
  /\ IsFiniteSet(Clients)
  /\ MaxSemCount \in Nat
  /\ MaxRuns \in Nat \ {0}
  /\ MaxMsg \in Nat \ {0}

VARIABLES server,   \* program counter of the server
          run,      \* number of server starts so far: the current run
          semName,  \* run whose semaphore SEM_NAME denotes
          semVal,   \* value of the semaphore created by each run
          mqName,   \* run whose queue MQ_NAME denotes
          mq,       \* requests in the queue created by each run
          serving,  \* requests the server has received and not yet posted
          served,   \* history: clients whose request was finished
          client,   \* program counter of each client
          sem,      \* semaphore each client has open
          mqd       \* queue each client has open

vars == <<server, run, semName, semVal, mqName, mq, serving, served,
          client, sem, mqd>>

Runs == 1..MaxRuns

Init ==
  /\ server = "down" /\ run = 0
  /\ semName = 0 /\ semVal = [r \in Runs |-> 0]
  /\ mqName = 0 /\ mq = [r \in Runs |-> <<>>]
  /\ serving = {} /\ served = {}
  /\ client = [c \in Clients |-> "start"]
  /\ sem = [c \in Clients |-> 0]
  /\ mqd = [c \in Clients |-> 0]

-----------------------------------------------------------------------------
(* The server: main() starts afresh, then loops over receive_client_msg(). *)

\* main(): mq_unlink(MQ_NAME), the first effect of a start.
StartAfresh ==
  /\ server = "down" /\ run < MaxRuns
  /\ run' = run + 1
  /\ mqName' = 0
  /\ server' = "sem_unlink"
  /\ UNCHANGED <<semName, semVal, mq, serving, served, client, sem, mqd>>

\* main(): sem_unlink(SEM_NAME).
SemUnlink ==
  /\ server = "sem_unlink"
  /\ semName' = 0
  /\ server' = "sem_setup"
  /\ UNCHANGED <<run, semVal, mqName, mq, serving, served, client, sem, mqd>>

\* sem_setup(): O_CREAT|O_EXCL.  The name was just unlinked and only a server
\* creates it, so with one server process at a time EEXIST does not occur.
ServerSemSetup ==
  /\ server = "sem_setup"
  /\ semName' = run
  /\ semVal' = [semVal EXCEPT ![run] = MaxSemCount]
  /\ server' = "mq_open"
  /\ UNCHANGED <<run, mqName, mq, serving, served, client, sem, mqd>>

\* receive_client_msg(): create the queue, or open it if it exists already.
OpenRequestMq ==
  /\ server = "mq_open"
  /\ mqName' = IF mqName = 0 THEN run ELSE mqName
  /\ server' = "mq_receive"
  /\ UNCHANGED <<run, semName, semVal, mq, serving, served, client, sem, mqd>>

\* receive_client_msg(): mq_receive blocks while the queue is empty.  All
\* clients send with priority 100, so the queue is first in, first out.
ReceiveClientMsg ==
  /\ server = "mq_receive"
  /\ mq[run] # <<>>
  /\ serving' = {Head(mq[run])}
  /\ mq' = [mq EXCEPT ![run] = Tail(@)]
  /\ server' = "work"
  /\ UNCHANGED <<run, semName, semVal, mqName, served, client, sem, mqd>>

\* Mutant of SemPost: the unit is not given back.
SemPost_NoPost ==
  /\ server = "work"
  /\ served' = served \cup serving
  /\ serving' = {}
  /\ server' = "mq_open"
  /\ UNCHANGED <<run, semName, semVal, mqName, mq, client, sem, mqd>>

\* Mutant of SemPost: sem_post before the work, which then starts over.
SemPost_Twice ==
  /\ server = "work"
  /\ semVal' = [semVal EXCEPT ![run] = @ + 1]
  /\ \/ server' = "work" /\ UNCHANGED <<serving, served>>
     \/ server' = "mq_open" /\ serving' = {} /\ served' = served \cup serving
  /\ UNCHANGED <<run, semName, mqName, mq, client, sem, mqd>>

\* main(): the 'work', then sem_post, then the next iteration.
SemPost ==
  /\ server = "work"
  /\ semVal' = [semVal EXCEPT ![run] = @ + 1]
  /\ served' = served \cup serving
  /\ serving' = {}
  /\ server' = "mq_open"
  /\ UNCHANGED <<run, semName, mqName, mq, client, sem, mqd>>

\* The server loops for ever: it stops by being killed, anywhere.  The names
\* and the objects they denote survive it.
KillServer ==
  /\ server # "down"
  /\ server' = "down"
  /\ serving' = {}
  /\ UNCHANGED <<run, semName, semVal, mqName, mq, served, client, sem, mqd>>

-----------------------------------------------------------------------------
(* A client: sem_setup(), sem_wait(), client_send_request(), exit.         *)

\* Mutant of ClientSemSetup: the result of sem_open is not checked.
ClientSemSetup_NoCheck(c) ==
  /\ client[c] = "start"
  /\ sem' = [sem EXCEPT ![c] = run + 1]
  /\ client' = [client EXCEPT ![c] = "sem_wait"]
  /\ UNCHANGED <<server, run, semName, semVal, mqName, mq, serving, served, mqd>>

\* sem_setup(): without the name the client exits.
ClientSemSetup(c) ==
  /\ client[c] = "start"
  /\ sem' = [sem EXCEPT ![c] = semName]
  /\ client' = [client EXCEPT ![c] = IF semName = 0 THEN "no_sem" ELSE "sem_wait"]
  /\ UNCHANGED <<server, run, semName, semVal, mqName, mq, serving, served, mqd>>

\* Mutant of SemWait: sem_trywait, whose failure is only reported.
SemWait_Try(c) ==
  /\ client[c] = "sem_wait"
  /\ semVal' = [semVal EXCEPT ![sem[c]] = IF @ > 0 THEN @ - 1 ELSE @]
  /\ client' = [client EXCEPT ![c] = "mq_open"]
  /\ UNCHANGED <<server, run, semName, mqName, mq, serving, served, sem, mqd>>

\* main(): sem_wait blocks while the value is 0.
SemWait(c) ==
  /\ client[c] = "sem_wait"
  /\ semVal[sem[c]] > 0
  /\ semVal' = [semVal EXCEPT ![sem[c]] = @ - 1]
  /\ client' = [client EXCEPT ![c] = "mq_open"]
  /\ UNCHANGED <<server, run, semName, mqName, mq, serving, served, sem, mqd>>

\* client_send_request(): mq_open(O_WRONLY).  When the server has not created
\* the queue yet, handle_error exits: the unit of the semaphore is lost.
ClientMqOpen(c) ==
  /\ client[c] = "mq_open"
  /\ mqd' = [mqd EXCEPT ![c] = mqName]
  /\ client' = [client EXCEPT ![c] = IF mqName = 0 THEN "no_mq" ELSE "mq_send"]
  /\ UNCHANGED <<server, run, semName, semVal, mqName, mq, serving, served, sem>>

\* client_send_request(): mq_send blocks while the queue is full.
ClientMqSend(c) ==
  /\ client[c] = "mq_send"
  /\ Len(mq[mqd[c]]) < MaxMsg
  /\ mq' = [mq EXCEPT ![mqd[c]] = Append(@, c)]
  /\ client' = [client EXCEPT ![c] = "exited"]
  /\ UNCHANGED <<server, run, semName, semVal, mqName, serving, served, sem, mqd>>

-----------------------------------------------------------------------------
ServerLoop == OpenRequestMq \/ ReceiveClientMsg \/ SemPost

ServerSetup == StartAfresh \/ SemUnlink \/ ServerSemSetup

Client(c) == ClientSemSetup(c) \/ SemWait(c) \/ ClientMqOpen(c) \/ ClientMqSend(c)

Next == ServerSetup \/ ServerLoop \/ KillServer \/ \E c \in Clients : Client(c)

Spec == Init /\ [][Next]_vars

\* A server that nobody kills, and processes that run whenever they can: the
\* kernel's scheduler is fair to every runnable process.
NextUp == ServerSetup \/ ServerLoop \/ \E c \in Clients : Client(c)

FairSpec ==
  /\ Init /\ [][NextUp]_vars
  /\ WF_vars(ServerSetup) /\ WF_vars(ServerLoop)
  /\ \A c \in Clients : WF_vars(Client(c))

\* The same when the server may be killed and started again.
FairRestartSpec ==
  /\ Spec /\ WF_vars(ServerSetup) /\ WF_vars(ServerLoop)
  /\ \A c \in Clients : WF_vars(Client(c))

-----------------------------------------------------------------------------
(* Properties.                                                             *)

ServerPC == {"down", "sem_unlink", "sem_setup", "mq_open", "mq_receive", "work"}

ClientPC == {"start", "no_sem", "sem_wait", "mq_open", "no_mq", "mq_send", "exited"}

\* Every variable has its type; an open handle denotes a run that happened.
TypeOK ==
  /\ server \in ServerPC
  /\ run \in 0..MaxRuns
  /\ semName \in 0..run /\ mqName \in 0..run
  /\ semVal \in [Runs -> Nat]
  /\ mq \in [Runs -> Seq(Clients)]
  /\ serving \in SUBSET Clients /\ served \in SUBSET Clients
  /\ client \in [Clients -> ClientPC]
  /\ sem \in [Clients -> 0..run] /\ mqd \in [Clients -> 0..run]

\* Clients that took a unit of run r's semaphore and have not sent yet; those
\* in "no_mq" exited with it.
Holding(r) ==
  {c \in Clients : sem[c] = r /\ client[c] \in {"mq_open", "mq_send", "no_mq"}}

\* Units of the current run's semaphore that are in use: held by a client, or
\* standing behind a request that is queued or being served.
Connected == Cardinality(Holding(run)) + Len(mq[run]) + Cardinality(serving)

\* The key point of the demo (server_sem_as_counting.c:15-18): at most
\* MaxSemCount clients are connected at a time, the next one has to wait.  This
\* holds until the server is started again: a second start serves requests that
\* units of the first semaphore have paid for.
ConnectedBounded == run = 1 => Connected <= MaxSemCount

\* Units are never created by the sem_wait / mq_send / mq_receive / sem_post
\* relay, also when a unit of one run's semaphore is given back to that of
\* another: what is in use and what is left, of all runs, never exceeds what the
\* server runs have put in.
InUse ==
  {c \in Clients : client[c] \in {"mq_open", "mq_send", "no_mq"}}
    \cup UNION {Range(mq[r]) : r \in Runs} \cup serving

TokensBounded == SumFunction(semVal) + Cardinality(InUse) <= run * MaxSemCount

\* Inside the first run every step moves one unit from one term of this sum to
\* another.
RunTokens == run = 1 => semVal[1] + Connected <= MaxSemCount

\* The strengthening that makes RunTokens inductive: a client that is past
\* an open has a real handle, the server serves one request exactly while it
\* works, and nobody can have opened anything before the first set-up is over.
HandlesOpen ==
  \A c \in Clients :
    /\ client[c] \in {"sem_wait", "mq_open", "no_mq", "mq_send"} => sem[c] > 0
    /\ client[c] = "mq_send" => mqd[c] > 0

ServesOne ==
  /\ server = "work" => \E c \in Clients : serving = {c}
  /\ server # "work" => serving = {}
  /\ run = 0 => server = "down"

FirstSetupFresh ==
  (run = 0 \/ (run = 1 /\ server \in {"sem_unlink", "sem_setup"})) =>
    /\ semName = 0 /\ mqName = 0
    /\ \A r \in Runs : semVal[r] = 0 /\ mq[r] = <<>>
    /\ \A c \in Clients : sem[c] = 0 /\ mqd[c] = 0

\* Until the server is killed no unit disappears either, except with the clients
\* that Holding counts as "no_mq".
TokensConserved ==
  run = 1 /\ server \in {"mq_open", "mq_receive", "work"} =>
    semVal[run] + Connected = MaxSemCount

\* A client waiting on the semaphore is served in the end, whatever the other
\* clients do, provided none of them exits on a failed mq_open() and nobody kills
\* the server.
WaiterServed ==
  (\A c \in Clients : [](client[c] # "no_mq" /\ (server = "down" => run = 0))) =>
    \A c \in Clients : client[c] = "sem_wait" ~> c \in served

\* "the next one *has to wait* until existing clients finish": a waiting
\* client gets its turn, or finds that there is no queue and gives up.
NextClientGetsTurn ==
  \A c \in Clients :
    client[c] = "sem_wait" ~> (c \in served \/ client[c] = "no_mq")
=============================================================================
