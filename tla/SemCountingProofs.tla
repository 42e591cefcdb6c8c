------------------------- MODULE SemCountingProofs -------------------------
(***************************************************************************)
(* The counting semaphore bounds the connected clients as long as the      *)
(* server is started once, for every number of clients, every count, every *)
(* queue length, and with a kill of the server at any point.               *)
(***************************************************************************)
EXTENDS SemCounting, FiniteSetTheorems, SequenceTheorems, TLAPS

\* What the induction carries for type correctness.
TInv == TypeOK /\ HandlesOpen /\ ServesOne

\* The demo starts with it.
LEMMA TInvInit == Init => TInv
  BY SemCountingAssumption
  DEF Init, TInv, TypeOK, HandlesOpen, ServesOne, Runs, ServerPC, ClientPC

\* Server, clients and a kill of the server keep it.
LEMMA TInvNext == TInv /\ [Next]_vars => TInv'
<1> SUFFICES ASSUME TInv, [Next]_vars PROVE TInv'
  OBVIOUS
<1> TypeOK /\ HandlesOpen /\ ServesOne
  BY DEF TInv
<1> USE SemCountingAssumption DEF TypeOK, HandlesOpen, ServesOne, Runs, ServerPC, ClientPC
<1>1. CASE StartAfresh
  <2>1. TypeOK'
    BY <1>1, SMTT(30) DEF StartAfresh
  <2>2. HandlesOpen'
    BY <1>1 DEF StartAfresh
  <2>3. ServesOne'
    BY <1>1 DEF StartAfresh
  <2> QED BY <2>1, <2>2, <2>3 DEF TInv
<1>2. CASE SemUnlink
  <2>1. TypeOK'
    BY <1>2, SMTT(30) DEF SemUnlink
  <2>2. HandlesOpen'
    BY <1>2 DEF SemUnlink
  <2>3. ServesOne'
    BY <1>2 DEF SemUnlink
  <2> QED BY <2>1, <2>2, <2>3 DEF TInv
<1>3. CASE ServerSemSetup
  <2>1. TypeOK'
    BY <1>3, SMTT(30) DEF ServerSemSetup
  <2>2. HandlesOpen'
    BY <1>3 DEF ServerSemSetup
  <2>3. ServesOne'
    BY <1>3 DEF ServerSemSetup
  <2> QED BY <2>1, <2>2, <2>3 DEF TInv
<1>4. CASE OpenRequestMq
  <2>1. TypeOK'
    BY <1>4, SMTT(30) DEF OpenRequestMq
  <2>2. HandlesOpen'
    BY <1>4 DEF OpenRequestMq
  <2>3. ServesOne'
    BY <1>4 DEF OpenRequestMq
  <2> QED BY <2>1, <2>2, <2>3 DEF TInv
<1>5. CASE ReceiveClientMsg
  <2>0. /\ run \in Runs /\ mq[run] \in Seq(Clients) /\ mq[run] # <<>>
        /\ Head(mq[run]) \in Clients /\ Tail(mq[run]) \in Seq(Clients)
    BY <1>5 DEF ReceiveClientMsg
  <2>1. TypeOK'
    BY <1>5, <2>0 DEF ReceiveClientMsg
  <2>2. HandlesOpen'
    BY <1>5, <2>0, SMTT(30) DEF ReceiveClientMsg
  <2>3. ServesOne'
    BY <1>5, <2>0 DEF ReceiveClientMsg
  <2> QED BY <2>1, <2>2, <2>3 DEF TInv
<1>6. CASE SemPost
  <2>0. run \in Runs /\ semVal[run] + 1 \in Nat
    BY <1>6 DEF SemPost
  <2>1. TypeOK'
    BY <1>6, <2>0 DEF SemPost
  <2>2. HandlesOpen'
    BY <1>6, <2>0, SMTT(30) DEF SemPost
  <2>3. ServesOne'
    BY <1>6, <2>0, SMTT(30) DEF SemPost
  <2> QED BY <2>1, <2>2, <2>3 DEF TInv
<1>7. CASE KillServer
  <2>1. TypeOK'
    BY <1>7 DEF KillServer
  <2>2. HandlesOpen'
    BY <1>7 DEF KillServer
  <2>3. ServesOne'
    BY <1>7 DEF KillServer
  <2> QED BY <2>1, <2>2, <2>3 DEF TInv
<1>8. ASSUME NEW c \in Clients, ClientSemSetup(c) PROVE TInv'
  <2>1. TypeOK'
    BY <1>8, SMTT(30) DEF ClientSemSetup
  <2>2. HandlesOpen'
    BY <1>8 DEF ClientSemSetup
  <2>3. ServesOne'
    BY <1>8 DEF ClientSemSetup
  <2> QED BY <2>1, <2>2, <2>3 DEF TInv
<1>9. ASSUME NEW c \in Clients, SemWait(c) PROVE TInv'
  <2>a. semVal[sem[c]] > 0 /\ client[c] = "sem_wait"
    BY <1>9, Zenon DEF SemWait
  <2>b. sem[c] \in Runs
    BY <2>a, SMTT(30)
  <2>c. semVal[sem[c]] \in Nat
    BY <2>b
  <2>0. sem[c] \in Runs /\ semVal[sem[c]] - 1 \in Nat
    BY <2>a, <2>b, <2>c, SMTT(30)
  <2>1. TypeOK'
    BY <1>9, <2>0 DEF SemWait
  <2>2. HandlesOpen'
    BY <1>9, <2>0 DEF SemWait
  <2>3. ServesOne'
    BY <1>9, <2>0 DEF SemWait
  <2> QED BY <2>1, <2>2, <2>3 DEF TInv
<1>10. ASSUME NEW c \in Clients, ClientMqOpen(c) PROVE TInv'
  <2>1. TypeOK'
    BY <1>10, SMTT(30) DEF ClientMqOpen
  <2>2. HandlesOpen'
    BY <1>10 DEF ClientMqOpen
  <2>3. ServesOne'
    BY <1>10 DEF ClientMqOpen
  <2> QED BY <2>1, <2>2, <2>3 DEF TInv
<1>11. ASSUME NEW c \in Clients, ClientMqSend(c) PROVE TInv'
  <2>a. mqd[c] \in Runs
    BY <1>11, SMTT(30) DEF ClientMqSend
  <2>b. mq[mqd[c]] \in Seq(Clients)
    BY <2>a
  <2>0. mqd[c] \in Runs /\ Append(mq[mqd[c]], c) \in Seq(Clients)
    BY <2>a, <2>b, AppendProperties
  <2>1. TypeOK'
    BY <1>11, <2>0 DEF ClientMqSend
  <2>2. HandlesOpen'
    BY <1>11, <2>0, SMTT(30) DEF ClientMqSend
  <2>3. ServesOne'
    BY <1>11, <2>0, SMTT(30) DEF ClientMqSend
  <2> QED BY <2>1, <2>2, <2>3 DEF TInv
<1>12. CASE UNCHANGED vars BY <1>12, SMTT(30) DEF vars, TInv
<1> QED
  <2>1. CASE ServerSetup BY <1>1, <1>2, <1>3, <2>1, Zenon DEF ServerSetup
  <2>2. CASE ServerLoop BY <1>4, <1>5, <1>6, <2>2, Zenon DEF ServerLoop
  <2>3. CASE \E c \in Clients : Client(c)
    BY <1>8, <1>9, <1>10, <1>11, <2>3, Zenon DEF Client
  <2> QED BY <1>7, <1>12, <2>1, <2>2, <2>3 DEF Next

\* Type correctness of the client/server demo, whatever the constants.
THEOREM SemCountingTypeOK == Spec => []TypeOK
<1>1. TInv => TypeOK BY DEF TInv
<1> QED BY TInvInit, TInvNext, <1>1, PTL DEF Spec
-----------------------------------------------------------------------------
(* The bound.  Inside the first run the sum RunTokens speaks of never      *)
(* grows, and stays the same from the set-up of the semaphore on.          *)

\* The bound of a single run, with the fact that nothing is open before the
\* semaphore gets its initial value.
BInv == FirstSetupFresh /\ RunTokens /\ TokensConserved

\* The clients that hold a unit are finitely many.
LEMMA HoldingCard ==
  ASSUME NEW r
  PROVE  IsFiniteSet(Holding(r)) /\ Cardinality(Holding(r)) \in Nat
<1>1. IsFiniteSet(Clients) BY SemCountingAssumption
<1>2. Holding(r) \subseteq Clients BY DEF Holding
<1>3. IsFiniteSet(Holding(r)) BY <1>1, <1>2, FS_Subset
<1> QED BY <1>3, FS_CardinalityType

\* The server serves one request while it works, else none.
LEMMA ServingCard ==
  ASSUME TInv
  PROVE  /\ Cardinality(serving) = IF server = "work" THEN 1 ELSE 0
         /\ \A c : Cardinality({c}) = 1
         /\ Cardinality({}) = 0
<1>1. \A c : Cardinality({c}) = 1 BY FS_Singleton
<1>2. Cardinality({}) = 0 BY FS_EmptySet
<1> QED BY <1>1, <1>2 DEF TInv, ServesOne

\* The bound holds at the start.
LEMMA BInvInit == Init => BInv
  BY SemCountingAssumption
  DEF Init, BInv, RunTokens, TokensConserved, FirstSetupFresh, Runs

\* Nothing is open before the first set-up is over.
LEMMA FreshNext == TInv /\ FirstSetupFresh /\ [Next]_vars => FirstSetupFresh'
<1> SUFFICES ASSUME TInv, FirstSetupFresh, [Next]_vars PROVE FirstSetupFresh'
  OBVIOUS
<1> USE DEF TInv, TypeOK, HandlesOpen, ServesOne, FirstSetupFresh
<1>1. CASE ServerSetup
  <2>1. CASE StartAfresh
    <3>1. run = 0 \/ run' > 1 BY <2>1 DEF StartAfresh
    <3>2. CASE run = 0 BY <2>1, <3>2 DEF StartAfresh
    <3>3. CASE run' > 1 BY <3>3
    <3> QED BY <3>1, <3>2, <3>3
  <2>2. CASE SemUnlink BY <2>2 DEF SemUnlink
  <2>3. CASE ServerSemSetup BY <2>3 DEF ServerSemSetup
  <2> QED BY <1>1, <2>1, <2>2, <2>3, SMTT(30) DEF ServerSetup
<1>2. CASE ServerLoop
  BY <1>2 DEF ServerLoop, OpenRequestMq, ReceiveClientMsg, SemPost
<1>3. CASE KillServer
  BY <1>3 DEF KillServer
<1>4. ASSUME NEW c \in Clients, Client(c) PROVE FirstSetupFresh'
  BY <1>4 DEF Client, ClientSemSetup, SemWait, ClientMqOpen, ClientMqSend
<1>5. CASE UNCHANGED vars BY <1>5 DEF vars
<1> QED BY <1>1, <1>2, <1>3, <1>4, <1>5 DEF Next

\* A unit that sem_wait() takes from the semaphore is then held by the client.
LEMMA UnitMoved ==
  \A a, h, l, w \in Nat : a > 0 => (a - 1) + ((h + 1) + l + w) = a + (h + l + w)
  OBVIOUS

\* Every step of the first run moves a unit from one term of the sum to another, or takes
\* one away before the server is set up or after it was killed.
LEMMA BoundNext == TInv /\ BInv /\ [Next]_vars => RunTokens' /\ TokensConserved'
<1> SUFFICES ASSUME TInv, TInv', BInv, [Next]_vars, run' = 1
             PROVE  /\ semVal'[1] + (Cardinality(Holding(1)') + Len(mq'[1])
                         + Cardinality(serving')) <= MaxSemCount
                    /\ server' \in {"mq_open", "mq_receive", "work"} =>
                         semVal'[1] + (Cardinality(Holding(1)') + Len(mq'[1])
                           + Cardinality(serving')) = MaxSemCount
  BY TInvNext DEF RunTokens, TokensConserved, Connected
<1> DEFINE H == Cardinality(Holding(1))
           L == Len(mq[1])
           W == Cardinality(serving)
<1>t. /\ 1 \in Runs /\ semVal[1] \in Nat /\ mq[1] \in Seq(Clients) /\ L \in Nat
      /\ H \in Nat /\ W \in Nat /\ MaxSemCount \in Nat
      /\ run = 1 => semVal[1] + (H + L + W) <= MaxSemCount
      /\ run = 1 /\ server \in {"mq_open", "mq_receive", "work"} =>
           semVal[1] + (H + L + W) = MaxSemCount
  <2>1. 1 \in Runs /\ semVal[1] \in Nat /\ mq[1] \in Seq(Clients)
    BY SemCountingAssumption DEF TInv, TypeOK, Runs
  <2>2. L \in Nat BY <2>1
  <2>3. H \in Nat BY HoldingCard
  <2>4. W \in Nat BY ServingCard
  <2>5. run = 1 => semVal[1] + (H + L + W) <= MaxSemCount
    BY DEF BInv, RunTokens, Connected
  <2>6. run = 1 /\ server \in {"mq_open", "mq_receive", "work"} =>
          semVal[1] + (H + L + W) = MaxSemCount
    BY DEF BInv, TokensConserved, Connected
  <2> QED BY <2>1, <2>2, <2>3, <2>4, <2>5, <2>6, SemCountingAssumption
<1>e. Cardinality({}) = 0 /\ \A c : Cardinality({c}) = 1
  BY ServingCard
<1>n. Len(<<>>) = 0
  OBVIOUS
<1>f. ASSUME \A c \in Clients : sem[c] = 0 PROVE Holding(1) = {}
  BY <1>f DEF Holding
<1>1. CASE StartAfresh
  <2>1. run = 0 /\ serving = {}
    BY <1>1 DEF StartAfresh, TInv, TypeOK, ServesOne
  <2>2. semVal[1] = 0 /\ mq[1] = <<>> /\ Holding(1) = {}
    <3>1. (\A r \in Runs : semVal[r] = 0 /\ mq[r] = <<>>) /\ \A c \in Clients : sem[c] = 0
      BY <2>1 DEF BInv, FirstSetupFresh
    <3> QED BY <3>1, <1>f, <1>t
  <2>3. Holding(1)' = Holding(1)
    BY <1>1 DEF StartAfresh, Holding
  <2>4. semVal'[1] = 0 /\ Len(mq'[1]) = 0
    BY <1>1, <2>2, <1>n DEF StartAfresh
  <2>5. Cardinality(Holding(1)') = 0 /\ Cardinality(serving') = 0
    BY <1>1, <2>1, <2>2, <2>3, <1>e DEF StartAfresh
  <2> QED BY <1>1, <2>4, <2>5, <1>t DEF StartAfresh
<1>2. CASE SemUnlink
  <2>1. Holding(1)' = Holding(1) BY <1>2 DEF SemUnlink, Holding
  <2> QED BY <1>2, <2>1, <1>t DEF SemUnlink
<1>3. CASE ServerSemSetup
  <2>1. run = 1 /\ serving = {} /\ mq[1] = <<>> /\ Holding(1) = {}
    BY <1>3, <1>f, <1>t, SMTT(30)
    DEF ServerSemSetup, BInv, FirstSetupFresh, TInv, ServesOne
  <2>2. Holding(1)' = Holding(1) BY <1>3 DEF ServerSemSetup, Holding
  <2>3. semVal'[1] = MaxSemCount
    BY <1>3, <2>1, <1>t DEF ServerSemSetup, TInv, TypeOK
  <2>4. Cardinality(Holding(1)') = 0 /\ Len(mq'[1]) = 0 /\ Cardinality(serving') = 0
    BY <1>3, <2>1, <2>2, <1>e, <1>n DEF ServerSemSetup
  <2> QED BY <2>3, <2>4, <1>t
<1>4. CASE OpenRequestMq
  <2>1. Holding(1)' = Holding(1) BY <1>4 DEF OpenRequestMq, Holding
  <2> QED BY <1>4, <2>1, <1>t DEF OpenRequestMq
<1>5. CASE ReceiveClientMsg
  <2>1. Holding(1)' = Holding(1) BY <1>5 DEF ReceiveClientMsg, Holding
  <2>2. run = 1 /\ mq[1] # <<>> /\ mq'[1] = Tail(mq[1])
    BY <1>5, <1>t DEF ReceiveClientMsg, TInv, TypeOK
  <2>3. Len(mq'[1]) = L - 1 BY <2>2, <1>t
  <2>4. W = 0 /\ Cardinality(serving') = 1
    BY <1>5, <1>e DEF ReceiveClientMsg, TInv, ServesOne
  <2> QED BY <1>5, <2>1, <2>2, <2>3, <2>4, <1>t DEF ReceiveClientMsg
<1>6. CASE SemPost
  <2>1. Holding(1)' = Holding(1) BY <1>6 DEF SemPost, Holding
  <2>2. run = 1 /\ semVal'[1] = semVal[1] + 1
    BY <1>6, <1>t DEF SemPost, TInv, TypeOK
  <2>3. W = 1 /\ Cardinality(serving') = 0
    BY <1>6, <1>e, ServingCard DEF SemPost
  <2>4. server = "work" /\ mq' = mq /\ server' = "mq_open" BY <1>6 DEF SemPost
  <2>5. semVal[1] + (H + L + 1) = MaxSemCount BY <2>2, <2>3, <2>4, <1>t
  <2> HIDE DEF H, L, W
  <2>6. (semVal[1] + 1) + (H + L + 0) = MaxSemCount BY <2>5, <1>t
  <2> USE DEF H, L, W
  <2> QED BY <2>1, <2>2, <2>3, <2>4, <2>6, <1>t
<1>7. CASE KillServer
  <2>1. Holding(1)' = Holding(1) BY <1>7 DEF KillServer, Holding
  <2> QED BY <1>7, <2>1, <1>e, <1>t DEF KillServer
<1>8. CASE \E c \in Clients : ClientSemSetup(c)
  <2>1. PICK c \in Clients : ClientSemSetup(c) BY <1>8
  <2>2. Holding(1)' = Holding(1)
    BY <2>1 DEF ClientSemSetup, Holding, TInv, TypeOK
  <2> QED BY <2>1, <2>2, <1>t DEF ClientSemSetup
<1>9. CASE \E c \in Clients : SemWait(c)
  <2>1. PICK c \in Clients : SemWait(c) BY <1>9
  <2>2. run = 1 /\ sem[c] = 1
    BY <2>1 DEF SemWait, TInv, TypeOK, HandlesOpen
  <2>3. c \notin Holding(1) /\ Holding(1)' = Holding(1) \cup {c}
    BY <2>1, <2>2 DEF SemWait, Holding, TInv, TypeOK
  <2>4. Cardinality(Holding(1)') = H + 1
    BY <2>3, HoldingCard, FS_AddElement
  <2>5. semVal[1] > 0 /\ semVal'[1] = semVal[1] - 1
    BY <2>1, <2>2, <1>t DEF SemWait, TInv, TypeOK
  <2>6. run' = 1 /\ server' = server /\ mq' = mq /\ serving' = serving
    BY <2>1, <2>2 DEF SemWait
  <2>7. semVal'[1] + (Cardinality(Holding(1)') + L + W) = semVal[1] + (H + L + W)
    <3>1. semVal[1] \in Nat /\ H \in Nat /\ L \in Nat /\ W \in Nat BY <1>t
    <3> HIDE DEF H, L, W
    <3>2. (semVal[1] - 1) + ((H + 1) + L + W) = semVal[1] + (H + L + W)
      BY <2>5, <3>1, UnitMoved
    <3> QED BY <2>4, <2>5, <3>2, Zenon
  <2> QED BY <2>2, <2>4, <2>5, <2>6, <2>7, <1>t, SMTT(30)
<1>10. CASE \E c \in Clients : ClientMqOpen(c)
  <2>1. PICK c \in Clients : ClientMqOpen(c) BY <1>10
  <2>2. Holding(1)' = Holding(1)
    BY <2>1 DEF ClientMqOpen, Holding, TInv, TypeOK
  <2> QED BY <2>1, <2>2, <1>t DEF ClientMqOpen
<1>11. CASE \E c \in Clients : ClientMqSend(c)
  <2>1. PICK c \in Clients : ClientMqSend(c) BY <1>11
  <2>2. run = 1 /\ sem[c] = 1 /\ mqd[c] = 1
    BY <2>1, SMTT(30) DEF ClientMqSend, TInv, TypeOK, HandlesOpen
  <2>3. c \in Holding(1) /\ Holding(1)' = Holding(1) \ {c}
    BY <2>1, <2>2 DEF ClientMqSend, Holding, TInv, TypeOK
  <2>4. Cardinality(Holding(1)') = H - 1
    BY <2>3, HoldingCard, FS_RemoveElement
  <2>5. mq'[1] = Append(mq[1], c)
    BY <2>1, <2>2, <1>t DEF ClientMqSend, TInv, TypeOK
  <2>6. Len(mq'[1]) = L + 1 BY <2>5, <1>t
  <2>7. run' = 1 /\ server' = server /\ semVal' = semVal /\ serving' = serving
    BY <2>1, <2>2 DEF ClientMqSend
  <2>8. semVal[1] + (Cardinality(Holding(1)') + Len(mq'[1]) + W) = semVal[1] + (H + L + W)
    BY <2>4, <2>6, <1>t
  <2> QED BY <2>2, <2>4, <2>6, <2>7, <2>8, <1>t, SMTT(30)
<1>12. CASE UNCHANGED vars
  <2>1. Holding(1)' = Holding(1) BY <1>12 DEF vars, Holding
  <2> QED BY <1>12, <2>1, <1>t DEF vars
<1> QED
  <2> HIDE DEF H, L, W
  <2>1. CASE ServerSetup BY <1>1, <1>2, <1>3, <2>1, Zenon DEF ServerSetup
  <2>2. CASE ServerLoop BY <1>4, <1>5, <1>6, <2>2, Zenon DEF ServerLoop
  <2>3. CASE \E c \in Clients : Client(c)
    BY <1>8, <1>9, <1>10, <1>11, <2>3, Zenon DEF Client
  <2> QED BY <1>7, <1>12, <2>1, <2>2, <2>3 DEF Next

\* Both invariants hold throughout.
LEMMA BoundInvariant == Spec => [](TInv /\ BInv)
<1>1. TInv /\ BInv /\ [Next]_vars => BInv'
  BY FreshNext, BoundNext DEF BInv
<1> QED BY TInvInit, TInvNext, BInvInit, <1>1, PTL DEF Spec

\* The semaphore is a bound on the connected clients (the claim of
\* server_sem_as_counting.c:15-18) as long as the server was started once,
\* for any count, any queue length and any number of clients.
THEOREM OneRunBounded == Spec => []ConnectedBounded
<1>1. TInv /\ BInv => ConnectedBounded
  <2> SUFFICES ASSUME TInv, BInv, run = 1 PROVE Connected <= MaxSemCount
    BY DEF TInv, TypeOK, ConnectedBounded
  <2>1. semVal[1] \in Nat BY SemCountingAssumption DEF TInv, TypeOK, Runs
  <2>2. Connected \in Nat /\ MaxSemCount \in Nat
    BY SemCountingAssumption, HoldingCard, ServingCard, SMTT(30)
    DEF Connected, TInv, TypeOK, Runs
  <2> QED BY <2>1, <2>2 DEF BInv, RunTokens
<1> QED BY BoundInvariant, <1>1, PTL

\* In the first run no unit of the semaphore is lost or made either, however the
\* sem_wait(), mq_send(), mq_receive() and sem_post() of the server and of any number
\* of clients interleave, until the server is killed.
THEOREM OneRunConserved == Spec => []TokensConserved
<1>1. TInv /\ BInv => TokensConserved BY DEF BInv
<1> QED BY BoundInvariant, <1>1, PTL
=============================================================================
