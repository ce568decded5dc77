------------------------ MODULE ProviderServerProofs ------------------------
(***************************************************************************)
(* Theorems about ProviderServer, for every value of its constants.        *)
(***************************************************************************)
EXTENDS ProviderServer, GrooveSessionsRefinement

----------------------------------------------------------------------------
\* Permits.

\* The stages of the exchanges and the permits they own.
PermitsOK ==
  /\ stage \in [Exchanges -> Stages]
  /\ permits \in Nat
  /\ permits + Cardinality(InFlight) = MAX_HTTP_CONNECTIONS

LEMMA InFlightFinite == IsFiniteSet(InFlight) /\ Cardinality(InFlight) \in Nat
<1>1. InFlight \in SUBSET Exchanges
  BY DEF InFlight
<1> QED
  BY <1>1, ServerAssumption, FS_Subset, FS_CardinalityType

\* An exchange in flight that ends gives its permit back.
LEMMA PermitReturns ==
  ASSUME PermitsOK, NEW e \in Exchanges, stage[e] \in {"reading", "writing"},
         NEW s \in Ended, stage' = [stage EXCEPT ![e] = s], permits' = permits + 1
  PROVE  PermitsOK'
<1>1. InFlight' = InFlight \ {e} /\ e \in InFlight
  BY DEF InFlight, Ended, PermitsOK
<1>2. Cardinality(InFlight') = Cardinality(InFlight) - 1
  BY <1>1, InFlightFinite, FS_RemoveElement
<1>3. stage' \in [Exchanges -> Stages]
  BY DEF PermitsOK, Stages, Ended
<1> QED
  BY <1>2, <1>3, InFlightFinite DEF PermitsOK

\* An exchange that is accepted takes one.
LEMMA PermitTaken ==
  ASSUME PermitsOK, NEW e \in Exchanges, Accept(e)
  PROVE  PermitsOK'
<1>1. /\ stage[e] = "backlog" /\ permits > 0
      /\ stage' = [stage EXCEPT ![e] = "reading"]
      /\ permits' = permits - 1
  BY DEF Accept
<1>2. InFlight' = InFlight \cup {e} /\ e \notin InFlight
  BY <1>1 DEF InFlight, PermitsOK
<1>3. Cardinality(InFlight') = Cardinality(InFlight) + 1
  BY <1>2, InFlightFinite, FS_AddElement
<1>4. stage' \in [Exchanges -> Stages]
  BY <1>1 DEF PermitsOK, Stages
<1> QED
  BY <1>1, <1>3, <1>4, InFlightFinite DEF PermitsOK

\* Every other step leaves the same exchanges in flight.
LEMMA PermitsStay ==
  ASSUME PermitsOK, permits' = permits, stage' \in [Exchanges -> Stages],
         \A x \in Exchanges : stage'[x] \in {"reading", "writing"} <=> stage[x] \in {"reading", "writing"}
  PROVE  PermitsOK'
<1>1. InFlight' = InFlight
  BY DEF InFlight
<1> QED
  BY <1>1 DEF PermitsOK

\* What a critical section does to its own exchange: it ends without an answer,
\* or has decided one.
LEMMA ServeOutcome ==
  ASSUME NEW e \in Exchanges, Serve(e)
  PROVE  \/ EndUnanswered(e) /\ UNCHANGED answer
         \/ \E status \in {200, 204, 400, 404, 409, 410, 503} : \E h : Decide(e, status, h)
<1>1. ServeConnect(e) \/ ServeHeartbeat(e) \/ ServeDisconnect(e) \/ ServeRead(e)
  BY DEF Serve
<1>2. CASE ServeConnect(e)
  BY <1>2 DEF ServeConnect
<1>3. CASE ServeHeartbeat(e)
  BY <1>3 DEF ServeHeartbeat
<1>4. CASE ServeDisconnect(e)
  BY <1>4 DEF ServeDisconnect
<1>5. CASE ServeRead(e)
  BY <1>5 DEF ServeRead
<1> QED
  BY <1>1, <1>2, <1>3, <1>4, <1>5

LEMMA DecideKeepsPermits ==
  ASSUME PermitsOK, NEW e \in Exchanges, stage[e] = "reading",
         NEW status, NEW h, Decide(e, status, h)
  PROVE  PermitsOK'
<1>1. stage' = [stage EXCEPT ![e] = "writing"] /\ permits' = permits
  BY DEF Decide
<1>2. stage' \in [Exchanges -> Stages]
  BY <1>1 DEF PermitsOK, Stages
<1>3. \A x \in Exchanges : stage'[x] \in {"reading", "writing"} <=> stage[x] \in {"reading", "writing"}
  BY <1>1 DEF PermitsOK
<1> QED
  BY <1>1, <1>2, <1>3, PermitsStay

LEMMA StepKeepsPermits ==
  ASSUME PermitsOK, [ServerNext]_serverVars
  PROVE  PermitsOK'
<1>1. ASSUME NEW e \in Exchanges, NEW l \in Listeners, NEW r \in Request, Send(e, l, r)
      PROVE  PermitsOK'
  <2>1. stage[e] = "idle" /\ stage' = [stage EXCEPT ![e] = "backlog"] /\ permits' = permits
    BY <1>1 DEF Send
  <2>2. stage' \in [Exchanges -> Stages]
    BY <2>1 DEF PermitsOK, Stages
  <2>3. \A x \in Exchanges : stage'[x] \in {"reading", "writing"} <=> stage[x] \in {"reading", "writing"}
    BY <2>1 DEF PermitsOK
  <2> QED
    BY <2>1, <2>2, <2>3, PermitsStay
<1>2. ASSUME NEW e \in Exchanges, Accept(e)
      PROVE  PermitsOK'
  BY <1>2, PermitTaken
<1>3. ASSUME NEW e \in Exchanges, Overload(e)
      PROVE  PermitsOK'
  <2>1. stage[e] = "backlog" /\ stage' = [stage EXCEPT ![e] = "closed"] /\ permits' = permits
    BY <1>3 DEF Overload
  <2>2. stage' \in [Exchanges -> Stages]
    BY <2>1 DEF PermitsOK, Stages
  <2>3. \A x \in Exchanges : stage'[x] \in {"reading", "writing"} <=> stage[x] \in {"reading", "writing"}
    BY <2>1 DEF PermitsOK
  <2> QED
    BY <2>1, <2>2, <2>3, PermitsStay
<1>4. ASSUME NEW e \in Exchanges, Hangup(e) \/ TimeOut(e) \/ Abort(e)
      PROVE  PermitsOK'
  <2>1. stage[e] \in {"reading", "writing"} /\ EndUnanswered(e)
    BY <1>4 DEF Hangup, TimeOut, Abort
  <2> QED
    BY <2>1, PermitReturns DEF EndUnanswered, Ended
<1>5. ASSUME NEW e \in Exchanges, Serve(e)
      PROVE  PermitsOK'
  <2>1. stage[e] = "reading"
    BY <1>5 DEF Serve
  <2>2. CASE EndUnanswered(e)
    BY <2>1, <2>2, PermitReturns DEF EndUnanswered, Ended
  <2>3. CASE \E status \in {200, 204, 400, 404, 409, 410, 503} : \E h : Decide(e, status, h)
    BY <2>1, <2>3, DecideKeepsPermits
  <2> QED
    BY <1>5, <2>2, <2>3, ServeOutcome
<1>6. ASSUME NEW e \in Exchanges, ServeStateless(e)
      PROVE  PermitsOK'
  BY <1>6, DecideKeepsPermits DEF ServeStateless
<1>7. ASSUME NEW e \in Exchanges, Panic(e)
      PROVE  PermitsOK'
  BY <1>7, PermitReturns DEF Panic, Ended
<1>8. ASSUME NEW e \in Exchanges, Deliver(e)
      PROVE  PermitsOK'
  BY <1>8, PermitReturns DEF Deliver, Ended
<1>9. ASSUME NEW L, StopListeners(L)
      PROVE  PermitsOK'
  <2>1. /\ permits' = permits
        /\ stage' = [e \in Exchanges |->
                       IF at[e] \in L /\ stage[e] = "backlog" THEN "closed" ELSE stage[e]]
    BY <1>9 DEF StopListeners
  <2>2. stage' \in [Exchanges -> Stages]
    BY <2>1 DEF PermitsOK, Stages
  <2>3. \A x \in Exchanges : stage'[x] \in {"reading", "writing"} <=> stage[x] \in {"reading", "writing"}
    BY <2>1 DEF PermitsOK
  <2> QED
    BY <2>1, <2>2, <2>3, PermitsStay
<1>10. ASSUME NEW l \in Listeners, AcceptFails(l)
       PROVE  PermitsOK'
  BY <1>10, <1>9 DEF AcceptFails
<1>11. CASE Shutdown
  BY <1>11, <1>9 DEF Shutdown
<1>12. CASE SweeperSweeps \/ SweeperPanics \/ TimePasses \/ UNCHANGED serverVars
  <2>1. stage' = stage /\ permits' = permits
    BY <1>12 DEF SweeperSweeps, SweeperPanics, TimePasses, serverVars
  <2> QED
    BY <2>1, PermitsStay DEF PermitsOK
<1> QED
  BY <1>1, <1>2, <1>3, <1>4, <1>5, <1>6, <1>7, <1>8, <1>10, <1>11, <1>12 DEF ServerNext

----------------------------------------------------------------------------
\* Types.

ClientsOK ==
  /\ request \in [Exchanges -> Request \cup {NoRequest}]
  /\ answer \in [Exchanges -> Answer]
  /\ at \in [Exchanges -> Listeners \cup {"nowhere"}]
  /\ after \in [Exchanges -> SUBSET Exchanges]
  /\ up \subseteq Listeners

LEMMA ServerOKSplits == ServerOK <=> PermitsOK /\ ClientsOK
BY DEF ServerOK, PermitsOK, ClientsOK

\* A request that names a handle names one the provider can mint.
LEMMA RequestHandle ==
  ASSUME NEW r \in Request \cup {NoRequest}, r.op \in {"heartbeat", "disconnect"}
  PROVE  r \in HandleRequest /\ r.handle \in Handles
BY DEF Request, ConnectRequest, HandleRequest, PlainRequest, NoRequest

\* Every answer a critical section decides is about a handle, or none.
LEMMA ServeDecides ==
  ASSUME ClientsOK, NEW e \in Exchanges, Serve(e)
  PROVE  answer' \in [Exchanges -> Answer]
<1>1. request[e] \in Request \cup {NoRequest} /\ answer \in [Exchanges -> Answer]
  BY DEF ClientsOK
<1>2. ASSUME NEW status \in {200, 204, 400, 404, 409, 410, 503},
             NEW h \in Handles \cup {NoHandle}, Decide(e, status, h)
      PROVE  answer' \in [Exchanges -> Answer]
  <2>1. [status |-> status, handle |-> h] \in Answer
    BY DEF Answer
  <2> QED
    BY <1>1, <1>2, <2>1 DEF Decide
<1>3. CASE ServeConnect(e)
  BY <1>1, <1>2, <1>3 DEF ServeConnect
<1>4. CASE ServeHeartbeat(e)
  <2>1. request[e].handle \in Handles
    BY <1>1, <1>4, RequestHandle DEF ServeHeartbeat
  <2> QED
    BY <1>2, <1>4, <2>1 DEF ServeHeartbeat
<1>5. CASE ServeDisconnect(e)
  <2>1. request[e].handle \in Handles
    BY <1>1, <1>5, RequestHandle DEF ServeDisconnect
  <2> QED
    BY <1>2, <1>5, <2>1 DEF ServeDisconnect
<1>6. CASE ServeRead(e)
  BY <1>2, <1>6 DEF ServeRead
<1> QED
  BY <1>3, <1>4, <1>5, <1>6 DEF Serve

LEMMA StepKeepsTypes ==
  ASSUME ClientsOK, [ServerNext]_serverVars
  PROVE  ClientsOK'
<1>1. ASSUME NEW e \in Exchanges, NEW l \in Listeners, NEW r \in Request, Send(e, l, r)
      PROVE  ClientsOK'
  <2>1. /\ request' = [request EXCEPT ![e] = r]
        /\ at' = [at EXCEPT ![e] = l]
        /\ after' = [after EXCEPT ![e] = {x \in Exchanges : stage[x] = "answered"}]
        /\ answer' = answer /\ up' = up
    BY <1>1 DEF Send, process
  <2> QED
    BY <2>1 DEF ClientsOK
<1>2. ASSUME NEW e \in Exchanges, Serve(e)
      PROVE  ClientsOK'
  <2>1. request' = request /\ at' = at /\ after' = after /\ up' = up
    BY <1>2 DEF Serve, clients, process
  <2> QED
    BY <1>2, <2>1, ServeDecides DEF ClientsOK
<1>3. ASSUME NEW e \in Exchanges, ServeStateless(e)
      PROVE  ClientsOK'
  <2>1. /\ request' = request /\ at' = at /\ after' = after /\ up' = up
        /\ answer' = [answer EXCEPT ![e] = [status |-> 204, handle |-> NoHandle]]
    BY <1>3 DEF ServeStateless, Decide, clients, process
  <2>2. [status |-> 204, handle |-> NoHandle] \in Answer
    BY DEF Answer
  <2> QED
    BY <2>1, <2>2 DEF ClientsOK
<1>4. ASSUME NEW L, StopListeners(L)
      PROVE  ClientsOK'
  BY <1>4 DEF StopListeners, ClientsOK, clients
<1>5. ASSUME request' = request, at' = at, after' = after, answer' = answer, up' = up
      PROVE  ClientsOK'
  BY <1>5 DEF ClientsOK
<1>6. ASSUME NEW e \in Exchanges,
             \/ Accept(e) \/ Overload(e) \/ Hangup(e) \/ TimeOut(e) \/ Abort(e)
             \/ Panic(e) \/ Deliver(e)
      PROVE  ClientsOK'
  BY <1>5, <1>6 DEF Accept, Overload, Hangup, TimeOut, Abort, Panic, Deliver, clients, process
<1>7. CASE SweeperSweeps \/ SweeperPanics \/ TimePasses \/ UNCHANGED serverVars
  BY <1>5, <1>7 DEF SweeperSweeps, SweeperPanics, TimePasses, serverVars, clients, process
<1> QED
  BY <1>1, <1>2, <1>3, <1>4, <1>6, <1>7 DEF ServerNext, AcceptFails, Shutdown

LEMMA InitServerOK == ServerInit => ServerOK
<1> SUFFICES ASSUME ServerInit PROVE ServerOK
  OBVIOUS
<1>1. InFlight = {}
  BY DEF ServerInit, InFlight
<1>2. Cardinality(InFlight) = 0
  BY <1>1, FS_EmptySet
<1>3. NoAnswer \in Answer
  BY DEF NoAnswer, Answer
<1> QED
  BY <1>2, <1>3, ServerAssumption DEF ServerInit, ServerOK, Stages

\* Every exchange in flight owns one permit, on every way out of the server.
THEOREM PermitsConserved == ServerSpec => []ServerOK
<1>1. ServerOK /\ [ServerNext]_serverVars => ServerOK'
  <2> SUFFICES ASSUME ServerOK, [ServerNext]_serverVars PROVE ServerOK'
    OBVIOUS
  <2>1. PermitsOK' /\ ClientsOK'
    BY ServerOKSplits, StepKeepsPermits, StepKeepsTypes
  <2> QED
    BY <2>1 DEF ServerOK, PermitsOK, ClientsOK
<1> QED
  BY InitServerOK, <1>1, PTL DEF ServerSpec

----------------------------------------------------------------------------
\* Answers.

\* Handles that were granted and are no more.
Dead == minted \ DOMAIN handles

\* What no step undoes.
TablesMove ==
  /\ minted \subseteq minted' /\ Dead \subseteq Dead'
  /\ minted' \subseteq Handles /\ DOMAIN handles' \subseteq minted'

TablesAgree == minted \subseteq Handles /\ DOMAIN handles \subseteq minted

\* Exchange e was decided an answer that ends its handle's life for its client.
DecidedConsumed(e) ==
  e \in Decided("disconnect", 200) \cup Decided("disconnect", 410) \cup Decided("heartbeat", 404)

\* The answer of e2 agrees with h being consumed.
AgreesConsumed(e2, h) ==
  /\ request[e2].op = "connect" => answer[e2].handle # h
  /\ request[e2].op = "heartbeat" /\ request[e2].handle = h => answer[e2].status = 404
  /\ request[e2].op = "disconnect" /\ request[e2].handle = h => answer[e2].status = 410

Undecided == \A e \in Exchanges :
  /\ stage[e] \in {"idle", "backlog", "reading"} => answer[e] = NoAnswer
  /\ stage[e] \in {"writing", "answered"} => answer[e].status # 0

HistoryOK == \A e \in Exchanges : \A x \in after[e] : stage[x] = "answered"

HandlesGranted == \A e \in Exchanges :
  /\ request[e].op = "connect" /\ answer[e].status = 200 => answer[e].handle \in minted
  /\ request[e].op \in {"heartbeat", "disconnect"} => request[e].handle \in minted

ConsumedIsDead == \A e \in Exchanges : DecidedConsumed(e) => request[e].handle \notin DOMAIN handles

OneDisconnect == \A e1, e2 \in Decided("disconnect", 200) :
  request[e1].handle = request[e2].handle => e1 = e2

LaterAnswersAgree == \A e1, e2 \in Exchanges : \A h \in Handles :
  ToldConsumed(e1, h) /\ e1 \in after[e2] /\ answer[e2].status # 0 => AgreesConsumed(e2, h)

\* The inductive invariant behind AnswersAreFinal.
AnswersInv ==
  /\ TablesAgree /\ Undecided /\ HistoryOK /\ HandlesGranted
  /\ ConsumedIsDead /\ OneDisconnect /\ LaterAnswersAgree

LEMMA InvGivesFinal == ServerOK /\ AnswersInv => AnswersAreFinal
<1> SUFFICES ASSUME AnswersInv PROVE AnswersAreFinal
  OBVIOUS
<1>1. ASSUME NEW e1 \in Exchanges, NEW e2 \in Exchanges, NEW h \in Handles,
             ToldConsumed(e1, h), e1 \in after[e2], stage[e2] = "answered"
      PROVE  AgreesConsumed(e2, h)
  BY <1>1 DEF AnswersInv, Undecided, LaterAnswersAgree
<1> QED
  BY <1>1 DEF AnswersInv, OneDisconnect, AnswersAreFinal, AgreesConsumed

\* A sweep only removes sessions.
LEMMA JustSweepMoves ==
  ASSUME TablesAgree, JustSweep
  PROVE  TablesMove /\ minted' = minted /\ DOMAIN handles' = Live(now)
<1>1. minted' = minted /\ DOMAIN handles' = Live(now)
  BY DEF JustSweep, Kept
<1> QED
  BY <1>1 DEF TablesMove, TablesAgree, Dead, Live

\* The answer to e is honest: a connect is given a fresh handle, a handle that
\* is dead is said to be, and one that is said to be consumed is.
Honest(e, status, h) ==
  /\ status # 0
  /\ request[e].op = "connect" => h \notin minted /\ (status = 200 => h \in minted')
  /\ request[e].op = "heartbeat" =>
       /\ status = 404 => request[e].handle \notin DOMAIN handles'
       /\ request[e].handle \notin DOMAIN handles => status = 404
  /\ request[e].op = "disconnect" =>
       /\ request[e].handle \notin DOMAIN handles'
       /\ status = 200 => request[e].handle \in DOMAIN handles
       /\ request[e].handle \notin DOMAIN handles => status = 410

LEMMA ServeIsHonest ==
  ASSUME TablesAgree, ClientsOK, NEW e \in Exchanges, Serve(e)
  PROVE  /\ TablesMove
         /\ \/ EndUnanswered(e) /\ UNCHANGED answer
            \/ \E status, h : Decide(e, status, h) /\ Honest(e, status, h)
<1> DEFINE r == request[e]
           Goal == /\ TablesMove
                   /\ \/ EndUnanswered(e) /\ UNCHANGED answer
                      \/ \E status, h : Decide(e, status, h) /\ Honest(e, status, h)
<1>1. ASSUME NEW status \in {503, 409, 400}, RefuseConnect(r.consumes, r.lease, status),
             r.op = "connect", Decide(e, status, NoHandle)
      PROVE  Goal
  <2>1. TablesMove
    BY <1>1, JustSweepMoves DEF RefuseConnect
  <2>2. NoHandle \notin minted
    BY SessionsAssumption DEF TablesAgree
  <2>3. Honest(e, status, NoHandle)
    BY <1>1, <2>2 DEF Honest
  <2> QED
    BY <1>1, <2>1, <2>3
<1>2. ASSUME MintFails(r.consumes, r.lease), EndUnanswered(e), UNCHANGED answer
      PROVE  Goal
  BY <1>2, JustSweepMoves DEF MintFails
<1>3. ASSUME NEW h \in Handles, GrantConnect(r.consumer, r.consumes, r.lease, h),
             r.op = "connect", Decide(e, 200, h)
      PROVE  Goal
  <2>1. h \in Handles \ minted /\ minted' = minted \cup {h} /\ DOMAIN handles' = Live(now) \cup {h}
    BY <1>3 DEF GrantConnect, Mintable
  <2>2. TablesMove
    BY <2>1 DEF TablesMove, TablesAgree, Dead, Live
  <2>3. Honest(e, 200, h)
    BY <1>3, <2>1 DEF Honest
  <2> QED
    BY <1>3, <2>2, <2>3
<1>4. ASSUME r.op = "heartbeat", RefreshHard(r.handle), Decide(e, 204, r.handle)
      PROVE  Goal
  <2>1. r.handle \in Live(now) /\ minted' = minted /\ DOMAIN handles' = Live(now)
    BY <1>4 DEF RefreshHard, Kept
  <2>2. TablesMove
    BY <2>1 DEF TablesMove, TablesAgree, Dead, Live
  <2>3. Honest(e, 204, r.handle)
    BY <1>4, <2>1 DEF Honest, Live
  <2> QED
    BY <1>4, <2>2, <2>3
<1>5. ASSUME r.op = "heartbeat", NEW status \in {404, 204, 409},
             HeartbeatOnly(r.handle, status), Decide(e, status, r.handle)
      PROVE  Goal
  <2>1. TablesMove /\ DOMAIN handles' = Live(now)
    BY <1>5, JustSweepMoves DEF HeartbeatOnly
  <2>2. status = 404 <=> r.handle \notin Live(now)
    BY <1>5 DEF HeartbeatOnly
  <2>3. Honest(e, status, r.handle)
    BY <1>5, <2>1, <2>2 DEF Honest, Live
  <2> QED
    BY <1>5, <2>1, <2>3
<1>6. ASSUME r.op = "disconnect", Release(r.handle), Decide(e, 200, r.handle)
      PROVE  Goal
  <2>1. r.handle \in Live(now) /\ minted' = minted /\ DOMAIN handles' = Live(now) \ {r.handle}
    BY <1>6 DEF Release, Kept
  <2>2. TablesMove
    BY <2>1 DEF TablesMove, TablesAgree, Dead, Live
  <2>3. Honest(e, 200, r.handle)
    BY <1>6, <2>1 DEF Honest, Live
  <2> QED
    BY <1>6, <2>2, <2>3
<1>7. ASSUME r.op = "disconnect", Gone(r.handle), Decide(e, 410, r.handle)
      PROVE  Goal
  <2>1. r.handle \notin Live(now) /\ TablesMove /\ DOMAIN handles' = Live(now)
    BY <1>7, JustSweepMoves DEF Gone
  <2>2. Honest(e, 410, r.handle)
    BY <1>7, <2>1 DEF Honest, Live
  <2> QED
    BY <1>7, <2>1, <2>2
<1>8. CASE ServeRead(e)
  <2>1. r.op = "read" /\ Decide(e, 200, NoHandle) /\ minted' = minted /\ handles' = handles
    BY <1>8 DEF ServeRead, vars
  <2>2. TablesMove
    BY <2>1 DEF TablesMove, TablesAgree, Dead
  <2>3. Honest(e, 200, NoHandle)
    BY <2>1 DEF Honest
  <2> QED
    BY <2>1, <2>2, <2>3
<1>9. CASE ServeConnect(e)
  BY <1>1, <1>2, <1>3, <1>9 DEF ServeConnect
<1>10. CASE ServeHeartbeat(e)
  BY <1>4, <1>5, <1>10 DEF ServeHeartbeat
<1>11. CASE ServeDisconnect(e)
  BY <1>6, <1>7, <1>11 DEF ServeDisconnect
<1> QED
  BY <1>8, <1>9, <1>10, <1>11 DEF Serve

\* A step that decides nothing: every exchange stays where it was or moves on,
\* and only one with an answer is answered.
Quiet ==
  /\ request' = request /\ after' = after /\ answer' = answer
  /\ \A x \in Exchanges :
       \/ stage'[x] = stage[x]
       \/ stage[x] = "backlog" /\ stage'[x] \in {"reading", "closed"}
       \/ stage[x] = "writing" /\ stage'[x] = "answered"
       \/ stage[x] \in {"reading", "writing"} /\ stage'[x] \in {"closed", "panicked"}

LEMMA DeadHandles ==
  ASSUME TablesMove, TablesAgree, HandlesGranted, ConsumedIsDead,
         NEW e \in Exchanges, DecidedConsumed(e)
  PROVE  request[e].handle \in minted /\ request[e].handle \notin DOMAIN handles'
<1>1. request[e].op \in {"heartbeat", "disconnect"}
  BY DEF DecidedConsumed, Decided
<1>2. request[e].handle \in Dead
  BY <1>1 DEF HandlesGranted, ConsumedIsDead, Dead
<1> QED
  BY <1>2 DEF TablesMove, Dead

LEMMA QuietKeepsAnswers ==
  ASSUME AnswersInv, ClientsOK, Quiet, TablesMove
  PROVE  AnswersInv'
<1> USE DEF AnswersInv
<1>1. TablesAgree'
  BY DEF TablesMove, TablesAgree
<1>2. Undecided'
  BY DEF Undecided, Quiet
<1>3. HistoryOK'
  <2> SUFFICES ASSUME NEW e \in Exchanges, NEW x \in after[e] PROVE stage'[x] = "answered"
    BY DEF HistoryOK, Quiet
  <2>1. x \in Exchanges /\ stage[x] = "answered"
    BY DEF HistoryOK, ClientsOK
  <2> QED
    BY <2>1 DEF Quiet
<1>4. HandlesGranted'
  BY DEF HandlesGranted, TablesMove, Quiet
<1>5. ConsumedIsDead'
  BY DeadHandles DEF ConsumedIsDead, DecidedConsumed, Decided, Quiet
<1>6. OneDisconnect'
  BY DEF OneDisconnect, Decided, Quiet
<1>7. LaterAnswersAgree'
  <2> SUFFICES ASSUME NEW e1 \in Exchanges, NEW e2 \in Exchanges, NEW h \in Handles,
                      ToldConsumed(e1, h)', e1 \in after[e2], answer[e2].status # 0
               PROVE  AgreesConsumed(e2, h)'
    BY DEF LaterAnswersAgree, Quiet
  <2>1. stage[e1] = "answered"
    BY DEF HistoryOK
  <2>2. ToldConsumed(e1, h)
    BY <2>1 DEF ToldConsumed, Decided, Quiet
  <2>3. AgreesConsumed(e2, h)
    BY <2>2 DEF LaterAnswersAgree
  <2> QED
    BY <2>3 DEF AgreesConsumed, Quiet
<1> QED
  BY <1>1, <1>2, <1>3, <1>4, <1>5, <1>6, <1>7

LEMMA DecideKeepsAnswers ==
  ASSUME AnswersInv, ClientsOK, PermitsOK, TablesMove, NEW e \in Exchanges, stage[e] = "reading",
         NEW status, NEW h, Decide(e, status, h), Honest(e, status, h),
         request' = request, after' = after
  PROVE  AnswersInv'
<1> USE DEF AnswersInv
<1>1. /\ stage'[e] = "writing"
      /\ \A x \in Exchanges \ {e} : stage'[x] = stage[x] /\ answer'[x] = answer[x]
      /\ answer'[e].status = status /\ answer'[e].handle = h
      /\ answer[e].status = 0
  BY DEF Decide, ClientsOK, PermitsOK, Undecided, NoAnswer
<1>2. TablesAgree'
  BY DEF TablesMove, TablesAgree
<1>3. Undecided'
  BY <1>1 DEF Undecided, Honest
<1>4. HistoryOK'
  <2> SUFFICES ASSUME NEW d \in Exchanges, NEW x \in after[d] PROVE stage'[x] = "answered"
    BY DEF HistoryOK
  <2>1. x \in Exchanges /\ stage[x] = "answered"
    BY DEF HistoryOK, ClientsOK
  <2> QED
    BY <1>1, <2>1
<1>5. HandlesGranted'
  BY <1>1 DEF HandlesGranted, TablesMove, Honest
<1>6. ConsumedIsDead'
  <2> SUFFICES ASSUME NEW x \in Exchanges, DecidedConsumed(x)'
               PROVE  request[x].handle \notin DOMAIN handles'
    BY DEF ConsumedIsDead
  <2>1. CASE x = e
    BY <1>1, <2>1 DEF DecidedConsumed, Decided, Honest
  <2>2. CASE x # e
    <3>1. DecidedConsumed(x)
      BY <1>1, <2>2 DEF DecidedConsumed, Decided
    <3> QED
      BY <3>1, DeadHandles
  <2> QED
    BY <2>1, <2>2
<1>7. OneDisconnect'
  <2> SUFFICES ASSUME NEW x \in Exchanges, NEW y \in Exchanges,
                      request[x].op = "disconnect", answer'[x].status = 200,
                      request[y].op = "disconnect", answer'[y].status = 200,
                      request[x].handle = request[y].handle, x # y
               PROVE  FALSE
    BY DEF OneDisconnect, Decided
  <2>1. ASSUME NEW z \in Exchanges \ {e}, request[z].op = "disconnect", answer'[z].status = 200
        PROVE  request[z].handle \notin DOMAIN handles
    BY <1>1, <2>1 DEF ConsumedIsDead, DecidedConsumed, Decided
  <2>2. CASE x = e \/ y = e
    BY <1>1, <2>1, <2>2 DEF Honest
  <2>3. CASE x # e /\ y # e
    BY <1>1, <2>3 DEF OneDisconnect, Decided
  <2> QED
    BY <2>2, <2>3
<1>8. LaterAnswersAgree'
  <2> SUFFICES ASSUME NEW e1 \in Exchanges, NEW e2 \in Exchanges, NEW k \in Handles,
                      ToldConsumed(e1, k)', e1 \in after[e2], answer'[e2].status # 0
               PROVE  AgreesConsumed(e2, k)'
    BY DEF LaterAnswersAgree
  <2>1. stage[e1] = "answered" /\ e1 # e
    BY DEF HistoryOK
  <2>2. ToldConsumed(e1, k)
    BY <1>1, <2>1 DEF ToldConsumed, Decided
  <2>3. CASE e2 # e
    <3>1. AgreesConsumed(e2, k)
      BY <1>1, <2>2, <2>3 DEF LaterAnswersAgree
    <3> QED
      BY <1>1, <2>3, <3>1 DEF AgreesConsumed
  <2>4. CASE e2 = e
    <3>1. DecidedConsumed(e1) /\ request[e1].handle = k
      BY <2>2 DEF ToldConsumed, DecidedConsumed
    <3>2. k \in minted /\ k \notin DOMAIN handles
      BY <3>1, DeadHandles DEF ConsumedIsDead
    <3> QED
      BY <1>1, <2>4, <3>2 DEF Honest, AgreesConsumed
  <2> QED
    BY <2>3, <2>4
<1> QED
  BY <1>2, <1>3, <1>4, <1>5, <1>6, <1>7, <1>8

LEMMA SendKeepsAnswers ==
  ASSUME AnswersInv, ClientsOK, PermitsOK, NEW e \in Exchanges, NEW l \in Listeners,
         NEW r \in Request, Send(e, l, r)
  PROVE  AnswersInv'
<1> USE DEF AnswersInv
<1>1. /\ stage[e] = "idle" /\ answer[e].status = 0
      /\ stage'[e] = "backlog" /\ request'[e] = r
      /\ after'[e] = {x \in Exchanges : stage[x] = "answered"}
      /\ \A x \in Exchanges \ {e} :
           stage'[x] = stage[x] /\ request'[x] = request[x] /\ after'[x] = after[x]
      /\ answer' = answer /\ minted' = minted /\ handles' = handles
      /\ r.op \in {"heartbeat", "disconnect"} => r.handle \in Known
  BY DEF Send, ClientsOK, PermitsOK, Undecided, NoAnswer, vars
<1>2. Known \subseteq minted
  BY DEF Known, HandlesGranted
<1>3. \A x, s : s # 0 => (answer[x].status = s => x # e)
  BY <1>1
<1>4. TablesAgree'
  BY <1>1 DEF TablesAgree
<1>5. Undecided'
  BY <1>1 DEF Undecided
<1>6. HistoryOK'
  <2> SUFFICES ASSUME NEW d \in Exchanges, NEW x \in after'[d] PROVE stage'[x] = "answered"
    BY DEF HistoryOK
  <2>1. x \in Exchanges /\ stage[x] = "answered"
    BY <1>1 DEF HistoryOK, ClientsOK
  <2> QED
    BY <1>1, <2>1
<1>7. HandlesGranted'
  BY <1>1, <1>2 DEF HandlesGranted
<1>8. ConsumedIsDead'
  BY <1>1 DEF ConsumedIsDead, DecidedConsumed, Decided
<1>9. OneDisconnect'
  BY <1>1 DEF OneDisconnect, Decided
<1>10. LaterAnswersAgree'
  <2> SUFFICES ASSUME NEW e1 \in Exchanges, NEW e2 \in Exchanges, NEW k \in Handles,
                      ToldConsumed(e1, k)', e1 \in after'[e2], answer[e2].status # 0
               PROVE  AgreesConsumed(e2, k)'
    BY <1>1 DEF LaterAnswersAgree
  <2>1. e2 # e /\ e1 \in after[e2]
    BY <1>1
  <2>2. e1 # e
    BY <1>1, <2>1 DEF HistoryOK
  <2>3. ToldConsumed(e1, k)
    BY <1>1, <2>2 DEF ToldConsumed, Decided
  <2>4. AgreesConsumed(e2, k)
    BY <2>1, <2>3 DEF LaterAnswersAgree
  <2> QED
    BY <1>1, <2>1, <2>4 DEF AgreesConsumed
<1> QED
  BY <1>4, <1>5, <1>6, <1>7, <1>8, <1>9, <1>10

LEMMA SameTables ==
  ASSUME TablesAgree, minted' = minted, handles' = handles
  PROVE  TablesMove
BY DEF TablesAgree, TablesMove, Dead

LEMMA StepKeepsAnswers ==
  ASSUME AnswersInv, ServerOK, [ServerNext]_serverVars
  PROVE  AnswersInv'
<1>1. ClientsOK /\ PermitsOK /\ TablesAgree
  BY ServerOKSplits DEF AnswersInv
<1>2. ASSUME NEW e \in Exchanges, NEW l \in Listeners, NEW r \in Request, Send(e, l, r)
      PROVE  AnswersInv'
  BY <1>1, <1>2, SendKeepsAnswers
<1>3. ASSUME NEW e \in Exchanges, NEW s, stage' = [stage EXCEPT ![e] = s],
             \/ stage[e] = "backlog" /\ s \in {"reading", "closed"}
             \/ stage[e] = "writing" /\ s = "answered"
             \/ stage[e] \in {"reading", "writing"} /\ s \in {"closed", "panicked"},
             UNCHANGED <<request, after, answer>>, TablesMove
      PROVE  AnswersInv'
  <2>1. Quiet
    BY <1>1, <1>3 DEF Quiet, PermitsOK
  <2> QED
    BY <1>1, <1>3, <2>1, QuietKeepsAnswers
<1>4. ASSUME NEW e \in Exchanges,
             Accept(e) \/ Overload(e) \/ Hangup(e) \/ TimeOut(e) \/ Abort(e) \/ Deliver(e)
      PROVE  AnswersInv'
  <2>1. TablesMove /\ UNCHANGED <<request, after, answer>>
    BY <1>1, <1>4, SameTables DEF Accept, Overload, Hangup, TimeOut, Abort, Deliver, vars, clients
  <2> QED
    BY <1>3, <1>4, <2>1 DEF Accept, Overload, Hangup, TimeOut, Abort, Deliver, EndUnanswered
<1>5. ASSUME NEW e \in Exchanges, Panic(e)
      PROVE  AnswersInv'
  <2>1. TablesMove /\ UNCHANGED <<request, after, answer>>
    BY <1>1, <1>5, SameTables DEF Panic, PrintBreaks, LockPanics, vars, clients
  <2> QED
    BY <1>3, <1>5, <2>1 DEF Panic
<1>6. ASSUME NEW e \in Exchanges, Serve(e)
      PROVE  AnswersInv'
  <2>1. stage[e] = "reading" /\ request' = request /\ after' = after
    BY <1>6 DEF Serve, clients
  <2>2. TablesMove
    BY <1>1, <1>6, ServeIsHonest
  <2>3. CASE EndUnanswered(e) /\ UNCHANGED answer
    BY <1>3, <2>1, <2>2, <2>3 DEF EndUnanswered
  <2>4. CASE \E status, h : Decide(e, status, h) /\ Honest(e, status, h)
    BY <1>1, <2>1, <2>2, <2>4, DecideKeepsAnswers
  <2> QED
    BY <1>1, <1>6, <2>3, <2>4, ServeIsHonest
<1>7. ASSUME NEW e \in Exchanges, ServeStateless(e)
      PROVE  AnswersInv'
  <2>1. /\ stage[e] = "reading" /\ request[e].op = "stateless" /\ Decide(e, 204, NoHandle)
        /\ request' = request /\ after' = after /\ TablesMove
    BY <1>1, <1>7, SameTables DEF ServeStateless, clients, vars
  <2>2. Honest(e, 204, NoHandle)
    BY <2>1 DEF Honest
  <2> QED
    BY <1>1, <2>1, <2>2, DecideKeepsAnswers
<1>8. ASSUME NEW L, StopListeners(L)
      PROVE  AnswersInv'
  <2>1. TablesMove
    BY <1>1, <1>8, SameTables DEF StopListeners, vars
  <2>2. Quiet
    BY <1>8 DEF StopListeners, Quiet, clients
  <2> QED
    BY <1>1, <2>1, <2>2, QuietKeepsAnswers
<1>9. CASE SweeperSweeps
  <2>1. TablesMove
    BY <1>1, <1>9, JustSweepMoves DEF SweeperSweeps, Sweep
  <2>2. Quiet
    BY <1>9 DEF SweeperSweeps, Quiet, clients
  <2> QED
    BY <1>1, <2>1, <2>2, QuietKeepsAnswers
<1>10. CASE SweeperPanics \/ TimePasses \/ UNCHANGED serverVars
  <2>1. TablesMove
    BY <1>1, <1>10, SameTables
       DEF SweeperPanics, PrintBreaks, LockPanics, TimePasses, Tick, serverVars, vars
  <2>2. Quiet
    BY <1>10 DEF SweeperPanics, TimePasses, serverVars, Quiet, clients
  <2> QED
    BY <1>1, <2>1, <2>2, QuietKeepsAnswers
<1> QED
  BY <1>2, <1>4, <1>5, <1>6, <1>7, <1>8, <1>9, <1>10 DEF ServerNext, AcceptFails, Shutdown

LEMMA InitAnswers == ServerInit => AnswersInv
<1> SUFFICES ASSUME ServerInit PROVE AnswersInv
  OBVIOUS
<1>1. /\ minted = {} /\ DOMAIN handles = {}
      /\ \A e \in Exchanges : /\ stage[e] = "idle" /\ request[e].op = "none"
                             /\ answer[e] = NoAnswer /\ answer[e].status = 0 /\ after[e] = {}
  BY DEF ServerInit, Init, NoRequest, NoAnswer
<1> QED
  BY <1>1 DEF AnswersInv, TablesAgree, Undecided, HistoryOK, HandlesGranted, ConsumedIsDead,
              DecidedConsumed, Decided, OneDisconnect, LaterAnswersAgree

\* Once a client has been told that a handle is consumed, nobody is ever told
\* anything else about it, however many clients, exchanges and listeners there
\* are and whatever is lost or fails in between (CONF-L2-04).
THEOREM ConsumptionIsLinear == ServerSpec => []AnswersAreFinal
<1>1. ServerOK /\ AnswersInv /\ [ServerNext]_serverVars => AnswersInv'
  BY StepKeepsAnswers
<1> QED
  BY InitAnswers, PermitsConserved, <1>1, InvGivesFinal, PTL DEF ServerSpec

----------------------------------------------------------------------------
\* Answers and records.

\* attest_with keeps the trail's types, whatever was on stdout.
LEMMA AttestKeepsTypes ==
  ASSUME TrailOK, NEW all \in Seq(Body), AttestWith(all)
  PROVE  TrailOK'
<1>1. PICK records : records = Chain(all, last_hash)
  OBVIOUS
<1>2. records \in Seq(Record) /\ last_hash \in Nat /\ Len(all) \in Nat
  BY <1>1, ChainProperties, LenProperties DEF TrailOK
<1>3. /\ stdout' = stdout \o records
      /\ attestations' = Retain(attestations \o records)
      /\ last_hash' = last_hash + Len(all)
  BY <1>1 DEF AttestWith
<1>4. stdout' \in Seq(Record) /\ attestations \o records \in Seq(Record)
  BY <1>2, <1>3, ConcatProperties DEF TrailOK
<1>5. attestations' \in Seq(Record) /\ Len(attestations') = WindowSize(Len(attestations \o records))
  BY <1>3, <1>4, RetainProperties
<1>6. Len(attestations') <= MAX_ATTESTATIONS
  <2>1. Len(attestations \o records) \in Nat
    BY <1>4, LenProperties
  <2> QED BY <1>5, <2>1, WindowSizeProperties
<1>7. last_hash' \in Nat
  BY <1>2, <1>3
<1> QED
  BY <1>4, <1>5, <1>6, <1>7 DEF TrailOK

\* A println! that breaks prints expiries only.
LEMMA BrokenPrint ==
  ASSUME TablesOK, TrailOK, NEW own, PrintBreaks(own)
  PROVE  /\ TablesOK' /\ TrailOK'
         /\ \A c : \A event \in {"connected", "disconnected"} :
              Cardinality(Attested(event, c)') = Cardinality(Attested(event, c))
<1>1. PICK order \in SweepOrders(now), n \in 0..Cardinality(DueHandles(now)) :
        stdout' = stdout \o SubSeq(Chain(ExpiryBodies(order), last_hash), 1, n)
  BY DEF PrintBreaks
<1>2. UNCHANGED <<now, minted, handles, attestations, last_hash>>
  BY DEF PrintBreaks
<1>3. PICK due : due = Cardinality(DueHandles(now))
  OBVIOUS
<1>4. due \in Nat /\ n \in Nat /\ n <= due
  <2>1. DueHandles(now) \in SUBSET DOMAIN handles
    BY DEF DueHandles
  <2>2. due \in Nat
    BY <1>3, <2>1, KeptOK
  <2> QED BY <1>3, <2>2
<1>5. PICK all, chain, records :
        all = ExpiryBodies(order) /\ chain = Chain(all, last_hash) /\ records = SubSeq(chain, 1, n)
  OBVIOUS
<1>6. all \in Seq(Body) /\ Len(all) = due /\ \A i \in 1..due : all[i].event = "lease-expired"
  <2>1. all \in Seq(Body)
    BY <1>5, ExpiryBodiesType
  <2>2. all = [i \in 1..due |-> Attestation("lease-expired", handles[order[i]].consumer, order[i])]
    BY <1>3, <1>5 DEF ExpiryBodies, SweepOrders
  <2>3. Len(all) = due
    BY <1>4, <2>2
  <2> QED BY <2>1, <2>2, <2>3 DEF Attestation
<1>7. chain \in Seq(Record) /\ Len(chain) = due /\ \A i \in 1..due : chain[i].body = all[i]
  BY <1>5, <1>6, ChainProperties DEF TrailOK
<1>8. /\ records \in Seq(Record) /\ Len(records) = n
      /\ \A i \in 1..n : records[i] = chain[i]
  <2>1. \A i \in 1..n : chain[i] \in Record
    <3>1. \A i \in 1..n : i \in 1..due
      BY <1>4
    <3> QED BY <1>7, <3>1, ElementOfSeq
  <2>2. /\ records \in Seq(Record)
        /\ Len(records) = IF 1 <= n THEN n - 1 + 1 ELSE 0
        /\ \A i \in 1..(n - 1 + 1) : records[i] = chain[1 + i - 1]
    BY <1>4, <1>5, <2>1, SubSeqProperties
  <2>3. n - 1 + 1 = n /\ (~(1 <= n) => n = 0) /\ \A i \in 1..n : 1 + i - 1 = i
    BY <1>4
  <2> QED BY <2>2, <2>3
<1>9. PICK bodies : bodies = [i \in 1..n |-> all[i]]
  OBVIOUS
<1>10. /\ bodies \in Seq(Body) /\ Len(bodies) = n
       /\ \A i \in 1..n : bodies[i] = all[i] /\ bodies[i].event = "lease-expired"
  <2>1. \A i \in 1..n : i \in 1..due
    BY <1>4
  <2>2. bodies \in [1..n -> Body]
    BY <1>6, <1>9, <2>1, ElementOfSeq
  <2>3. bodies \in Seq(Body) /\ Len(bodies) = n
    BY <1>4, <1>9, <2>2, SeqDef
  <2> QED BY <1>6, <1>9, <2>1, <2>3
<1>11. stdout' = stdout \o records /\ stdout \in Seq(Record)
  BY <1>1, <1>5 DEF TrailOK
<1>12. \A i \in 1..Len(records) : records[i].body = bodies[i]
  <2>1. \A i \in 1..n : i \in 1..due
    BY <1>4
  <2> QED BY <1>7, <1>8, <1>10, <2>1
<1>13. ASSUME NEW c, NEW event \in {"connected", "disconnected"}
       PROVE  Cardinality(Attested(event, c)') = Cardinality(Attested(event, c))
  <2>1. /\ Cardinality(Attested(event, c)') = Cardinality(Attested(event, c)) + Cardinality(Matching(bodies, event, c))
        /\ Cardinality(Attested(event, c)) \in Nat
    BY <1>8, <1>10, <1>11, <1>12, AttestedGrows
  <2>2. Matching(bodies, event, c) = {}
    BY <1>10 DEF Matching
  <2>3. Cardinality(Matching(bodies, event, c)) = 0
    BY <2>2, FS_EmptySet
  <2> QED BY <2>1, <2>3
<1>14. stdout' \in Seq(Record)
  BY <1>8, <1>11, ConcatProperties
<1>15. TablesOK'
  BY <1>2 DEF TablesOK
<1>16. TrailOK'
  BY <1>2, <1>14 DEF TrailOK
<1> QED
  BY <1>13, <1>15, <1>16

\* What is attested besides the expiries of the sweep.
LEMMA OwnRecords ==
  ASSUME TablesOK, TrailOK, NEW bodies \in Seq(Body), SweepThenAttest(bodies), NEW c,
         NEW event \in {"connected", "disconnected"}
  PROVE  Cardinality(Attested(event, c)') = Cardinality(Attested(event, c)) + Cardinality(Matching(bodies, event, c))
BY SweepCounts

LEMMA NoRecords ==
  ASSUME TablesOK, TrailOK, SweepThenAttest(<<>>), NEW c, NEW event \in {"connected", "disconnected"}
  PROVE  Cardinality(Attested(event, c)') = Cardinality(Attested(event, c))
<1>1. <<>> \in Seq(Body)
  BY EmptySeq
<1>2. Cardinality(Matching(<<>>, event, c)) = 0
  BY MatchingOne
<1>3. Cardinality(Attested(event, c)) \in Nat
  <2>1. Len(stdout) \in Nat
    BY LenProperties DEF TrailOK
  <2> QED BY <2>1, PartOfInterval DEF Attested
<1>4. Cardinality(Attested(event, c)') = Cardinality(Attested(event, c)) + Cardinality(Matching(<<>>, event, c))
  BY <1>1, OwnRecords
<1> QED
  BY <1>2, <1>3, <1>4

\* No two connects were given the same handle.
OneGrant == \A x, y \in Decided("connect", 200) : answer[x].handle = answer[y].handle => x = y

\* A disconnect's answer names the handle it asked about.
AnswersTheirHandle == \A e \in Decided("disconnect", 200) : answer[e].handle = request[e].handle

\* Every live session is the one some connect was answered.
HeldWereGranted == \A h \in DOMAIN handles : \E x \in Decided("connect", 200) :
  answer[x].handle = h /\ request[x].consumer = handles[h].consumer

\* The inductive invariant behind AnsweredIsRecorded.
RecordsInv == OneGrant /\ AnswersTheirHandle /\ HeldWereGranted /\ AnsweredIsRecorded

\* A step that decides no connect and no disconnect, attests neither, and adds
\* no session.
NothingDecided ==
  /\ \A op \in {"connect", "disconnect"} : Decided(op, 200)' = Decided(op, 200)
  /\ \A e \in Decided("connect", 200) \cup Decided("disconnect", 200) :
       answer'[e] = answer[e] /\ request'[e] = request[e]
  /\ \A h \in DOMAIN handles' : h \in DOMAIN handles /\ handles'[h].consumer = handles[h].consumer
  /\ \A c : \A event \in {"connected", "disconnected"} :
       Cardinality(Attested(event, c)') = Cardinality(Attested(event, c))

LEMMA NothingDecidedKeeps ==
  ASSUME RecordsInv, NothingDecided
  PROVE  RecordsInv'
<1>1. Decided("connect", 200)' = Decided("connect", 200) /\ Decided("disconnect", 200)' = Decided("disconnect", 200)
  BY DEF NothingDecided
<1>2. OneGrant'
  BY <1>1 DEF RecordsInv, OneGrant, NothingDecided
<1>3. AnswersTheirHandle'
  BY <1>1 DEF RecordsInv, AnswersTheirHandle, NothingDecided
<1>4. HeldWereGranted'
  BY <1>1 DEF RecordsInv, HeldWereGranted, NothingDecided
<1>5. \A c : /\ DecidedFor("connect", c)' = DecidedFor("connect", c)
             /\ DecidedFor("disconnect", c)' = DecidedFor("disconnect", c)
  BY <1>1 DEF DecidedFor, NothingDecided
<1>6. AnsweredIsRecorded'
  BY <1>5 DEF RecordsInv, AnsweredIsRecorded, NothingDecided
<1> QED
  BY <1>2, <1>3, <1>4, <1>6 DEF RecordsInv

LEMMA DecidedForFinite ==
  ASSUME NEW op, NEW c
  PROVE  IsFiniteSet(DecidedFor(op, c)) /\ Cardinality(DecidedFor(op, c)) \in Nat
<1>1. DecidedFor(op, c) \in SUBSET Exchanges
  BY DEF DecidedFor, Decided
<1> QED
  BY <1>1, ServerAssumption, FS_Subset, FS_CardinalityType

\* A connect that is answered 200 is one answer and one record more.
LEMMA GrantIsRecorded ==
  ASSUME TablesOK, TrailOK, AnswersInv, ClientsOK, RecordsInv, NEW e \in Exchanges, stage[e] = "reading",
         request[e].op = "connect", request[e].consumer \in Consumers, NEW h \in Handles,
         GrantConnect(request[e].consumer, request[e].consumes, request[e].lease, h),
         Decide(e, 200, h), request' = request
  PROVE  RecordsInv'
<1>1. PICK consumer : consumer = request[e].consumer
  OBVIOUS
<1>2. /\ h \notin minted
      /\ handles' = [k \in Live(now) \cup {h} |->
                      IF k = h THEN [consumer |-> consumer, lease |-> LeaseFrom(request[e].lease, now')]
                               ELSE handles[k]]
      /\ SweepThenAttest(<<Attestation("connected", consumer, NoHandle)>>)
  BY <1>1 DEF GrantConnect, Mintable
<1>3. /\ answer[e].status = 0
      /\ answer'[e].status = 200 /\ answer'[e].handle = h
      /\ \A x \in Exchanges \ {e} : answer'[x] = answer[x]
  BY DEF Decide, ClientsOK, AnswersInv, Undecided, NoAnswer
<1>4. /\ Decided("connect", 200)' = Decided("connect", 200) \cup {e}
      /\ Decided("disconnect", 200)' = Decided("disconnect", 200)
      /\ e \notin Decided("connect", 200) /\ e \notin Decided("disconnect", 200)
  BY <1>3 DEF Decided
<1>5. \A x \in Decided("connect", 200) : answer'[x] = answer[x] /\ answer[x].handle # h
  BY <1>2, <1>3, <1>4 DEF Decided, AnswersInv, HandlesGranted
<1>6. \A x \in Decided("disconnect", 200) : answer'[x] = answer[x] /\ answer[x].handle # h
  BY <1>2, <1>3, <1>4 DEF Decided, AnswersInv, HandlesGranted, RecordsInv, AnswersTheirHandle
<1>7. OneGrant'
  BY <1>3, <1>4, <1>5 DEF RecordsInv, OneGrant
<1>8. AnswersTheirHandle'
  BY <1>4, <1>6 DEF RecordsInv, AnswersTheirHandle
<1>9. HeldWereGranted'
  <2> SUFFICES ASSUME NEW k \in DOMAIN handles'
               PROVE  \E x \in Decided("connect", 200)' :
                        answer'[x].handle = k /\ request[x].consumer = handles'[k].consumer
    BY DEF HeldWereGranted
  <2>1. CASE k = h
    BY <1>1, <1>2, <1>3, <1>4, <2>1
  <2>2. CASE k # h
    <3>1. k \in DOMAIN handles /\ handles'[k] = handles[k]
      BY <1>2, <2>2, LiveIsSubset
    <3>2. PICK x \in Decided("connect", 200) : answer[x].handle = k /\ request[x].consumer = handles[k].consumer
      BY <3>1 DEF RecordsInv, HeldWereGranted
    <3> QED BY <1>4, <1>5, <3>1, <3>2
  <2> QED BY <2>1, <2>2
<1>10. \A c : /\ DecidedFor("disconnect", c)' = DecidedFor("disconnect", c)
              /\ DecidedFor("connect", c)' = DecidedFor("connect", c) \cup (IF consumer = c THEN {e} ELSE {})
              /\ e \notin DecidedFor("connect", c)
  <2> TAKE c
  <2>1. DecidedFor("disconnect", c)' = DecidedFor("disconnect", c)
    BY <1>3, <1>4, <1>5, <1>6 DEF DecidedFor
  <2>2. DecidedFor("connect", c)' = DecidedFor("connect", c) \cup (IF consumer = c THEN {e} ELSE {})
    BY <1>1, <1>3, <1>4, <1>5 DEF DecidedFor
  <2>3. e \notin DecidedFor("connect", c)
    BY <1>4 DEF DecidedFor
  <2> QED BY <2>1, <2>2, <2>3
<1>11. AnsweredIsRecorded'
  <2> SUFFICES ASSUME NEW c \in Consumers
               PROVE  /\ Cardinality(DecidedFor("connect", c)') = Cardinality(Attested("connected", c)')
                      /\ Cardinality(DecidedFor("disconnect", c)') = Cardinality(Attested("disconnected", c)')
    BY DEF AnsweredIsRecorded
  <2>1. PICK a, b, d, f : /\ a = Cardinality(DecidedFor("connect", c)) /\ b = Cardinality(DecidedFor("disconnect", c))
                          /\ d = Cardinality(Attested("connected", c)') /\ f = Cardinality(Attested("disconnected", c)')
    OBVIOUS
  <2>2. a = Cardinality(Attested("connected", c)) /\ b = Cardinality(Attested("disconnected", c))
    BY <2>1 DEF RecordsInv, AnsweredIsRecorded
  <2>3. a \in Nat /\ b \in Nat /\ IsFiniteSet(DecidedFor("connect", c))
    BY <2>1, DecidedForFinite
  <2>4. <<Attestation("connected", consumer, NoHandle)>> \in Seq(Body)
    BY <1>1, AttestationType DEF Events
  <2>5. /\ d = a + Cardinality(Matching(<<Attestation("connected", consumer, NoHandle)>>, "connected", c))
        /\ f = b + Cardinality(Matching(<<Attestation("connected", consumer, NoHandle)>>, "disconnected", c))
    BY <1>2, <2>1, <2>2, <2>4, OwnRecords
  <2>6. /\ Cardinality(Matching(<<Attestation("connected", consumer, NoHandle)>>, "connected", c)) = IF consumer = c THEN 1 ELSE 0
        /\ Cardinality(Matching(<<Attestation("connected", consumer, NoHandle)>>, "disconnected", c)) = 0
    BY MatchingOne
  <2>7. d = (IF consumer = c THEN a + 1 ELSE a) /\ f = b
    BY <2>3, <2>5, <2>6
  <2>8. Cardinality(DecidedFor("connect", c)') = IF consumer = c THEN a + 1 ELSE a
    <3>1. Cardinality(DecidedFor("connect", c) \cup {e}) = a + 1
      BY <1>10, <2>1, <2>3, FS_AddElement
    <3>2. DecidedFor("connect", c) \cup {} = DecidedFor("connect", c)
      OBVIOUS
    <3> QED BY <1>10, <2>1, <3>1, <3>2
  <2>9. Cardinality(DecidedFor("disconnect", c)') = b
    BY <1>10, <2>1
  <2> QED BY <2>1, <2>7, <2>8, <2>9
<1> QED
  BY <1>7, <1>8, <1>9, <1>11 DEF RecordsInv

\* A disconnect that is answered 200 is one answer and one record more, for the
\* consumer whose connect was given the handle.
LEMMA ReleaseIsRecorded ==
  ASSUME TablesOK, TrailOK, AnswersInv, ClientsOK, RecordsInv, NEW e \in Exchanges, stage[e] = "reading",
         request[e].op = "disconnect", NEW h, h = request[e].handle,
         Release(h), Decide(e, 200, h), request' = request
  PROVE  RecordsInv'
<1>1. PICK consumer : consumer = handles[h].consumer
  OBVIOUS
<1>2. /\ h \in DOMAIN handles
      /\ handles' = Kept(Live(now) \ {h})
      /\ SweepThenAttest(<<Attestation("disconnected", consumer, NoHandle)>>)
      /\ consumer \in Consumers
  BY <1>1, LiveIsSubset DEF Release, TablesOK, HandleEntry
<1>3. /\ answer[e].status = 0
      /\ answer'[e].status = 200 /\ answer'[e].handle = h
      /\ \A x \in Exchanges \ {e} : answer'[x] = answer[x]
  BY DEF Decide, ClientsOK, AnswersInv, Undecided, NoAnswer
<1>4. /\ Decided("connect", 200)' = Decided("connect", 200)
      /\ Decided("disconnect", 200)' = Decided("disconnect", 200) \cup {e}
      /\ e \notin Decided("connect", 200) /\ e \notin Decided("disconnect", 200)
  BY <1>3 DEF Decided
<1>5. \A x \in Decided("connect", 200) \cup Decided("disconnect", 200) : answer'[x] = answer[x]
  BY <1>3, <1>4 DEF Decided
<1>6. OneGrant'
  BY <1>4, <1>5 DEF RecordsInv, OneGrant
<1>7. AnswersTheirHandle'
  BY <1>3, <1>4, <1>5 DEF RecordsInv, AnswersTheirHandle
<1>8. HeldWereGranted'
  <2> SUFFICES ASSUME NEW k \in DOMAIN handles'
               PROVE  \E x \in Decided("connect", 200)' :
                        answer'[x].handle = k /\ request[x].consumer = handles'[k].consumer
    BY DEF HeldWereGranted
  <2>1. k \in DOMAIN handles /\ handles'[k] = handles[k]
    BY <1>2, LiveIsSubset DEF Kept
  <2>2. PICK x \in Decided("connect", 200) : answer[x].handle = k /\ request[x].consumer = handles[k].consumer
    BY <2>1 DEF RecordsInv, HeldWereGranted
  <2> QED BY <1>4, <1>5, <2>1, <2>2
<1>9. PICK grant \in Decided("connect", 200) : answer[grant].handle = h /\ request[grant].consumer = consumer
  BY <1>1, <1>2 DEF RecordsInv, HeldWereGranted
<1>10. \A x \in Decided("connect", 200) : answer[x].handle = h => x = grant
  BY <1>9 DEF RecordsInv, OneGrant
<1>11. \A c : /\ DecidedFor("connect", c)' = DecidedFor("connect", c)
              /\ DecidedFor("disconnect", c)' = DecidedFor("disconnect", c) \cup (IF consumer = c THEN {e} ELSE {})
              /\ e \notin DecidedFor("disconnect", c)
  <2> TAKE c
  <2>1. DecidedFor("connect", c)' = DecidedFor("connect", c)
    BY <1>4, <1>5 DEF DecidedFor
  <2>2. DecidedFor("disconnect", c)' = DecidedFor("disconnect", c) \cup (IF consumer = c THEN {e} ELSE {})
    BY <1>3, <1>4, <1>5, <1>9, <1>10 DEF DecidedFor
  <2>3. e \notin DecidedFor("disconnect", c)
    BY <1>4 DEF DecidedFor
  <2> QED BY <2>1, <2>2, <2>3
<1>12. AnsweredIsRecorded'
  <2> SUFFICES ASSUME NEW c \in Consumers
               PROVE  /\ Cardinality(DecidedFor("connect", c)') = Cardinality(Attested("connected", c)')
                      /\ Cardinality(DecidedFor("disconnect", c)') = Cardinality(Attested("disconnected", c)')
    BY DEF AnsweredIsRecorded
  <2>1. PICK a, b, d, f : /\ a = Cardinality(DecidedFor("connect", c)) /\ b = Cardinality(DecidedFor("disconnect", c))
                          /\ d = Cardinality(Attested("connected", c)') /\ f = Cardinality(Attested("disconnected", c)')
    OBVIOUS
  <2>2. a = Cardinality(Attested("connected", c)) /\ b = Cardinality(Attested("disconnected", c))
    BY <2>1 DEF RecordsInv, AnsweredIsRecorded
  <2>3. a \in Nat /\ b \in Nat /\ IsFiniteSet(DecidedFor("disconnect", c))
    BY <2>1, DecidedForFinite
  <2>4. <<Attestation("disconnected", consumer, NoHandle)>> \in Seq(Body)
    BY <1>2, AttestationType DEF Events
  <2>5. /\ d = a + Cardinality(Matching(<<Attestation("disconnected", consumer, NoHandle)>>, "connected", c))
        /\ f = b + Cardinality(Matching(<<Attestation("disconnected", consumer, NoHandle)>>, "disconnected", c))
    BY <1>2, <2>1, <2>2, <2>4, OwnRecords
  <2>6. /\ Cardinality(Matching(<<Attestation("disconnected", consumer, NoHandle)>>, "connected", c)) = 0
        /\ Cardinality(Matching(<<Attestation("disconnected", consumer, NoHandle)>>, "disconnected", c)) = IF consumer = c THEN 1 ELSE 0
    BY MatchingOne
  <2>7. d = a /\ f = (IF consumer = c THEN b + 1 ELSE b)
    BY <2>3, <2>5, <2>6
  <2>8. Cardinality(DecidedFor("disconnect", c)') = IF consumer = c THEN b + 1 ELSE b
    <3>1. Cardinality(DecidedFor("disconnect", c) \cup {e}) = b + 1
      BY <1>11, <2>1, <2>3, FS_AddElement
    <3>2. DecidedFor("disconnect", c) \cup {} = DecidedFor("disconnect", c)
      OBVIOUS
    <3> QED BY <1>11, <2>1, <3>1, <3>2
  <2>9. Cardinality(DecidedFor("connect", c)') = a
    BY <1>11, <2>1
  <2> QED BY <2>1, <2>7, <2>8, <2>9
<1> QED
  BY <1>6, <1>7, <1>8, <1>12 DEF RecordsInv

\* The session table's part of NothingDecided.
NothingEntered ==
  /\ \A h \in DOMAIN handles' : h \in DOMAIN handles /\ handles'[h].consumer = handles[h].consumer
  /\ \A c : \A event \in {"connected", "disconnected"} :
       Cardinality(Attested(event, c)') = Cardinality(Attested(event, c))

LEMMA SweepEntersNothing ==
  ASSUME TablesOK, TrailOK, JustSweep \/ (\E h \in Handles : RefreshHard(h))
  PROVE  NothingEntered
<1>1. SweepThenAttest(<<>>)
  BY DEF JustSweep, RefreshHard
<1>2. \A c : \A event \in {"connected", "disconnected"} :
        Cardinality(Attested(event, c)') = Cardinality(Attested(event, c))
  BY <1>1, NoRecords
<1>3. ASSUME NEW k \in DOMAIN handles'
      PROVE  k \in DOMAIN handles /\ handles'[k].consumer = handles[k].consumer
  <2>1. CASE JustSweep
    BY <1>3, <2>1, LiveIsSubset DEF JustSweep, Kept
  <2>2. ASSUME NEW h \in Handles, RefreshHard(h)
        PROVE  k \in DOMAIN handles /\ handles'[k].consumer = handles[k].consumer
    <3>1. /\ h \in Live(now)
          /\ handles' = [Kept(Live(now)) EXCEPT ![h] = Refreshed(Kept(Live(now))[h], now')]
      BY <2>2 DEF RefreshHard
    <3>2. k \in Live(now) /\ k \in DOMAIN handles /\ Kept(Live(now))[k] = handles[k]
      BY <1>3, <3>1, LiveIsSubset DEF Kept
    <3>3. CASE k = h
      <4>1. handles'[k] = Refreshed(handles[k], now')
        BY <3>1, <3>2, <3>3 DEF Kept
      <4>2. handles[k] \in HandleEntry
        BY <3>2 DEF TablesOK
      <4> QED BY <3>2, <4>1, <4>2 DEF Refreshed, HandleEntry
    <3>4. CASE k # h
      BY <3>1, <3>2, <3>4 DEF Kept
    <3> QED BY <3>3, <3>4
  <2> QED BY <2>1, <2>2
<1> QED
  BY <1>2, <1>3 DEF NothingEntered

LEMMA SameEntersNothing ==
  ASSUME UNCHANGED vars
  PROVE  NothingEntered
BY DEF NothingEntered, vars, audit, Attested

\* What a critical section does to the session table is a step of GrooveSessions.
LEMMA ServeIsSessionStep ==
  ASSUME ClientsOK, NEW e \in Exchanges, Serve(e)
  PROVE  [Next]_vars
<1>1. request[e] \in Request \cup {NoRequest}
  BY DEF ClientsOK
<1>2. CASE ServeConnect(e)
  <2>1. request[e] \in ConnectRequest
    BY <1>1, <1>2 DEF ServeConnect, Request, HandleRequest, PlainRequest, NoRequest
  <2>2. /\ request[e].consumer \in Consumers /\ request[e].consumes \in SUBSET Capabilities
        /\ request[e].lease \in LeaseRequest
    BY <2>1 DEF ConnectRequest
  <2>3. Connect(request[e].consumer, request[e].consumes, request[e].lease)
    BY <1>2 DEF ServeConnect, Connect
  <2> QED BY <2>2, <2>3 DEF Next
<1>3. CASE ServeHeartbeat(e)
  <2>1. request[e].handle \in Handles
    BY <1>1, <1>3, RequestHandle DEF ServeHeartbeat
  <2>2. Heartbeat(request[e].handle)
    BY <1>3 DEF ServeHeartbeat, Heartbeat
  <2> QED BY <2>1, <2>2 DEF Next
<1>4. CASE ServeDisconnect(e)
  <2>1. request[e].handle \in Handles
    BY <1>1, <1>4, RequestHandle DEF ServeDisconnect
  <2>2. Disconnect(request[e].handle)
    BY <1>4 DEF ServeDisconnect, Disconnect
  <2> QED BY <2>1, <2>2 DEF Next
<1>5. CASE ServeRead(e)
  BY <1>5 DEF ServeRead
<1> QED
  BY <1>2, <1>3, <1>4, <1>5 DEF Serve

\* Every step of the server is one of the session table or leaves it alone,
\* except a println! that breaks and leaves the mutex poisoned.
LEMMA ServerIsSessionStep ==
  ASSUME ClientsOK, [ServerNext]_serverVars
  PROVE  [Next]_vars \/ (poisoned' = TRUE /\ \E own : PrintBreaks(own))
<1>1. ASSUME NEW e \in Exchanges, Serve(e)
      PROVE  [Next]_vars
  BY <1>1, ServeIsSessionStep
<1>2. ASSUME NEW e \in Exchanges, NEW l \in Listeners, NEW r \in Request, Send(e, l, r)
      PROVE  UNCHANGED vars
  BY <1>2 DEF Send
<1>3. ASSUME NEW e \in Exchanges,
             \/ Accept(e) \/ Overload(e) \/ Hangup(e) \/ TimeOut(e) \/ Abort(e)
             \/ ServeStateless(e) \/ Deliver(e)
      PROVE  UNCHANGED vars
  BY <1>3 DEF Accept, Overload, Hangup, TimeOut, Abort, ServeStateless, Deliver
<1>4. ASSUME NEW e \in Exchanges, Panic(e)
      PROVE  UNCHANGED vars \/ (poisoned' = TRUE /\ \E own : PrintBreaks(own))
  BY <1>4 DEF Panic, LockPanics
<1>5. ASSUME NEW L, StopListeners(L)
      PROVE  UNCHANGED vars
  BY <1>5 DEF StopListeners
<1>6. CASE SweeperSweeps
  BY <1>6 DEF SweeperSweeps, Next
<1>7. CASE SweeperPanics
  BY <1>7 DEF SweeperPanics, LockPanics
<1>8. CASE TimePasses
  BY <1>8 DEF TimePasses, Next
<1>9. CASE UNCHANGED serverVars
  BY <1>9 DEF serverVars
<1> QED
  BY <1>1, <1>2, <1>3, <1>4, <1>5, <1>6, <1>7, <1>8, <1>9 DEF ServerNext, AcceptFails, Shutdown

LEMMA StepKeepsTables ==
  ASSUME ClientsOK, TablesOK, TrailOK, [ServerNext]_serverVars
  PROVE  TablesOK' /\ TrailOK'
<1>1. CASE \E own : PrintBreaks(own)
  BY <1>1, BrokenPrint
<1>2. CASE [Next]_vars
  <2>1. TablesOK' /\ (UNCHANGED audit \/ \E all \in Seq(Body) : AttestWith(all))
    BY <1>2, StepTables
  <2>2. CASE UNCHANGED audit
    BY <2>1, <2>2 DEF audit, TrailOK
  <2>3. CASE \E all \in Seq(Body) : AttestWith(all)
    BY <2>1, <2>3, AttestKeepsTypes
  <2> QED BY <2>1, <2>2, <2>3
<1> QED
  BY <1>1, <1>2, ServerIsSessionStep

\* An answer that grants and consumes nothing.
LEMMA PlainAnswerKeeps ==
  ASSUME AnswersInv, ClientsOK, RecordsInv, NothingEntered, NEW e \in Exchanges, stage[e] = "reading",
         NEW status, NEW h, Decide(e, status, h), request' = request,
         status = 200 => request[e].op \notin {"connect", "disconnect"}
  PROVE  RecordsInv'
<1>1. /\ answer[e].status = 0
      /\ answer'[e].status = status
      /\ \A x \in Exchanges \ {e} : answer'[x] = answer[x]
  BY DEF Decide, ClientsOK, AnswersInv, Undecided, NoAnswer
<1>2. \A op \in {"connect", "disconnect"} : Decided(op, 200)' = Decided(op, 200) /\ e \notin Decided(op, 200)
  BY <1>1 DEF Decided
<1>3. \A x \in Decided("connect", 200) \cup Decided("disconnect", 200) :
        answer'[x] = answer[x] /\ request'[x] = request[x]
  BY <1>1, <1>2 DEF Decided
<1>4. NothingDecided
  BY <1>2, <1>3 DEF NothingDecided, NothingEntered
<1> QED
  BY <1>4, NothingDecidedKeeps

\* No answer at all.
LEMMA SameAnswersKeep ==
  ASSUME RecordsInv, NothingEntered, answer' = answer, request' = request
  PROVE  RecordsInv'
<1>1. NothingDecided
  BY DEF NothingDecided, NothingEntered, Decided
<1> QED
  BY <1>1, NothingDecidedKeeps

LEMMA ServeKeepsRecords ==
  ASSUME AnswersInv, ClientsOK, TablesOK, TrailOK, RecordsInv, NEW e \in Exchanges, Serve(e)
  PROVE  RecordsInv'
<1> DEFINE r == request[e]
<1>1. stage[e] = "reading" /\ request' = request /\ r \in Request \cup {NoRequest}
  BY DEF Serve, clients, ClientsOK
<1>2. ASSUME JustSweep \/ (\E h \in Handles : RefreshHard(h)),
             NEW status, NEW h, Decide(e, status, h),
             status = 200 => r.op \notin {"connect", "disconnect"}
      PROVE  RecordsInv'
  BY <1>1, <1>2, SweepEntersNothing, PlainAnswerKeeps
<1>3. CASE ServeConnect(e)
  <2>1. r.op = "connect"
    BY <1>3 DEF ServeConnect
  <2>2. ASSUME NEW status \in {503, 409, 400}, RefuseConnect(r.consumes, r.lease, status), Decide(e, status, NoHandle)
        PROVE  RecordsInv'
    BY <1>2, <2>2 DEF RefuseConnect
  <2>3. CASE MintFails(r.consumes, r.lease) /\ EndUnanswered(e) /\ UNCHANGED answer
    BY <1>1, <2>3, SweepEntersNothing, SameAnswersKeep DEF MintFails
  <2>4. ASSUME NEW h \in Handles, GrantConnect(r.consumer, r.consumes, r.lease, h), Decide(e, 200, h)
        PROVE  RecordsInv'
    <3>1. r.consumer \in Consumers
      BY <1>1, <2>1 DEF Request, ConnectRequest, HandleRequest, PlainRequest, NoRequest
    <3> QED BY <1>1, <2>1, <2>4, <3>1, GrantIsRecorded
  <2> QED BY <1>3, <2>2, <2>3, <2>4 DEF ServeConnect
<1>4. CASE ServeHeartbeat(e)
  <2>1. r.op = "heartbeat" /\ r.handle \in Handles
    BY <1>1, <1>4, RequestHandle DEF ServeHeartbeat
  <2>2. CASE RefreshHard(r.handle) /\ Decide(e, 204, r.handle)
    BY <1>2, <2>1, <2>2
  <2>3. ASSUME NEW status \in {404, 204, 409}, HeartbeatOnly(r.handle, status), Decide(e, status, r.handle)
        PROVE  RecordsInv'
    BY <1>2, <2>1, <2>3 DEF HeartbeatOnly
  <2> QED BY <1>4, <2>2, <2>3 DEF ServeHeartbeat
<1>5. CASE ServeDisconnect(e)
  <2>1. r.op = "disconnect"
    BY <1>5 DEF ServeDisconnect
  <2>2. CASE Release(r.handle) /\ Decide(e, 200, r.handle)
    BY <1>1, <2>1, <2>2, ReleaseIsRecorded
  <2>3. CASE Gone(r.handle) /\ Decide(e, 410, r.handle)
    BY <1>2, <2>3 DEF Gone
  <2> QED BY <1>5, <2>2, <2>3 DEF ServeDisconnect
<1>6. CASE ServeRead(e)
  <2>1. r.op = "read" /\ Decide(e, 200, NoHandle) /\ UNCHANGED vars
    BY <1>6 DEF ServeRead
  <2> QED BY <1>1, <2>1, SameEntersNothing, PlainAnswerKeeps
<1> QED
  BY <1>3, <1>4, <1>5, <1>6 DEF Serve

\* An exchange that is sent has decided nothing.
LEMMA SendKeepsRecords ==
  ASSUME AnswersInv, ClientsOK, RecordsInv, NEW e \in Exchanges, NEW l \in Listeners, NEW r \in Request, Send(e, l, r)
  PROVE  RecordsInv'
<1>1. /\ answer[e].status = 0 /\ answer' = answer /\ UNCHANGED vars
      /\ \A x \in Exchanges \ {e} : request'[x] = request[x]
  BY DEF Send, ClientsOK, AnswersInv, Undecided, NoAnswer
<1>2. \A op \in {"connect", "disconnect"} : Decided(op, 200)' = Decided(op, 200) /\ e \notin Decided(op, 200)
  BY <1>1 DEF Decided
<1>3. \A x \in Decided("connect", 200) \cup Decided("disconnect", 200) :
        answer'[x] = answer[x] /\ request'[x] = request[x]
  BY <1>1, <1>2 DEF Decided
<1>4. NothingDecided
  BY <1>1, <1>2, <1>3, SameEntersNothing DEF NothingDecided, NothingEntered
<1> QED
  BY <1>4, NothingDecidedKeeps

LEMMA StepKeepsRecords ==
  ASSUME AnswersInv, ClientsOK, TablesOK, TrailOK, RecordsInv, [ServerNext]_serverVars
  PROVE  RecordsInv'
<1>1. ASSUME NEW e \in Exchanges, NEW l \in Listeners, NEW r \in Request, Send(e, l, r)
      PROVE  RecordsInv'
  BY <1>1, SendKeepsRecords
<1>2. ASSUME NEW e \in Exchanges, Serve(e)
      PROVE  RecordsInv'
  BY <1>2, ServeKeepsRecords
<1>3. ASSUME NEW e \in Exchanges, ServeStateless(e)
      PROVE  RecordsInv'
  BY <1>3, SameEntersNothing, PlainAnswerKeeps DEF ServeStateless, clients
<1>4. ASSUME UNCHANGED vars, answer' = answer, request' = request
      PROVE  RecordsInv'
  BY <1>4, SameEntersNothing, SameAnswersKeep
<1>5. ASSUME NEW e \in Exchanges,
             Accept(e) \/ Overload(e) \/ Hangup(e) \/ TimeOut(e) \/ Abort(e) \/ Deliver(e)
      PROVE  RecordsInv'
  BY <1>4, <1>5 DEF Accept, Overload, Hangup, TimeOut, Abort, Deliver, clients
<1>6. ASSUME NEW own, PrintBreaks(own), answer' = answer, request' = request
      PROVE  RecordsInv'
  <2>1. NothingEntered
    BY <1>6, BrokenPrint DEF NothingEntered, PrintBreaks
  <2> QED BY <1>6, <2>1, SameAnswersKeep
<1>7. ASSUME NEW e \in Exchanges, Panic(e)
      PROVE  RecordsInv'
  BY <1>4, <1>6, <1>7 DEF Panic, LockPanics, clients
<1>8. ASSUME NEW L, StopListeners(L)
      PROVE  RecordsInv'
  BY <1>4, <1>8 DEF StopListeners, clients
<1>9. CASE SweeperSweeps
  BY <1>9, SweepEntersNothing, SameAnswersKeep DEF SweeperSweeps, Sweep, clients
<1>10. CASE SweeperPanics
  BY <1>4, <1>6, <1>10 DEF SweeperPanics, LockPanics, clients
<1>11. CASE TimePasses
  <2>1. UNCHANGED <<handles, stdout>> /\ answer' = answer /\ request' = request
    BY <1>11 DEF TimePasses, Tick, audit, clients
  <2>2. NothingEntered
    BY <2>1 DEF NothingEntered, Attested
  <2> QED BY <2>1, <2>2, SameAnswersKeep
<1>12. CASE UNCHANGED serverVars
  BY <1>4, <1>12 DEF serverVars, clients
<1> QED
  BY <1>1, <1>2, <1>3, <1>5, <1>7, <1>8, <1>9, <1>10, <1>11, <1>12 DEF ServerNext, AcceptFails, Shutdown

LEMMA InitRecords == ServerInit => TablesOK /\ TrailOK /\ RecordsInv
<1> SUFFICES ASSUME ServerInit PROVE TablesOK /\ TrailOK /\ RecordsInv
  OBVIOUS
<1>1. Init
  BY DEF ServerInit
<1>2. TablesOK /\ TrailOK
  BY <1>1, InitSessionInv DEF SessionInv
<1>3. \A op \in {"connect", "disconnect"} : Decided(op, 200) = {}
  BY DEF ServerInit, Decided, NoAnswer
<1>4. \A op \in {"connect", "disconnect"} : \A c : DecidedFor(op, c) = {}
  BY <1>3 DEF DecidedFor
<1>5. \A event, c : Attested(event, c) = {}
  <2>1. stdout = <<>> /\ 1..Len(<<>>) = {}
    BY <1>1 DEF Init
  <2> QED BY <2>1 DEF Attested
<1>6. DOMAIN handles = {}
  BY <1>1 DEF Init
<1>7. AnsweredIsRecorded
  BY <1>4, <1>5 DEF AnsweredIsRecorded
<1> QED
  BY <1>2, <1>3, <1>6, <1>7 DEF RecordsInv, OneGrant, AnswersTheirHandle, HeldWereGranted

\* Every connect and every disconnect a handler answered 200 is on stdout, for
\* the consumer that holds the session, and nothing else is (CONF-L2-07):
\* whatever becomes of the answer, and even when println! panics between two
\* expiries and leaves the mutex poisoned.
THEOREM AnswersAreRecorded == ServerSpec => []AnsweredIsRecorded
<1>1. /\ ServerOK /\ AnswersInv /\ TablesOK /\ TrailOK /\ RecordsInv /\ [ServerNext]_serverVars
      => TablesOK' /\ TrailOK' /\ RecordsInv'
  BY ServerOKSplits, StepKeepsTables, StepKeepsRecords
<1>2. ServerOK /\ AnswersInv /\ [ServerNext]_serverVars => AnswersInv'
  BY StepKeepsAnswers
<1>3. RecordsInv => AnsweredIsRecorded
  BY DEF RecordsInv
<1> QED
  BY InitAnswers, InitRecords, PermitsConserved, <1>1, <1>2, <1>3, PTL DEF ServerSpec

\* As long as stdout does not break, what the server does to its session table
\* is what GrooveSessions says, so every theorem about Spec holds of the server.
THEOREM ServerKeepsSessions == "stdout" \notin Faults => (ServerSpec => Spec)
<1> SUFFICES ASSUME "stdout" \notin Faults PROVE ServerSpec => Spec
  OBVIOUS
<1>1. ServerInit => Init
  BY DEF ServerInit
<1>2. ServerOK /\ [ServerNext]_serverVars => [Next]_vars
  <2> SUFFICES ASSUME ServerOK, [ServerNext]_serverVars PROVE [Next]_vars
    OBVIOUS
  <2>1. \A own : ~PrintBreaks(own)
    BY DEF PrintBreaks
  <2> QED BY <2>1, ServerOKSplits, ServerIsSessionStep
<1> QED
  BY <1>1, <1>2, PermitsConserved, PTL DEF ServerSpec, Spec

\* A poisoned mutex stays poisoned.
LEMMA PoisonStays ==
  ASSUME [ServerNext]_serverVars, poisoned
  PROVE  poisoned'
<1>1. ASSUME NEW e \in Exchanges, NEW l \in Listeners, NEW r \in Request, Send(e, l, r)
      PROVE  poisoned'
  BY <1>1 DEF Send, process
<1>2. ASSUME NEW e \in Exchanges,
             \/ Accept(e) \/ Overload(e) \/ Hangup(e) \/ TimeOut(e) \/ Abort(e)
             \/ Serve(e) \/ ServeStateless(e) \/ Panic(e) \/ Deliver(e)
      PROVE  poisoned'
  BY <1>2 DEF Accept, Overload, Hangup, TimeOut, Abort, Serve, ServeStateless, Panic, Deliver, process
<1>3. ASSUME NEW L, StopListeners(L)
      PROVE  poisoned'
  BY <1>3 DEF StopListeners
<1>4. CASE SweeperSweeps \/ SweeperPanics \/ TimePasses \/ UNCHANGED serverVars
  BY <1>4 DEF SweeperSweeps, SweeperPanics, TimePasses, serverVars, process
<1> QED
  BY <1>1, <1>2, <1>3, <1>4 DEF ServerNext, AcceptFails, Shutdown

\* Whatever a handler finds when it gets the lock is sound, stdout broken or not:
\* the tables are typed and within their bounds, the window GET /attestations
\* answers with verifies, and every consumer's books balance.  A println! that
\* panics in a critical section leaves them half done, and the poisoned mutex
\* keeps every later handler from seeing it.
THEOREM LockedStateIsSound ==
  ServerSpec => [](~poisoned => TypeOK /\ RetainedWindowVerifies /\ AuditBalances)
<1> DEFINE I == ~poisoned => SessionInv /\ AuditBalances
<1>1. ServerInit => I
  BY InitSessionInv, InitBalances DEF ServerInit
<1>2. ServerOK /\ I /\ [ServerNext]_serverVars => I'
  <2> SUFFICES ASSUME ServerOK, I, [ServerNext]_serverVars, ~poisoned'
               PROVE  (SessionInv /\ AuditBalances)'
    OBVIOUS
  <2>1. ~poisoned
    BY PoisonStays
  <2>2. [Next]_vars
    BY ServerOKSplits, ServerIsSessionStep
  <2>3. SessionInv'
    BY <2>1, <2>2, NextSessionInv
  <2>4. AuditBalances'
    BY <2>1, <2>2, NextBalances
  <2> QED BY <2>3, <2>4
<1>3. I => (~poisoned => TypeOK /\ RetainedWindowVerifies /\ AuditBalances)
  BY TypeOKSplits, TrailVerifies DEF SessionInv
<1> HIDE DEF I
<1> QED
  BY <1>1, <1>2, <1>3, PermitsConserved, PTL DEF ServerSpec

\* The server keeps the session contract as its clients may see it, on every
\* way a request, a listener, a task or stdout may fail: no handle comes back,
\* no session ends before its term, and no fault changes either. A State behind
\* a poisoned mutex is never read again: it stands as the last lock found it.
THEOREM ServerKeepsContract == ServerSpec => KeepsContract
<1>1. ServerInit => Contract!Init
  BY InitKeepsContract DEF ServerInit
<1>2. ServerOK /\ TablesOK /\ TrailOK /\ [ServerNext]_serverVars
      => TablesOK' /\ TrailOK' /\ [Contract!Next]_(Contract!vars)
  <2> SUFFICES ASSUME ServerOK, TablesOK, TrailOK, [ServerNext]_serverVars
               PROVE  TablesOK' /\ TrailOK' /\ [Contract!Next]_(Contract!vars)
    OBVIOUS
  <2>1. TablesOK' /\ TrailOK'
    BY ServerOKSplits, StepKeepsTables
  <2>2. CASE [Next]_vars
    BY <2>1, <2>2, StepKeepsContract
  <2>3. ASSUME NEW own, PrintBreaks(own) PROVE [Contract!Next]_(Contract!vars)
    <3>1. UNCHANGED <<now, minted, handles>>
      BY <2>3 DEF PrintBreaks
    <3>2. [h \in Handles |-> SessionOf(h)]' = [h \in Handles |-> SessionOf(h)]
      BY <3>1, Unchanged DEF Session
    <3> QED BY <3>1, <3>2 DEF Contract!vars
  <2> QED BY <2>1, <2>2, <2>3, ServerOKSplits, ServerIsSessionStep
<1> QED
  BY <1>1, <1>2, InitRecords, PermitsConserved, PTL DEF ServerSpec, KeepsContract, Contract!Spec

=============================================================================
