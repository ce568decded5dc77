--------------------------- MODULE ProviderServer ---------------------------
(***************************************************************************)
(* The reference provider as its clients meet it (src/provider/src/lib.rs, *)
(* serve and handle_connection): two listeners that accept into a shared   *)
(* pool of permits, one task per exchange with an overall deadline, the    *)
(* sweeper task, and the session table of GrooveSessions behind the mutex. *)
(* An exchange is one TCP connection: one request, one response, close.    *)
(*                                                                         *)
(* Between the critical section of a handler and the delivery of its       *)
(* answer the task may time out, be aborted with its listener or lose its  *)
(* peer: what was done stays done, and the client does not know.           *)
(*                                                                         *)
(* REQUEST_TIMEOUT is not tied to the clock of the leases: an exchange may *)
(* time out at any of its awaits, and one that stays open must.            *)
(***************************************************************************)
EXTENDS GrooveSessions

CONSTANTS
  Exchanges,             \* TCP connections clients may open
  Listeners,             \* [::1] and 127.0.0.1
  MAX_HTTP_CONNECTIONS,  \* permits of the semaphore
  Faults                 \* which environment faults may happen: "accept", "stdout"

ASSUME ServerAssumption ==
  /\ IsFiniteSet(Exchanges)
  /\ MAX_HTTP_CONNECTIONS \in Nat \ {0}
  /\ Faults \subseteq {"accept", "stdout"}
  /\ "nowhere" \notin Listeners

ConnectRequest ==
  [op : {"connect"}, consumer : Consumers, consumes : SUBSET Capabilities, lease : LeaseRequest]
HandleRequest == [op : {"heartbeat", "disconnect"}, handle : Handles]
\* "read": GET of the manifest, the mesh or the attestations, which take the
\* lock to read.  "stateless": a bare heartbeat; an unknown route or a request
\* refused before the lock is answered the same way.
PlainRequest == [op : {"read", "stateless"}]
Request == ConnectRequest \cup HandleRequest \cup PlainRequest

NoRequest == [op |-> "none"]
NoAnswer == [status |-> 0, handle |-> NoHandle]
Answer == [status : {0, 200, 204, 400, 404, 409, 410, 503}, handle : Handles \cup {NoHandle}]
Stages == {"idle", "backlog", "reading", "writing", "answered", "closed", "panicked"}
Ended == {"answered", "closed", "panicked"}

VARIABLES
  stage,        \* how far each exchange has come
  request,      \* what its client asks
  answer,       \* what its handler decided
  at,           \* the listener it connected to
  after,        \* history: the exchanges answered before it was sent
  permits,      \* free permits of the semaphore
  up,           \* the listeners whose accept loop runs
  sweeping,     \* the sweeper task runs
  poisoned      \* a task panicked while it held the mutex

clients == <<request, at, after>>
process == <<up, sweeping, poisoned>>
serverVars == <<vars, stage, answer, clients, permits, process>>

InFlight == {e \in Exchanges : stage[e] \in {"reading", "writing"}}

\* Handles some client has been told of.
Known == {answer[e].handle : e \in {x \in Exchanges :
            stage[x] = "answered" /\ request[x].op = "connect" /\ answer[x].status = 200}}

----------------------------------------------------------------------------
\* Clients.

Send(e, l, r) ==
  /\ stage[e] = "idle"
  /\ now <= LastRequest
  /\ l \in up
  /\ r.op \in {"heartbeat", "disconnect"} => r.handle \in Known
  /\ stage' = [stage EXCEPT ![e] = "backlog"]
  /\ request' = [request EXCEPT ![e] = r]
  /\ at' = [at EXCEPT ![e] = l]
  /\ after' = [after EXCEPT ![e] = {x \in Exchanges : stage[x] = "answered"}]
  /\ UNCHANGED <<vars, answer, permits, process>>

----------------------------------------------------------------------------
\* How an exchange ends without an answer its client can rely on.

EndUnanswered(e) ==
  /\ stage' = [stage EXCEPT ![e] = "closed"]
  /\ permits' = permits + 1

\* The peer closes or resets before its request is complete or its answer read.
Hangup(e) ==
  /\ stage[e] \in {"reading", "writing"}
  /\ EndUnanswered(e)
  /\ UNCHANGED <<vars, answer, clients, process>>

\* Mutant of TimeOut: the deadline covers the request and not the answer.
TimeOutReading(e) ==
  /\ stage[e] = "reading"
  /\ EndUnanswered(e)
  /\ UNCHANGED <<vars, answer, clients, process>>

\* REQUEST_TIMEOUT has passed at one of the task's awaits.
TimeOut(e) ==
  /\ stage[e] \in {"reading", "writing"}
  /\ EndUnanswered(e)
  /\ UNCHANGED <<vars, answer, clients, process>>

\* Mutant of Abort: the permit of an aborted exchange is not given back.
AbortKeepsPermit(e) ==
  /\ at[e] \notin up
  /\ stage[e] \in {"reading", "writing"}
  /\ stage' = [stage EXCEPT ![e] = "closed"]
  /\ UNCHANGED <<vars, answer, clients, permits, process>>

\* The task set of a stopped listener was dropped.  Nobody waits for its
\* exchanges: one that is being polled runs on to its next await.
Abort(e) ==
  /\ at[e] \notin up
  /\ stage[e] \in {"reading", "writing"}
  /\ EndUnanswered(e)
  /\ UNCHANGED <<vars, answer, clients, process>>

----------------------------------------------------------------------------
\* Listeners.

Accept(e) ==
  /\ stage[e] = "backlog"
  /\ permits > 0
  /\ stage' = [stage EXCEPT ![e] = "reading"]
  /\ permits' = permits - 1
  /\ UNCHANGED <<vars, answer, clients, process>>

\* No permit: the stream is dropped and the accept loop goes on.
Overload(e) ==
  /\ stage[e] = "backlog"
  /\ permits = 0
  /\ stage' = [stage EXCEPT ![e] = "closed"]
  /\ UNCHANGED <<vars, answer, clients, permits, process>>

\* The accept loops of the listeners in L end, and their sockets close.
StopListeners(L) ==
  /\ up' = up \ L
  /\ stage' = [e \in Exchanges |->
                 IF at[e] \in L /\ stage[e] = "backlog" THEN "closed" ELSE stage[e]]
  /\ UNCHANGED <<vars, answer, clients, permits, poisoned>>

\* accept() returns an error, and the loop breaks.
AcceptFails(l) ==
  /\ "accept" \in Faults
  /\ l \in up
  /\ StopListeners({l})
  /\ UNCHANGED sweeping

\* Server::shutdown, or the Server is dropped.
Shutdown ==
  /\ sweeping \/ up # {}
  /\ StopListeners(Listeners)
  /\ sweeping' = FALSE

----------------------------------------------------------------------------
\* Exchange tasks.

\* The handler has its answer and starts to write it.
Decide(e, status, h) ==
  /\ stage' = [stage EXCEPT ![e] = "writing"]
  /\ answer' = [answer EXCEPT ![e] = [status |-> status, handle |-> h]]
  /\ UNCHANGED permits

ServeConnect(e) ==
  LET r == request[e] IN
  /\ r.op = "connect"
  /\ \/ \E status \in {503, 409, 400} :
          RefuseConnect(r.consumes, r.lease, status) /\ Decide(e, status, NoHandle)
     \/ MintFails(r.consumes, r.lease) /\ EndUnanswered(e) /\ UNCHANGED answer
     \/ \E h \in Handles : GrantConnect(r.consumer, r.consumes, r.lease, h) /\ Decide(e, 200, h)

ServeHeartbeat(e) ==
  LET h == request[e].handle IN
  /\ request[e].op = "heartbeat"
  /\ \/ RefreshHard(h) /\ Decide(e, 204, h)
     \/ \E status \in {404, 204, 409} : HeartbeatOnly(h, status) /\ Decide(e, status, h)

ServeDisconnect(e) ==
  LET h == request[e].handle IN
  /\ request[e].op = "disconnect"
  /\ \/ Release(h) /\ Decide(e, 200, h)
     \/ Gone(h) /\ Decide(e, 410, h)

ServeRead(e) ==
  /\ request[e].op = "read"
  /\ Decide(e, 200, NoHandle)
  /\ UNCHANGED vars

\* A critical section that runs to its end.
Serve(e) ==
  /\ stage[e] = "reading"
  /\ ~poisoned
  /\ ServeConnect(e) \/ ServeHeartbeat(e) \/ ServeDisconnect(e) \/ ServeRead(e)
  /\ UNCHANGED <<clients, process>>

ServeStateless(e) ==
  /\ stage[e] = "reading"
  /\ request[e].op = "stateless"
  /\ Decide(e, 204, NoHandle)
  /\ UNCHANGED <<vars, clients, process>>

\* The handler attests a record of its own after its sweep.
Attests(r) ==
  \/ /\ r.op = "connect"
     /\ ~AtCapacity(Live(now)) /\ Unmet(r.consumes) = {} /\ LeaseAccepted(r.lease)
  \/ r.op = "disconnect" /\ r.handle \in Live(now)

\* The reader of the JSON lines is gone, and println! panics inside a critical
\* section that has expiries, and maybe a record of its own, to attest: the
\* first n expiries are out.  The State is behind a poisoned mutex from here on
\* and never read again: it is left as it was.
PrintBreaks(own) ==
  /\ "stdout" \in Faults
  /\ ~poisoned
  /\ \E order \in SweepOrders(now), n \in 0..Cardinality(DueHandles(now)) :
       /\ own \/ n < Cardinality(DueHandles(now))
       /\ stdout' = stdout \o SubSeq(Chain(ExpiryBodies(order), last_hash), 1, n)
  /\ UNCHANGED <<now, minted, handles, attestations, last_hash>>

\* lock().expect() on the poisoned mutex.
LockPanics == poisoned /\ UNCHANGED vars

Panic(e) ==
  /\ stage[e] = "reading"
  /\ request[e].op # "stateless"
  /\ \/ request[e].op # "read" /\ PrintBreaks(Attests(request[e]))
     \/ LockPanics
  /\ poisoned' = TRUE
  /\ stage' = [stage EXCEPT ![e] = "panicked"]
  /\ permits' = permits + 1
  /\ UNCHANGED <<answer, clients, up, sweeping>>

\* The client has the whole answer.
Deliver(e) ==
  /\ stage[e] = "writing"
  /\ stage' = [stage EXCEPT ![e] = "answered"]
  /\ permits' = permits + 1
  /\ UNCHANGED <<vars, answer, clients, process>>

----------------------------------------------------------------------------
\* The sweeper task and the clock.

SweeperSweeps ==
  /\ sweeping /\ ~poisoned
  /\ Sweep
  /\ UNCHANGED <<stage, answer, clients, permits, process>>

SweeperPanics ==
  /\ sweeping
  /\ PrintBreaks(FALSE) \/ LockPanics
  /\ sweeping' = FALSE
  /\ poisoned' = TRUE
  /\ UNCHANGED <<stage, answer, clients, permits, up>>

TimePasses == Tick /\ UNCHANGED <<stage, answer, clients, permits, process>>

ServerInit ==
  /\ Init
  /\ stage = [e \in Exchanges |-> "idle"]
  /\ request = [e \in Exchanges |-> NoRequest]
  /\ answer = [e \in Exchanges |-> NoAnswer]
  /\ at = [e \in Exchanges |-> "nowhere"]
  /\ after = [e \in Exchanges |-> {}]
  /\ permits = MAX_HTTP_CONNECTIONS
  /\ up = Listeners
  /\ sweeping = TRUE
  /\ poisoned = FALSE

ServerNext ==
  \/ \E e \in Exchanges :
       \/ \E l \in Listeners, r \in Request : Send(e, l, r)
       \/ Accept(e) \/ Overload(e) \/ Hangup(e) \/ TimeOut(e) \/ Abort(e)
       \/ Serve(e) \/ ServeStateless(e) \/ Panic(e) \/ Deliver(e)
  \/ \E l \in Listeners : AcceptFails(l)
  \/ Shutdown \/ SweeperSweeps \/ SweeperPanics \/ TimePasses

ServerSpec == ServerInit /\ [][ServerNext]_serverVars

\* The runtime polls every listener, deadline and the sweeper; peers promise
\* nothing, and nobody need shut the server down.
FairServerSpec ==
  /\ ServerSpec
  /\ WF_serverVars(TimePasses)
  /\ WF_serverVars(SweeperSweeps \/ SweeperPanics)
  /\ \A e \in Exchanges : WF_serverVars(Accept(e) \/ Overload(e)) /\ WF_serverVars(TimeOut(e))

----------------------------------------------------------------------------
\* Properties.

\* Every exchange in flight owns one permit and no permit is lost or handed out
\* twice, whichever of the ways out an exchange takes: answer, deadline,
\* hangup, panic, or the end of its listener.
ServerOK ==
  /\ stage \in [Exchanges -> Stages]
  /\ request \in [Exchanges -> Request \cup {NoRequest}]
  /\ answer \in [Exchanges -> Answer]
  /\ at \in [Exchanges -> Listeners \cup {"nowhere"}]
  /\ after \in [Exchanges -> SUBSET Exchanges]
  /\ up \subseteq Listeners
  /\ permits \in Nat
  /\ permits + Cardinality(InFlight) = MAX_HTTP_CONNECTIONS

Decided(op, status) == {e \in Exchanges : request[e].op = op /\ answer[e].status = status}

\* Exchange e told its client that handle h is consumed.
ToldConsumed(e, h) ==
  /\ stage[e] = "answered"
  /\ e \in Decided("disconnect", 200) \cup Decided("disconnect", 410) \cup Decided("heartbeat", 404)
  /\ request[e].handle = h

\* Consumption is linear as the clients see it (CONF-L2-04): once one client
\* has been told that a handle is consumed, no exchange begun after that, on
\* either listener, is told anything else about it or given it again; and at
\* most one disconnect of a handle succeeds, delivered or not.
AnswersAreFinal ==
  /\ \A e1, e2 \in Exchanges : \A h \in Handles :
       ToldConsumed(e1, h) /\ e1 \in after[e2] /\ stage[e2] = "answered" =>
         /\ request[e2].op = "connect" => answer[e2].handle # h
         /\ request[e2].op = "heartbeat" /\ request[e2].handle = h => answer[e2].status = 404
         /\ request[e2].op = "disconnect" /\ request[e2].handle = h => answer[e2].status = 410
  /\ \A e1, e2 \in Decided("disconnect", 200) :
       request[e1].handle = request[e2].handle => e1 = e2

\* Exchange e connected or disconnected a session of consumer c.
DecidedFor(op, c) ==
  {e \in Decided(op, 200) :
     \E x \in Decided("connect", 200) :
        request[x].consumer = c /\ answer[x].handle = answer[e].handle}

\* An answer 200 and a printed record go together, whatever becomes of the
\* answer, of stdout and of the task: every connect and disconnect a handler
\* decided is on stdout and nothing else is (CONF-L2-07), even when a handler
\* panics half way through its records.
AnsweredIsRecorded ==
  \A c \in Consumers :
    /\ Cardinality(DecidedFor("connect", c)) = Cardinality(Attested("connected", c))
    /\ Cardinality(DecidedFor("disconnect", c)) = Cardinality(Attested("disconnected", c))

\* No peer holds an exchange for ever, whatever it does or fails to do.
ExchangesEnd ==
  \A e \in Exchanges :
    stage[e] \in {"backlog", "reading", "writing"} ~> stage[e] \in Ended

\* Once the consumers have gone silent only legacy sessions remain, as long as
\* the server runs: a lease that nobody renews is reaped, soft or hard. A lost
\* answer costs a lease, not a slot: the session of a client that never learnt
\* its handle is one of them.
LeasesEnd == <>[](sweeping => \A h \in DOMAIN handles : handles[h].lease = NoLease)

\* Losing a partner is not an error (CONF-L2-05): once a disconnect was served,
\* GET still answers 200 and never meets a panic.
DegradesGracefully ==
  \A d, e \in Exchanges :
    /\ request[d].op = "disconnect" /\ stage[d] \in {"answered", "panicked"}
    /\ request[e].op = "read"
    => stage[e] # "panicked"

=============================================================================
