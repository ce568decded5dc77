---------------------- MODULE GrooveSessionsRefinement ----------------------
(***************************************************************************)
(* GrooveSessions implements SessionContract: every step of the provider   *)
(* is a step the contract allows, or leaves the contract's view unchanged. *)
(***************************************************************************)
EXTENDS GrooveSessionsProofs

\* The contract's variable, and what it is for a handle with no session.
Session == [h \in Handles |-> SessionOf(h)]
Unheld(h) == Contract!Blank(IF h \in minted THEN "consumed" ELSE "fresh")

\* The contract's reading of one session.
LEMMA HeldSession ==
  ASSUME TablesOK, NEW h \in DOMAIN handles
  PROVE  /\ SessionOf(h).phase = "held"
         /\ handles[h].lease = NoLease => SessionOf(h).mode = "legacy"
         /\ handles[h].lease # NoLease =>
              /\ handles[h].lease \in LeaseState
              /\ SessionOf(h).mode = handles[h].lease.mode
              /\ SessionOf(h).ttl = handles[h].lease.ttl
              /\ SessionOf(h).since = handles[h].lease.expires_at - handles[h].lease.ttl
<1>1. handles[h] \in HandleEntry
  BY DEF TablesOK
<1> QED
  BY <1>1 DEF SessionOf, HandleEntry

LEMMA UnheldSession ==
  ASSUME NEW h, h \notin DOMAIN handles
  PROVE  SessionOf(h) = Unheld(h) /\ SessionOf(h).phase # "held"
BY DEF SessionOf, Unheld, Contract!Blank

\* The contract calls a session overdue exactly when the sweep would reap it.
LEMMA OverdueIsDue ==
  ASSUME TablesOK, NEW h \in Handles
  PROVE  Contract!Overdue(SessionOf(h)) <=> h \in DueHandles(now)
<1>1. CASE h \notin DOMAIN handles
  BY <1>1, UnheldSession DEF Contract!Overdue, DueHandles
<1>2. CASE h \in DOMAIN handles /\ handles[h].lease = NoLease
  BY <1>2, HeldSession DEF Contract!Overdue, DueHandles, Due
<1>3. CASE h \in DOMAIN handles /\ handles[h].lease # NoLease
  <2>1. PICK lease : lease = handles[h].lease
    OBVIOUS
  <2>2. /\ lease.mode \in {"soft", "hard"} /\ lease.ttl \in Nat /\ lease.expires_at \in Nat
        /\ now \in Nat
    BY <1>3, <2>1, HeldSession, SessionsAssumption DEF LeaseState, LeaseModes, TablesOK
  <2>3. Contract!Overdue(SessionOf(h)) <=>
          now >= (lease.expires_at - lease.ttl) + Contract!Windows(lease.mode) * lease.ttl
    BY <1>3, <2>1, <2>2, HeldSession DEF Contract!Overdue
  <2>4. h \in DueHandles(now) <=> Due(lease, now)
    BY <1>3, <2>1 DEF DueHandles
  <2>5. CASE lease.mode = "soft"
    <3>1. Contract!Windows(lease.mode) = 1
      BY <2>5 DEF Contract!Windows
    <3>2. Due(lease, now) <=> now >= lease.expires_at
      BY <1>3, <2>1, <2>5 DEF Due
    <3> QED BY <2>2, <2>3, <2>4, <3>1, <3>2
  <2>6. CASE lease.mode = "hard"
    <3>1. Contract!Windows(lease.mode) = 3
      BY <2>6 DEF Contract!Windows
    <3>2. Due(lease, now) <=> now >= lease.expires_at + lease.ttl + lease.ttl
      BY <1>3, <2>1, <2>6 DEF Due
    <3> QED BY <2>2, <2>3, <2>4, <3>1, <3>2
  <2> QED BY <2>2, <2>5, <2>6
<1> QED
  BY <1>1, <1>2, <1>3

\* What the contract settles is what the sweep leaves.
LEMMA SettledIsSwept ==
  ASSUME TablesOK, NEW h \in Handles
  PROVE  /\ Contract!IsHeld(h) <=> h \in Live(now)
         /\ Contract!Settled[h] = IF h \in Live(now) THEN SessionOf(h) ELSE Unheld(h)
<1>1. Contract!Settled[h] =
        IF h \in DueHandles(now) THEN Contract!Blank("consumed") ELSE SessionOf(h)
  BY OverdueIsDue DEF Contract!Settled
<1>2. Contract!IsHeld(h) <=> SessionOf(h).phase = "held" /\ h \notin DueHandles(now)
  BY OverdueIsDue DEF Contract!IsHeld
<1>3. CASE h \in DueHandles(now)
  <2>1. h \in minted /\ h \notin Live(now)
    BY <1>3 DEF TablesOK, DueHandles, Live
  <2> QED BY <1>1, <1>2, <1>3, <2>1 DEF Unheld
<1>4. CASE h \notin DueHandles(now) /\ h \in DOMAIN handles
  BY <1>1, <1>2, <1>4, HeldSession DEF Live
<1>5. CASE h \notin DOMAIN handles
  <2>1. h \notin Live(now) /\ h \notin DueHandles(now)
    BY <1>5 DEF Live, DueHandles
  <2> QED BY <1>1, <1>2, <1>5, <2>1, UnheldSession
<1> QED
  BY <1>3, <1>4, <1>5

----------------------------------------------------------------------------
\* Steps.

\* The view of a session that a step keeps as it is, and of one that it ends.
LEMMA SameSession ==
  ASSUME NEW h \in DOMAIN handles, h \in DOMAIN handles', handles'[h] = handles[h]
  PROVE  SessionOf(h)' = SessionOf(h)
BY DEF SessionOf

LEMMA EndedSession ==
  ASSUME NEW h, h \notin DOMAIN handles', h \in minted' <=> h \in minted
  PROVE  SessionOf(h)' = Unheld(h)
BY DEF SessionOf, Unheld, Contract!Blank

LEMMA Unchanged ==
  ASSUME handles' = handles, minted' = minted
  PROVE  Session' = Session
BY DEF Session, SessionOf

\* A sweep on its own settles.
LEMMA SweepSettles ==
  ASSUME TablesOK, now' = now, minted' = minted, handles' = Kept(Live(now))
  PROVE  Contract!Settle
<1>1. DOMAIN handles' = Live(now) /\ Live(now) \in SUBSET DOMAIN handles
  BY LiveIsSubset DEF Kept
<1>2. ASSUME NEW h \in Handles PROVE SessionOf(h)' = Contract!Settled[h]
  <2>1. CASE h \in Live(now)
    <3>1. handles'[h] = handles[h] /\ h \in DOMAIN handles
      BY <1>1, <2>1 DEF Kept
    <3> QED BY <1>1, <2>1, <3>1, SameSession, SettledIsSwept
  <2>2. CASE h \notin Live(now)
    BY <1>1, <2>2, EndedSession, SettledIsSwept
  <2> QED BY <2>1, <2>2
<1>3. [h \in Handles |-> SessionOf(h)]' = Contract!Settled
  BY <1>2 DEF Contract!Settled
<1>4. now' \in Nat /\ now' >= now
  BY DEF TablesOK
<1> QED
  BY <1>3, <1>4 DEF Contract!Settle, Contract!TimePasses

\* A granted connect is a Grant of the contract.
LEMMA GrantGrants ==
  ASSUME TablesOK, NEW c \in Consumers, NEW consumes, NEW request \in LeaseRequest,
         NEW h \in Handles, GrantConnect(c, consumes, request, h)
  PROVE  Contract!Grant(h)
<1> DEFINE entry == [consumer |-> c, lease |-> LeaseFrom(request, now')]
<1>1. /\ ~AtCapacity(Live(now)) /\ LeaseAccepted(request)
      /\ now' \in now..(now + MaxPause)
      /\ h \in Handles \ minted
      /\ minted' = minted \cup {h}
      /\ handles' = [k \in Live(now) \cup {h} |-> IF k = h THEN entry ELSE handles[k]]
  BY DEF GrantConnect, Mintable, ClockReadAgain
<1>2. now' \in Nat /\ now \in Nat /\ now' >= now
  BY <1>1, SessionsAssumption DEF TablesOK
<1>3. Live(now) \in SUBSET DOMAIN handles /\ DOMAIN handles \subseteq minted
  BY LiveIsSubset DEF TablesOK
<1>4. h \notin DOMAIN handles /\ SessionOf(h).phase = "fresh"
  BY <1>1, <1>3 DEF SessionOf
<1>5. Contract!Cardinality({k \in Handles : Contract!IsHeld(k)}) < MAX_ACTIVE_HANDLES
  <2>1. {k \in Handles : Contract!IsHeld(k)} = Live(now)
    BY <1>3, SettledIsSwept DEF TablesOK
  <2>2. Cardinality(Live(now)) \in Nat
    BY <1>3, KeptOK
  <2>3. Contract!Cardinality(Live(now)) = Cardinality(Live(now))
    BY DEF Cardinality, Contract!Cardinality
  <2>4. Contract!Cardinality({k \in Handles : Contract!IsHeld(k)}) = Cardinality(Live(now))
    BY <2>1, <2>3, Zenon
  <2>5. Cardinality(Live(now)) < MAX_ACTIVE_HANDLES
    BY <1>1, <2>2, SessionsAssumption DEF AtCapacity
  <2> QED BY <2>4, <2>5, Zenon
<1>6. /\ SessionOf(h)' \in Contract!Held
      /\ SessionOf(h)'.mode # "legacy" => SessionOf(h)'.since >= now /\ SessionOf(h)'.since <= now'
  <2>1. h \in DOMAIN handles' /\ handles'[h] = entry
    BY <1>1
  <2>2. CASE request = NoLease
    <3>1. SessionOf(h)' = [phase |-> "held", mode |-> "legacy", ttl |-> 0, since |-> 0]
      BY <2>1, <2>2 DEF SessionOf, LeaseFrom
    <3> QED BY <3>1 DEF Contract!Held, Contract!Modes
  <2>3. CASE request # NoLease
    <3>1. request.mode \in {"soft", "hard"} /\ request.ttl \in Nat
      BY <1>1, <2>3, SessionsAssumption DEF LeaseRequest, LeaseModes, LeaseAccepted
    <3>2. entry.lease = [mode |-> request.mode, ttl |-> request.ttl,
                         expires_at |-> now' + request.ttl]
      BY <2>3 DEF LeaseFrom
    <3>3. entry.lease # NoLease
      <4>1. now' + request.ttl \in Nat
        BY <1>2, <3>1
      <4>2. entry.lease \in [mode : LeaseModes, ttl : Nat, expires_at : Nat]
        BY <3>1, <3>2, <4>1 DEF LeaseModes
      <4> QED BY <4>2, SessionsAssumption
    <3>4. SessionOf(h)' = [phase |-> "held", mode |-> request.mode, ttl |-> request.ttl,
                           since |-> (now' + request.ttl) - request.ttl]
      BY <2>1, <3>2, <3>3 DEF SessionOf
    <3>5. (now' + request.ttl) - request.ttl = now'
      BY <1>2, <3>1
    <3> QED BY <1>2, <3>1, <3>4, <3>5 DEF Contract!Held, Contract!Modes
  <2> QED BY <2>2, <2>3
<1>7. ASSUME NEW k \in Handles, k # h PROVE SessionOf(k)' = Contract!Settled[k]
  <2>1. CASE k \in Live(now)
    <3>1. k \in DOMAIN handles' /\ handles'[k] = handles[k] /\ k \in DOMAIN handles
      BY <1>1, <1>3, <1>7, <2>1
    <3> QED BY <2>1, <3>1, SameSession, SettledIsSwept
  <2>2. CASE k \notin Live(now)
    <3>1. k \notin DOMAIN handles' /\ (k \in minted' <=> k \in minted)
      BY <1>1, <1>7, <2>2
    <3> QED BY <2>2, <3>1, EndedSession, SettledIsSwept
  <2> QED BY <2>1, <2>2
<1>8. [k \in Handles |-> SessionOf(k)]' = [Contract!Settled EXCEPT ![h] = SessionOf(h)']
  <2>1. Contract!Settled = [k \in Handles |-> Contract!Settled[k]]
    BY DEF Contract!Settled
  <2> QED BY <1>7, <2>1
<1>9. [k \in Handles |-> SessionOf(k)]'[h] = SessionOf(h)'
  OBVIOUS
<1>10. [k \in Handles |-> SessionOf(k)][h].phase = "fresh"
  BY <1>4
<1>11. Contract!TimePasses
  BY <1>2 DEF Contract!TimePasses
<1>12. /\ [k \in Handles |-> SessionOf(k)]'[h] \in Contract!Held
       /\ [k \in Handles |-> SessionOf(k)]'[h].mode # "legacy"
            => Contract!StartsNow([k \in Handles |-> SessionOf(k)]'[h])
  BY <1>6, <1>9 DEF Contract!StartsNow
<1>13. [k \in Handles |-> SessionOf(k)]' =
         [Contract!Settled EXCEPT ![h] = [k \in Handles |-> SessionOf(k)]'[h]]
  BY <1>8, <1>9
<1> QED
  BY <1>5, <1>10, <1>11, <1>12, <1>13 DEF Contract!Grant

\* A refresh is a Renew of the contract.
LEMMA RefreshRenews ==
  ASSUME TablesOK, NEW h \in Handles, RefreshHard(h)
  PROVE  Contract!Renew(h)
<1> DEFINE L == Live(now)
<1>1. /\ h \in L /\ handles[h].lease # NoLease /\ handles[h].lease.mode = "hard"
      /\ now' \in now..(now + MaxPause)
      /\ handles' = [Kept(L) EXCEPT ![h] = Refreshed(Kept(L)[h], now')]
      /\ minted' = minted
  BY DEF RefreshHard, ClockReadAgain
<1>2. now' \in Nat /\ now \in Nat /\ now' >= now
  BY <1>1, SessionsAssumption DEF TablesOK
<1>3. L \in SUBSET DOMAIN handles /\ h \in DOMAIN handles
  BY <1>1, LiveIsSubset
<1>4. DOMAIN handles' = L /\ handles'[h] = Refreshed(handles[h], now')
      /\ \A k \in L \ {h} : handles'[k] = handles[k]
  BY <1>1, <1>3 DEF Kept
<1>5. /\ handles[h] \in HandleEntry /\ handles[h].lease \in LeaseState
      /\ handles[h].lease.ttl \in Nat
  BY <1>1, <1>3, HeldSession, SessionsAssumption DEF TablesOK, LeaseState
<1>6. SessionOf(h) = [phase |-> "held", mode |-> "hard", ttl |-> handles[h].lease.ttl,
                      since |-> handles[h].lease.expires_at - handles[h].lease.ttl]
  BY <1>1, <1>3 DEF SessionOf
<1>7. SessionOf(h)' = [phase |-> "held", mode |-> "hard", ttl |-> handles[h].lease.ttl,
                       since |-> now']
  <2>1. handles'[h].lease = [handles[h].lease EXCEPT !.expires_at = now' + handles[h].lease.ttl]
    BY <1>4, <1>5 DEF Refreshed, HandleEntry
  <2>2. /\ handles'[h].lease \in [mode : LeaseModes, ttl : Nat, expires_at : Nat]
        /\ handles'[h].lease.mode = "hard" /\ handles'[h].lease.ttl = handles[h].lease.ttl
        /\ handles'[h].lease.expires_at = now' + handles[h].lease.ttl
    BY <1>1, <1>2, <1>5, <2>1 DEF LeaseState
  <2>3. handles'[h].lease # NoLease
    BY <2>2, SessionsAssumption
  <2>4. (now' + handles[h].lease.ttl) - handles[h].lease.ttl = now'
    BY <1>2, <1>5
  <2> QED BY <1>1, <1>4, <2>2, <2>3, <2>4 DEF SessionOf
<1> HIDE DEF L
<1>8. ASSUME NEW k \in Handles, k # h PROVE SessionOf(k)' = Contract!Settled[k]
  <2>1. CASE k \in L
    BY <1>3, <1>4, <1>8, <2>1, SameSession, SettledIsSwept DEF L
  <2>2. CASE k \notin L
    BY <1>1, <1>4, <2>2, EndedSession, SettledIsSwept DEF L
  <2> QED BY <2>1, <2>2
<1>9. Contract!IsHeld(h) /\ Contract!Settled[h] = SessionOf(h)
  BY <1>1, SettledIsSwept DEF L
<1>10. [k \in Handles |-> SessionOf(k)]'[h] = SessionOf(h)'
       /\ [k \in Handles |-> SessionOf(k)][h] = SessionOf(h)
  OBVIOUS
<1>11. SessionOf(h)' = [Contract!Settled[h] EXCEPT !.since = SessionOf(h)'.since]
  BY <1>6, <1>7, <1>9
<1>12. [k \in Handles |-> SessionOf(k)]' = [Contract!Settled EXCEPT ![h].since = SessionOf(h)'.since]
  <2>1. Contract!Settled = [k \in Handles |-> Contract!Settled[k]]
    BY DEF Contract!Settled
  <2> QED BY <1>8, <1>11, <2>1
<1>13. [k \in Handles |-> SessionOf(k)]' =
         [Contract!Settled EXCEPT ![h].since = [k \in Handles |-> SessionOf(k)]'[h].since]
  BY <1>10, <1>12
<1>14. Contract!StartsNow([k \in Handles |-> SessionOf(k)]'[h])
  BY <1>2, <1>7, <1>10 DEF Contract!StartsNow
<1>15. [k \in Handles |-> SessionOf(k)][h].mode = "hard"
  BY <1>6, <1>10
<1>16. Contract!TimePasses
  BY <1>2 DEF Contract!TimePasses
<1> QED
  BY <1>9, <1>13, <1>14, <1>15, <1>16 DEF Contract!Renew

\* A disconnect is a Release of the contract.
LEMMA ReleaseReleases ==
  ASSUME TablesOK, NEW h \in Handles, Release(h)
  PROVE  Contract!Release(h)
<1> DEFINE L == Live(now)
<1>1. h \in L /\ handles' = Kept(L \ {h}) /\ now' = now /\ minted' = minted
  BY DEF Release
<1>2. L \in SUBSET DOMAIN handles /\ h \in minted
  BY <1>1, LiveIsSubset DEF TablesOK
<1>3. DOMAIN handles' = L \ {h} /\ \A k \in L \ {h} : handles'[k] = handles[k]
  BY <1>1 DEF Kept
<1> HIDE DEF L
<1>4. SessionOf(h)' = Contract!Blank("consumed")
  BY <1>1, <1>2, <1>3, EndedSession DEF Unheld
<1>5. ASSUME NEW k \in Handles, k # h PROVE SessionOf(k)' = Contract!Settled[k]
  <2>1. CASE k \in L
    BY <1>2, <1>3, <1>5, <2>1, SameSession, SettledIsSwept DEF L
  <2>2. CASE k \notin L
    BY <1>1, <1>3, <2>2, EndedSession, SettledIsSwept DEF L
  <2> QED BY <2>1, <2>2
<1>6. [k \in Handles |-> SessionOf(k)]' = [Contract!Settled EXCEPT ![h] = Contract!Blank("consumed")]
  <2>1. Contract!Settled = [k \in Handles |-> Contract!Settled[k]]
    BY DEF Contract!Settled
  <2> QED BY <1>4, <1>5, <2>1
<1>7. Contract!IsHeld(h)
  BY <1>1, SettledIsSwept DEF L
<1>8. Contract!TimePasses
  BY <1>1 DEF Contract!TimePasses, TablesOK
<1> QED
  BY <1>6, <1>7, <1>8 DEF Contract!Release

\* A step of the provider is a step of the contract or a stutter.
LEMMA StepKeepsContract ==
  ASSUME TablesOK, [Next]_vars
  PROVE  [Contract!Next]_(Contract!vars)
<1>1. CASE Tick
  <2>1. Contract!Wait
    <3>1. [h \in Handles |-> SessionOf(h)]' = [h \in Handles |-> SessionOf(h)]
      BY <1>1, Unchanged DEF Tick, Session
    <3>2. Contract!TimePasses
      BY <1>1 DEF Tick, Contract!TimePasses, TablesOK
    <3> QED BY <3>1, <3>2 DEF Contract!Wait
  <2> QED BY <2>1 DEF Contract!Next
<1>2. ASSUME JustSweep, now' = now PROVE Contract!Next
  <2>1. Contract!Settle
    BY <1>2, SweepSettles DEF JustSweep
  <2> QED BY <2>1 DEF Contract!Next
<1>3. CASE Sweep
  BY <1>2, <1>3 DEF Sweep
<1>4. ASSUME NEW c \in Consumers, NEW consumes \in SUBSET Capabilities,
             NEW request \in LeaseRequest, Connect(c, consumes, request)
      PROVE  Contract!Next
  <2>1. CASE \E status \in {503, 409, 400} : RefuseConnect(consumes, request, status)
    BY <1>2, <2>1 DEF RefuseConnect
  <2>2. CASE MintFails(consumes, request)
    BY <1>2, <2>2 DEF MintFails
  <2>3. CASE \E h \in Handles : GrantConnect(c, consumes, request, h)
    BY <2>3, GrantGrants DEF Contract!Next
  <2> QED BY <1>4, <2>1, <2>2, <2>3 DEF Connect
<1>5. ASSUME NEW h \in Handles, Heartbeat(h) PROVE Contract!Next
  <2>1. CASE RefreshHard(h)
    BY <2>1, RefreshRenews DEF Contract!Next
  <2>2. CASE \E status \in {404, 204, 409} : HeartbeatOnly(h, status)
    BY <1>2, <2>2 DEF HeartbeatOnly
  <2> QED BY <1>5, <2>1, <2>2 DEF Heartbeat
<1>6. ASSUME NEW h \in Handles, Disconnect(h) PROVE Contract!Next
  <2>1. CASE Release(h)
    BY <2>1, ReleaseReleases DEF Contract!Next
  <2>2. CASE Gone(h)
    BY <1>2, <2>2 DEF Gone
  <2> QED BY <1>6, <2>1, <2>2 DEF Disconnect
<1>7. CASE UNCHANGED vars
  <2>1. [h \in Handles |-> SessionOf(h)]' = [h \in Handles |-> SessionOf(h)]
    BY <1>7, Unchanged DEF vars, Session
  <2> QED BY <1>7, <2>1 DEF vars, Contract!vars
<1> QED
  BY <1>1, <1>3, <1>4, <1>5, <1>6, <1>7 DEF Next

LEMMA InitKeepsContract == Init => Contract!Init
<1> SUFFICES ASSUME Init PROVE Contract!Init
  OBVIOUS
<1>1. \A h \in Handles : SessionOf(h) = Contract!Blank("fresh")
  BY DEF Init, SessionOf, Contract!Blank
<1> QED
  BY <1>1 DEF Init, Contract!Init

\* The provider keeps its session contract: a consumed handle never comes back,
\* no session is reaped before its term, no soft lease is extended, and a
\* request acts on what is left after every overdue session is gone.
THEOREM ProviderKeepsContract == Spec => KeepsContract
<1>1. SessionInv /\ [Next]_vars => [Contract!Next]_(Contract!vars)
  BY StepKeepsContract DEF SessionInv
<1> QED
  BY <1>1, InitKeepsContract, SessionInvariant, PTL DEF Spec, KeepsContract, Contract!Spec

=============================================================================
