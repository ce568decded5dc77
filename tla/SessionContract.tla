-------------------------- MODULE SessionContract --------------------------
(***************************************************************************)
(* What the provider promises about a bearer handle, without saying how it *)
(* keeps its tables: a handle is fresh, then held under a term, then       *)
(* consumed for ever.  A session without a lease ends only by disconnect;  *)
(* a soft one ends at its ttl whatever the consumer does; a hard one is    *)
(* renewed by heartbeat and ends only after three whole windows without a  *)
(* renewal.  Every request settles the overdue sessions before it does     *)
(* anything else, so that expiry follows the clock and not the sweeper.    *)
(***************************************************************************)
EXTENDS Integers, FiniteSets

CONSTANTS
  Handles,      \* every bearer handle the provider can mint
  Capacity      \* how many sessions may be held at once

Modes == {"legacy", "soft", "hard"}
Held == [phase : {"held"}, mode : Modes, ttl : Nat, since : Nat]
Blank(phase) == [phase |-> phase, mode |-> "legacy", ttl |-> 0, since |-> 0]

VARIABLES
  now,          \* the monotonic clock
  session       \* for each handle fresh, consumed, or the term it is held under

vars == <<now, session>>

\* Mutant of Windows: a ttl in milliseconds is taken for seconds.
WindowsInSeconds(mode) == 1000 * (IF mode = "hard" THEN 3 ELSE 1)

\* Windows of its ttl a session survives since it was granted or last renewed.
Windows(mode) == IF mode = "hard" THEN 3 ELSE 1

Overdue(s) ==
  /\ s.phase = "held"
  /\ s.mode # "legacy"
  /\ now >= s.since + Windows(s.mode) * s.ttl

Settled == [h \in Handles |-> IF Overdue(session[h]) THEN Blank("consumed") ELSE session[h]]

IsHeld(h) == session[h].phase = "held" /\ ~Overdue(session[h])

TimePasses == now' \in Nat /\ now' >= now

\* Renewing or granting a term while the request is being served.
StartsNow(s) == s.since >= now /\ s.since <= now'

----------------------------------------------------------------------------

Init ==
  /\ now \in Nat
  /\ session = [h \in Handles |-> Blank("fresh")]

\* Time passes and nothing else happens: an overdue session may linger until
\* the next settlement.
Wait ==
  /\ TimePasses
  /\ UNCHANGED session

Settle ==
  /\ TimePasses
  /\ session' = Settled

Grant(h) ==
  /\ TimePasses
  /\ session[h].phase = "fresh"
  /\ Cardinality({k \in Handles : IsHeld(k)}) < Capacity
  /\ session'[h] \in Held
  /\ session'[h].mode # "legacy" => StartsNow(session'[h])
  /\ session' = [Settled EXCEPT ![h] = session'[h]]

Renew(h) ==
  /\ TimePasses
  /\ IsHeld(h)
  /\ session[h].mode = "hard"
  /\ StartsNow(session'[h])
  /\ session' = [Settled EXCEPT ![h].since = session'[h].since]

Release(h) ==
  /\ TimePasses
  /\ IsHeld(h)
  /\ session' = [Settled EXCEPT ![h] = Blank("consumed")]

Next ==
  \/ Wait
  \/ Settle
  \/ \E h \in Handles : Grant(h) \/ Renew(h) \/ Release(h)

Spec == Init /\ [][Next]_vars

=============================================================================
