# Groove in TLA+

Groove lets two programs on one host find each other over loopback HTTP, open a
*session* (a bearer handle, perhaps under a lease), keep it alive by heartbeat
and end it, with a hash-chained audit trail of what happened.  This directory
holds TLA+ models of that system, the TLC configurations that check them on
small instances, and TLAPS proofs of the main results for every instance.

## The system

| part | code | state | operations |
|---|---|---|---|
| provider sessions | `provider/src/lib.rs`, `State` | live handles with their leases, the retained audit window, the hash of its last record | connect, heartbeat, disconnect, sweep |
| provider server | `provider/src/lib.rs`, `serve`, `Server`; `provider/src/main.rs` | two listeners, 128 permits, exchange tasks, the sweeper task, the mutex | accept, serve, time out, abort, shut down |
| HTTP framing | `handle_connection`, first half | bytes read so far | read a request, refuse a malformed one |
| manifests | `cli/src/{init,detect,validate,canonical,sign}.rs`; `serve` and `State::offers` in `provider/src/lib.rs` | the file, what is served, the registry's pinned keys | init, edit, validate, sign, verify, admit, serve |
| probe and mesh | `cli/src/{probe,registry}.rs` | the ports left to probe, the services found | probe one address, list, draw the mesh, check-compat |
| browser extension | `clients/browser-extension/background` | registry of discovered services, table of connections, connects in progress, heartbeat timers | discoverAll, connect, heartbeat, disconnect |
| page bridge | `clients/browser-extension/content` | pending request ids | request, response, 5 s timeout |
| groove harness | `harness/groove-harness.js` | partners, active capabilities, timers | start, stop, discover, connect, disconnect, heartbeat |
| GRV6 frames | `reference/ipv6t/src/grv6.zig` | the writer's last provenance hash, the reader's buffers | writeFrame, readFrame, validate |
| Idris models | `proofs` | none | checked by Idris, not part of the running programs |

How they interact: the clients (extension, harness, CLI probe) send one request
per TCP connection to either loopback; each connection becomes a task of the
provider; a task takes the mutex once, for one synchronous critical section,
and writes its answer after it has let go of it.  The sweeper task takes the
same mutex every 50 ms.  Every record of the audit trail is printed on stdout
from inside the critical section.  A manifest travels from `groove init` through
its author's editor to a provider, which may sign it, and from there to probes,
to other repositories and to `groove validate --verify`.

What is hard in it:

* Time. A lease ends by the clock, and the table learns of it later, from the
  sweeper or from the next request. One handler reads the clock twice. Two
  programs with clocks of their own count the same lease.
* Lost answers. Between the critical section and the delivery of its answer an
  exchange can time out, be aborted or lose its peer. What was done stays done,
  and the client cannot tell.
* Batches. A handler may attest several expiries, in an arbitrary order, before
  its own record, while the oldest records are evicted.
* Shared limits: permits, session capacity, the audit window, buffers.
* Failure of one part: `accept()`, stdout, a panic under the mutex.
* On the clients' side, state read before an `await` and used after it: a
  registry that is replaced meanwhile, a connection that was dropped, a partner
  that another discovery has connected, a host's list whose partners are gone.
* Decisions written twice: what validation lets through and what handlers
  understand, what mesh draws and what check-compat says, what is signed and
  what is verified.

What makes each part correct:

* sessions: a handle is consumed once and for ever; no session ends before its
  term or outlives it after a request; the books balance; the window verifies;
* server: no permit is lost, every exchange ends, no client is told two
  different things about a consumed handle, and an answer is never at odds with
  the audit trail;
* framing: how the network cuts a request makes no difference;
* extension: timers and connections match, a connection it holds is one the
  provider holds, a disconnect the page asked for last wins, nothing leaks for ever;
* harness: a partner has one heartbeat, the dead are dropped in time and the
  living are not, and are found again;
* manifests: a pinned service's manifest is authentic or does not pass, what is
  served is understood, what is generated is valid;
* probe: a service that is there is listed, nothing else is, and the commands
  agree with one another.

## The modules

| module | what it is |
|---|---|
| `SessionContract` | the promise: a handle is fresh, held under a term, consumed |
| `GrooveSessions` | the provider's `State`: one action per critical section |
| `GrooveSessionsProofs` | type correctness, the audit trail and its books, proved |
| `GrooveSessionsRefinement` | `GrooveSessions` implements `SessionContract`, proved |
| `ProviderServer` | listeners, permits, exchange tasks and clients around `GrooveSessions` |
| `ProviderServerProofs` | permits, the linear consumption of handles, answers against records, and the server as an implementation of `GrooveSessions` and of `SessionContract`, proved |
| `HttpRequest` | reading one request in pieces |
| `HttpProofs` | what a request comes to depends on its bytes alone, proved |
| `ExtensionClient` | the extension's background script, composed with `SessionContract` over a lossy network |
| `ExtensionProofs` | timers, disconnects asked last, leases that outlast the client's patience, and the refinement, proved |
| `GrooveHarness` | the harness among partners that come and go |
| `HarnessProofs` | its heartbeats, timeouts and timers, proved |
| `ManifestRules` | what validate, sign, verify and admission decide, as operators |
| `ManifestLifecycle` | the life of a manifest around these |
| `ManifestProofs` | pinned means authentic, signed means verifiable, served means understood, generated means servable, proved |
| `ProbeMesh` | probe, mesh and check-compat while services change |
| `ProbeProofs` | what a scan lists, and that mesh and check-compat agree, proved |
| `MC...` | instances of the module of that name for TLC |

`SessionContract` is the joint. From below, `GrooveSessions` implements it;
from above, `ExtensionClient` uses nothing else of the provider, and is itself
shown to stay within it. So what is shown of the extension holds with the real
provider behind it, without one model that holds both.

### GrooveSessions

`handles`, `attestations` and `last_hash` are the fields of `State`; `now` is
the monotonic clock and `stdout` everything printed. `minted` remembers the
tokens handed out: a token is 256 random bits, so `mint_token` never returns
one twice. The bearer token and its public `connection_id` are one value: the
second is the hash of the first. A record's hash is its number, which is
faithful because the record hashed holds `prev_hash` and SHA-256 does not
collide; timestamps, versions and capability lists inside a record are left out.

Every critical section is one action, since the guard never lives across an
await: `GrantConnect`, `RefuseConnect` (503, then 409, then 400, in the order of
the code), `MintFails`, `RefreshHard`, `HeartbeatOnly`, `Release`, `Gone` and the
sweeper's `Sweep`. Each one sweeps first, attests the expiries in an order
the `HashMap` may visit them in, and then does its own work: that is
`SweepThenAttest`. `GrantConnect` and `RefreshHard` read the clock a second time
(`ClockReadAgain`), up to `MaxPause` later. A request refused before the lock is
taken changes nothing and is no step.

### ProviderServer

An exchange is one TCP connection and goes `idle`, `backlog`, `reading`,
`writing`, and then `answered`, `closed` (no usable answer) or `panicked`. `Send` is a client
that names only handles some client was told of. `Accept` takes a permit or
`Overload` drops the stream; `Serve` is the critical section, conjoined with the
action of `GrooveSessions` it performs; `Deliver`, `Hangup`, `TimeOut` and `Abort`
are the ways out, and each gives the permit back. `AcceptFails` ends one
listener and `Shutdown` everything; an exchange whose listener has ended is
aborted at its next await, which need not be at once. `PrintBreaks` is `println!`
on a closed stdout: some of the batch is out, the task panics, the mutex is
poisoned, and every later `lock().expect()` panics too. `Faults` says which of
the two environment faults may happen. `after` is a history variable: the
exchanges answered before this one was sent.

### HttpRequest

`wire` is all that the client writes, `got` how much of it is in `buf`, `stage` the
loop `handle_connection` is in. One byte of the model stands for the text of a
whole line, since of a line only its kind is looked at: one that is not UTF-8 is
`garbled`, be it the request line or a header, and a control character makes a
header `malformed`. Carriage returns, line feeds and bytes of the body are themselves, so the end of the headers can lie
across two reads. `ReadHead` is a read of the first loop with the limit, and at the end
of the headers every check in the code's order: `HeadersOf` is the loop over the
lines of the head, a recursive function that takes one more with `TakeHeader`, and `HeadStatus` the
checks after it; `ReadBody` and `Dispatch` are the body loop;
`PeerCloses` is a read of nothing; `ClientStops` makes the client stop anywhere.
`Deserved` is a definition of the outcome from the bytes alone, by counting header lines,
written without the loop.

### ExtensionClient

Each piece of JavaScript between two awaits is an action. A fetch is two or
three: the provider serves it (`Granted`, `Answered`, `Released`), the answer
arrives (`Connected`, `Alive`, `Missed`), or either is lost (`ConnectFails`,
`Lost`, `DisconnectFails`). `entries` keeps every registry entry ever made,
because a call goes on holding the object it read after `ReplaceRegistry` put a
new map in its place; the last entry is the map's. `connection`, `misses`,
`timers` are `connections` with its records and intervals. `calls` are the page's
and the popup's calls in progress; `Continuing` lets a `disconnectService` that
awaited a connect go on before any other callback, as the promise queue does.
The clock counts heartbeat intervals of 5 s. `Tick` waits for whatever cannot last
longer: fetches are aborted after 2 s, and an interval fires once in each.
`GrantedModes` includes providers that know no leases.

### GrooveHarness

`scans` are running calls of `_discover`, each waiting for the modules' provisioning
or for the host. The discovery is the one through `gossamerInvoke`: it awaits once
and evaluates the whole list in one go (`Discovered`, `ConnectPartners`), so of
several partners in it that bring one capability the last is its provider. The host
is not under `src/`: it lists any partners in any order, refuses (`NotOk`), throws
(`Rejected`) or never answers; who is listed may be gone, and who is there may be
missed. A page without that host walks the ports by fetch, where `_parseManifest`
gives empty `offers` and `consumes`, so that no partner ever matches: such a discovery connects
nobody and is one whose list is empty, or one that does not end. `partners`, `active` and `beats` are `_partners`,
`_activeCapabilities` and the intervals with `_heartbeatTimers`. `beats` counts
intervals rather than holding one, and `ticking` counts discovery timers apart
from the `handle` that `stop` clears: a timer whose handle is overwritten runs
on. Ages are counted from `lastHeartbeat` and capped one past `Patience`, beyond
which they make no difference. `Pass` lets no timer be later than `Late`.

### ManifestRules and ManifestLifecycle

A manifest is a record that says of each member whether it is absent, of the
wrong shape, or which of the values that matter it has; the text is I-JSON, has
a repeated key, an integer out of range, or is no JSON. `Findings` is
`validate_manifest_content` with one operator for each check; `Sign` and
`Verify` are those of `sign.rs`, where a signature is who made it over what.
What `groove init` takes over from a repository is its name, its version, how long
they are and what it depends on; a project file that cannot be read leaves it the
directory's name (`DetectedId`, `DetectedVersion`).
The steps are the ones that write: `InitCommand` (all of detect and init),
`EditFile`, `ServeSigned` and `ServePlain` (admission, then perhaps the seed's
signature), `Download` of what is served, and `PinKey`, a release of the registry.
`signed` remembers which key signed what.

### ProbeMesh

`Start` works out the ports and hosts of a command (`PortsToProbe`: the registry's
in ascending order, then the extra ones that are new), `ProbeOne` asks the next address
(`Discover`, `PassOver`), and `ChangeAnswer` replaces what answers anywhere
at any time; `been` remembers what was where while the command ran. What mesh
prints (`Edges`, `Dangling`) and what check-compat prints
(`check_compat_entries`) are operators on the final list and on the registry.

## What the runs check

| run | properties | what it shows |
|---|---|---|
| `Sessions.cfg` | `TypeOK` `RetainedWindowVerifies` `AuditBalances` `KeepsContract` | safety of the session table in every interleaving |
| `Server.cfg` | `ServerOK` `AnswersAreFinal` `AnsweredIsRecorded` | permits, answers and records agree through loss, abort, panic and shutdown |
| `ServerLiveness.cfg` | `ExchangesEnd` `LeasesEnd` | stalling peers end, and so does a lease nobody renews, one whose answer was lost included |
| `Http.cfg` | `TypeOK` `ChunkingIsInvisible` `ReadingEnds` | the pieces of a request make no difference, and a client that stops keeps nothing |
| `Extension.cfg` | `TypeOK` `OneTimerPerConnection` `ConnectionIsHeld` `LastWordWins` `UsesContract` `OrphansEnd` | timers, connections and the provider's sessions stay in step while fetches are lost either way |
| `Harness.cfg` | `TypeOK` `ActiveProviderConnected` `OneHeartbeatPerPartner` `DeadIsDropped` `LivePartnerStays` `PartnerIsFound` | overlapping discoveries, heartbeats, start and stop while partners come and go |
| `Manifests.cfg` | `PinnedIsAuthentic` `SignedIsVerifiable` `NothingIsSkipped` `InitIsServable` | what passes is authentic, what is served is understood, what is generated is served |
| `Probe.cfg` | `TypeOK` `SteadyIsListed` `ListedWasThere` `MeshAgreesWithRegistry` `ScanEnds` | a scan among changing services lists what is there, and the commands agree |
| `Resurrection.cfg` | `NoResurrection` | violated: see below |
| `Degradation.cfg` | `DegradesGracefully` | violated |
| `StaleStatus.cfg` | `ShownIsConnected` | violated |
| `LostCapability.cfg` | `CapabilityAvailable` | violated |

Four statements of the repository are not what the code does, and a run shows each:

* `Resurrection.cfg`. A comment (`provider/src/lib.rs:688`) says a hard lease past
  its third window cannot be resurrected by a heartbeat. The handler sweeps at
  one reading of the clock and renews at a later one: the window may end in between.
  The contract the provider does keep is the weaker one: a session renewed was
  not overdue when the request's critical section began.
* `Degradation.cfg`. After a disconnect the manifest must still answer 200
  (CONF-L2-05). When the reader of the JSON lines is gone, the disconnect's record
  panics inside the mutex and every later GET of the manifest panics as well.
* `StaleStatus.cfg`. `groove.status` is the current status of each service
  (`groove-bridge.js:78`). `disconnectService` resets an entry only if it is
  `connected`; one that is `degraded` stays so without a connection.
* `LostCapability.cfg`. `hasCapability` says whether a capability is currently
  available (`groove-harness.js:520`). With two providers of one, the loss of either
  deletes it although the other is connected.

Other divergences met while modelling, which need no search:

* Any error of `accept()` ends that listener's loop for good (`provider/src/lib.rs:354`),
  while the manifest must answer on both loopbacks (`spec/CONFORMANCE.adoc:50`).
  `AcceptFails` is in `ProviderServer`, so every result holds after it.
* The audit trail should tell how long a connection was maintained
  (`spec/SPEC.adoc:480`), but a disconnect's record (`lib.rs:733`) carries no
  `connection_id`: with two sessions of one consumer it cannot be matched with its connect.
* `groove init` "writes a correct manifest" (`cli/src/init.rs:7`). A Deno package
  named `@scope/name` or a Cargo workspace without a package name gives an id
  that `groove validate` rejects; a Deno version `""` is copied as it is
  (`detect.rs:125`, `init.rs:90`) and is a HIGH finding (`validate.rs:327`); a name or version
  that is over-long no provider admits (`lib.rs:328`). `InitIsServable` holds for
  the other names and versions.
* Mesh's summary line counts every consumed capability of every service as a flow
  (`probe.rs:299`), those that dangle included; the edges it draws and its JSON do not.
* A connect that the page asks for while a disconnect waits for an earlier connect joins that
  one (`groove-discovery.js:186`) and is dropped with it (281-286), although it was
  asked for last. `LastWordWins` is about a disconnect asked last.
* Discovery by fetch connects nobody: `_parseManifest` leaves `offers` and `consumes`
  empty (`groove-harness.js:510`). Its timers share one `controller` variable, so
  one that was not cleared aborts a later port's request (195-202), and reading the body has
  no timeout at all (202-205).
* `start()` of the harness whose first discovery throws leaves `_started` set and no timer
  (`groove-harness.js:105`): started again it returns at once. `Rejected` has this step.
* The harness reads `id`, `offers` and `consumes` of what `groove_discover` answers
  (`groove-harness.js:179`, 228, 238); `proofs/Gossamer/ABI/IPCDispatch.idr:96` types
  that answer as a list of peer ids.
* A connect's manifest is read by a parser that keeps the last of repeated
  keys and is written out again before the I-JSON check (`lib.rs:586`), so
  there repeated keys are not refused as `spec/SPEC.adoc:196` asks.
* A probe takes a response for a 200 if "200" occurs anywhere in it (`cli/src/probe.rs:329`).
* `registry.rs:90` speaks of bands that a probe sweeps; no command probes them.
* `stop()` of the harness "disconnects all partners, clears timers", but during
  `start()` the discovery in progress goes on, may connect partners, and sets its
  timer afterwards. `GrooveHarness` has these steps.

### Bounds

* `Sessions.cfg`: three tokens, two consumers, two sessions at a time. Two
  sessions are what it takes for a batch of two expiries in either order and for
  a refused third connect; the third token connects after one of them ended.
  `TTLs` {0, 1, 2} has one below `MIN_TTL`, and two lengths so that sessions overtake
  one another; `MAX_TTL` 2. A window of two records is evicted once by a single
  record and twice by one sweep. `MaxTime` 6 is where a hard lease of 2 granted at 0
  ends. `MaxPause` 1 lets the clock pass an expiry inside a handler.
  `LastRequest` 5 leaves the last instant to the sweeper alone.
* `Server.cfg`: three exchanges are what linear consumption needs (connect,
  disconnect, retry), two permits let two of them race and make the third one
  overload, and the clock runs to 3, the end of a hard lease of 1. One listener:
  the permits, the table and the mutex are shared, so a second listener adds no
  step that one does not have; `ServerLiveness.cfg` and `Degradation.cfg` run with two.
* `ServerLiveness.cfg`: one permit and two exchanges; no request is sent after 1,
  and a hard lease of 1 granted then is over at 4, where the clock stops.
* `Http.cfg`: every request whose request line is fine, wrong or not UTF-8, of up to two header lines and some of three, up to
  three bytes after the head, read in pieces of one to three bytes, so that a
  terminator is cut at each of its bytes. The head limit of 11 is one that two
  header lines just fit and three exceed; the body limit of 2 is met, and
  exceeded by one in a content-length.
* `Extension.cfg`: two calls and a discovery that replaces the registry twice,
  two handles so that a late heartbeat meets a newer connection. Two misses and a
  lease of two intervals satisfy `PatienceAssumption` as the code's 3 and 3 do.
  Calls end at 2 and losses at 5; 12 is past the end of every lease.
* `Harness.cfg`: two partners that share a capability, listed in either order, one, both or
  none; two discoveries at a time, one `stop`, so that a second `start` overlaps the
  first one's discovery, and one that never ends leaves room for another; timers up
  to one late, a timeout of two intervals. Ages are capped, so there is no bound on time.
* `Manifests.cfg`: eight repositories, of every type, with an empty version, with
  a project file that cannot be read, and with an over-long name; one registered service, two keys, two
  edits and two signatures: enough to sign, edit, sign again with the other key and
  remove either.
* `Probe.cfg`: three registry entries, one of them not probeable, two hosts for each port, up
  to two services at the start and one change during the scan.

Symmetry (handles, consumers, exchanges, listeners) is used in the safety runs of the
provider only. Deadlock is not checked where the system really stops:
`Server::shutdown`, an exchange or a command that is over, a clock at its bound.

### Fairness

`FairServerSpec` assumes that the clock moves, that the sweeper task runs (it waits
on a timer of the runtime and on a mutex that is never held across an await), that a
listener polls its backlog (`Accept` or `Overload`) and that an exchange's deadline fires
(`TimeOut`): `REQUEST_TIMEOUT` wraps the whole exchange, every step of which is an
await or ends. Delivery, hangups and the handler itself get no fairness, so no
result depends on a peer that behaves. `LeasesEnd` is about a process that goes
on: after a shutdown or with a poisoned mutex nobody sweeps.

`HttpRequest` is fair to its reading step as a whole: a read returns something or
says that the client has closed. A client that neither writes nor closes is
`TimeOut` of `ProviderServer`.

In `ExtensionClient` time passes, fetches end one way or the other, because an abort timer
ends them, and intervals fire. The fairness is strong, per call and per handle,
because a promise's continuation goes first and the page can make another one each time.
The page need not ask for anything, and nothing need arrive.

In `GrooveHarness` discovery timers fire. The code has no timeout for the host's
answer and guarantees nothing of it; what `PartnerIsFound` assumes of the host is
stated as strong fairness for each partner: asked again and again while the partner is up, it
does not fail for ever to list it. It may miss it any number of times, and any one call may
stay without an answer. Heartbeats get no fairness. In
`ProbeMesh` a probe ends: connecting and reading each have a timeout.

## What is proved

With TLAPS, for every value of the constants that satisfies the named assumptions of
each module.

**Provider** (`SessionsAssumption`: finite `Handles`, positive `MIN_TTL` and
`MAX_ATTESTATIONS`, `Offers` within `Capabilities`, values that stand for nothing are
nothing else; `ServerAssumption`: finitely many exchanges and listeners):

* `TypeCorrect`: `Spec => []TypeOK`. The capacity is the hard part: the test
  counts the table after the sweep, and the connect adds one.
* `AuditTrailVerifies`: `Spec => []RetainedWindowVerifies`.
* `BooksBalance`: `Spec => []AuditBalances`.
* `ProviderKeepsContract`: `Spec => KeepsContract`, that is, `GrooveSessions`
  implements `SessionContract` under `SessionOf`;
* `PermitsConserved`: `ServerSpec => []ServerOK`;
* `ConsumptionIsLinear`: `ServerSpec => []AnswersAreFinal`;
* `AnswersAreRecorded`: `ServerSpec => []AnsweredIsRecorded`;
* `ServerKeepsSessions`: without the fault `"stdout"`, `ServerSpec => Spec`: the
  server implements `GrooveSessions`, so every theorem about it holds of the server;
* `LockedStateIsSound`: with that fault, `TypeOK`, `RetainedWindowVerifies` and
  `AuditBalances` hold whenever the mutex is not poisoned;
* `ServerKeepsContract`: `ServerSpec => KeepsContract`, with every fault.

`RetainedWindowVerifies` is not inductive: eviction drops a record and the next
one must still chain to the one after it. The invariant is
`SessionInv == TablesOK /\ TrailOK`: the *whole* printed history chains from the
genesis hash (`TrailChains`), it ends in `last_hash`, and the retained window is
its newest part. `AttestTrail` shows that attesting any sequence of bodies keeps
that, and rests on what `Chain` and `Retain` do (`ChainProperties`, `RetainAppend`).
Every action attests exactly one such sequence (`SweepAttestsBodies`), so the
trail is treated once and not per action; `GrantTables`, `RefreshTables`,
`ReleaseTables` and `JustSweepTables` treat the tables.

`AuditBalances` counts: `MatchingConcat` says how many records of a kind a printed batch
adds, and `StepBalances` that the table gains or loses as many of the consumer's sessions; a
batch of expiries has one record for each session it removes, in whatever order
(`SameSize`). Given `SessionInv` it is inductive.

The refinement reads a session's term off its lease (`since` = `expires_at - ttl`).
`OverdueIsDue` shows that the contract's notion of overdue is the code's `due`,
`SettledIsSwept` that a sweep is a settlement, and one lemma per action maps
it to the contract's action. A heartbeat's and a connect's second clock read is why
`Grant` and `Renew` let the term begin anywhere between the old and the new `now`.

`AnswersAreFinal` speaks of what clients were told and is not inductive. `AnswersInv`
ties it to the tables: a handle somebody was told is consumed was minted and is
no longer in `handles` (`ConsumedIsDead`, `HandlesGranted`), and such a handle stays out, since a
token is never minted twice (`TablesMove`); an exchange in `after[e]` was
answered before `e` was sent, hence before `e` was decided (`HistoryOK`,
`Undecided`); so what `e` is told agrees (`LaterAnswersAgree`). `ServeIsHonest`
is where the handlers come in: one case per answer. Every step that decides
nothing, panics and aborts included, is `Quiet` and treated once.

`AnsweredIsRecorded` compares two counts, so it needs that a disconnect is counted
under the right consumer: that consumer is known only from the connect whose answer gave
the handle. Hence `RecordsInv`: two connects are never answered one handle (`OneGrant`), a live
session has such a connect of its own consumer (`HeldWereGranted`), a disconnect's answer names
the handle asked about. A `println!` that breaks (`BrokenPrint`) gets out
some expiries of a batch and no record of the handler's own, so neither count moves.

`ServerIsSessionStep` is the refinement's step: whatever the server does is a step of
`GrooveSessions` or leaves the table alone, unless it is `PrintBreaks`. What
that one leaves half done is behind a mutex that stays poisoned (`PoisonStays`) and is never
read again, so the model leaves the table as it was there: to the contract it is a
stutter, while the records that got out make the books of stdout wrong, which is why
`LockedStateIsSound` speaks of a mutex that is not poisoned.

**Extension** (`ClientAssumption`, and `PatienceAssumption`:
`HEARTBEAT_MAX_MISSES + 2 < 3 * TTL`; the code has 3 misses and 3 intervals):

* `TypeCorrect`, `TimersMatch` (`OneTimerPerConnection`), `DisconnectWins`
  (`LastWordWins`): for any number of calls at a time. The invariant is `OneAttempt`: there is
  at most one connect under way and none while there is a connection, and a
  disconnect asked last is still waiting as long as there is either.
* `ConnectionOutlived`: `Spec => []ConnectionIsHeld`. `Leased` bounds how long
  ago the lease was renewed by what the client has counted: its misses, one for
  a heartbeat under way, one for the interval before. `Owned` says that a handle
  belongs to one call or to the connection, so nobody else releases it, and
  `Prompt` that a grant whose answer is on its way is at most one interval old.
  `HardLasts` turns these into "not overdue".
* `ClientKeepsContract`: `Spec => UsesContract`. Besides `IInv` it needs `Beaten`: a
  heartbeat is under way only for a hard lease or one that has ended, so
  `Renew`'s guard holds.

**Manifests** (`RulesAssumption`, `DetectAssumption`: detect suggests registered types):

* `PinnedAuthentic`: `Spec => []PinnedIsAuthentic`. `PassingIsSigned` goes from exit
  status 0 to a signature of the pinned key over the rest of the manifest, by way of the
  findings; `Authentic` says that every signature in the file or served was made,
  which edits (`EditKeeps`) and copies preserve.
* `SignedVerifiable`: rests on `SignedVerifies`, that the signature a manifest
  came with is no part of what is signed or verified.
* `ServedIsRead`: `Spec => []NothingIsSkipped`, from `AdmittedIsWhole`.
* `InitServable`: `Spec => []InitIsServable`, for a usable name and version that are not
  over-long (`RepoAssumption`: what detect can find in a repository). `InitIsSound` says that a file from
  init lacks nothing and has nothing of a wrong shape, and `SoundIsServable` that the only
  finding left is a port that contradicts the registry, which is a warning.

**Harness** (`HarnessAssumption`, `TimeoutAssumption`: the timeout is not shorter than
an interval and the lateness of a timer; the code's defaults are 15 s and 5 s):
`OneHeartbeat`, `ActiveConnected`, `DeadDropped` and `LiveStays`, all from one
invariant, `Sound`, of a connected partner's clocks: what it was not heard is at
most the timeout and what has passed since its timer was wound; and if it was
never away, only the latter. `LastIsNew` and `LeastNumber` are about a list whose partners are
connected at once: the provider of what it brings is among them. `Connecting` (a whole list), `Disconnecting` and `Rewriting` treat the three things a
step does to the tables. `TypeCorrect` adds what bounds the timers that are started:
`TimersCounted`, the discovery timers that run and those a `start()` is still to set
are at most one for each `stop()` and one more.

**HTTP framing** (`HttpAssumption`):

* `ChunkingInvisible`: `Spec => []ChunkingIsInvisible`. Two halves: that the header loop comes to
  what `Deserved` counts in the whole head (`StatusAgrees`), and that the first terminator within
  what was read is the first one of all the bytes (`EndStays`, `NoEndYet`).
  The first is an induction over the lines, with `Remembers` as its hypothesis: the loop
  has refused exactly if a line was bad or a header came twice, and otherwise remembers each
  header as it occurred. The inductive invariant is small: in the head no terminator was
  read yet, in the body one was, and its head passed the checks.
* `TypeCorrect`: the bounds on what is buffered are the limits and one read.
* `LessIsLeft`: every step leaves less to do, a natural number. That is the
  safety half of `ReadingEnds`: no bytes keep the loops going round.

**Probe and mesh** (`RegistryAssumption`: ids are unique, ports too unless an entry is a
rejected proposal; `ProbeAssumption`: ports are numbers, a body is one manifest or none):

* `SteadyListed`, `ListedThere`, `MeshAgrees` and `TypeCorrect`. The invariant says of every port
  that was probed that each host of it had no manifest at some time, or the first one that always had
  one was listed (`Settled`); of the port in progress the same for the hosts tried so
  far (`Progress`); and that each port gives one service (`OnePerPort`). The ports of a command are
  distinct numbers, which takes lemmas about `Ascending` (`AscendingIs`) and `ItemsAt` (`ItemsAre`).
* `ScanMovesOn`: while a command runs each step goes on to the next address or leaves it where
  it is and changes the network; the safety half of `ScanEnds`.

Two of the models' definitions came out of these proofs better than they went in: `Start` left hosts to
try when a command had no port at all, and `HeadStatus` was a `CASE` whose guards overlapped, so
that its value was not determined; it is now the chain of tests the code is.

What a recursive function computes can be proved for every argument as long as the induction
is on one property: `AllNumbers` (in `HttpProofs`) is induction on a set of
numbers, from the well-foundedness of the order. It carries `LoopRuns`, that the recursion of the
header loop defines a function at all.

Every invariant and every action property the runs check is now a theorem, the four
violations apart. Checked by TLC only are the properties under fairness, which TLAPS does not
reach: `ExchangesEnd`, `LeasesEnd`, `ReadingEnds`, `OrphansEnd`, `PartnerIsFound` and `ScanEnds`.

## What is not modelled

* `bind_dual_stack`: binding the sockets, before anything is served; a stdout that is
  open and not read, where `println!` would block under the mutex.
* `prefers_a2ml`, `render_a2ml`, the bytes of canonical JSON, JSON and HTTP syntax within a line,
  civil dates: pure functions of text.
* The page bridge (request ids, its 5 s timeout) and the popup; of the extension more than one service.
* Of the harness: the provisioning of modules, callbacks that throw or call back, and the steps of the walk
  by fetch, which connects nobody.
* The JavaScript client library (stateless), GRV6 frames (a separate reference
  program), the Idris models, scripts, CI and examples.

## Plan

What would come next, in the order of importance:

1. `GrooveBridge`: ids, timeouts and late answers between a page and `ExtensionClient`.
2. `FrameStream`: the GRV6 writer and reader over a byte stream cut anywhere; the
   theorem that the frames written chain.
3. A critical section of two steps in `GrooveSessions`, for a stdout that stalls.
4. The safety half of the other liveness properties, as `LessIsLeft` and `ScanMovesOn` are: an
   exchange only moves forward; a lease nobody renews only gets closer to its end.
5. Operators checked against references: negotiation, civil dates.
