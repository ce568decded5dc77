----------------------------- MODULE ProbeMesh -----------------------------
(***************************************************************************)
(* groove probe and groove mesh (src/cli/src/probe.rs): one request to one *)
(* address after the other, while services start, stop and are replaced.   *)
(* A port has two addresses, and two services may listen on them. What was *)
(* found is listed; mesh draws from the list which capability flows where, *)
(* which check-compat decides from the registry's entries                  *)
(* (src/cli/src/registry.rs) without asking anyone.                        *)
(***************************************************************************)
EXTENDS Integers, FiniteSets, SequencesExt

CONSTANTS
  Registry,     \* the registry: a sequence of entries
  ExtraPorts,   \* values of --extra-ports: sequences of ports
  HostArgs,     \* values of --host, "localhost" among them
  Answers,      \* what may answer at an address
  MaxUp,        \* bound: addresses with an answer when the command starts
  MaxChanges    \* bound: changes while it runs

\* cli/tests/registry_consistency.rs: ids and probeable ports are unique.
ASSUME RegistryAssumption ==
  /\ Registry \in Seq(Range(Registry))
  /\ \A i \in DOMAIN Registry : Registry[i].port \in Nat
  /\ \A i, j \in DOMAIN Registry : i # j =>
       /\ Registry[i].id # Registry[j].id
       /\ Registry[i].port = Registry[j].port
            => "rejected-proposal" \in {Registry[i].status, Registry[j].status}

\* A body is one manifest or none.
ASSUME ProbeAssumption ==
  /\ \A x \in ExtraPorts : x \in Seq(Nat)
  /\ \A answer \in Answers : \A m, n \in answer.manifest : m = n
  /\ MaxChanges \in Nat

VARIABLES
  net,       \* what answers at each address
  been,      \* history: what was there at some time since the command started
  changes,
  command,   \* the command that was given, or Idle
  ports,     \* the ports it has yet to probe, the first one being probed
  untried,   \* hosts it has yet to try on that port
  listed     \* the services discovered

scan == <<command, ports, untried, listed>>
vars == <<net, been, changes, command, ports, untried, listed>>

----------------------------------------------------------------------------
\* The registry.

Entries == Range(Registry)

is_probeable(entry) == entry.status # "rejected-proposal"

\* The numbers of a finite set in order, and the items of a sequence at its
\* places.
Ascending(S) ==
  CHOOSE s \in [1..Cardinality(S) -> S] : \A i, j \in DOMAIN s : i < j => s[i] < s[j]

ItemsAt(s, places) == [n \in 1..Cardinality(places) |-> s[Ascending(places)[n]]]

\* In the registry's order.
probe_ports ==
  LET probeable == ItemsAt(Registry, {i \in DOMAIN Registry : is_probeable(Registry[i])}) IN
  [n \in DOMAIN probeable |-> probeable[n].port]

find_service(id) == {e \in Entries : e.id = id}

\* What flows from one to the other, and what one lacks of the other.
Flows(provider, consumer) ==
  {[from |-> provider.id, to |-> consumer.id, capability |-> c] :
     c \in consumer.consumes \cap provider.offers}

Lacks(consumer, provider) == consumer.consumes \ provider.offers

check_compat_entries(a, b) ==
  [matched |-> Flows(b, a) \cup Flows(a, b),
   compatible |-> Lacks(a, b) = {} /\ Lacks(b, a) = {}]

----------------------------------------------------------------------------
\* The addresses of a command.

Ports == {e.port : e \in Entries} \cup UNION {Range(x) : x \in ExtraPorts}
Loopbacks == <<"::1", "127.0.0.1">>
Hosts == Range(Loopbacks) \cup (HostArgs \ {"localhost"})
Addresses == [port : Ports, host : Hosts]

\* Sorted, and the extra ports that are not among them as they were given.
PortsToProbe(extra) ==
  LET known == Range(probe_ports)
      new == {i \in DOMAIN extra : extra[i] \notin known \cup {extra[j] : j \in 1..(i - 1)}} IN
  Ascending(known) \o ItemsAt(extra, new)

HostsToTry(arg) == IF arg = "localhost" THEN Loopbacks ELSE <<arg>>

Idle == [name |-> "idle", ports |-> <<>>, hosts |-> <<>>]

Commands ==
  {[name |-> "probe", ports |-> PortsToProbe(extra), hosts |-> HostsToTry(arg)] :
     extra \in ExtraPorts, arg \in HostArgs}
    \cup {[name |-> "mesh", ports |-> probe_ports, hosts |-> Loopbacks]}

----------------------------------------------------------------------------
\* One probe. What is at an address refuses the connection, stays silent or
\* responds: whether "200" occurs in the response, whether its body is an object
\* and I-JSON, and which manifest it then is. A manifest that names no service
\* is that of "unknown".

Nobody == [reply |-> "refused", has200 |-> FALSE, text |-> "no object", manifest |-> {}]

\* A body that starts like an object, of a response in which "200" occurs
\* anywhere, in the status line or not.
probe_groove(answer) ==
  answer.reply = "response" /\ answer.has200 /\ answer.text # "no object"

\* What is not I-JSON is left out.
parse_probed_manifest(answer) == IF answer.text = "ijson" THEN answer.manifest ELSE {}

ManifestIn(answer) == IF probe_groove(answer) THEN parse_probed_manifest(answer) ELSE {}
ManifestsAt(address) == ManifestIn(net[address])

PortStatus(id, port) ==
  CASE find_service(id) = {} -> "unregistered"
    [] \E e \in find_service(id) : e.port = port -> "registered"
    [] OTHER -> "port mismatch"

Listing(address, m) ==
  [port |-> address.port, host |-> address.host, id |-> m.id, offers |-> m.offers,
   consumes |-> m.consumes, status |-> PortStatus(m.id, address.port)]

----------------------------------------------------------------------------
\* What mesh prints of a list.

\* Mutant of Edges: a service may be its own provider.
EdgesToSelf(services) == UNION {Flows(p, c) : p, c \in services}

Edges(services) ==
  UNION {IF p.id # c.id THEN Flows(p, c) ELSE {} : p, c \in services}

Dangling(services) ==
  UNION {{<<c, capability>> : capability \in
            {x \in c.consumes : \A p \in services : p.id # c.id => x \notin p.offers}} :
         c \in services}

----------------------------------------------------------------------------
Init ==
  /\ net = [a \in Addresses |-> Nobody]
  /\ been = [a \in Addresses |-> {}]
  /\ changes = 0
  /\ command = Idle /\ ports = <<>> /\ untried = <<>>
  /\ listed = <<>>

\* Services start before the command does.
ComeUp ==
  /\ command = Idle
  /\ Cardinality({a \in Addresses : net[a] # Nobody}) < MaxUp
  /\ \E a \in Addresses, answer \in Answers :
       /\ net[a] = Nobody /\ answer # Nobody
       /\ net' = [net EXCEPT ![a] = answer]
  /\ UNCHANGED <<been, changes, scan>>

Start ==
  /\ command = Idle
  /\ command' \in Commands
  /\ ports' = command'.ports
  /\ untried' = IF ports' = <<>> THEN <<>> ELSE command'.hosts
  /\ been' = [a \in Addresses |-> {net[a]}]
  /\ UNCHANGED <<net, changes, listed>>

\* While the command runs, services stop, start and are replaced.
ChangeAnswer ==
  /\ ports # <<>>
  /\ changes < MaxChanges
  /\ changes' = changes + 1
  /\ \E a \in Addresses, answer \in Answers :
       /\ net[a] # answer
       /\ net' = [net EXCEPT ![a] = answer]
       /\ been' = [been EXCEPT ![a] = @ \cup {answer}]
  /\ UNCHANGED scan

\* Mutant of NextPort: the hosts to try are not set up anew.
NextPortKeepHosts ==
  /\ ports' = Tail(ports)
  /\ untried' = Tail(untried)

NextPort ==
  /\ ports' = Tail(ports)
  /\ untried' = IF Tail(ports) = <<>> THEN <<>> ELSE command.hosts

\* Mutant of Discover: the other host of the port is tried all the same.
DiscoverAll(address) ==
  \E m \in ManifestsAt(address) :
    /\ listed' = Append(listed, Listing(address, m))
    /\ IF Len(untried) > 1 THEN untried' = Tail(untried) /\ UNCHANGED ports ELSE NextPort

\* The first host that answers with a manifest is the last one tried.
Discover(address) ==
  \E m \in ManifestsAt(address) :
    /\ listed' = Append(listed, Listing(address, m))
    /\ NextPort

\* Mutant of PassOver: a host that answers at all is the last one tried.
PassOverPort(address) ==
  /\ ManifestsAt(address) = {}
  /\ IF Len(untried) > 1 /\ net[address].reply # "response"
     THEN untried' = Tail(untried) /\ UNCHANGED ports ELSE NextPort
  /\ UNCHANGED listed

\* Mutant of PassOver: an address that gives no answer is asked again.
PassOverRetry(address) ==
  /\ ManifestsAt(address) = {}
  /\ IF net[address].reply = "silent" THEN UNCHANGED <<untried, ports>>
     ELSE IF Len(untried) > 1 THEN untried' = Tail(untried) /\ UNCHANGED ports ELSE NextPort
  /\ UNCHANGED listed

\* Nobody there, no answer in time, no manifest, not I-JSON.
PassOver(address) ==
  /\ ManifestsAt(address) = {}
  /\ IF Len(untried) > 1 THEN untried' = Tail(untried) /\ UNCHANGED ports ELSE NextPort
  /\ UNCHANGED listed

ProbeOne ==
  /\ ports # <<>>
  /\ LET address == [port |-> Head(ports), host |-> Head(untried)] IN
       Discover(address) \/ PassOver(address)
  /\ UNCHANGED <<net, been, changes, command>>

Next == ComeUp \/ Start \/ ChangeAnswer \/ ProbeOne

Spec == Init /\ [][Next]_vars

\* Connecting and reading are each given up after the probe timeout.
FairSpec == Spec /\ WF_vars(ProbeOne)

----------------------------------------------------------------------------
\* Properties.

TypeOK ==
  /\ net \in [Addresses -> Answers \cup {Nobody}]
  /\ been \in [Addresses -> SUBSET (Answers \cup {Nobody})]
  /\ changes \in 0..MaxChanges
  /\ command \in Commands \cup {Idle}
  /\ IsSuffix(ports, command.ports) /\ IsSuffix(untried, command.hosts)
  /\ ports = <<>> <=> untried = <<>>
  /\ \A l \in Range(listed) : [port |-> l.port, host |-> l.host] \in Addresses

Ended == command # Idle /\ ports = <<>>

\* The manifest that answered at an address all the while.
Steady(address) == {m \in ManifestsAt(address) : been[address] = {net[address]}}

\* The hosts before an address's on its port never had a manifest to give.
Unshadowed(address) ==
  \A i \in DOMAIN command.hosts, j \in DOMAIN command.hosts :
    i < j /\ command.hosts[j] = address.host =>
      \A answer \in been[[address EXCEPT !.host = command.hosts[i]]] :
        ManifestIn(answer) = {}

Probed == [port : Range(command.ports), host : Range(command.hosts)]

\* A service that ran all the while on a port the command probes is listed,
\* whatever else starts, stops, hangs or answers with something else meanwhile,
\* on the other host of its port too, unless that has a manifest as well.
SteadyIsListed ==
  Ended => \A a \in Probed : Unshadowed(a) =>
             \A m \in Steady(a) : Listing(a, m) \in Range(listed)

\* What is listed was there while the command ran, each port gives one service,
\* and a service is shown as registered at most once, under its own port.
ListedWasThere ==
  /\ \A l \in Range(listed) :
       \E answer \in been[[port |-> l.port, host |-> l.host]] :
         \E m \in ManifestIn(answer) :
           l = Listing([port |-> l.port, host |-> l.host], m)
  /\ \A i, j \in DOMAIN listed : i # j =>
       /\ listed[i].port # listed[j].port
       /\ {listed[i].status, listed[j].status} = {"registered"} => listed[i].id # listed[j].id

AsRegistered(m, entry) == m.id = entry.id /\ m.offers = entry.offers /\ m.consumes = entry.consumes

\* groove mesh and groove check-compat agree: of two registered services that
\* ran all the while, mesh draws the flows that check-compat matches and no
\* other between the two; and a capability is shown as dangling exactly when no
\* edge brings it, so never when such a service offers it.
MeshAgreesWithRegistry ==
  Ended /\ command.name = "mesh" =>
    /\ \A a, b \in Entries : a # b
         /\ (\A l \in Range(listed) : \A e \in {a, b} : l.id = e.id => AsRegistered(l, e))
         /\ (\A e \in {a, b} : \E x \in Probed : Unshadowed(x) /\ \E m \in Steady(x) : m.id = e.id)
           => {f \in Edges(Range(listed)) : {f.from, f.to} = {a.id, b.id}}
                = check_compat_entries(a, b).matched
    /\ \A c \in Range(listed) : \A capability \in c.consumes :
         <<c, capability>> \in Dangling(Range(listed))
           <=> ~\E f \in Edges(Range(listed)) :
                 f.to = c.id /\ f.capability = capability

\* A command that was given ends, whatever answers or does not.
ScanEnds == (command # Idle) ~> Ended

=============================================================================
