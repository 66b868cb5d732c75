----------------------------- MODULE Discovery ------------------------------
(***************************************************************************)
(* Which node a client talks to, and with which token.  Client() resolves  *)
(* both once, when it is built: the arguments, the environment, then the   *)
(* endpoint.json files that nodes on this machine leave in their data      *)
(* directories, one after the other, then a default.  The nodes start,     *)
(* stop and crash meanwhile, and their ports go to other programs.         *)
(*                                                                         *)
(* An address is a record of scheme, host and port.  Blank is an address   *)
(* that is not there: an empty string, a variable that is not set, a file  *)
(* that is absent, unreadable or not such a record.                        *)
(***************************************************************************)
EXTENDS Integers

CONSTANTS
    Schemes,      \* the schemes an address may have, "" for none
    Hosts,        \* the hosts, "" for none
    Loopback,     \* those of this machine's loopback interface
    Ports,        \* the ports, 0 for none or for one out of range
    DefaultUrl,   \* DEFAULT_LOCAL_URL
    LastPlace,    \* the number of data directories that are tried
    Settings,     \* what a client may be built with: arguments, environment
    Oddities,     \* what somebody else than its node may leave in a file
    MaxEvents     \* bound: starts, exits, and changes by other programs

Addresses == [scheme : Schemes, host : Hosts, port : Ports]
Blank == [scheme |-> "", host |-> "", port |-> 0]

\* The data directories, in the order they are tried.
Places == 1..LastPlace

ASSUME DiscoveryAssumption ==
    /\ {"", "http", "https"} \subseteq Schemes
    /\ "" \in Hosts /\ Loopback \subseteq Hosts
    /\ Ports \subseteq Nat /\ 0 \in Ports
    /\ DefaultUrl \in Addresses
    /\ DefaultUrl.scheme = "http" /\ DefaultUrl.host \in Loopback
    /\ DefaultUrl.host # "" /\ DefaultUrl.port # 0
    /\ LastPlace \in Nat
    /\ Settings \subseteq
         [addr : SUBSET Addresses,       \* the argument, {} when not given
          url : Addresses,               \* $GNARL_URL
          searched : SUBSET Places,      \* is $LUCENIA_DATA_DIR set, is there a home
          token : SUBSET {"", "given"},  \* the argument, {} when not given
          envToken : {"", "env"}]        \* $GNARL_TOKEN
    /\ \A s \in Settings : s.addr = {} \/ \E a \in Addresses : s.addr = {a}
    /\ \A s \in Settings : s.token \in {{}, {""}, {"given"}}
    /\ Oddities \subseteq Addresses
    /\ MaxEvents \in Nat

VARIABLES
    phase,     \* of the node of each place: "down", "starting", "up", "stopping"
    node,      \* the endpoint it serves, Blank when it is down
    file,      \* what its endpoint.json holds
    bound,     \* who listens on each port: 0 nobody, a place, -1 another program
    events,    \* history: what happened on the machine so far
    standing,  \* history: nodes up, with their record in place, since the client
               \* began to look
    setting,   \* what the client is built with
    pc,        \* "resolve", "read", "ready" or "refused"
    place,     \* the next place to read
    base,      \* _base
    from,      \* the place it was read from, 0 for none
    request    \* the last request, {} before the first

machine == <<phase, node, file, bound, events>>
client == <<setting, pc, place, base, from>>
vars == <<machine, standing, client, request>>

-----------------------------------------------------------------------------
(* The nodes, and other programs.                                          *)

Served == { e \in Addresses : e.scheme \in {"http", "https"} /\ e.host # "" /\ e.port # 0 }

Event == events < MaxEvents /\ events' = events + 1

\* A node binds its port; what was in its file is still there, or emptied.
Start(k) ==
    /\ Event
    /\ phase[k] = "down"
    /\ \E e \in Served, f \in {Blank, file[k]} :
          /\ bound[e.port] = 0
          /\ phase' = [phase EXCEPT ![k] = "starting"]
          /\ node' = [node EXCEPT ![k] = e]
          /\ bound' = [bound EXCEPT ![e.port] = k]
          /\ file' = [file EXCEPT ![k] = f]
    /\ UNCHANGED <<standing, client, request>>

\* It records where it listens.
Record(k) ==
    /\ phase[k] = "starting"
    /\ phase' = [phase EXCEPT ![k] = "up"]
    /\ file' = [file EXCEPT ![k] = node[k]]
    /\ UNCHANGED <<node, bound, events, standing, client, request>>

\* It removes its record before it stops.
Withdraw(k) ==
    /\ phase[k] = "up"
    /\ phase' = [phase EXCEPT ![k] = "stopping"]
    /\ file' = [file EXCEPT ![k] = Blank]
    /\ standing' = standing \ {k}
    /\ UNCHANGED <<node, bound, events, client, request>>

\* It is gone: stopped, or, when its record was in place, crashed.
Exit(k) ==
    /\ Event
    /\ phase[k] # "down"
    /\ phase' = [phase EXCEPT ![k] = "down"]
    /\ node' = [node EXCEPT ![k] = Blank]
    /\ bound' = [bound EXCEPT ![node[k].port] = 0]
    /\ standing' = standing \ {k}
    /\ UNCHANGED <<file, client, request>>

\* A file is damaged, edited, or copied from another machine.
Disturb(k) ==
    /\ Event
    /\ \E f \in Oddities : file' = [file EXCEPT ![k] = f]
    /\ standing' = standing \ {k}
    /\ UNCHANGED <<phase, node, bound, client, request>>

\* Another program takes a free port.
Take(p) ==
    /\ Event
    /\ bound[p] = 0
    /\ bound' = [bound EXCEPT ![p] = -1]
    /\ UNCHANGED <<phase, node, file, standing, client, request>>

-----------------------------------------------------------------------------
(* The client.                                                             *)

\* Slip: GNARL_URL comes before the argument.
Configured_EnvFirst(s) == IF s.url # Blank THEN {s.url} ELSE s.addr

\* The address somebody chose, {} when nobody did.
Configured(s) ==
    IF s.addr # {} THEN s.addr ELSE IF s.url # Blank THEN {s.url} ELSE {}

\* _normalize_base_url: an address without a scheme means https.
Normalize(a) == [a EXCEPT !.scheme = IF @ = "" THEN "https" ELSE @]

\* Slip: an empty argument counts as one that was not given.
Bearer_Falsy(s) == IF s.token \ {""} # {} THEN "given" ELSE s.envToken

\* _resolve_token: an empty argument is a decision to send none.
Bearer(s) ==
    IF s.token = {} THEN s.envToken
    ELSE IF s.token = {"given"} THEN "given" ELSE ""

\* Slip: the port is not looked at.
WellFormed_AnyPort(r) == r.scheme \in {"http", "https"} /\ r.host # ""

WellFormed(r) ==
    /\ r.scheme \in {"http", "https"}
    /\ r.host # ""
    /\ r.port # 0

\* Slip: any well formed record is used.
Usable_AnyHost(r) == WellFormed(r)

\* _read_endpoint: plain HTTP only on loopback.
Usable(r) == WellFormed(r) /\ (r.scheme = "http" => r.host \in Loopback)

\* Slip: the return of the default is inside the loop.
NoneLeft_AfterOne(k) == k > 1

\* Every place was passed over.
NoneLeft(k) == k > LastPlace

\* This one is.
Passes(k) == k \notin setting.searched \/ ~Usable(file[k])

Init ==
    /\ phase = [k \in Places |-> "down"]
    /\ node = [k \in Places |-> Blank]
    /\ file = [k \in Places |-> Blank]
    /\ bound = [p \in Ports |-> 0]
    /\ events = 0
    /\ standing = {}
    /\ setting \in Settings
    /\ pc = "resolve"
    /\ place = 1
    /\ base = Blank
    /\ from = 0
    /\ request = {}

\* An address that was chosen is the base as it is; it is refused without a host.
UseConfigured ==
    /\ pc = "resolve"
    /\ \E a \in Configured(setting) :
          IF a.host = ""
          THEN pc' = "refused" /\ UNCHANGED base
          ELSE pc' = "ready" /\ base' = Normalize(a)
    /\ UNCHANGED <<machine, standing, setting, place, from, request>>

\* Nobody chose one: the client looks for a node on this machine.
LookAround ==
    /\ pc = "resolve"
    /\ Configured(setting) = {}
    /\ pc' = "read"
    /\ standing' = { k \in Places : phase[k] = "up" /\ file[k] = node[k] }
    /\ UNCHANGED <<machine, setting, place, base, from, request>>

\* _discover_local: the next file is read, or none is left.
ReadEndpoint ==
    /\ pc = "read"
    /\ \/ /\ ~NoneLeft(place) /\ Passes(place)
          /\ place' = place + 1
          /\ UNCHANGED <<pc, base, from>>
       \/ /\ ~NoneLeft(place) /\ ~Passes(place)
          /\ base' = file[place]
          /\ from' = place
          /\ pc' = "ready"
          /\ UNCHANGED place
       \/ /\ NoneLeft(place)
          /\ base' = DefaultUrl
          /\ pc' = "ready"
          /\ UNCHANGED <<place, from>>
    /\ UNCHANGED <<machine, standing, setting, request>>

\* A request goes where the client was built to send it, whoever listens there.
Send ==
    /\ pc = "ready"
    /\ request' = {[to |-> base, bearer |-> Bearer(setting),
                    by |-> bound[base.port]]}
    /\ UNCHANGED <<machine, standing, client>>

-----------------------------------------------------------------------------
Machine ==
    \/ \E k \in Places : Start(k) \/ Record(k) \/ Withdraw(k) \/ Exit(k) \/ Disturb(k)
    \/ \E p \in Ports : Take(p)

Next == Machine \/ UseConfigured \/ LookAround \/ ReadEndpoint \/ Send

Spec == Init /\ [][Next]_vars

-----------------------------------------------------------------------------
(* Properties.                                                             *)

\* The ranges of the variables; a client is built with a base that has a host
\* and, when it was found and not given, a scheme and a port.
TypeOK ==
    /\ phase \in [Places -> {"down", "starting", "up", "stopping"}]
    /\ node \in [Places -> Addresses] /\ file \in [Places -> Addresses]
    /\ bound \in [Ports -> Places \cup {0, -1}]
    /\ events \in 0..MaxEvents
    /\ standing \in SUBSET Places
    /\ setting \in Settings
    /\ pc \in {"resolve", "read", "ready", "refused"}
    /\ place \in Nat \ {0} /\ from \in Places \cup {0}
    /\ base \in Addresses
    /\ pc = "ready" => base.host # "" /\ (Configured(setting) = {} => base \in Served)

\* What the caller decides stands: a request goes to the address that was
\* passed, https unless it said otherwise, and with the token that was passed,
\* none when that was empty, whatever the environment and the files say ("an
\* explicit empty string is a decision, not an absence", _resolve_token).
CallerDecides ==
    \A q \in request :
       /\ \A a \in setting.addr :
             /\ q.to.host = a.host /\ q.to.port = a.port
             /\ q.to.scheme = "http" => a.scheme = "http"
       /\ \A t \in setting.token : q.bearer = t

\* No file ever makes a client talk in the clear across a network: a request
\* goes over plain HTTP to another host than this one only when an address
\* that somebody chose says http (README, "Connecting").
ClearStaysLocal ==
    \A q \in request :
       q.to.scheme = "http" /\ q.to.host \notin Loopback
         => \E a \in setting.addr \cup {setting.url} : a.scheme = "http" /\ a.host = q.to.host

\* A node that was up and recorded before the client began to look, and still
\* is, is found, whatever starts, stops and crashes meanwhile: the client
\* talks to it, or found a record in an earlier place.
StandingNodeAnswers ==
    \A q \in request, k \in standing \cap setting.searched :
       Usable(node[k]) => from \in 1..k /\ (from = k => q.by = k)
=============================================================================
