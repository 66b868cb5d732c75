--------------------------- MODULE DiscoveryProofs --------------------------
(***************************************************************************)
(* What holds of every client on every machine: any number of data         *)
(* directories, any ports, any settings, any history of starts and crashes.*)
(***************************************************************************)
EXTENDS Discovery, TLAPS

-----------------------------------------------------------------------------
(* The inductive invariant, in parts.                                      *)

\* A node that is not down has a port, and listens on it.
PortInv ==
    \A k \in Places : phase[k] # "down" => node[k] \in Served /\ bound[node[k].port] = k

\* The base is the address that was chosen; or it was found in a file, as a
\* record that is usable, or is the default.
BaseInv ==
    /\ pc = "ready" /\ Configured(setting) # {} =>
         \E a \in Configured(setting) : base = Normalize(a)
    /\ pc = "ready" /\ Configured(setting) = {} => Usable(base)
    /\ pc = "read" => Configured(setting) = {}

\* Every request went to the base, with the token that was resolved.
RequestInv ==
    \A q \in request : pc = "ready" /\ q.to = base /\ q.bearer = Bearer(setting)

\* A node that stands has its record in place, and its file is not behind the
\* place to read unless it could not be used.  One whose record was taken is
\* the one that answered, and still is.
StandingInv ==
    /\ pc = "resolve" => standing = {} /\ place = 1
    /\ \A k \in standing : phase[k] = "up" /\ file[k] = node[k]
    /\ \A k \in standing \cap setting.searched :
          Usable(node[k]) =>
            /\ pc = "read" => place <= k
            /\ pc = "ready" => from \in 1..k /\ (from = k => base = node[k])
            /\ \A q \in request : from = k => q.by = k

IInv == TypeOK /\ PortInv /\ BaseInv /\ RequestInv /\ StandingInv

-----------------------------------------------------------------------------
(* What the settings are, and what becomes of an address.                  *)

\* An argument is given at most once, and has its range.
LEMMA SettingShape ==
    ASSUME NEW s \in Settings
    PROVE  /\ s.addr \subseteq Addresses /\ s.url \in Addresses
           /\ s.searched \subseteq Places
           /\ s.addr = {} \/ \E a \in Addresses : s.addr = {a}
           /\ s.token \in {{}, {""}, {"given"}}
  BY DiscoveryAssumption

\* What was chosen is one address at most.
LEMMA ConfiguredShape ==
    ASSUME NEW s \in Settings
    PROVE  Configured(s) = {} \/ \E a \in Addresses : Configured(s) = {a}
  BY SettingShape DEF Configured

\* An address stays one, and keeps its host and port; plain HTTP was asked for.
LEMMA NormalizeKeeps ==
    ASSUME NEW a \in Addresses
    PROVE  /\ Normalize(a) \in Addresses
           /\ Normalize(a).host = a.host /\ Normalize(a).port = a.port
           /\ Normalize(a).scheme = "http" => a.scheme = "http"
  BY DiscoveryAssumption DEF Normalize, Addresses

\* A usable record can be served from; the default is one.
LEMMA UsableIsServed ==
    /\ \A r \in Addresses : Usable(r) => r \in Served
    /\ DefaultUrl \in Addresses /\ Usable(DefaultUrl)
  BY DiscoveryAssumption DEF Usable, WellFormed, Served

LEMMA BlankShape == Blank \in Addresses /\ ~Usable(Blank)
  BY DiscoveryAssumption DEF Blank, Addresses, Usable, WellFormed

\* No place is the mark of a free port, nor that of another program.
LEMMA PlaceNumbers == \A k \in Places : k \in Nat /\ k # 0 /\ k # -1
<1>1. LastPlace \in Nat
  BY DiscoveryAssumption
<1> QED
  BY <1>1 DEF Places

\* An event keeps within the bound.
LEMMA EventInRange ==
    ASSUME TypeOK, Event
    PROVE  events' \in 0..MaxEvents
<1>1. MaxEvents \in Nat
  BY DiscoveryAssumption
<1>2. events \in 0..MaxEvents
  BY DEF TypeOK
<1> QED
  BY <1>1, <1>2 DEF Event

-----------------------------------------------------------------------------
(* The invariant holds at first, and every step keeps it.                  *)

LEMMA InitIInv == Init => IInv
<1> SUFFICES ASSUME Init PROVE IInv
  OBVIOUS
<1>1. TypeOK
  <2>1. Ports \subseteq Nat /\ LastPlace \in Nat /\ MaxEvents \in Nat
    BY DiscoveryAssumption
  <2> QED
    BY <2>1, BlankShape DEF Init, TypeOK, Places
<1>2. PortInv /\ BaseInv /\ RequestInv /\ StandingInv
  BY DEF Init, PortInv, BaseInv, RequestInv, StandingInv
<1> QED
  BY <1>1, <1>2 DEF IInv

\* A node's file and node change only together with its standing.
LEMMA MachineKeeps ==
    ASSUME IInv, Machine
    PROVE  IInv'
<1> USE DEF IInv
<1>1. ASSUME NEW k \in Places, Start(k)
      PROVE  IInv'
  <2>1. PICK e \in Served, f \in {Blank, file[k]} :
           /\ bound[e.port] = 0
           /\ phase' = [phase EXCEPT ![k] = "starting"]
           /\ node' = [node EXCEPT ![k] = e]
           /\ bound' = [bound EXCEPT ![e.port] = k]
           /\ file' = [file EXCEPT ![k] = f]
    BY <1>1 DEF Start
  <2>2. UNCHANGED <<standing, client, request>> /\ phase[k] = "down"
    BY <1>1 DEF Start
  <2>3. e \in Addresses /\ f \in Addresses /\ e.port \in Ports
    <3>1. file[k] \in Addresses
      BY DEF TypeOK
    <3>2. e \in Addresses /\ f \in Addresses
      BY <2>1, <3>1, BlankShape DEF Served
    <3> QED
      BY <3>2 DEF Addresses
  <2>4. events' \in 0..MaxEvents
    BY <1>1, EventInRange DEF Start
  <2>5. TypeOK'
    BY <2>1, <2>2, <2>3, <2>4 DEF TypeOK, client
  <2>6. PortInv'
    <3> SUFFICES ASSUME NEW j \in Places, phase'[j] # "down"
                 PROVE  node'[j] \in Served /\ bound'[node'[j].port] = j
      BY DEF PortInv
    <3>1. CASE j = k
      BY <2>1, <2>3, <3>1 DEF TypeOK
    <3>2. CASE j # k
      <4>1. node'[j] = node[j] /\ phase[j] # "down"
        BY <2>1, <3>2 DEF TypeOK
      <4>2. node[j] \in Served /\ bound[node[j].port] = j /\ j # 0
        BY <4>1, PlaceNumbers DEF PortInv
      <4>3. node[j].port # e.port
        BY <2>1, <4>2
      <4>4. node[j].port \in Ports
        BY <4>2 DEF Served, Addresses
      <4>5. bound'[node[j].port] = bound[node[j].port]
        BY <2>1, <4>3, <4>4 DEF TypeOK
      <4> QED
        BY <4>1, <4>2, <4>5
    <3> QED
      BY <3>1, <3>2
  <2>7. k \notin standing
    BY <2>2 DEF StandingInv
  <2>8. \A j \in standing : phase'[j] = phase[j] /\ file'[j] = file[j] /\ node'[j] = node[j]
    BY <2>1, <2>7 DEF TypeOK
  <2>9. BaseInv' /\ RequestInv' /\ StandingInv'
    BY <2>2, <2>8 DEF client, BaseInv, RequestInv, StandingInv
  <2> QED
    BY <2>5, <2>6, <2>9
<1>2. ASSUME NEW k \in Places, Record(k)
      PROVE  IInv'
  <2>1. TypeOK'
    BY <1>2 DEF Record, TypeOK, client
  <2>2. PortInv'
    BY <1>2 DEF Record, PortInv, TypeOK
  <2>3. k \notin standing
    BY <1>2 DEF Record, StandingInv
  <2>4. \A j \in standing : phase'[j] = phase[j] /\ file'[j] = file[j] /\ node'[j] = node[j]
    BY <1>2, <2>3 DEF Record, TypeOK
  <2>5. BaseInv' /\ RequestInv' /\ StandingInv'
    BY <1>2, <2>4 DEF Record, client, BaseInv, RequestInv, StandingInv
  <2> QED
    BY <2>1, <2>2, <2>5
<1>3. ASSUME NEW k \in Places, Withdraw(k)
      PROVE  IInv'
  <2>1. TypeOK'
    BY <1>3, BlankShape DEF Withdraw, TypeOK, client
  <2>2. PortInv'
    BY <1>3 DEF Withdraw, PortInv, TypeOK
  <2>3. \A j \in standing' :
           j \in standing /\ phase'[j] = phase[j] /\ file'[j] = file[j] /\ node'[j] = node[j]
    BY <1>3 DEF Withdraw, TypeOK
  <2>4. BaseInv' /\ RequestInv' /\ StandingInv'
    BY <1>3, <2>3 DEF Withdraw, client, BaseInv, RequestInv, StandingInv
  <2> QED
    BY <2>1, <2>2, <2>4
<1>4. ASSUME NEW k \in Places, Exit(k)
      PROVE  IInv'
  <2>1. events' \in 0..MaxEvents
    BY <1>4, EventInRange DEF Exit
  <2>2. TypeOK'
    BY <1>4, <2>1, BlankShape DEF Exit, TypeOK, client
  <2>3. PortInv'
    <3> SUFFICES ASSUME NEW j \in Places, phase'[j] # "down"
                 PROVE  node'[j] \in Served /\ bound'[node'[j].port] = j
      BY DEF PortInv
    <3>1. j # k /\ node'[j] = node[j] /\ phase[j] # "down"
      BY <1>4 DEF Exit, TypeOK
    <3>2. node[j] \in Served /\ bound[node[j].port] = j /\ bound[node[k].port] = k
      BY <1>4, <3>1 DEF Exit, PortInv
    <3>3. node[j].port \in Ports /\ node[j].port # node[k].port
      BY <3>1, <3>2 DEF Served, Addresses
    <3>4. bound'[node[j].port] = bound[node[j].port]
      BY <1>4, <3>3 DEF Exit, TypeOK
    <3> QED
      BY <3>1, <3>2, <3>4
  <2>4. \A j \in standing' :
           j \in standing /\ phase'[j] = phase[j] /\ file'[j] = file[j] /\ node'[j] = node[j]
    BY <1>4 DEF Exit, TypeOK
  <2>5. BaseInv' /\ RequestInv' /\ StandingInv'
    BY <1>4, <2>4 DEF Exit, client, BaseInv, RequestInv, StandingInv
  <2> QED
    BY <2>2, <2>3, <2>5
<1>5. ASSUME NEW k \in Places, Disturb(k)
      PROVE  IInv'
  <2>1. events' \in 0..MaxEvents
    BY <1>5, EventInRange DEF Disturb
  <2>2. TypeOK'
    BY <1>5, <2>1, DiscoveryAssumption DEF Disturb, TypeOK, client
  <2>3. PortInv'
    BY <1>5 DEF Disturb, PortInv
  <2>4. \A j \in standing' :
           j \in standing /\ phase'[j] = phase[j] /\ file'[j] = file[j] /\ node'[j] = node[j]
    BY <1>5 DEF Disturb, TypeOK
  <2>5. BaseInv' /\ RequestInv' /\ StandingInv'
    BY <1>5, <2>4 DEF Disturb, client, BaseInv, RequestInv, StandingInv
  <2> QED
    BY <2>2, <2>3, <2>5
<1>6. ASSUME NEW p \in Ports, Take(p)
      PROVE  IInv'
  <2>1. events' \in 0..MaxEvents
    BY <1>6, EventInRange DEF Take
  <2>2. TypeOK'
    BY <1>6, <2>1 DEF Take, TypeOK, client
  <2>3. PortInv'
    <3> SUFFICES ASSUME NEW j \in Places, phase[j] # "down"
                 PROVE  node[j] \in Served /\ bound'[node[j].port] = j
      BY <1>6 DEF Take, PortInv
    <3>1. node[j] \in Served /\ bound[node[j].port] = j /\ j # 0
      BY PlaceNumbers DEF PortInv
    <3>2. node[j].port \in Ports /\ node[j].port # p
      BY <1>6, <3>1 DEF Take, Served, Addresses
    <3> QED
      BY <1>6, <3>1, <3>2 DEF Take, TypeOK
  <2>4. BaseInv' /\ RequestInv' /\ StandingInv'
    BY <1>6 DEF Take, client, BaseInv, RequestInv, StandingInv
  <2> QED
    BY <2>2, <2>3, <2>4
<1> QED
  BY <1>1, <1>2, <1>3, <1>4, <1>5, <1>6 DEF Machine

LEMMA ClientKeeps ==
    ASSUME IInv, UseConfigured \/ LookAround \/ ReadEndpoint \/ Send
    PROVE  IInv'
<1> USE DEF IInv
<1>1. CASE UseConfigured
  <2>1. PICK a \in Configured(setting) :
           IF a.host = ""
           THEN pc' = "refused" /\ UNCHANGED base
           ELSE pc' = "ready" /\ base' = Normalize(a)
    BY <1>1 DEF UseConfigured
  <2>2. pc = "resolve" /\ UNCHANGED <<machine, standing, setting, place, from, request>>
    BY <1>1 DEF UseConfigured
  <2>3. setting \in Settings
    BY DEF TypeOK
  <2>4. a \in Addresses
    BY <2>1, <2>3, ConfiguredShape
  <2>5. Configured(setting)' = Configured(setting)
    BY <2>2 DEF Configured
  <2>6. TypeOK'
    BY <2>1, <2>2, <2>4, <2>5, NormalizeKeeps DEF TypeOK, machine
  <2>7. PortInv'
    BY <2>2 DEF PortInv, machine
  <2>8. BaseInv'
    BY <2>1, <2>2, <2>5 DEF BaseInv
  <2>9. request = {} /\ standing = {}
    BY <2>2 DEF RequestInv, StandingInv
  <2> QED
    BY <2>2, <2>6, <2>7, <2>8, <2>9 DEF RequestInv, StandingInv
<1>2. CASE LookAround
  <2>1. TypeOK' /\ PortInv'
    BY <1>2 DEF LookAround, TypeOK, PortInv, machine
  <2>2. BaseInv'
    BY <1>2 DEF LookAround, BaseInv, Configured
  <2>3. request = {}
    BY <1>2 DEF LookAround, RequestInv
  <2>4. place = 1
    BY <1>2 DEF LookAround, StandingInv
  <2>5. StandingInv'
    BY <1>2, <2>3, <2>4, PlaceNumbers DEF LookAround, StandingInv, machine
  <2> QED
    BY <1>2, <2>1, <2>2, <2>3, <2>5 DEF LookAround, RequestInv
<1>3. CASE ReadEndpoint
  <2>1. pc = "read" /\ UNCHANGED <<machine, standing, setting, request>>
    BY <1>3 DEF ReadEndpoint
  <2>2. Configured(setting) = {} /\ Configured(setting)' = {} /\ request = {}
    BY <2>1 DEF BaseInv, RequestInv, Configured
  <2>3. PortInv' /\ RequestInv'
    BY <2>1, <2>2 DEF PortInv, RequestInv, machine
  <2>4. LastPlace \in Nat /\ place \in Nat \ {0}
    BY DiscoveryAssumption DEF TypeOK
  <2>5. CASE ~NoneLeft(place) /\ Passes(place) /\ place' = place + 1 /\ UNCHANGED <<pc, base, from>>
    <3>1. TypeOK'
      BY <2>1, <2>4, <2>5 DEF TypeOK, machine
    <3>2. BaseInv'
      BY <2>1, <2>2, <2>5 DEF BaseInv
    <3>3. ASSUME NEW k \in standing \cap setting.searched, Usable(node[k])
          PROVE  place' <= k
      <4>1. place <= k /\ file[k] = node[k] /\ k \in Nat
        BY <2>1, <3>3, PlaceNumbers DEF StandingInv, TypeOK
      <4>2. place # k
        BY <2>5, <3>3, <4>1 DEF Passes
      <4> QED
        BY <2>4, <2>5, <4>1, <4>2
    <3>4. StandingInv'
      BY <2>1, <2>2, <2>5, <3>3 DEF StandingInv, machine
    <3> QED
      BY <2>3, <3>1, <3>2, <3>4
  <2>6. CASE ~NoneLeft(place) /\ ~Passes(place) /\ base' = file[place] /\ from' = place
             /\ pc' = "ready" /\ UNCHANGED place
    <3>1. place \in Places
      BY <2>4, <2>6 DEF NoneLeft, Places
    <3>2. Usable(file[place]) /\ file[place] \in Addresses
      BY <2>6, <3>1 DEF Passes, TypeOK
    <3>3. file[place] \in Served /\ file[place].host # ""
      BY <3>2, UsableIsServed DEF Served
    <3>4. TypeOK'
      BY <2>1, <2>2, <2>6, <3>1, <3>2, <3>3 DEF TypeOK, machine
    <3>5. BaseInv'
      BY <2>2, <2>6, <3>2 DEF BaseInv, Usable, WellFormed
    <3>6. ASSUME NEW k \in standing \cap setting.searched, Usable(node[k])
          PROVE  from' \in 1..k /\ (from' = k => base' = node[k])
      BY <2>1, <2>4, <2>6, <3>6, PlaceNumbers DEF StandingInv, TypeOK
    <3>7. StandingInv'
      BY <2>1, <2>2, <2>6, <3>6 DEF StandingInv, machine
    <3> QED
      BY <2>3, <3>4, <3>5, <3>7
  <2>7. CASE NoneLeft(place) /\ base' = DefaultUrl /\ pc' = "ready" /\ UNCHANGED <<place, from>>
    <3>1. DefaultUrl \in Served /\ DefaultUrl.host # ""
      BY UsableIsServed DEF Served
    <3>2. TypeOK'
      BY <2>1, <2>7, <3>1, UsableIsServed DEF TypeOK, machine
    <3>3. BaseInv'
      BY <2>2, <2>7, UsableIsServed DEF BaseInv, Usable, WellFormed
    <3>4. \A k \in standing \cap setting.searched : ~Usable(node[k])
      BY <2>1, <2>4, <2>7 DEF NoneLeft, Places, StandingInv, TypeOK
    <3>5. StandingInv'
      BY <2>1, <2>2, <2>7, <3>4 DEF StandingInv, machine
    <3> QED
      BY <2>3, <3>2, <3>3, <3>5
  <2> QED
    BY <1>3, <2>5, <2>6, <2>7 DEF ReadEndpoint
<1>4. CASE Send
  <2>1. TypeOK' /\ PortInv' /\ BaseInv'
    BY <1>4 DEF Send, TypeOK, PortInv, BaseInv, machine, client, Configured
  <2>2. RequestInv'
    <3>1. Bearer(setting)' = Bearer(setting)
      BY <1>4 DEF Send, client, Bearer
    <3> QED
      BY <1>4, <3>1 DEF Send, RequestInv, client
  <2>3. ASSUME NEW k \in standing \cap setting.searched, Usable(node[k]), from = k
        PROVE  bound[base.port] = k
    BY <1>4, <2>3 DEF Send, StandingInv, PortInv, TypeOK
  <2>4. StandingInv'
    BY <1>4, <2>3 DEF Send, StandingInv, machine, client
  <2> QED
    BY <2>1, <2>2, <2>4
<1> QED
  BY <1>1, <1>2, <1>3, <1>4

LEMMA NextIInv ==
    ASSUME IInv, [Next]_vars
    PROVE  IInv'
<1>1. CASE Next
  BY <1>1, MachineKeeps, ClientKeeps DEF Next
<1>2. CASE UNCHANGED vars
  BY <1>2 DEF vars, machine, client, IInv, TypeOK, PortInv, BaseInv, RequestInv,
              StandingInv, Configured, Bearer
<1> QED
  BY <1>1, <1>2

LEMMA Invariance == Spec => []IInv
  BY InitIInv, NextIInv, PTL DEF Spec

-----------------------------------------------------------------------------
(* The theorems.                                                           *)

\* The variables keep their ranges; a client that is built has a base with a
\* host, and one that it found has a scheme and a port too.
THEOREM Typing == Spec => []TypeOK
<1>1. IInv => TypeOK
  BY DEF IInv
<1> QED
  BY <1>1, Invariance, PTL

\* Requests go to the address, and carry the token, that the caller passed.
THEOREM Decided == Spec => []CallerDecides
<1>1. ASSUME IInv
      PROVE  CallerDecides
  <2> SUFFICES ASSUME NEW q \in request
               PROVE  /\ \A a \in setting.addr :
                            /\ q.to.host = a.host /\ q.to.port = a.port
                            /\ q.to.scheme = "http" => a.scheme = "http"
                      /\ \A t \in setting.token : q.bearer = t
    BY DEF CallerDecides
  <2>1. setting \in Settings /\ pc = "ready" /\ q.to = base /\ q.bearer = Bearer(setting)
    BY <1>1 DEF IInv, TypeOK, RequestInv
  <2>2. ASSUME NEW a \in setting.addr
        PROVE  /\ q.to.host = a.host /\ q.to.port = a.port
               /\ q.to.scheme = "http" => a.scheme = "http"
    <3>1. Configured(setting) = {a} /\ a \in Addresses
      BY <2>1, <2>2, SettingShape DEF Configured
    <3>2. q.to = Normalize(a)
      BY <1>1, <2>1, <3>1 DEF IInv, BaseInv
    <3> QED
      BY <3>1, <3>2, NormalizeKeeps
  <2>3. ASSUME NEW t \in setting.token
        PROVE  q.bearer = t
    <3>1. setting.token = {t} /\ (t = "" \/ t = "given")
      BY <2>1, <2>3, SettingShape
    <3>2. setting.token # {}
      BY <2>3
    <3>3. CASE t = "given"
      BY <2>1, <3>1, <3>2, <3>3 DEF Bearer
    <3>4. CASE t = ""
      <4>1. setting.token # {"given"}
        BY <3>1, <3>4
      <4> QED
        BY <2>1, <3>2, <3>4, <4>1 DEF Bearer
    <3> QED
      BY <3>1, <3>3, <3>4
  <2> QED
    BY <2>2, <2>3
<1> QED
  BY <1>1, Invariance, PTL

\* Only an address that somebody chose takes plain HTTP off this machine.
THEOREM Local == Spec => []ClearStaysLocal
<1>1. ASSUME IInv
      PROVE  ClearStaysLocal
  <2> SUFFICES ASSUME NEW q \in request, q.to.scheme = "http", q.to.host \notin Loopback
               PROVE  \E a \in setting.addr \cup {setting.url} :
                         a.scheme = "http" /\ a.host = q.to.host
    BY DEF ClearStaysLocal
  <2>1. setting \in Settings /\ pc = "ready" /\ q.to = base
    BY <1>1 DEF IInv, TypeOK, RequestInv
  <2>2. Configured(setting) # {}
    BY <1>1, <2>1 DEF IInv, BaseInv, Usable
  <2>3. PICK a \in Configured(setting) : base = Normalize(a)
    BY <1>1, <2>1, <2>2 DEF IInv, BaseInv
  <2>4. a \in Addresses /\ a \in setting.addr \cup {setting.url}
    BY <2>1, <2>3, SettingShape DEF Configured
  <2>5. q.to = Normalize(a)
    BY <2>1, <2>3
  <2>6. a.host = q.to.host /\ a.scheme = "http"
    BY <2>4, <2>5, NormalizeKeeps
  <2> QED
    BY <2>4, <2>6
<1> QED
  BY <1>1, Invariance, PTL

\* A node that stands from before the lookup is found, or an earlier place is.
THEOREM Answered == Spec => []StandingNodeAnswers
<1>1. ASSUME IInv
      PROVE  StandingNodeAnswers
  BY <1>1 DEF IInv, RequestInv, StandingInv, StandingNodeAnswers
<1> QED
  BY <1>1, Invariance, PTL
=============================================================================
