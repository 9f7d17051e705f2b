---------------------------- MODULE TcpNatProofs ----------------------------
(***************************************************************************)
(* Proofs about TcpNat for every set of flows and connections, every port  *)
(* range and word width, and every timeout.                                *)
(***************************************************************************)
EXTENDS TcpNat, TLAPS

\* Every entry, lookup in progress and task leads to its own flow.
Agree ==
    /\ \A f \in Flows : by_5tuple[f] # None => Leads(by_5tuple[f], f)
    /\ pump.pc = "check" => Leads(pump.port, pump.flow)
    /\ \A c \in Conns : conn[c].pc # "idle" => Leads(conn[c].port, conn[c].flow)
    /\ \A v \in gc.victims : Leads(v.port, v.flow)

\* What NoneLeftBehind says of one state.
Backed ==
    \A f \in Flows : by_5tuple[f] # None /\ by_port[by_5tuple[f]] = None
                       => Removing(f, by_5tuple[f])

\* A port between its two insertions belongs to the pump alone and is fresh.
Fresh ==
    pump.pc = "index" =>
        /\ by_port[pump.port] = [flow |-> pump.flow, seen |-> now]
        /\ ~Referenced(pump.port)

\* The purge is at one of the sessions it has noted, and its clock is not ahead.
PurgeOK == (gc.pc = "index" => gc.at \in gc.victims) /\ gc.now <= now

\* The inductive invariant.
Inv == TypeOK /\ PurgeOK /\ (~reused => Agree /\ Backed /\ Fresh)

-----------------------------------------------------------------------------
(* Lemmas. *)

\* The remainder of any integer by a positive one.
LEMMA Remainder ==
    ASSUME NEW a \in Int, NEW b \in Nat, b > 0
    PROVE  a % b \in 0 .. b - 1
  BY SMT

\* port_in_range: every raw cursor value gives a port of the range.
LEMMA PortInRange ==
    ASSUME NEW raw \in 0 .. Width - 1
    PROVE  port_in_range(raw) \in Ports
<1> DEFINE r == (raw - Start) % Width
<1>1. Width \in Nat /\ Start \in Nat /\ Width > 0 /\ Span \in Nat /\ Span > 0
  BY TcpNatAssumption DEF Span
<1>2. raw - Start \in Int
  BY <1>1
<1>3. r \in Int
  BY <1>1, <1>2, Remainder
<1> HIDE DEF r
<1>4. r % Span \in 0 .. Span - 1
  BY <1>1, <1>3, Remainder
<1>5. Start + (r % Span) \in Ports
  BY <1>1, <1>4 DEF Ports, Span
<1> QED
  BY <1>5 DEF port_in_range, r

\* The cursor stays a machine word.
LEMMA CursorStep ==
    ASSUME NEW raw \in 0 .. Width - 1
    PROVE  (raw + 1) % Width \in 0 .. Width - 1
  BY TcpNatAssumption, Remainder

\* None is no port.
LEMMA NoneIsNoPort == None \notin Ports
  BY TcpNatAssumption DEF Ports

\* Every state of a lookup, of the purge and of a connection, by its fields.
LEMMA PumpFields ==
    ASSUME TypeOK
    PROVE  /\ pump = [pc |-> pump.pc, flow |-> pump.flow, port |-> pump.port, tries |-> pump.tries]
           /\ pump.pc \in {"idle", "try", "check", "index"} /\ pump.tries \in 0 .. Span
           /\ pump.pc # "idle" => pump.flow \in Flows
           /\ pump.pc \in {"check", "index"} => pump.port \in Ports
           /\ pump.pc = "try" => pump.port = None
<1>1. 0 \in 0 .. Span
  BY TcpNatAssumption DEF Span
<1> QED
  BY <1>1 DEF TypeOK

LEMMA ConnFields ==
    ASSUME TypeOK, NEW c \in Conns
    PROVE  /\ conn[c] = [pc |-> conn[c].pc, port |-> conn[c].port, flow |-> conn[c].flow]
           /\ conn[c].pc \in {"idle", "open", "index"}
           /\ conn[c].pc # "idle" => conn[c].port \in Ports /\ conn[c].flow \in Flows
           /\ conn[c].pc = "idle" => conn[c].port = None
  BY DEF TypeOK

LEMMA GcFields ==
    ASSUME TypeOK
    PROVE  /\ gc = [pc |-> gc.pc, now |-> gc.now, todo |-> gc.todo, victims |-> gc.victims, at |-> gc.at]
           /\ gc.pc \in {"idle", "scan", "index"} /\ gc.now \in Nat
           /\ gc.todo \in SUBSET Ports /\ gc.victims \in SUBSET Victim
           /\ gc.pc = "index" => gc.at \in Victim
           /\ gc.pc # "index" => gc.at = None
  BY DEF TypeOK

-----------------------------------------------------------------------------
(* Types. *)

LEMMA InitType == Init => TypeOK /\ PurgeOK
<1> SUFFICES ASSUME Init PROVE TypeOK /\ PurgeOK
  OBVIOUS
<1>1. Start \in 0 .. Width - 1
  BY TcpNatAssumption
<1>2. PurgeOK
  BY DEF Init, PurgeOK, IdleGc
<1>3. TypeOK
  BY <1>1 DEF Init, TypeOK, IdlePump, IdleGc, IdleConn
<1> QED
  BY <1>2, <1>3

\* One step keeps the types, and keeps what is true of the purge.
LEMMA TypeStep ==
    ASSUME TypeOK, PurgeOK, [Next]_vars
    PROVE  TypeOK' /\ PurgeOK'
<1> USE PumpFields, ConnFields, GcFields
<1>1. CASE UNCHANGED vars
  BY <1>1 DEF vars, TypeOK, PurgeOK
<1>2. ASSUME NEW f \in Flows, Lookup(f) PROVE TypeOK' /\ PurgeOK'
  <2>1. 0 \in 0 .. Span
    BY TcpNatAssumption DEF Span
  <2>2. pump' \in [pc : {"try"}, flow : Flows, port : {None}, tries : 0 .. Span]
          \cup [pc : {"check", "index"}, flow : Flows, port : Ports, tries : 0 .. Span]
    <3>1. CASE by_5tuple[f] # None
      <4>1. by_5tuple[f] \in Ports
        BY <3>1 DEF TypeOK
      <4> QED
        BY <1>2, <2>1, <3>1, <4>1 DEF Lookup, IdlePump
    <3>2. CASE by_5tuple[f] = None
      BY <1>2, <2>1, <3>2 DEF Lookup, IdlePump
    <3> QED
      BY <3>1, <3>2
  <2>3. free' \in SUBSET Ports /\ calls' \in Nat
    BY <1>2 DEF Lookup, TypeOK
  <2> QED
    BY <1>2, <2>2, <2>3 DEF Lookup, TypeOK, PurgeOK
<1>3. CASE Check
  <2>1. CASE by_port[pump.port] # None
    <3>1. by_port' \in [Ports -> [flow : Flows, seen : Nat] \cup {None}]
      BY <1>3, <2>1 DEF Check, Touch, TypeOK
    <3> QED
      BY <1>3, <2>1, <3>1 DEF Check, TypeOK, PurgeOK, IdlePump
  <2>2. CASE by_port[pump.port] = None
    <3>1. pump' \in [pc : {"try"}, flow : Flows, port : {None}, tries : 0 .. Span]
      BY <1>3, <2>2 DEF Check
    <3>2. free' \in SUBSET Ports
      BY <1>3, <2>2 DEF Check
    <3>3. by_5tuple' \in [Flows -> Ports \cup {None}]
      BY <1>3, <2>2 DEF Check, TypeOK
    <3> QED
      BY <1>3, <2>2, <3>1, <3>2, <3>3 DEF Check, TypeOK, PurgeOK
  <2> QED
    BY <2>1, <2>2
<1>4. CASE Try
  <2>1. port_in_range(next_port) \in Ports /\ next_port' \in 0 .. Width - 1
    BY <1>4, PortInRange, CursorStep DEF Try, TypeOK
  <2>2. pump.tries < Span => pump.tries + 1 \in 0 .. Span
    BY TcpNatAssumption DEF Span
  <2>3. pump.flow \in Flows /\ now \in Nat /\ reused' \in BOOLEAN
    BY <1>4 DEF Try, TypeOK
  <2>4. CASE by_port[port_in_range(next_port)] # None
    <3>1. pump' \in [pc : {"try"}, flow : Flows, port : {None}, tries : 0 .. Span]
      BY <1>4, <2>2, <2>3, <2>4 DEF Try
    <3> QED
      BY <1>4, <2>1, <2>3, <2>4, <3>1 DEF Try, TypeOK, PurgeOK
  <2>5. CASE by_port[port_in_range(next_port)] = None
    <3>1. pump' \in [pc : {"check", "index"}, flow : Flows, port : Ports, tries : 0 .. Span]
      BY <1>4, <2>1, <2>3, <2>5 DEF Try
    <3>2. by_port' \in [Ports -> [flow : Flows, seen : Nat] \cup {None}]
      BY <1>4, <2>1, <2>3, <2>5 DEF Try, TypeOK
    <3> QED
      BY <1>4, <2>1, <2>3, <2>5, <3>1, <3>2 DEF Try, TypeOK, PurgeOK
  <2> QED
    BY <2>4, <2>5
<1>5. CASE Exhausted
  BY <1>5 DEF Exhausted, TypeOK, PurgeOK, IdlePump
<1>6. CASE Index
  BY <1>6 DEF Index, TypeOK, PurgeOK, IdlePump
<1>7. ASSUME NEW c \in Conns, Reply(c) PROVE TypeOK' /\ PurgeOK'
  BY <1>7 DEF Reply, Touch, TypeOK, PurgeOK
<1>8. ASSUME NEW c \in Conns, NEW p \in Ports, Accept(c, p) PROVE TypeOK' /\ PurgeOK'
  BY <1>8 DEF Accept, Touch, TypeOK, PurgeOK
<1>9. ASSUME NEW c \in Conns, Close(c) PROVE TypeOK' /\ PurgeOK'
  BY <1>9 DEF Close, TypeOK, PurgeOK, IdleConn
<1>10. ASSUME NEW c \in Conns, CloseIndex(c) PROVE TypeOK' /\ PurgeOK'
  BY <1>10 DEF CloseIndex, TypeOK, PurgeOK, IdleConn
<1>11. CASE PurgeStart
  <2>1. gc' = [pc |-> "scan", now |-> now, todo |-> Ports, victims |-> {}, at |-> None]
    BY <1>11 DEF PurgeStart, IdleGc
  <2>2. gc' \in [pc : {"idle", "scan"}, now : Nat, todo : SUBSET Ports,
              victims : SUBSET Victim, at : {None}]
    BY <2>1 DEF TypeOK
  <2>3. gc'.pc = "scan" /\ gc'.now <= now
    BY <2>1 DEF TypeOK
  <2> QED
    BY <1>11, <2>2, <2>3 DEF PurgeStart, TypeOK, PurgeOK
<1>12. ASSUME NEW p \in Ports, Scan(p) PROVE TypeOK' /\ PurgeOK'
  <2> DEFINE new == IF by_port[p] # None /\ gc.now - by_port[p].seen > Timeout
                    THEN gc.victims \cup {[port |-> p, flow |-> by_port[p].flow]}
                    ELSE gc.victims
  <2>1. new \in SUBSET Victim
    BY DEF TypeOK, Victim
  <2>2. gc' = [gc EXCEPT !.todo = @ \ {p}, !.victims = new] /\ gc.pc = "scan"
    BY <1>12 DEF Scan
  <2> HIDE DEF new
  <2>3. gc' \in [pc : {"idle", "scan"}, now : Nat, todo : SUBSET Ports,
              victims : SUBSET Victim, at : {None}]
    BY <2>1, <2>2
  <2>4. gc'.pc = "scan" /\ gc'.now = gc.now
    BY <2>2, GcFields
  <2> QED
    BY <1>12, <2>3, <2>4 DEF Scan, TypeOK, PurgeOK
<1>13. ASSUME NEW v \in gc.victims, Purge(v) PROVE TypeOK' /\ PurgeOK'
  <2>1. v \in Victim /\ v.port \in Ports
    BY GcFields DEF Victim
  <2>2. gc' = [gc EXCEPT !.pc = "index", !.at = v]
    BY <1>13 DEF Purge
  <2>3. gc' \in [pc : {"index"}, now : Nat, todo : SUBSET Ports, victims : SUBSET Victim, at : Victim]
    BY <2>1, <2>2
  <2>4. gc'.at = v /\ gc'.victims = gc.victims /\ gc'.now = gc.now
    BY <2>2, GcFields
  <2>5. by_port' \in [Ports -> [flow : Flows, seen : Nat] \cup {None}]
    BY <1>13, <2>1 DEF Purge, TypeOK
  <2> QED
    BY <1>13, <2>3, <2>4, <2>5 DEF Purge, TypeOK, PurgeOK
<1>14. CASE PurgeIndex
  BY <1>14 DEF PurgeIndex, TypeOK, PurgeOK, Victim
<1>15. CASE PurgeEnd
  BY <1>15 DEF PurgeEnd, TypeOK, PurgeOK, IdleGc
<1>16. CASE Tick
  BY <1>16 DEF Tick, TypeOK, PurgeOK
<1> QED
  BY <1>1, <1>2, <1>3, <1>4, <1>5, <1>6, <1>7, <1>8, <1>9, <1>10, <1>11, <1>12, <1>13,
     <1>14, <1>15, <1>16 DEF Next

\* Whatever tasks interleave, each map holds only ports of the range and flows,
\* and the cursor never leaves its word.
THEOREM TypeCorrect == Spec => []TypeOK
<1>1. Init => TypeOK /\ PurgeOK
  BY InitType
<1>2. TypeOK /\ PurgeOK /\ [Next]_vars => TypeOK' /\ PurgeOK'
  BY TypeStep
<1> QED
  BY <1>1, <1>2, PTL DEF Spec

-----------------------------------------------------------------------------
(* The two maps agree. *)

\* Touching a session changes neither which ports have one nor whose it is.
LEMMA TouchKeeps ==
    ASSUME TypeOK, NEW p \in Ports, by_port[p] # None, by_port' = Touch(p)
    PROVE  /\ \A q \in Ports : (by_port'[q] = None) = (by_port[q] = None)
           /\ \A q \in Ports : by_port[q] # None => by_port'[q].flow = by_port[q].flow
           /\ \A q \in Ports : q # p => by_port'[q] = by_port[q]
<1>1. by_port[p] \in [flow : Flows, seen : Nat]
  BY DEF TypeOK
<1>2. by_port'[p] = [flow |-> by_port[p].flow, seen |-> now]
  BY <1>1 DEF Touch, TypeOK
<1>3. by_port'[p] # None
  BY <1>1, <1>2, TcpNatAssumption DEF TypeOK
<1>4. \A q \in Ports : q # p => by_port'[q] = by_port[q]
  BY DEF Touch, TypeOK
<1> QED
  BY <1>2, <1>3, <1>4

\* Removing a session: no other port changes.
LEMMA DropKeeps ==
    ASSUME TypeOK, NEW p \in Ports, by_port' = [by_port EXCEPT ![p] = None]
    PROVE  /\ by_port'[p] = None
           /\ \A q \in Ports : q # p => by_port'[q] = by_port[q]
  BY DEF TypeOK

\* A half-done removal names its port, so the port is still referenced.
LEMMA RemovingRefers ==
    ASSUME PurgeOK, NEW f \in Flows, NEW p \in Ports, Removing(f, p)
    PROVE  Referenced(p)
<1>1. CASE gc.pc = "index" /\ gc.at = [port |-> p, flow |-> f]
  <2>1. gc.at \in gc.victims /\ gc.at.port = p
    BY <1>1 DEF PurgeOK
  <2> QED
    BY <2>1 DEF Referenced
<1>2. CASE \E c \in Conns : conn[c] = [pc |-> "index", port |-> p, flow |-> f]
  BY <1>2 DEF Referenced
<1> QED
  BY <1>1, <1>2 DEF Removing

Safe == Agree /\ Backed /\ Fresh

LEMMA LookupSafe ==
    ASSUME TypeOK, Safe, NEW f \in Flows, Lookup(f)
    PROVE  Safe'
<1>1. UNCHANGED <<by_port, by_5tuple, gc, conn, now>>
  BY DEF Lookup
<1>2. pump'.pc # "index" /\ (pump'.pc = "check" => /\ by_5tuple[f] # None
                                                  /\ pump'.port = by_5tuple[f]
                                                  /\ pump'.flow = f)
  BY DEF Lookup, IdlePump
<1>3. Agree'
  BY <1>1, <1>2 DEF Safe, Agree, Leads
<1>4. Backed'
  BY <1>1 DEF Safe, Backed, Removing
<1> QED
  BY <1>2, <1>3, <1>4 DEF Safe, Fresh

LEMMA CheckSafe ==
    ASSUME TypeOK, TypeOK', Safe, Check
    PROVE  Safe'
<1>1. pump'.pc \in {"idle", "try"} /\ UNCHANGED <<gc, conn>>
  <2>1. pump' = IdlePump \/ pump' = [pump EXCEPT !.pc = "try", !.port = None]
    BY DEF Check
  <2>2. [pump EXCEPT !.pc = "try", !.port = None].pc = "try"
    BY PumpFields
  <2>3. IdlePump.pc = "idle"
    BY DEF IdlePump
  <2>4. pump'.pc \in {"idle", "try"}
    BY <2>1, <2>2, <2>3
  <2> QED
    BY <2>4 DEF Check
<1>2. pump.port \in Ports /\ pump.flow \in Flows
  BY PumpFields DEF Check
<1>3. CASE by_port[pump.port] # None
  <2>1. by_port' = Touch(pump.port) /\ UNCHANGED by_5tuple
    BY <1>3 DEF Check
  <2> QED
    BY <1>1, <1>2, <1>3, <2>1, TouchKeeps, ConnFields, GcFields
       DEF Safe, Agree, Backed, Fresh, Leads, Removing, TypeOK, Victim
<1>4. CASE by_port[pump.port] = None
  <2>1. by_5tuple' = [by_5tuple EXCEPT ![pump.flow] = None] /\ UNCHANGED by_port
    BY <1>4 DEF Check
  <2> QED
    BY <1>1, <1>2, <2>1 DEF Safe, Agree, Backed, Fresh, Leads, Removing, TypeOK
<1> QED
  BY <1>3, <1>4

\* A port handed out is named by no entry: an entry of a port without a session
\* is being removed, and then the port is referenced.
LEMMA TrySafe ==
    ASSUME TypeOK, PurgeOK, Safe, Try, ~reused'
    PROVE  Safe'
<1> DEFINE p == port_in_range(next_port)
<1>1. p \in Ports
  BY PortInRange DEF TypeOK
<1>2. UNCHANGED <<by_5tuple, gc, conn, now>> /\ pump.pc = "try"
  BY DEF Try
<1>3. CASE by_port[p] # None
  <2>1. UNCHANGED by_port /\ pump'.pc = "try"
    BY <1>3, PumpFields DEF Try
  <2> QED
    BY <1>2, <2>1 DEF Safe, Agree, Backed, Fresh, Leads, Removing
<1>4. CASE by_port[p] = None
  <2>1. /\ by_port' = [by_port EXCEPT ![p] = [flow |-> pump.flow, seen |-> now]]
        /\ pump' = [pump EXCEPT !.pc = "index", !.port = p]
        /\ ~Referenced(p)
    BY <1>4 DEF Try
  <2> HIDE DEF p
  <2>2. pump'.pc = "index" /\ pump'.port = p /\ pump'.flow = pump.flow
    BY <2>1, PumpFields
  <2>3. /\ by_port'[p] = [flow |-> pump.flow, seen |-> now]
        /\ \A q \in Ports : q # p => by_port'[q] = by_port[q]
    BY <1>1, <2>1 DEF TypeOK
  <2>4. \A f \in Flows : by_5tuple[f] # p
    BY <1>1, <1>4, <2>1, RemovingRefers, NoneIsNoPort DEF Safe, Backed
  <2>5. by_port'[p] # None
    BY <1>2, <2>3, PumpFields, TcpNatAssumption DEF TypeOK
  <2>6. Agree'
    <3>1. \A f \in Flows : by_5tuple[f] # None => Leads(by_5tuple[f], f)'
      BY <1>2, <2>3, <2>4 DEF Safe, Agree, Leads, TypeOK
    <3>2. \A c \in Conns : conn[c].pc # "idle" => Leads(conn[c].port, conn[c].flow)'
      BY <1>2, <2>1, <2>3, ConnFields DEF Safe, Agree, Leads, Referenced
    <3>3. \A v \in gc.victims : Leads(v.port, v.flow)'
      BY <1>2, <2>1, <2>3, GcFields DEF Safe, Agree, Leads, Referenced, Victim
    <3> QED
      BY <1>2, <2>2, <3>1, <3>2, <3>3 DEF Agree, Leads
  <2>7. Backed'
    BY <1>2, <2>3, <2>4 DEF Safe, Backed, Removing, TypeOK
  <2>8. Fresh'
    BY <1>2, <2>1, <2>2, <2>3 DEF Fresh, Referenced
  <2> QED
    BY <2>6, <2>7, <2>8 DEF Safe
<1> QED
  BY <1>3, <1>4

LEMMA IndexSafe ==
    ASSUME TypeOK, Safe, Index
    PROVE  Safe'
<1>1. UNCHANGED <<by_port, gc, conn, now>> /\ pump'.pc = "idle"
  BY DEF Index, IdlePump
<1>2. pump.port \in Ports /\ pump.flow \in Flows
  BY PumpFields DEF Index
<1>3. by_port[pump.port].flow = pump.flow /\ by_port[pump.port] # None
  BY <1>2, TcpNatAssumption DEF Index, Safe, Fresh, TypeOK
<1>4. by_5tuple' = [by_5tuple EXCEPT ![pump.flow] = pump.port]
  BY DEF Index
<1>5. Agree'
  BY <1>1, <1>2, <1>3, <1>4 DEF Safe, Agree, Leads, TypeOK
<1>6. Backed'
  BY <1>1, <1>2, <1>3, <1>4 DEF Safe, Backed, Removing, TypeOK
<1> QED
  BY <1>1, <1>5, <1>6 DEF Safe, Fresh

LEMMA ReplySafe ==
    ASSUME TypeOK, Safe, NEW c \in Conns, Reply(c)
    PROVE  Safe'
<1>1. UNCHANGED <<by_5tuple, pump, gc, conn>> /\ pump.pc = "idle"
  BY DEF Reply
<1>2. conn[c].port \in Ports /\ by_port[conn[c].port] # None /\ by_port' = Touch(conn[c].port)
  BY ConnFields DEF Reply
<1>3. Agree'
  BY <1>1, <1>2, TouchKeeps, ConnFields, GcFields DEF Safe, Agree, Leads, TypeOK, Victim
<1>4. Backed'
  BY <1>1, <1>2, TouchKeeps DEF Safe, Backed, Removing, TypeOK
<1> QED
  BY <1>1, <1>3, <1>4 DEF Safe, Fresh

LEMMA AcceptSafe ==
    ASSUME TypeOK, Safe, NEW c \in Conns, NEW p \in Ports, Accept(c, p)
    PROVE  Safe'
<1>1. /\ UNCHANGED <<by_5tuple, pump, gc, now>>
      /\ by_port[p] # None /\ by_port' = Touch(p) /\ conn[c].pc = "idle"
      /\ pump.pc = "index" => pump.port # p
  BY DEF Accept
<1>2. /\ conn'[c] = [pc |-> "open", port |-> p, flow |-> by_port[p].flow]
      /\ \A d \in Conns : d # c => conn'[d] = conn[d]
  BY DEF Accept, TypeOK
<1>3. Agree'
  <2>1. \A d \in Conns : conn'[d].pc # "idle" => Leads(conn[d].port, conn[d].flow)'
    <3>1. Leads(conn[c].port, conn[c].flow)'
      BY <1>1, <1>2, TouchKeeps DEF Leads
    <3>2. ASSUME NEW d \in Conns, d # c, conn[d].pc # "idle"
          PROVE  Leads(conn[d].port, conn[d].flow)'
      <4>1. conn'[d] = conn[d] /\ conn[d].port \in Ports
        BY <1>2, <3>2, ConnFields
      <4>2. Leads(conn[d].port, conn[d].flow)
        BY <3>2 DEF Safe, Agree
      <4> QED
        BY <1>1, <4>1, <4>2, TouchKeeps DEF Leads
    <3> QED
      BY <1>2, <3>1, <3>2
  <2>2. \A f \in Flows : by_5tuple[f] # None => Leads(by_5tuple[f], f)'
    BY <1>1, TouchKeeps DEF Safe, Agree, Leads, TypeOK
  <2>3. pump.pc = "check" => Leads(pump.port, pump.flow)'
    BY <1>1, TouchKeeps, PumpFields DEF Safe, Agree, Leads
  <2>4. \A v \in gc.victims : Leads(v.port, v.flow)'
    BY <1>1, TouchKeeps, GcFields DEF Safe, Agree, Leads, Victim
  <2> QED
    BY <1>1, <2>1, <2>2, <2>3, <2>4 DEF Agree, Leads
<1>4. Backed'
  <2>1. \A f \in Flows, q \in Ports : Removing(f, q) => Removing(f, q)'
    <3> SUFFICES ASSUME NEW f \in Flows, NEW q \in Ports, NEW d \in Conns,
                        conn[d] = [pc |-> "index", port |-> q, flow |-> f]
                 PROVE  conn'[d] = [pc |-> "index", port |-> q, flow |-> f]
      BY <1>1 DEF Removing
    <3>1. conn[d].pc = "index"
      OBVIOUS
    <3> QED
      BY <1>1, <1>2, <3>1
  <2> QED
    BY <1>1, <2>1, TouchKeeps DEF Safe, Backed, TypeOK
<1>5. Fresh'
  BY <1>1, <1>2, TouchKeeps, PumpFields DEF Safe, Fresh, Referenced
<1> QED
  BY <1>3, <1>4, <1>5 DEF Safe

LEMMA CloseSafe ==
    ASSUME TypeOK, Safe, NEW c \in Conns, Close(c)
    PROVE  Safe'
<1>0. PICK p \in Ports : p = conn[c].port
  BY ConnFields DEF Close
<1>1. UNCHANGED <<by_5tuple, pump, gc, now>> /\ conn[c].pc = "open" /\ p = conn[c].port
  BY <1>0 DEF Close
<1>2. pump.pc = "index" => pump.port # p
  BY <1>1 DEF Safe, Fresh, Referenced
<1>3. \A d \in Conns : d # c => conn'[d] = conn[d]
  BY DEF Close, TypeOK
<1>4. CASE by_port[p] = None
  <2>1. UNCHANGED by_port /\ conn'[c] = IdleConn
    BY <1>1, <1>4 DEF Close, TypeOK
  <2>2. Agree'
    BY <1>1, <1>3, <2>1 DEF Safe, Agree, Leads, IdleConn
  <2>3. \A f \in Flows, q \in Ports : Removing(f, q) => Removing(f, q)'
    BY <1>1, <1>3 DEF Removing
  <2>4. Backed'
    BY <1>1, <2>1, <2>3 DEF Safe, Backed, TypeOK
  <2>5. Fresh'
    BY <1>1, <1>3, <2>1 DEF Safe, Fresh, Referenced, IdleConn
  <2> QED
    BY <2>2, <2>4, <2>5 DEF Safe
<1>5. CASE by_port[p] # None
  <2>1. /\ by_port' = [by_port EXCEPT ![p] = None]
        /\ conn'[c] = [pc |-> "index", port |-> p, flow |-> by_port[p].flow]
    BY <1>1, <1>5, ConnFields DEF Close, TypeOK
  <2>2. Agree'
    <3>1. \A f \in Flows : by_5tuple[f] # None => Leads(by_5tuple[f], f)'
      BY <1>1, <2>1, DropKeeps DEF Safe, Agree, Leads, TypeOK
    <3>2. pump.pc = "check" => Leads(pump.port, pump.flow)'
      BY <1>1, <2>1, DropKeeps, PumpFields DEF Safe, Agree, Leads
    <3>3. \A d \in Conns : conn'[d].pc # "idle" => Leads(conn[d].port, conn[d].flow)'
      BY <1>1, <1>3, <2>1, DropKeeps, ConnFields DEF Safe, Agree, Leads
    <3>4. \A v \in gc.victims : Leads(v.port, v.flow)'
      BY <1>1, <2>1, DropKeeps, GcFields DEF Safe, Agree, Leads, Victim
    <3> QED
      BY <1>1, <3>1, <3>2, <3>3, <3>4 DEF Agree, Leads
  <2>3. Backed'
    <3>1. \A f \in Flows, q \in Ports : Removing(f, q) => Removing(f, q)'
      <4> SUFFICES ASSUME NEW f \in Flows, NEW q \in Ports, NEW d \in Conns,
                          conn[d] = [pc |-> "index", port |-> q, flow |-> f]
                   PROVE  conn'[d] = [pc |-> "index", port |-> q, flow |-> f]
        BY <1>1 DEF Removing
      <4>1. conn[d].pc = "index"
        OBVIOUS
      <4> QED
        BY <1>1, <1>3, <4>1
    <3>2. \A f \in Flows : by_5tuple[f] = p => Removing(f, p)'
      <4> SUFFICES ASSUME NEW f \in Flows, by_5tuple[f] = p PROVE Removing(f, p)'
        OBVIOUS
      <4>1. by_port[p].flow = f
        BY <1>1, <1>5, NoneIsNoPort DEF Safe, Agree, Leads
      <4> QED
        BY <2>1, <4>1 DEF Removing
    <3> QED
      BY <1>1, <2>1, <3>1, <3>2, DropKeeps DEF Safe, Backed, TypeOK
  <2>4. Fresh'
    BY <1>1, <1>2, <1>3, <2>1, DropKeeps, PumpFields DEF Safe, Fresh, Referenced
  <2> QED
    BY <2>2, <2>3, <2>4 DEF Safe
<1> QED
  BY <1>4, <1>5

LEMMA CloseIndexSafe ==
    ASSUME TypeOK, Safe, NEW c \in Conns, CloseIndex(c)
    PROVE  Safe'
<1>1. /\ UNCHANGED <<by_port, pump, gc, now>> /\ conn[c].pc = "index"
      /\ by_5tuple' = [by_5tuple EXCEPT ![conn[c].flow] = None]
  BY DEF CloseIndex
<1>2. conn'[c] = IdleConn /\ \A d \in Conns : d # c => conn'[d] = conn[d]
  BY DEF CloseIndex, TypeOK
<1>3. conn[c].flow \in Flows
  BY <1>1, ConnFields
<1>4. by_5tuple'[conn[c].flow] = None /\ \A f \in Flows : f # conn[c].flow => by_5tuple'[f] = by_5tuple[f]
  BY <1>1, <1>3 DEF TypeOK
<1>5. Agree'
  BY <1>1, <1>2, <1>4 DEF Safe, Agree, Leads, IdleConn
<1>6. Backed'
  <2> SUFFICES ASSUME NEW f \in Flows, by_5tuple'[f] # None, by_port[by_5tuple'[f]] = None
               PROVE  Removing(f, by_5tuple[f])'
    BY <1>1 DEF Backed
  <2>1. f # conn[c].flow /\ by_5tuple'[f] = by_5tuple[f]
    BY <1>4
  <2>2. Removing(f, by_5tuple[f])
    BY <2>1 DEF Safe, Backed
  <2>3. conn[c] # [pc |-> "index", port |-> by_5tuple[f], flow |-> f]
    BY <2>1
  <2> QED
    BY <1>1, <1>2, <2>1, <2>2, <2>3 DEF Removing
<1>7. Fresh'
  BY <1>1, <1>2 DEF Safe, Fresh, Referenced, IdleConn
<1> QED
  BY <1>5, <1>6, <1>7 DEF Safe

LEMMA PurgeStartSafe ==
    ASSUME TypeOK, Safe, PurgeStart \/ PurgeEnd
    PROVE  Safe'
<1>1. /\ UNCHANGED <<by_port, by_5tuple, pump, conn, now>>
      /\ gc.pc # "index" /\ gc'.pc # "index" /\ gc'.victims = {}
  <2>1. CASE PurgeStart
    BY <2>1 DEF PurgeStart, IdleGc
  <2>2. CASE PurgeEnd
    BY <2>2 DEF PurgeEnd, IdleGc
  <2> QED
    BY <2>1, <2>2
<1>2. Agree'
  BY <1>1 DEF Safe, Agree, Leads
<1>3. Backed'
  BY <1>1 DEF Safe, Backed, Removing
<1>4. Fresh'
  BY <1>1 DEF Safe, Fresh, Referenced
<1> QED
  BY <1>2, <1>3, <1>4 DEF Safe

\* A session between its two insertions is too young to be noted.
LEMMA ScanSafe ==
    ASSUME TypeOK, PurgeOK, Safe, NEW p \in Ports, Scan(p)
    PROVE  Safe'
<1>1. UNCHANGED <<by_port, by_5tuple, pump, conn, now>> /\ gc.pc = "scan" /\ gc'.pc = "scan"
  BY GcFields DEF Scan
<1>2. \A v \in gc'.victims :
         \/ v \in gc.victims
         \/ /\ by_port[p] # None /\ gc.now - by_port[p].seen > Timeout
            /\ v.port = p /\ v.flow = by_port[p].flow
  <2> DEFINE new == IF by_port[p] # None /\ gc.now - by_port[p].seen > Timeout
                    THEN gc.victims \cup {[port |-> p, flow |-> by_port[p].flow]}
                    ELSE gc.victims
  <2>1. gc' = [gc EXCEPT !.todo = @ \ {p}, !.victims = new]
    BY DEF Scan
  <2> HIDE DEF new
  <2>2. gc'.victims = new
    BY <2>1, GcFields
  <2> QED
    BY <2>2 DEF new
<1>3. Agree'
  BY <1>1, <1>2 DEF Safe, Agree, Leads
<1>4. Backed'
  BY <1>1 DEF Safe, Backed, Removing
<1>5. Fresh'
  <2> SUFFICES ASSUME pump.pc = "index" PROVE ~Referenced(pump.port)'
    BY <1>1 DEF Safe, Fresh
  <2>1. by_port[pump.port].seen = now /\ ~Referenced(pump.port)
    BY DEF Safe, Fresh
  <2>2. gc.now \in Nat /\ now \in Nat /\ gc.now <= now
    BY GcFields DEF PurgeOK, TypeOK
  <2>3. ~(gc.now - now > Timeout)
    BY <2>2, TcpNatAssumption
  <2> QED
    BY <1>1, <1>2, <2>1, <2>3 DEF Referenced
<1> QED
  BY <1>3, <1>4, <1>5 DEF Safe

LEMMA PurgeSafe ==
    ASSUME TypeOK, Safe, NEW v \in gc.victims, Purge(v)
    PROVE  Safe'
<1>1. /\ UNCHANGED <<by_5tuple, pump, conn, now>> /\ gc.pc = "scan"
      /\ by_port' = [by_port EXCEPT ![v.port] = None]
  BY DEF Purge
<1>2. gc'.pc = "index" /\ gc'.at = v /\ gc'.victims = gc.victims
  BY GcFields DEF Purge
<1>3. v \in Victim /\ v.port \in Ports /\ v.flow \in Flows /\ v = [port |-> v.port, flow |-> v.flow]
  BY GcFields DEF Victim
<1>4. pump.pc = "index" => pump.port # v.port
  BY DEF Safe, Fresh, Referenced
<1>5. Agree'
  <2>1. \A f \in Flows : by_5tuple[f] # None => Leads(by_5tuple[f], f)'
    BY <1>1, <1>3, DropKeeps DEF Safe, Agree, Leads, TypeOK
  <2>2. pump.pc = "check" => Leads(pump.port, pump.flow)'
    BY <1>1, <1>3, DropKeeps, PumpFields DEF Safe, Agree, Leads
  <2>3. \A c \in Conns : conn[c].pc # "idle" => Leads(conn[c].port, conn[c].flow)'
    BY <1>1, <1>3, DropKeeps, ConnFields DEF Safe, Agree, Leads
  <2>4. \A w \in gc.victims : Leads(w.port, w.flow)'
    BY <1>1, <1>3, DropKeeps, GcFields DEF Safe, Agree, Leads, Victim
  <2> QED
    BY <1>1, <1>2, <2>1, <2>2, <2>3, <2>4 DEF Agree, Leads
<1>6. Backed'
  <2> SUFFICES ASSUME NEW f \in Flows, by_5tuple[f] # None, by_port'[by_5tuple[f]] = None
               PROVE  Removing(f, by_5tuple[f])'
    BY <1>1 DEF Backed
  <2>1. by_5tuple[f] \in Ports
    BY DEF TypeOK
  <2>2. CASE by_port[by_5tuple[f]] = None
    BY <1>1, <2>2 DEF Safe, Backed, Removing
  <2>3. CASE by_port[by_5tuple[f]] # None
    <3>1. by_5tuple[f] = v.port
      BY <1>1, <1>3, <2>1, <2>3, DropKeeps
    <3>2. v.flow = f
      BY <2>3, <3>1 DEF Safe, Agree, Leads
    <3> QED
      BY <1>1, <1>2, <1>3, <3>1, <3>2 DEF Removing
  <2> QED
    BY <2>2, <2>3
<1>7. Fresh'
  BY <1>1, <1>2, <1>3, <1>4, DropKeeps, PumpFields DEF Safe, Fresh, Referenced
<1> QED
  BY <1>5, <1>6, <1>7 DEF Safe

LEMMA PurgeIndexSafe ==
    ASSUME TypeOK, Safe, PurgeIndex
    PROVE  Safe'
<1>1. /\ UNCHANGED <<by_port, pump, conn, now>> /\ gc.pc = "index"
      /\ by_5tuple' = [by_5tuple EXCEPT ![gc.at.flow] = None]
  BY DEF PurgeIndex
<1>2. gc'.pc = "scan" /\ gc'.victims \subseteq gc.victims
  BY GcFields DEF PurgeIndex
<1>3. gc.at.flow \in Flows
  BY <1>1, GcFields DEF Victim
<1>4. by_5tuple'[gc.at.flow] = None /\ \A f \in Flows : f # gc.at.flow => by_5tuple'[f] = by_5tuple[f]
  BY <1>1, <1>3 DEF TypeOK
<1>5. Agree'
  BY <1>1, <1>2, <1>4 DEF Safe, Agree, Leads
<1>6. Backed'
  <2> SUFFICES ASSUME NEW f \in Flows, by_5tuple'[f] # None, by_port[by_5tuple'[f]] = None
               PROVE  Removing(f, by_5tuple[f])'
    BY <1>1 DEF Backed
  <2>1. f # gc.at.flow /\ by_5tuple'[f] = by_5tuple[f]
    BY <1>4
  <2>2. Removing(f, by_5tuple[f])
    BY <2>1 DEF Safe, Backed
  <2>3. gc.at # [port |-> by_5tuple[f], flow |-> f]
    BY <2>1
  <2> QED
    BY <1>1, <2>1, <2>2, <2>3 DEF Removing
<1>7. Fresh'
  BY <1>1, <1>2 DEF Safe, Fresh, Referenced
<1> QED
  BY <1>5, <1>6, <1>7 DEF Safe

\* One step keeps the invariant.  reused never falls back to FALSE.
LEMMA InvStep ==
    ASSUME Inv, [Next]_vars
    PROVE  Inv'
<1>1. TypeOK' /\ PurgeOK'
  BY TypeStep DEF Inv
<1> SUFFICES ASSUME ~reused' PROVE Safe'
  BY <1>1 DEF Inv, Safe
<1>2. ~reused
  BY DEF Next, vars, Lookup, Check, Try, Exhausted, Index, Reply, Accept, Close, CloseIndex,
         PurgeStart, PurgeIndex, PurgeEnd, Scan, Purge, Tick
<1>3. TypeOK /\ PurgeOK /\ Safe
  BY <1>2 DEF Inv, Safe
<1>4. CASE UNCHANGED vars
  BY <1>3, <1>4 DEF vars, Safe, Agree, Backed, Fresh, Leads, Removing, Referenced
<1>5. CASE Exhausted
  BY <1>3, <1>5 DEF Exhausted, IdlePump, Safe, Agree, Backed, Fresh, Leads, Removing
<1>6. CASE Tick
  BY <1>3, <1>6 DEF Tick, Safe, Agree, Backed, Fresh, Leads, Removing
<1> QED
  BY <1>1, <1>3, <1>4, <1>5, <1>6, LookupSafe, CheckSafe, TrySafe, IndexSafe, ReplySafe,
     AcceptSafe, CloseSafe, CloseIndexSafe, PurgeStartSafe, ScanSafe, PurgeSafe,
     PurgeIndexSafe DEF Next

LEMMA InitInv == Init => Inv
<1> SUFFICES ASSUME Init PROVE Inv
  OBVIOUS
<1>1. Safe
  BY DEF Init, Safe, Agree, Backed, Fresh, IdlePump, IdleGc, IdleConn
<1> QED
  BY <1>1, InitType DEF Inv, Safe

\* lookup and lookup_back: for every number of flows, connections and ports, a
\* flow's packets get a port that leads back to it and replies go to their own
\* client, as long as no port is handed out while a task still names it.
THEOREM CrossTalkFree == Spec => []NoCrossTalk
<1>1. Init => Inv
  BY InitInv
<1>2. Inv /\ [Next]_vars => Inv'
  BY InvStep
<1>3. Inv => NoCrossTalk
  BY DEF Inv, NoCrossTalk, Agree, Fresh, Leads
<1> QED
  BY <1>1, <1>2, <1>3, PTL DEF Spec

\* remove_by_port and purge_expired: under the same condition no flow's entry
\* outlives its session but while the task that removed the session goes on.
THEOREM EntriesBacked == Spec => []NoneLeftBehind
<1>1. Init => Inv
  BY InitInv
<1>2. Inv /\ [Next]_vars => Inv'
  BY InvStep
<1>3. Inv => NoneLeftBehind
  BY DEF Inv, NoneLeftBehind, Backed
<1> QED
  BY <1>1, <1>2, <1>3, PTL DEF Spec
=============================================================================
