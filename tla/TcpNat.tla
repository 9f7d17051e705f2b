------------------------------- MODULE TcpNat -------------------------------
(***************************************************************************)
(* The TCP port table of the system stack (TcpNat of crate core-capture)   *)
(* and its users: the pump, which is the only caller of lookup; the accept *)
(* loop and the tasks of the accepted connections; and the periodic purge. *)
(* A step is one access to one of the two maps or to the cursor.  A flow   *)
(* is a pair of source and destination.  The cursor is a machine word:     *)
(* Width stands for 2^16, Start for PORT_RANGE_START.                      *)
(***************************************************************************)
EXTENDS Integers, FiniteSets

CONSTANTS
    Flows, Conns, None,
    Start, Width,  \* ports are Start .. Width - 1
    Timeout,
    MaxTime,       \* bound: clock ticks
    MaxCalls       \* bound: packets from clients

ASSUME TcpNatAssumption ==
    /\ Start \in Nat /\ Width \in Nat /\ Start < Width
    /\ Timeout \in Nat /\ MaxTime \in Nat /\ MaxCalls \in Nat
    /\ None \notin Flows /\ None \notin Int /\ None \notin [flow : Flows, seen : Nat]

VARIABLES
    now,
    by_port,    \* port -> [flow, seen], or None
    by_5tuple,  \* flow -> port, or None
    next_port,
    pump,       \* the lookup in progress
    free,       \* ports free since the lookup in progress began to walk (a ghost)
    gc,         \* the purge in progress
    conn,       \* the tasks of the accepted connections
    reused,     \* a port was handed out while a task still referred to it (a ghost)
    calls

vars == <<now, by_port, by_5tuple, next_port, pump, free, gc, conn, reused, calls>>

Ports == Start .. Width - 1
Span == Width - Start

Victim == [port : Ports, flow : Flows]
IdlePump == [pc |-> "idle", flow |-> None, port |-> None, tries |-> 0]
IdleGc == [pc |-> "idle", now |-> 0, todo |-> {}, victims |-> {}, at |-> None]
IdleConn == [pc |-> "idle", port |-> None, flow |-> None]

Init ==
    /\ now = 0
    /\ by_port = [p \in Ports |-> None]
    /\ by_5tuple = [f \in Flows |-> None]
    /\ next_port = Start
    /\ pump = IdlePump /\ free = {}
    /\ gc = IdleGc
    /\ conn = [c \in Conns |-> IdleConn]
    /\ reused = FALSE
    /\ calls = 0

\* The subtraction wraps at the word's width before the remainder is taken.
port_in_range(raw) == Start + (((raw - Start) % Width) % Span)

\* The ports in by_port that a task of another thread still names.
Referenced(p) ==
    \/ \E v \in gc.victims : v.port = p
    \/ \E c \in Conns : conn[c].pc # "idle" /\ conn[c].port = p

Touch(p) == [by_port EXCEPT ![p].seen = now]

-----------------------------------------------------------------------------
(* The pump: process_ipv4_tcp, process_ipv6_tcp and lookup. *)

\* A packet from a client: the port noted for the flow is read.
Lookup(f) ==
    /\ pump.pc = "idle" /\ calls < MaxCalls
    /\ calls' = calls + 1
    /\ IF by_5tuple[f] # None
       THEN /\ pump' = [IdlePump EXCEPT !.pc = "check", !.flow = f, !.port = by_5tuple[f]]
            /\ UNCHANGED free
       ELSE /\ pump' = [IdlePump EXCEPT !.pc = "try", !.flow = f]
            /\ free' = {p \in Ports : by_port[p] = None}
    /\ UNCHANGED <<now, by_port, by_5tuple, next_port, gc, conn, reused>>

\* The session of that port is touched and its port returned, whatever flow the
\* session is of; without a session the entry is dropped and a port assigned.
Check ==
    /\ pump.pc = "check"
    /\ IF by_port[pump.port] # None
       THEN /\ by_port' = Touch(pump.port)
            /\ pump' = IdlePump
            /\ UNCHANGED <<by_5tuple, free>>
       ELSE /\ by_5tuple' = [by_5tuple EXCEPT ![pump.flow] = None]
            /\ pump' = [pump EXCEPT !.pc = "try", !.port = None]
            /\ free' = {p \in Ports : by_port[p] = None}
            /\ UNCHANGED by_port
    /\ UNCHANGED <<now, next_port, gc, conn, reused, calls>>

\* Faulty variant: the entry is written without a look at the one it replaces.
TryOverwrites ==
    LET p == port_in_range(next_port)
    IN  /\ pump.pc = "try" /\ pump.tries < Span
        /\ next_port' = (next_port + 1) % Width
        /\ by_port' = [by_port EXCEPT ![p] = [flow |-> pump.flow, seen |-> now]]
        /\ pump' = [pump EXCEPT !.pc = "index", !.port = p]
        /\ reused' = (reused \/ Referenced(p))
        /\ UNCHANGED <<now, by_5tuple, free, gc, conn, calls>>

\* Faulty variant: the walk has a turn too many.
TryOnceMore ==
    LET p == port_in_range(next_port)
    IN  /\ pump.pc = "try" /\ pump.tries <= Span
        /\ next_port' = (next_port + 1) % Width
        /\ IF by_port[p] # None
           THEN /\ pump' = [pump EXCEPT !.tries = @ + 1]
                /\ UNCHANGED <<by_port, reused>>
           ELSE /\ by_port' = [by_port EXCEPT ![p] = [flow |-> pump.flow, seen |-> now]]
                /\ pump' = [pump EXCEPT !.pc = "index", !.port = p]
                /\ reused' = (reused \/ Referenced(p))
        /\ UNCHANGED <<now, by_5tuple, free, gc, conn, calls>>

\* One turn of the walk: fetch_add, then insert if absent.
Try ==
    LET p == port_in_range(next_port)
    IN  /\ pump.pc = "try" /\ pump.tries < Span
        /\ next_port' = (next_port + 1) % Width
        /\ IF by_port[p] # None
           THEN /\ pump' = [pump EXCEPT !.tries = @ + 1]
                /\ UNCHANGED <<by_port, reused>>
           ELSE /\ by_port' = [by_port EXCEPT ![p] = [flow |-> pump.flow, seen |-> now]]
                /\ pump' = [pump EXCEPT !.pc = "index", !.port = p]
                /\ reused' = (reused \/ Referenced(p))
        /\ UNCHANGED <<now, by_5tuple, free, gc, conn, calls>>

\* After Span turns the client is reset.
Exhausted ==
    /\ pump.pc = "try" /\ pump.tries = Span
    /\ pump' = IdlePump
    /\ UNCHANGED <<now, by_port, by_5tuple, next_port, free, gc, conn, reused, calls>>

\* The flow's entry is written and the packet goes out with the port.
Index ==
    /\ pump.pc = "index"
    /\ by_5tuple' = [by_5tuple EXCEPT ![pump.flow] = pump.port]
    /\ pump' = IdlePump
    /\ UNCHANGED <<now, by_port, next_port, free, gc, conn, reused, calls>>

\* A packet of the listener to a connection's port: lookup_back touches the
\* session; without one the packet is dropped.
Reply(c) ==
    /\ pump.pc = "idle" /\ conn[c].pc = "open"
    /\ by_port[conn[c].port] # None
    /\ by_port' = Touch(conn[c].port)
    /\ UNCHANGED <<now, by_5tuple, next_port, pump, free, gc, conn, reused, calls>>

-----------------------------------------------------------------------------
(* The accept loop and the connections. *)

\* The operating system has completed a handshake from port p: the first packet
\* of p has left the pump, and no other connection has p.  Without a session the
\* connection is closed, which changes nothing here.
Accept(c, p) ==
    /\ conn[c].pc = "idle"
    /\ by_port[p] # None /\ ~(pump.pc = "index" /\ pump.port = p)
    /\ \A d \in Conns : conn[d].port # p
    /\ by_port' = Touch(p)
    /\ conn' = [conn EXCEPT ![c] = [pc |-> "open", port |-> p, flow |-> by_port[p].flow]]
    /\ UNCHANGED <<now, by_5tuple, next_port, pump, free, gc, reused, calls>>

\* remove_by_port, first half, at every end of handle_accepted_conn.
Close(c) ==
    LET p == conn[c].port
    IN  /\ conn[c].pc = "open"
        /\ IF by_port[p] = None
           THEN conn' = [conn EXCEPT ![c] = IdleConn] /\ UNCHANGED by_port
           ELSE /\ by_port' = [by_port EXCEPT ![p] = None]
                /\ conn' = [conn EXCEPT ![c].pc = "index", ![c].flow = by_port[p].flow]
        /\ UNCHANGED <<now, by_5tuple, next_port, pump, free, gc, reused, calls>>

\* Faulty variant: the flow's entry is left behind.
CloseIndexKept(c) ==
    /\ conn[c].pc = "index"
    /\ conn' = [conn EXCEPT ![c] = IdleConn]
    /\ UNCHANGED <<now, by_port, by_5tuple, next_port, pump, free, gc, reused, calls>>

\* The second half: the flow's entry goes, whatever port it names by now.
CloseIndex(c) ==
    /\ conn[c].pc = "index"
    /\ by_5tuple' = [by_5tuple EXCEPT ![conn[c].flow] = None]
    /\ conn' = [conn EXCEPT ![c] = IdleConn]
    /\ UNCHANGED <<now, by_port, next_port, pump, free, gc, reused, calls>>

-----------------------------------------------------------------------------
(* purge_expired, called by the periodic task. *)

\* The clock is read once, before the iteration.
PurgeStart ==
    /\ gc.pc = "idle"
    /\ gc' = [IdleGc EXCEPT !.pc = "scan", !.now = now, !.todo = Ports]
    /\ UNCHANGED <<now, by_port, by_5tuple, next_port, pump, free, conn, reused, calls>>

\* The iteration comes to port p.
Scan(p) ==
    /\ gc.pc = "scan" /\ p \in gc.todo
    /\ LET due == by_port[p] # None /\ gc.now - by_port[p].seen > Timeout
       IN  gc' = [gc EXCEPT
                    !.todo = @ \ {p},
                    !.victims = IF due THEN @ \cup {[port |-> p, flow |-> by_port[p].flow]}
                                ELSE @]
    /\ UNCHANGED <<now, by_port, by_5tuple, next_port, pump, free, conn, reused, calls>>

\* A noted session is removed, used again in the meantime or not.
Purge(v) ==
    /\ gc.pc = "scan" /\ gc.todo = {} /\ v \in gc.victims
    /\ by_port' = [by_port EXCEPT ![v.port] = None]
    /\ gc' = [gc EXCEPT !.pc = "index", !.at = v]
    /\ UNCHANGED <<now, by_5tuple, next_port, pump, free, conn, reused, calls>>

PurgeIndex ==
    /\ gc.pc = "index"
    /\ by_5tuple' = [by_5tuple EXCEPT ![gc.at.flow] = None]
    /\ gc' = [gc EXCEPT !.pc = "scan", !.at = None, !.victims = @ \ {gc.at}]
    /\ UNCHANGED <<now, by_port, next_port, pump, free, conn, reused, calls>>

PurgeEnd ==
    /\ gc.pc = "scan" /\ gc.todo = {} /\ gc.victims = {}
    /\ gc' = IdleGc
    /\ UNCHANGED <<now, by_port, by_5tuple, next_port, pump, free, conn, reused, calls>>

\* Time passes.  The timeout is minutes long, so none passes between the two
\* insertions of a lookup.
Tick ==
    /\ now < MaxTime /\ pump.pc # "index"
    /\ now' = now + 1
    /\ UNCHANGED <<by_port, by_5tuple, next_port, pump, free, gc, conn, reused, calls>>

Next ==
    \/ \E f \in Flows : Lookup(f)
    \/ Check \/ Try \/ Exhausted \/ Index
    \/ \E c \in Conns : \/ Reply(c) \/ Close(c) \/ CloseIndex(c)
                        \/ \E p \in Ports : Accept(c, p)
    \/ PurgeStart \/ PurgeIndex \/ PurgeEnd
    \/ \E p \in Ports : Scan(p)
    \/ \E v \in gc.victims : Purge(v)
    \/ Tick

Spec == Init /\ [][Next]_vars

-----------------------------------------------------------------------------
(* Properties. *)

\* Types; every port in use is in PORT_RANGE_START ..= PORT_RANGE_END.
TypeOK ==
    /\ now \in Nat /\ calls \in Nat /\ reused \in BOOLEAN
    /\ by_port \in [Ports -> [flow : Flows, seen : Nat] \cup {None}]
    /\ by_5tuple \in [Flows -> Ports \cup {None}]
    /\ next_port \in 0 .. Width - 1
    /\ pump \in [pc : {"idle"}, flow : {None}, port : {None}, tries : {0}]
           \cup [pc : {"try"}, flow : Flows, port : {None}, tries : 0 .. Span]
           \cup [pc : {"check", "index"}, flow : Flows, port : Ports, tries : 0 .. Span]
    /\ free \in SUBSET Ports
    /\ gc \in [pc : {"idle", "scan"}, now : Nat, todo : SUBSET Ports,
               victims : SUBSET Victim, at : {None}]
         \cup [pc : {"index"}, now : Nat, todo : SUBSET Ports,
               victims : SUBSET Victim, at : Victim]
    /\ conn \in [Conns -> [pc : {"idle"}, port : {None}, flow : {None}]
                     \cup [pc : {"open", "index"}, port : Ports, flow : Flows]]

\* The session of port p, if it has one, is of flow f.
Leads(p, f) == by_port[p] # None => by_port[p].flow = f

\* lookup and lookup_back: as long as no port has been handed out while a task
\* still named it, a packet of a flow is only ever given a port that leads back
\* to this flow, also with a lookup in progress, and the packets of an accepted
\* connection go back to the client it was accepted from, while removals and
\* purges take the two maps apart one after the other.
NoCrossTalk ==
    ~reused =>
        /\ \A f \in Flows : by_5tuple[f] # None => Leads(by_5tuple[f], f)
        /\ pump.pc \in {"check", "index"} => Leads(pump.port, pump.flow)
        /\ \A c \in Conns : conn[c].pc # "idle" => Leads(conn[c].port, conn[c].flow)

\* A removal of flow f's entry for port p is half done.
Removing(f, p) ==
    \/ gc.pc = "index" /\ gc.at = [port |-> p, flow |-> f]
    \/ \E c \in Conns : conn[c] = [pc |-> "index", port |-> p, flow |-> f]

\* remove_by_port and purge_expired clear both maps: under the same condition,
\* a flow's entry names a port without a session only while the task that
\* removed the session has yet to remove the entry.  No entry stays behind.
NoneLeftBehind ==
    ~reused => \A f \in Flows : LET p == by_5tuple[f]
                                IN  p # None /\ by_port[p] = None => Removing(f, p)

\* tcp_nat.rs:89: None says that the range of ports is exhausted.
ExhaustedOnlyWhenFull ==
    [][pump.pc = "try" /\ pump.tries = Span /\ pump'.pc = "idle" => free = {}]_vars
=============================================================================
