------------------------------- MODULE FakeIp -------------------------------
(***************************************************************************)
(* The Fake-IP pool (FakeIpPool of crate core-resolver): alloc, the walk   *)
(* of next_v4_addr, the reverse table and its renewal by insert_mapping,   *)
(* and clear.  Threads are DNS requests on different workers; a step is    *)
(* one access to one of the two maps or to the cursor.  Addresses are      *)
(* offsets into the CIDR: 0 is the network, Size + 1 the broadcast.        *)
(***************************************************************************)
EXTENDS Integers, FiniteSetsExt

CONSTANTS
    Threads, Hosts, None,
    Size,      \* usable addresses of the pool
    Avoid,     \* addresses inside networks that are not handed out
    Ttl,       \* FakeIpConfig.ttl
    MapTtl,    \* TTL of the answer, used when the answer is mapped
    Mapped,    \* TRUE in it: requests through ResolverMiddleware, which maps; FALSE
               \* in it: requests through FakeIpMiddleware or DnsService
    Flush,     \* whether /cache/fakeip/flush is called
    MaxTime,   \* bound: clock ticks
    MaxCalls   \* bound: requests

ASSUME FakeIpAssumption ==
    /\ Size \in Nat \ {0} /\ Avoid \subseteq 1 .. Size
    /\ {Ttl, MapTtl, MaxTime, MaxCalls} \subseteq Nat
    /\ Mapped \subseteq BOOLEAN /\ Flush \in BOOLEAN
    /\ None \notin Hosts

VARIABLES
    now,
    forward,   \* host -> [ip, expire], or None
    reverse,   \* ip -> [host, expire], or None
    next_v4,   \* the cursor
    wrapped,   \* TRUE: the cursor has gone past the last address (a ghost)
    flushing,  \* clear has emptied forward and not yet reverse
    t,         \* the requests
    calls

cursor == <<next_v4, wrapped>>
vars == <<now, forward, reverse, cursor, flushing, t, calls>>

Pool == 1 .. Size
IdleThread == [pc |-> "idle", host |-> None, ip |-> 0]

Init ==
    /\ now = 0
    /\ forward = [h \in Hosts |-> None]
    /\ reverse = [ip \in Pool |-> None]
    /\ next_v4 = 1 /\ wrapped = FALSE
    /\ flushing = FALSE
    /\ t = [x \in Threads |-> IdleThread]
    /\ calls = 0

Live(e) == e # None /\ e.expire > now

\* Faulty variant: avoided networks are not looked at.
AcceptAvoided(ip) == reverse[ip] = None

is_acceptable(ip) == reverse[ip] = None /\ ip \notin Avoid

\* Faulty variant: the walk stops at the last address instead of wrapping.
CandidateNoWrap(i) == Min({next_v4 + i, Size})

\* The address of the walk's i-th try: past the last address it wraps to the
\* first one behind the network address.
Candidate(i) == ((next_v4 - 1 + i) % Size) + 1

\* tries <= span
Tries == 0 .. Size

-----------------------------------------------------------------------------
\* alloc: a live entry is renewed in the forward table and returned.
Alloc(x, h) ==
    /\ t[x].pc = "idle" /\ calls < MaxCalls
    /\ calls' = calls + 1
    /\ IF Live(forward[h])
       THEN /\ forward' = [forward EXCEPT ![h].expire = now + Ttl]
            /\ t' = [t EXCEPT ![x] = [pc |-> "map", host |-> h, ip |-> forward[h].ip]]
       ELSE /\ t' = [t EXCEPT ![x] = [pc |-> "new", host |-> h, ip |-> 0]]
            /\ UNCHANGED forward
    /\ UNCHANGED <<now, reverse, cursor, flushing>>

\* Faulty variant: the cursor is read, and moved only by the next request.
AllocateUnlocked(x) ==
    /\ t[x].pc = "new"
    /\ LET good == {i \in Tries : is_acceptable(Candidate(i))}
       IN  /\ good # {}
           /\ next_v4' = Candidate(Min(good)) /\ UNCHANGED wrapped
           /\ t' = [t EXCEPT ![x].pc = "forward", ![x].ip = Candidate(Min(good))]
    /\ UNCHANGED <<now, forward, reverse, flushing, calls>>

\* allocate_new, under the lock of the cursor: the first acceptable address,
\* or none after a whole round.
AllocateNew(x) ==
    /\ t[x].pc = "new"
    /\ LET good == {i \in Tries : is_acceptable(Candidate(i))}
           last == IF good = {} THEN Max(Tries) ELSE Min(good)
       IN  /\ next_v4' = Candidate(last) + 1
           /\ wrapped' = (wrapped \/ next_v4 + last > Size)
           /\ t' = IF good = {} THEN [t EXCEPT ![x].pc = "none"]
                   ELSE [t EXCEPT ![x].pc = "forward", ![x].ip = Candidate(last)]
    /\ UNCHANGED <<now, forward, reverse, flushing, calls>>

InsertForward(x) ==
    /\ t[x].pc = "forward"
    /\ forward' = [forward EXCEPT ![t[x].host] = [ip |-> t[x].ip, expire |-> now + Ttl]]
    /\ t' = [t EXCEPT ![x].pc = "reverse"]
    /\ UNCHANGED <<now, reverse, cursor, flushing, calls>>

InsertReverse(x) ==
    /\ t[x].pc = "reverse"
    /\ reverse' = [reverse EXCEPT ![t[x].ip] = [host |-> t[x].host, expire |-> now + Ttl]]
    /\ t' = [t EXCEPT ![x].pc = "map"]
    /\ UNCHANGED <<now, forward, cursor, flushing, calls>>

\* The request answers.  ResolverMiddleware maps what it answers, and a Fake
\* address counts as global unicast; FakeIpMiddleware and DnsService do not.
Answer(x, mapped) ==
    /\ t[x].pc = "map"
    /\ reverse' = IF mapped
                  THEN [reverse EXCEPT ![t[x].ip] =
                          [host |-> t[x].host, expire |-> now + Max({MapTtl, 1})]]
                  ELSE reverse
    /\ t' = [t EXCEPT ![x].pc = "done"]
    /\ UNCHANGED <<now, forward, cursor, flushing, calls>>

\* The response has left.
Finish(x) ==
    /\ t[x].pc \in {"done", "none"}
    /\ t' = [t EXCEPT ![x] = IdleThread]
    /\ UNCHANGED <<now, forward, reverse, cursor, flushing, calls>>

\* clear, one table after the other.
ClearForward ==
    /\ Flush /\ ~flushing /\ calls < MaxCalls
    /\ calls' = calls + 1
    /\ forward' = [h \in Hosts |-> None]
    /\ flushing' = TRUE
    /\ UNCHANGED <<now, reverse, cursor, t>>

ClearReverse ==
    /\ flushing
    /\ reverse' = [ip \in Pool |-> None]
    /\ flushing' = FALSE
    /\ UNCHANGED <<now, forward, cursor, t, calls>>

Tick ==
    /\ now < MaxTime
    /\ now' = now + 1
    /\ UNCHANGED <<forward, reverse, cursor, flushing, t, calls>>

Next ==
    \/ \E x \in Threads, h \in Hosts : Alloc(x, h)
    \/ \E x \in Threads : \/ AllocateNew(x) \/ InsertForward(x) \/ InsertReverse(x)
                          \/ Finish(x) \/ \E mapped \in Mapped : Answer(x, mapped)
    \/ ClearForward \/ ClearReverse \/ Tick

Spec == Init /\ [][Next]_vars

-----------------------------------------------------------------------------
(* Properties. *)

\* Types; an address that is held or stored is one of the pool that no
\* avoided network covers (is_acceptable).
TypeOK ==
    LET usable == Pool \ Avoid
    IN  /\ now \in 0 .. MaxTime /\ flushing \in BOOLEAN /\ calls \in 0 .. MaxCalls
        /\ next_v4 \in 1 .. Size + 1 /\ wrapped \in BOOLEAN
        /\ \A h \in Hosts : forward[h] = None \/ forward[h] \in [ip : usable, expire : Nat]
        /\ \A ip \in Pool : reverse[ip] = None \/ reverse[ip] \in [host : Hosts, expire : Nat]
        /\ t \in [Threads -> [pc : {"idle", "new", "none"}, host : Hosts \cup {None}, ip : {0}]
                  \cup [pc : {"forward", "reverse", "map", "done"}, host : Hosts, ip : usable]]

\* lookup: the name that a live reverse entry gives for an address, or None.
Lookup(ip) == IF Live(reverse[ip]) THEN reverse[ip].host ELSE None

\* Until the cursor first goes round the pool, connecting to an address that the
\* pool still gives out for a host never leads to another host, whatever requests
\* and flushes interleave (alloc writes two tables without a lock).  Afterwards
\* it can: a walk skips what is stored, not what another request has picked.
NeverAnotherHost ==
    ~wrapped => \A h \in Hosts : Live(forward[h]) => Lookup(forward[h].ip) \in {h, None}

\* The pool is reported as exhausted only if no address is left, wherever the
\* cursor stands (bounds of the walk in next_v4_addr).
NoneOnlyWhenFull ==
    [][\A x \in Threads : t[x].pc = "new" /\ t'[x].pc = "none" =>
          \A ip \in Pool : ~is_acceptable(ip)]_vars

\* fake_ip.rs:4: a connection is led back from the address to the name.  A
\* renewal of the forward entry alone breaks it.
ForwardIsReversible ==
    \A h \in Hosts : Live(forward[h]) /\ (\A x \in Threads : t[x].pc \notin {"reverse", "map"})
                     /\ ~flushing => Lookup(forward[h].ip) = h
=============================================================================
