----------------------------- MODULE DnsLookup -----------------------------
(***************************************************************************)
(* An address lookup of the resolver: Resolver::lookup_via_qtype over the  *)
(* optimistic DnsCache, the Singleflight that coalesces misses, and the    *)
(* background tasks of spawn_refresh (crate core-resolver).  Clients are   *)
(* the callers, on different worker threads; a step is one access to the   *)
(* shared maps, or one await.                                              *)
(***************************************************************************)
EXTENDS Integers, FiniteSets, SequencesExt

CONSTANTS
    Clients,     \* concurrent callers
    Keys,        \* (host, qtype) pairs
    Opts,        \* query options: [group, nocache, optimistic, ttl]
    None,        \* no slot, no flight, no failure, no waiter
    MaxRefresh,  \* bound: refresh tasks that run at the same time
    Grace, Threshold, Recheck, NegativeTtl, MaxEntries,  \* CacheConfig
    Faults,      \* what may happen besides lookups: "cancel", "network", "reject"
    MaxCalls,    \* bound: lookups
    MaxTime      \* bound: clock ticks

ASSUME DnsAssumption ==
    /\ {Grace, Threshold, Recheck, NegativeTtl, MaxCalls, MaxTime} \subseteq Nat
    /\ {MaxRefresh, MaxEntries} \subseteq Nat \ {0}
    /\ Faults \subseteq {"cancel", "network", "reject"}
    /\ \A o \in Opts : o.nocache \in BOOLEAN /\ o.optimistic \in BOOLEAN /\ o.ttl \in Nat
    /\ None \notin Clients

VARIABLES
    now,      \* the clock
    cache,    \* DnsCache.inner
    lru,      \* its keys by last_used, oldest first
    flights,  \* Singleflight.flights: the leader of the key's flight
    c,        \* the lookups in progress
    r,        \* the refresh tasks and the tickets they hold
    calls

vars == <<now, cache, lru, flights, c, r, calls>>

Tasks == 1 .. MaxRefresh
Groups == {o.group : o \in Opts}

\* An answer is the group that gave it; Empty stands for the empty list of a
\* negative entry.  A query may also end in an error of the upstream, or in a
\* flight whose sender was dropped.
Empty == "empty"
Failed == "failed"
Dropped == "dropped"
Answer == Groups \cup {Empty}

AnOpt == CHOOSE o \in Opts : TRUE
AKey == CHOOSE k \in Keys : TRUE

\* kind is the outcome of the last lookup; ips is the answer it holds.
IdleClient == [pc |-> "idle", key |-> AKey, opts |-> AnOpt, ips |-> Empty,
               leader |-> None, kind |-> "live"]
IdleTask == [pc |-> "idle", key |-> AKey, opts |-> AnOpt, own |-> FALSE,
             waiter |-> None, ips |-> Empty]

Init ==
    /\ now = 0
    /\ cache = [k \in Keys |-> None]
    /\ lru = <<>>
    /\ flights = [k \in Keys |-> None]
    /\ c = [x \in Clients |-> IdleClient]
    /\ r = [t \in Tasks |-> IdleTask]
    /\ calls = 0

-----------------------------------------------------------------------------
(* The cache. *)

NewSlot(ips, ttl) ==
    [ips |-> ips, expire |-> now + ttl, prefetching |-> FALSE, failed |-> None]

refresh_allowed(s) ==
    ~s.prefetching /\ (s.failed = None \/ now - s.failed >= Recheck)

Fresh(s) == now < s.expire
Stale(s) == ~Fresh(s) /\ now < s.expire + Grace

Touch(k) == Append(Remove(lru, k), k)

\* The flag and the failure time of a slot live as long as its ticket; once
\* the slot has left the cache nobody but the ticket can see them.
Orphan(tasks, ks) ==
    [t \in Tasks |-> IF tasks[t].key \in ks THEN [tasks[t] EXCEPT !.own = FALSE]
                     ELSE tasks[t]]

\* Faulty variant: put forgets when the entry was used.
PutUnused(k, ips, ttl, tasks) ==
    /\ cache' = [cache EXCEPT ![k] = NewSlot(ips, ttl)]
    /\ lru' = lru
    /\ r' = Orphan(tasks, {k})

\* DnsCache.put, up to its check of the size.
Put(k, ips, ttl, tasks) ==
    /\ cache' = [cache EXCEPT ![k] = NewSlot(ips, ttl)]
    /\ lru' = Touch(k)
    /\ r' = Orphan(tasks, {k})

\* The size check of put, and evict_lru: down to nine tenths, oldest first.
Evict(tasks) ==
    LET n == Len(lru)
        gone == IF n > MaxEntries THEN n - (MaxEntries * 9) \div 10 ELSE 0
        out == {lru[i] : i \in 1 .. gone}
    IN  /\ cache' = [k \in Keys |-> IF k \in out THEN None ELSE cache[k]]
        /\ lru' = SubSeq(lru, gone + 1, n)
        /\ r' = Orphan(tasks, out)

\* put_negative, for a name that a rule rejects.
put_negative(k) ==
    /\ cache' = [cache EXCEPT ![k] = NewSlot(Empty, NegativeTtl)]
    /\ lru' = Touch(k)
    /\ r' = Orphan(r, {k})

-----------------------------------------------------------------------------
(* lookup_via_qtype. *)

Go(x, f) == c' = [c EXCEPT ![x] = f]
To(x, pc) == Go(x, [c[x] EXCEPT !.pc = pc])

\* A lookup returns: an empty list is a rejection.
Return(cl, kind, ips) ==
    [cl EXCEPT !.pc = "done", !.key = AKey, !.ips = ips, !.leader = None,
               !.kind = IF ips \in {Failed, Dropped} THEN "failed"
                        ELSE IF ips = Empty THEN "rejected" ELSE kind]

\* get takes the ticket of slot k and spawn_refresh starts the task.
StartRefresh(k, o, waiter) ==
    LET idle == {t \in Tasks : r[t].pc = "idle"}
    IN  /\ idle # {}
        /\ cache' = [cache EXCEPT ![k].prefetching = TRUE]
        /\ r' = [r EXCEPT ![CHOOSE t \in idle : TRUE] =
                   [pc |-> "query", key |-> k, opts |-> o, own |-> TRUE,
                    waiter |-> waiter, ips |-> Empty]]

\* The cache part: a hit returns, a stale hit with the ticket waits for the
\* refresh, everything else goes on to the flight.
Lookup(x, k, o) ==
    /\ c[x].pc \in {"idle", "done"}
    /\ calls < MaxCalls
    /\ calls' = calls + 1
    /\ LET s == cache[k]
           cl == [IdleClient EXCEPT !.key = k, !.opts = o]
       IN  \/ /\ o.nocache \/ s = None
              /\ Go(x, [cl EXCEPT !.pc = "join"])
              /\ UNCHANGED <<cache, lru, r>>
           \/ /\ ~o.nocache /\ s # None
              /\ lru' = Touch(k)
              /\ \/ /\ Fresh(s)
                    /\ Go(x, Return(cl, "live", s.ips))
                    /\ IF s.expire - now < Threshold /\ refresh_allowed(s)
                       THEN StartRefresh(k, o, None)
                       ELSE UNCHANGED <<cache, r>>
                 \/ /\ Stale(s) /\ o.optimistic
                    /\ IF refresh_allowed(s)
                       THEN /\ Go(x, [cl EXCEPT !.pc = "wait", !.ips = s.ips])
                            /\ StartRefresh(k, o, x)
                       ELSE /\ Go(x, Return(cl, "stale", s.ips))
                            /\ UNCHANGED <<cache, r>>
                 \/ /\ Stale(s) /\ ~o.optimistic
                    /\ Go(x, [cl EXCEPT !.pc = "join"])
                    /\ UNCHANGED <<cache, r>>
                 \/ /\ ~Fresh(s) /\ ~Stale(s)
                    /\ Go(x, [cl EXCEPT !.pc = "remove"])
                    /\ UNCHANGED <<cache, r>>
    /\ UNCHANGED <<now, flights>>

\* get lets go of the expired slot before it removes the key.
RemoveExpired(x) ==
    /\ c[x].pc = "remove"
    /\ cache' = [cache EXCEPT ![c[x].key] = None]
    /\ lru' = Remove(lru, c[x].key)
    /\ r' = Orphan(r, {c[x].key})
    /\ To(x, "join")
    /\ UNCHANGED <<now, flights, calls>>

\* client_response_timeout: the stale answer is served, the refresh goes on.
ResponseTimeout(x) ==
    /\ c[x].pc = "wait"
    /\ Go(x, Return(c[x], "stale", c[x].ips))
    /\ r' = [t \in Tasks |-> IF r[t].waiter = x THEN [r[t] EXCEPT !.waiter = None]
                             ELSE r[t]]
    /\ UNCHANGED <<now, cache, lru, flights, calls>>

\* Faulty variant: every miss starts a flight of its own.
JoinAlone(x) ==
    /\ c[x].pc = "join"
    /\ flights' = [flights EXCEPT ![c[x].key] = x]
    /\ Go(x, [c[x] EXCEPT !.pc = "query"])
    /\ UNCHANGED <<now, cache, lru, r, calls>>

\* do_once: subscribe to the flight of the key, or lead a new one.
Join(x) ==
    /\ c[x].pc = "join"
    /\ LET leader == flights[c[x].key]
       IN  \/ /\ leader # None
              /\ Go(x, [c[x] EXCEPT !.pc = "joined", !.leader = leader])
              /\ UNCHANGED flights
           \/ /\ leader = None
              /\ flights' = [flights EXCEPT ![c[x].key] = x]
              /\ Go(x, [c[x] EXCEPT !.pc = "query"])
    /\ UNCHANGED <<now, cache, lru, r, calls>>

\* The leader's query ends: the asked group answers, or fails.
Answered(x) ==
    /\ c[x].pc = "query"
    /\ \E ips \in {c[x].opts.group, Failed} : Go(x, [c[x] EXCEPT !.pc = "send", !.ips = ips])
    /\ UNCHANGED <<now, cache, lru, flights, r, calls>>

Joined(x) == {y \in Clients : c[y].pc = "joined" /\ c[y].leader = x}

\* Those who joined the flight of x receive ips; x itself goes on to pc.
Deliver(x, ips, pc) ==
    c' = [y \in Clients |->
            IF y \in Joined(x) THEN [c[y] EXCEPT !.pc = "got", !.ips = ips, !.leader = None]
            ELSE IF y = x THEN [c[x] EXCEPT !.pc = pc]
            ELSE c[y]]

\* Faulty variant: the send waits for ever.
SendLost(x) ==
    /\ c[x].pc = "send"
    /\ Go(x, [c[x] EXCEPT !.pc = "send"])
    /\ UNCHANGED <<now, cache, lru, flights, r, calls>>

\* tx.send: whoever has subscribed by now receives the result.
Send(x) ==
    /\ c[x].pc = "send"
    /\ Deliver(x, c[x].ips, "release")
    /\ UNCHANGED <<now, cache, lru, flights, r, calls>>

\* do_once returns: FlightGuard removes the key and the last senders are
\* dropped, which fails whoever subscribed after the send.
Release(x) ==
    /\ c[x].pc = "release"
    /\ flights' = [flights EXCEPT ![c[x].key] = None]
    /\ Deliver(x, Dropped, "got")
    /\ UNCHANGED <<now, cache, lru, r, calls>>

\* Every caller of do_once, leader or not, stores what it received.
Store(x) ==
    /\ c[x].pc = "got"
    /\ IF c[x].ips \in {Failed, Dropped} \/ c[x].opts.nocache
       THEN /\ Go(x, Return(c[x], "live", c[x].ips))
            /\ UNCHANGED <<cache, lru, r>>
       ELSE /\ Put(c[x].key, c[x].ips, c[x].opts.ttl, r)
            /\ To(x, "evict")
    /\ UNCHANGED <<now, flights, calls>>

\* Faulty variant: put does not look at the size.
StoredUnbounded(x) ==
    /\ c[x].pc = "evict"
    /\ Go(x, Return(c[x], "live", c[x].ips))
    /\ UNCHANGED <<now, cache, lru, r, flights, calls>>

Stored(x) ==
    /\ c[x].pc = "evict"
    /\ Evict(r)
    /\ Go(x, Return(c[x], "live", c[x].ips))
    /\ UNCHANGED <<now, flights, calls>>

\* The caller drops the lookup at an await.  A leader's guard ends the flight.
Cancel(x) ==
    /\ "cancel" \in Faults
    /\ c[x].pc \in {"wait", "query", "joined"}
    /\ IF c[x].pc = "query"
       THEN /\ flights' = [flights EXCEPT ![c[x].key] = None]
            /\ c' = [y \in Clients |->
                       IF y \in Joined(x)
                       THEN [c[y] EXCEPT !.pc = "got", !.ips = Dropped, !.leader = None]
                       ELSE IF y = x THEN IdleClient ELSE c[y]]
       ELSE Go(x, IdleClient) /\ UNCHANGED flights
    /\ r' = [t \in Tasks |-> IF r[t].waiter = x THEN [r[t] EXCEPT !.waiter = None]
                             ELSE r[t]]
    /\ UNCHANGED <<now, cache, lru, calls>>

-----------------------------------------------------------------------------
(* spawn_refresh. *)

\* Faulty variant: the query of a refresh has no timeout.
RefreshedLost(t) ==
    /\ r[t].pc = "query"
    /\ UNCHANGED vars

\* The query of a refresh ends.  A failure is noted in the ticket's slot.
Refreshed(t) ==
    /\ r[t].pc = "query"
    /\ \/ /\ r' = [r EXCEPT ![t].pc = "put", ![t].ips = r[t].opts.group]
          /\ UNCHANGED cache
       \/ /\ r' = [r EXCEPT ![t].pc = "notify", ![t].ips = Failed]
          /\ cache' = IF r[t].own THEN [cache EXCEPT ![r[t].key].failed = now] ELSE cache
    /\ UNCHANGED <<now, lru, flights, c, calls>>

RefreshPut(t) ==
    /\ r[t].pc = "put"
    /\ Put(r[t].key, r[t].ips, r[t].opts.ttl, [r EXCEPT ![t].pc = "evict"])
    /\ UNCHANGED <<now, flights, c, calls>>

RefreshEvict(t) ==
    /\ r[t].pc = "evict"
    /\ Evict([r EXCEPT ![t].pc = "notify"])
    /\ UNCHANGED <<now, flights, c, calls>>

\* Faulty variant: the ticket of a failed refresh is forgotten, not dropped.
RefreshEndLeaks(t) ==
    /\ r[t].pc = "notify"
    /\ r' = [r EXCEPT ![t] = IdleTask]
    /\ IF r[t].waiter # None
       THEN LET x == r[t].waiter
                bad == r[t].ips = Failed
            IN  Go(x, Return(c[x], IF bad THEN "stale" ELSE "live",
                             IF bad THEN c[x].ips ELSE r[t].ips))
       ELSE UNCHANGED c
    /\ UNCHANGED <<now, cache, lru, flights, calls>>

\* Faulty variant: the waiting lookup returns the error of the refresh.
RefreshEndFails(t) ==
    /\ r[t].pc = "notify"
    /\ r' = [r EXCEPT ![t] = IdleTask]
    /\ cache' = IF r[t].own THEN [cache EXCEPT ![r[t].key].prefetching = FALSE] ELSE cache
    /\ IF r[t].waiter # None
       THEN LET x == r[t].waiter IN Go(x, Return(c[x], "live", r[t].ips))
       ELSE UNCHANGED c
    /\ UNCHANGED <<now, lru, flights, calls>>

\* The waiting lookup, if there still is one, takes a fresh answer or serves
\* the stale one; the ticket is dropped.
RefreshEnd(t) ==
    /\ r[t].pc = "notify"
    /\ r' = [r EXCEPT ![t] = IdleTask]
    /\ cache' = IF r[t].own THEN [cache EXCEPT ![r[t].key].prefetching = FALSE] ELSE cache
    /\ IF r[t].waiter # None
       THEN LET x == r[t].waiter
                bad == r[t].ips = Failed
            IN  Go(x, Return(c[x], IF bad THEN "stale" ELSE "live",
                             IF bad THEN c[x].ips ELSE r[t].ips))
       ELSE UNCHANGED c
    /\ UNCHANGED <<now, lru, flights, calls>>

-----------------------------------------------------------------------------
(* The surroundings. *)

\* A reject rule answers the name and leaves a negative entry.
Reject(k) ==
    /\ "reject" \in Faults
    /\ calls < MaxCalls
    /\ calls' = calls + 1
    /\ put_negative(k)
    /\ UNCHANGED <<now, flights, c>>

\* The network changes and the cache is cleared; queries under way go on.
reset_connections ==
    /\ "network" \in Faults
    /\ cache' = [k \in Keys |-> None]
    /\ lru' = <<>>
    /\ r' = Orphan(r, Keys)
    /\ UNCHANGED <<now, flights, c, calls>>

Tick ==
    /\ now < MaxTime
    /\ now' = now + 1
    /\ UNCHANGED <<cache, lru, flights, c, r, calls>>

ClientStep(x) ==
    \/ RemoveExpired(x) \/ ResponseTimeout(x) \/ Join(x) \/ Answered(x)
    \/ Send(x) \/ Release(x) \/ Store(x) \/ Stored(x)

TaskStep(t) == Refreshed(t) \/ RefreshPut(t) \/ RefreshEvict(t) \/ RefreshEnd(t)

Next ==
    \/ \E x \in Clients : ClientStep(x) \/ Cancel(x)
    \/ \E x \in Clients, k \in Keys, o \in Opts : Lookup(x, k, o)
    \/ \E t \in Tasks : TaskStep(t)
    \/ \E k \in Keys : Reject(k)
    \/ reset_connections \/ Tick

Spec == Init /\ [][Next]_vars

\* Every spawned or awaited future is polled again; an upstream query ends
\* because DnsGroup wraps it in a timeout.
FairSpec ==
    /\ Spec
    /\ \A x \in Clients : WF_vars(ClientStep(x))
    /\ \A t \in Tasks : WF_vars(TaskStep(t))

-----------------------------------------------------------------------------
(* Properties. *)

Slot == [ips : Answer, expire : Nat, prefetching : BOOLEAN, failed : Nat \cup {None}]

\* Types of the state.
TypeOK ==
    /\ now \in 0 .. MaxTime
    /\ \A k \in Keys : cache[k] = None \/ cache[k] \in Slot
    /\ flights \in [Keys -> Clients \cup {None}]
    /\ \A x \in Clients :
          /\ c[x].pc \in {"idle", "wait", "remove", "join", "joined", "query", "send",
                          "release", "got", "evict", "done"}
          /\ c[x].ips \in Answer \cup {Failed, Dropped}
          /\ c[x].leader \in Clients \cup {None}
    /\ \A t \in Tasks :
          /\ r[t].pc \in {"idle", "query", "put", "evict", "notify"}
          /\ r[t].waiter \in Clients \cup {None}
    /\ lru \in Seq(Keys)
    /\ ToSet(lru) = {k \in Keys : cache[k] # None} /\ IsInjective(lru)

\* A slot that says a refresh is running has exactly one task that holds its
\* ticket, and no task holds the ticket of a slot that does not say so: a
\* flag left behind would switch off the refresh of the name for good.
FlagHasOneTicket ==
    \A k \in Keys :
        LET owners == {t \in Tasks : r[t].pc # "idle" /\ r[t].key = k /\ r[t].own}
        IN  Cardinality(owners) = (IF cache[k] # None /\ cache[k].prefetching THEN 1 ELSE 0)

\* A flight in the map is led by exactly one lookup that is still between its
\* query and its release, and whoever joined waits for that one: a coalesced
\* lookup never waits for a sender that is gone, and one miss at a time asks
\* the upstream (FlightGuard of do_once).
FlightIsLed ==
    \A k \in Keys :
        LET leaders == {x \in Clients : c[x].key = k /\ c[x].pc \in {"query", "send", "release"}}
        IN  /\ leaders = IF flights[k] = None THEN {} ELSE {flights[k]}
            /\ \A x \in Clients : c[x].pc = "joined" /\ c[x].key = k => c[x].leader \in leaders

\* Lookups keep the answers in the cache at the limit, but for the puts that have
\* not come to their size check yet (put and evict_lru).  Negative entries are
\* beside the limit: put_negative does not check the size.
SizeBounded ==
    Cardinality({k \in Keys : cache[k] # None /\ cache[k].ips # Empty})
        <= MaxEntries + Cardinality({x \in Clients : c[x].pc = "evict"})
                      + Cardinality({t \in Tasks : r[t].pc = "evict"})

\* A lookup that waits with a stale answer in hand returns an answer, whatever
\* becomes of the refresh, unless its caller drops it (lookup_via_qtype).
StaleNeverFails ==
    [][\A x \in Clients : c[x].pc = "wait" /\ c[x].ips # Empty /\ c'[x].pc = "done" =>
          c'[x].kind \in {"live", "stale"}]_vars

\* Every lookup returns.
LookupsReturn ==
    \A x \in Clients : (c[x].pc \notin {"idle", "done"}) ~> (c[x].pc \in {"idle", "done"})

\* Every ticket is given back, so that a later lookup can refresh the name.
TicketsReturn ==
    \A k \in Keys : (cache[k] # None /\ cache[k].prefetching)
                    ~> (cache[k] = None \/ ~cache[k].prefetching)

\* The comment in evaluate_no_match_falls_through_to_default: a rule with
\* nocache does not affect the answers of the rules that follow, that is, an
\* answer comes from the group that was asked.
AnsweredByAskedGroup ==
    \A x \in Clients : c[x].pc = "done" /\ c[x].kind = "live" =>
        c[x].ips = c[x].opts.group
=============================================================================
