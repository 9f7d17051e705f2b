------------------------------ MODULE GroupPin ------------------------------
(***************************************************************************)
(* The pin of one policy group of core-runtime: the user's persistent      *)
(* choice of a node, kept in the published GroupSelector and in the store. *)
(*                                                                         *)
(* API handlers (set_group_pin, clear_group_pin and the manual group       *)
(* delay test) serialise on group_pin_lock.  A feed refresh               *)
(* (apply_feed_nodes) takes a different lock and replaces the selector of  *)
(* a feed-backed group with a fresh one.  The process may stop and be      *)
(* started again from the store.                                           *)
(*                                                                         *)
(* A step of a handler ends where the code awaits, or where another thread *)
(* can observe or replace what it read.                                    *)
(***************************************************************************)
EXTENDS Naturals, Sequences

CONSTANTS
    Nodes,       \* node names
    Callers,     \* API handler tasks
    None,        \* Option::None
    Manual,      \* TRUE: the group's strategy is ChooseStrategy::Manual
    Faults,      \* which of "error", "cancel", "crash", "refresh" can happen
    MaxSets,     \* bound: set_group_pin requests
    MaxRefresh   \* bound: selectors published by one process

\* A pin.  gen is GroupPin.generation; id is a ghost, the request that chose it.
Pin == [node : Nodes, gen : Nat, id : Nat]

ASSUME PinAssumption ==
    /\ None \notin Nodes
    /\ None \notin Pin
    /\ None \notin [members : SUBSET Nodes, pin : Pin \cup {None}]
    /\ Manual \in BOOLEAN
    /\ MaxSets \in Nat
    /\ MaxRefresh \in Nat

Selectors == 0..MaxRefresh

VARIABLES
    sel,       \* the GroupSelectors of this process: members, pin, pin_generation
    cur,       \* the selector the ArcSwap publishes
    row,       \* GROUP_PIN row of the store
    legacy,    \* GROUP_MANUAL row of the store (v0.3.4 and earlier)
    queue,     \* group_pin_lock: FIFO of callers, the head owns the lock
    h,         \* the handlers: where they are and their locals
    refresh,   \* apply_feed_nodes in progress: members and old_pin it read
    issued     \* set requests so far

vars == <<sel, cur, row, legacy, queue, h, refresh, issued>>

store == <<row, legacy>>

Option(S) == S \cup {None}

(***************************************************************************)
(* Selectors and start-up                                                  *)
(***************************************************************************)
\* GroupSelector::with_options, then restore_pin when there is an old pin.
NewSelector(members, pin) ==
    [members |-> members, pin |-> pin, gen |-> IF pin = None THEN 0 ELSE pin.gen]

\* What build_with restores: the GROUP_PIN row, else the legacy row.
BootPin ==
    IF row # None THEN row
    ELSE IF legacy # None THEN [node |-> legacy, gen |-> 1, id |-> 0]
    ELSE None

\* A handler that is not running.  Its locals: the request (op, and arg, the
\* pin a set asks for, its gen still 0), tok, the pin a manual probe saw when it
\* began, on, the selector cloned under the lock, and prev, the previous pin.
Idle == [pc |-> "idle", op |-> "clear", arg |-> None, tok |-> None, on |-> 0, prev |-> None]

\* A handler whose future was dropped inside a transaction.
Gone == [Idle EXCEPT !.pc = "gone"]

\* The first start, on a store an older version may have left a row in.
Init ==
    /\ row = None
    /\ legacy \in Option(Nodes)
    /\ issued = 0
    /\ cur = 0
    /\ sel = [s \in Selectors |-> NewSelector(Nodes, BootPin)]
    /\ queue = << >>
    /\ h = [c \in Callers |-> Idle]
    /\ refresh = None

(***************************************************************************)
(* API requests, up to the group_pin_lock                                  *)
(***************************************************************************)
\* The handler's locals become r and it waits for the lock.
Enqueue(c, r) ==
    /\ h' = [h EXCEPT ![c] = [r EXCEPT !.pc = "queued"]]
    /\ queue' = Append(queue, c)

\* Faulty variant: an empty name is pinned.
CallSetEmpty(c, n) ==
    /\ h[c].pc = "idle"
    /\ issued < MaxSets
    /\ issued' = issued + 1
    /\ Enqueue(c, [h[c] EXCEPT !.op = "set",
                               !.arg = [node |-> None, gen |-> 0, id |-> issued + 1]])
    /\ UNCHANGED <<sel, cur, store, refresh>>

\* set_group_pin with a node name.
CallSet(c, n) ==
    /\ h[c].pc = "idle"
    /\ issued < MaxSets
    /\ issued' = issued + 1
    /\ Enqueue(c, [h[c] EXCEPT !.op = "set",
                               !.arg = [node |-> n, gen |-> 0, id |-> issued + 1]])
    /\ UNCHANGED <<sel, cur, store, refresh>>

\* clear_group_pin (also set_group_pin with an empty name).
CallClear(c) ==
    /\ h[c].pc = "idle"
    /\ Enqueue(c, [h[c] EXCEPT !.op = "clear"])
    /\ UNCHANGED <<sel, cur, store, refresh, issued>>

\* The manual group delay test begins: begin_manual_probe on the published
\* selector, without the lock.
BeginManualProbe(c) ==
    /\ h[c].pc = "idle"
    /\ h' = [h EXCEPT ![c] = [@ EXCEPT !.pc = "probing", !.op = "release",
                                       !.tok = sel[cur].pin]]
    /\ UNCHANGED <<sel, cur, store, queue, refresh, issued>>

\* The members have been probed; any_success says whether one answered.  The
\* handler calls complete_group_manual_probe; without a success, or for a
\* Manual group, its token can release nothing and is forgotten here.
ProbesDone(c, any_success) ==
    /\ h[c].pc = "probing"
    /\ Enqueue(c, [h[c] EXCEPT !.tok = IF any_success /\ ~Manual THEN @ ELSE None])
    /\ UNCHANGED <<sel, cur, store, refresh, issued>>

(***************************************************************************)
(* Under the lock                                                          *)
(***************************************************************************)
Owns(c) == queue # << >> /\ Head(queue) = c

\* The handler ends as r: its locals go and its lock guard is dropped.
Leave(c, r) ==
    /\ h' = [h EXCEPT ![c] = r]
    /\ queue' = Tail(queue)

Return(c) == Leave(c, Idle)

\* Clone the published selector.  A set refuses a node that is not a member.
Load(c) ==
    /\ h[c].pc = "queued" /\ Owns(c)
    /\ IF h[c].op = "set" /\ h[c].arg.node \notin sel[cur].members
       THEN Return(c)
       ELSE /\ h' = [h EXCEPT ![c] = [@ EXCEPT !.on = cur,
                           !.pc = IF h[c].op = "clear" THEN "commit" ELSE "loaded"]]
            /\ UNCHANGED queue
    /\ UNCHANGED <<sel, cur, store, refresh, issued>>

\* set_pin on the cloned selector: visible before it is committed.
SetPin(c) ==
    /\ h[c].pc = "loaded" /\ h[c].op = "set"
    /\ LET s   == sel[h[c].on]
           pin == [h[c].arg EXCEPT !.gen = s.gen + 1]
       IN  /\ sel' = [sel EXCEPT ![h[c].on] = [@ EXCEPT !.pin = pin, !.gen = s.gen + 1]]
           /\ h' = [h EXCEPT ![c] = [@ EXCEPT !.pc = "commit", !.prev = s.pin]]
    /\ UNCHANGED <<cur, store, queue, refresh, issued>>

\* Faulty variant: any pin present is taken for the token's.
TokenMatchesAny(tok, pin) == tok # None /\ pin # None

\* complete_manual_probe: the pin goes if its generation is the token's.
TokenMatches(tok, pin) == tok # None /\ pin # None /\ pin.gen = tok.gen

\* Faulty variant: the early return forgets the lock.
CompleteManualProbeLeak(c) ==
    /\ h[c].pc = "loaded" /\ h[c].op = "release"
    /\ h' = [h EXCEPT ![c] = Idle]
    /\ UNCHANGED <<sel, cur, store, queue, refresh, issued>>

CompleteManualProbe(c) ==
    /\ h[c].pc = "loaded" /\ h[c].op = "release"
    /\ LET pin == sel[h[c].on].pin IN
       IF TokenMatches(h[c].tok, pin)
       THEN /\ sel' = [sel EXCEPT ![h[c].on] = [@ EXCEPT !.pin = None]]
            /\ h' = [h EXCEPT ![c] = [@ EXCEPT !.pc = "commit", !.prev = pin]]
            /\ UNCHANGED queue
       ELSE Return(c) /\ UNCHANGED sel
    /\ UNCHANGED <<cur, store, refresh, issued>>

\* The write_batch of the handler: one transaction on both rows.
WriteBatch(c) ==
    /\ row' = IF h[c].op = "set" THEN sel[h[c].on].pin ELSE None
    /\ legacy' = None

\* The transaction commits.  clear_group_pin still has to clear the selector.
CommitOk(c) ==
    /\ h[c].pc = "commit"
    /\ WriteBatch(c)
    /\ IF h[c].op = "clear"
       THEN h' = [h EXCEPT ![c] = [@ EXCEPT !.pc = "deleted"]] /\ UNCHANGED queue
       ELSE Return(c)
    /\ UNCHANGED <<sel, cur, refresh, issued>>

\* Faulty variant: the selector keeps the pin that was not committed.
CommitErrKeepsPin(c) ==
    /\ "error" \in Faults
    /\ h[c].pc = "commit"
    /\ Return(c)
    /\ UNCHANGED <<sel, cur, store, refresh, issued>>

\* The transaction fails after its retries and nothing is written.  A set or a
\* release puts the previous pin back into the selector it cloned
\* (restore_pin_after_failed_commit); pin_generation is not rolled back.
CommitErr(c) ==
    /\ "error" \in Faults
    /\ h[c].pc = "commit"
    /\ IF h[c].op = "clear" THEN UNCHANGED sel
       ELSE sel' = [sel EXCEPT ![h[c].on] = [@ EXCEPT !.pin = h[c].prev]]
    /\ Return(c)
    /\ UNCHANGED <<cur, store, refresh, issued>>

\* clear_pin, after the rows are gone.
ClearPin(c) ==
    /\ h[c].pc = "deleted"
    /\ sel' = [sel EXCEPT ![h[c].on] = [@ EXCEPT !.pin = None]]
    /\ Return(c)
    /\ UNCHANGED <<cur, store, refresh, issued>>

\* The client goes away and the handler future is dropped while it awaits the
\* store: neither the rollback nor clear_pin runs.  The transaction may or may
\* not have committed.  (Dropped while it waits for the lock, it did nothing.)
Cancel(c) ==
    /\ "cancel" \in Faults
    /\ h[c].pc = "commit"
    /\ WriteBatch(c) \/ UNCHANGED store
    /\ Leave(c, Gone)
    /\ UNCHANGED <<sel, cur, refresh, issued>>

(***************************************************************************)
(* Feed refresh and restart                                                *)
(***************************************************************************)
\* apply_feed_nodes reads the pin of the selector it is about to replace ...
RefreshRead(members) ==
    /\ "refresh" \in Faults
    /\ refresh = None /\ cur < MaxRefresh
    /\ refresh' = [members |-> members, pin |-> sel[cur].pin]
    /\ UNCHANGED <<sel, cur, store, queue, h, issued>>

\* ... and publishes the new one.
RefreshPublish ==
    /\ refresh # None
    /\ cur' = cur + 1
    /\ sel' = [sel EXCEPT ![cur + 1] = NewSelector(refresh.members, refresh.pin)]
    /\ refresh' = None
    /\ UNCHANGED <<store, queue, h, issued>>

\* The process stops at any point and is started again.
Restart ==
    /\ "crash" \in Faults
    /\ cur' = 0
    /\ sel' = [s \in Selectors |-> NewSelector(Nodes, BootPin)]
    /\ queue' = << >>
    /\ h' = [c \in Callers |-> Idle]
    /\ refresh' = None
    /\ UNCHANGED <<store, issued>>

Request(c) ==
    \/ \E n \in Nodes : CallSet(c, n)
    \/ CallClear(c)
    \/ BeginManualProbe(c)

\* The steps of a running handler that its own task takes.
Run(c) ==
    \/ \E any_success \in BOOLEAN : ProbesDone(c, any_success)
    \/ Load(c)
    \/ SetPin(c)
    \/ CompleteManualProbe(c)
    \/ CommitOk(c)
    \/ CommitErr(c)
    \/ ClearPin(c)

Next ==
    \/ \E c \in Callers : Request(c) \/ Run(c) \/ Cancel(c)
    \/ \E members \in SUBSET Nodes : RefreshRead(members)
    \/ RefreshPublish
    \/ Restart

Spec == Init /\ [][Next]_vars

\* Every step of a running handler ends: probes have a timeout, the store has a
\* bounded retry loop, and tokio's mutex is first come, first served.
FairSpec == Spec /\ \A c \in Callers : WF_vars(Run(c))

(***************************************************************************)
(* Properties                                                              *)
(***************************************************************************)
Handler == [pc : {"idle", "probing", "queued", "loaded", "commit", "deleted", "gone"},
            op : {"set", "clear", "release"},
            arg : Option(Pin), tok : Option(Pin), on : Selectors, prev : Option(Pin)]

\* Type invariant.
TypeOK ==
    /\ sel \in [Selectors -> [members : SUBSET Nodes, pin : Option(Pin), gen : Nat]]
    /\ cur \in Selectors
    /\ row \in Option(Pin)
    /\ legacy \in Option(Nodes)
    /\ queue \in Seq(Callers)
    /\ h \in [Callers -> Handler]
    /\ refresh \in Option([members : SUBSET Nodes, pin : Option(Pin)])
    /\ issued \in Nat

Critical == {"loaded", "commit", "deleted"}

\* No pin transaction and no feed refresh is under way.
Quiescent == refresh = None /\ \A c \in Callers : h[c].pc \notin Critical

\* pin is what a restart would restore from the store.
Agrees(pin) ==
    IF row = None /\ legacy # None THEN pin # None /\ pin.node = legacy
    ELSE pin = row

\* In this process no feed refresh has touched the group, and no handler was
\* dropped inside a transaction.
Unrefreshed == cur = 0 /\ refresh = None

Undisturbed == Unrefreshed /\ \A c \in Callers : h[c].pc # "gone"

\* The published selector and the store do not diverge: whenever no transaction
\* is in flight, the pin the runtime routes by is the one in the store, through
\* failed commits and restarts, also from the legacy row of an older version: the
\* node pinned before a restart is pinned after it (Runtime.group_pin_lock: "serialise the memory
\* state and the Turso commit").  A feed refresh or a dropped handler does make
\* them differ until the next restart.
PinAgreesWithStore == Undisturbed /\ Quiescent => Agrees(sel[cur].pin)

\* A step releases a choice other than the one its probe token was taken for.
ReleasesAnother(c) ==
    /\ h[c].pc = "loaded" /\ h[c].op = "release" /\ h'[c].pc = "commit"
    /\ sel[h[c].on].pin.id # h[c].tok.id

\* A slow manual probe never undoes a newer choice: complete_manual_probe only
\* releases the very choice that was pinned when its token was taken, although
\* it compares generations and not choices, and even when handlers are dropped
\* at the store.
StaleProbeKeepsNewerPin == [][\A c \in Callers : Unrefreshed => ~ReleasesAnother(c)]_vars

\* The same of every group (ManualProbeToken: an old token cannot release a new
\* pin); a feed refresh breaks it.
OldTokenReleasesNoNewPin == [][\A c \in Callers : ~ReleasesAnother(c)]_vars

\* Every pin request returns: the lock is always handed on, on every error path
\* and when a handler is dropped.
RequestsReturn == \A c \in Callers : h[c].pc = "queued" ~> h[c].pc \in {"idle", "gone"}
=============================================================================
