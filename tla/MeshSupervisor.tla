--------------------------- MODULE MeshSupervisor ---------------------------
(***************************************************************************)
(* The lifecycle of mesh backends (MeshSupervisor of crate core-mesh).     *)
(* Callers of start and stop share one detached worker; a monitor task     *)
(* and public refreshes observe the backends under the maintenance lock;   *)
(* dropping the supervisor starts an emergency shutdown.  Each of these    *)
(* is a process, and a step of it is a call of a backend, a section under  *)
(* the lifecycle lock, or a publication of the snapshot.  Backends are     *)
(* external: a call that fails, times out or is cancelled may or may not   *)
(* have had its effect.                                                    *)
(***************************************************************************)
EXTENDS Integers, FiniteSets, SequencesExt

CONSTANTS
    Registry,   \* the backends in the order of their registration
    External,   \* those with ownership attach_external
    Resources,  \* what backends and the host claim
    Clients,    \* callers of start and stop
    None,
    MaxCalls,   \* bound: calls of start, stop and refresh
    MaxFaults   \* bound: errors of backends, and changes of their claims

Backends == Range(Registry)

ASSUME MeshAssumption ==
    /\ Registry \in Seq(Backends) /\ IsInjective(Registry) /\ Registry # <<>>
    /\ External \subseteq Backends
    /\ None \notin Backends
    /\ {MaxCalls, MaxFaults} \subseteq Nat

VARIABLES
    running, started, in_flight, active,  \* LifecycleState
    isolated, pending_release, isolation_conflicts,
    monitor,      \* LifecycleState.monitor: the handle, "none" or "some"
    stopMonitor,  \* the monitor's token is cancelled
    maintenance,  \* the process that holds the lock, or None
    snapshot,     \* the published MeshSnapshot
    reservations, \* resources of the host, fixed
    dropped,      \* the supervisor has been dropped: the token shutdown
    proc,         \* the processes
    client,       \* start and stop calls
    held,         \* backends that hold resources (external)
    freed,        \* history: released since they were last reconciled
    calls, faults

lifecycle == <<running, started, in_flight, isolated, pending_release, isolation_conflicts>>
tasks == <<active, monitor, stopMonitor, dropped, client, calls>>
outside == <<held, freed, faults>>
vars == <<lifecycle, tasks, maintenance, snapshot, reservations, proc, outside>>

Procs == {"worker", "monitor", "refresh", "emergency"}

\* A process: where it is, its copy of the snapshot (working), the backends it
\* goes through (list) from position i, those whose status failed (bad), and
\* a release: its reason, targets, what is left, and failed_ids.
Idle == [pc |-> "idle", working |-> None, list |-> <<>>, i |-> 0, bad |-> {}, was |-> FALSE,
         why |-> None, targets |-> <<>>, todo |-> <<>>, failed |-> {}]

EmptyStatus == [phase |-> "unknown", claims |-> {}]

Init ==
    /\ running = FALSE /\ started = <<>> /\ in_flight = None /\ active = None
    /\ isolated = {} /\ pending_release = {} /\ isolation_conflicts = FALSE
    /\ monitor = "none" /\ stopMonitor = FALSE /\ maintenance = None /\ dropped = FALSE
    /\ snapshot = [running |-> FALSE, phase |-> "idle", conflicts |-> FALSE,
                   status |-> [b \in Backends |-> EmptyStatus]]
    /\ reservations \in SUBSET Resources
    /\ proc = [p \in Procs |-> Idle]
    /\ client = [c \in Clients |-> "idle"]
    /\ held = {} /\ freed = {} /\ calls = 0 /\ faults = 0

\* Faulty variant: tokens are not children of the token shutdown.
CancelledAlone(p) ==
    \/ p = "monitor" /\ stopMonitor
    \/ p = "worker" /\ active.cancelled

\* The token that a process looks at, a child of shutdown.
Cancelled(p) ==
    \/ dropped
    \/ p = "monitor" /\ stopMonitor
    \/ p = "worker" /\ active.cancelled

Fault == faults < MaxFaults /\ faults' = faults + 1
Fine == UNCHANGED faults

\* The phases of is_running_backend_phase, two of which the properties tell apart.
RunningPhases == {"ready", "degraded"}

SetPhase(w, bs, ph) ==
    [w EXCEPT !.status = [b \in Backends |-> IF b \in bs THEN [@[b] EXCEPT !.phase = ph] ELSE @[b]]]

\* Backends whose claims meet those of the host or of another one of bs.
Affected(w, bs) ==
    {b \in bs : w.status[b].claims
                    \cap (reservations \cup UNION {w.status[o].claims : o \in bs \ {b}}) # {}}

\* mark_conflicts
MarkConflicts(w, bs) ==
    [SetPhase(w, bs, "conflict") EXCEPT !.running = FALSE, !.phase = "degraded", !.conflicts = TRUE]

\* aggregate_phase
AggregatePhase(list, w) ==
    IF Len(list) = Len(Registry) /\ \A b \in Range(list) : w.status[b].phase = "ready"
    THEN "running" ELSE "degraded"

Keep(list, bs) == SelectSeq(list, LAMBDA b : b \in bs)

-----------------------------------------------------------------------------
(* Callers. *)

Spawn(p, pc) == proc' = [proc EXCEPT ![p].pc = pc]
NewOperation(kind) == active' = [kind |-> kind, cancelled |-> FALSE]
Residual == started # <<>> \/ isolated # {} \/ pending_release # {}

\* start: returns when running or when something is left; joins an operation
\* under way, and tries again if that is a stop.
EnterStart(c) ==
    /\ IF running \/ (active = None /\ Residual)
       THEN client' = [client EXCEPT ![c] = "idle"] /\ UNCHANGED <<active, proc>>
       ELSE IF active # None
       THEN /\ client' = [client EXCEPT ![c] = IF active.kind = "start" THEN "wait" ELSE "start"]
            /\ UNCHANGED <<active, proc>>
       ELSE /\ client' = [client EXCEPT ![c] = "wait"]
            /\ NewOperation("start") /\ Spawn("worker", "begin")
    /\ UNCHANGED <<monitor, stopMonitor>>

\* stop: cancels a start under way and tries again after it; joins a stop.
EnterStop(c) ==
    IF active # None
    THEN /\ client' = [client EXCEPT ![c] = IF active.kind = "start" THEN "stop" ELSE "wait"]
         /\ active' = [active EXCEPT !.cancelled = @ \/ active.kind = "start"]
         /\ UNCHANGED <<proc, monitor, stopMonitor>>
    ELSE IF ~running /\ ~Residual
    THEN client' = [client EXCEPT ![c] = "idle"] /\ UNCHANGED <<active, proc, monitor, stopMonitor>>
    ELSE /\ client' = [client EXCEPT ![c] = "wait"]
         /\ monitor' = "none" /\ stopMonitor' = (stopMonitor \/ monitor = "some")
         /\ NewOperation("stop") /\ Spawn("worker", "drain")

Call(c) ==
    /\ client[c] = "idle" /\ calls < MaxCalls /\ ~dropped
    /\ calls' = calls + 1
    /\ EnterStart(c) \/ EnterStop(c)
    /\ UNCHANGED <<lifecycle, dropped, maintenance, snapshot, reservations, outside>>

\* The operation that the caller has waited for is over.
Again(c) ==
    /\ \/ client[c] = "start again" /\ EnterStart(c)
       \/ client[c] = "stop again" /\ EnterStop(c)
    /\ UNCHANGED <<lifecycle, dropped, calls, maintenance, snapshot, reservations, outside>>

\* The future of a caller is dropped; the worker goes on.
Abort(c) ==
    /\ client[c] # "idle"
    /\ client' = [client EXCEPT ![c] = "idle"]
    /\ UNCHANGED <<lifecycle, active, monitor, stopMonitor, dropped, calls, maintenance, snapshot,
                   reservations, proc, outside>>

\* Faulty variant: the completion is not sent.
FinishSilently ==
    /\ proc["worker"].pc = "finish"
    /\ proc' = [proc EXCEPT !["worker"] = Idle]
    /\ active' = None
    /\ UNCHANGED <<lifecycle, client, monitor, stopMonitor, dropped, calls, maintenance, snapshot,
                   reservations, outside>>

\* The coordinator: finish_operation and the completion that wakes the callers.
FinishOperation ==
    /\ proc["worker"].pc = "finish"
    /\ proc' = [proc EXCEPT !["worker"] = Idle]
    /\ active' = None
    /\ client' = [c \in Clients |-> CASE client[c] = "wait"  -> "idle"
                                      [] client[c] = "start" -> "start again"
                                      [] client[c] = "stop"  -> "stop again"
                                      [] OTHER               -> client[c]]
    /\ UNCHANGED <<lifecycle, monitor, stopMonitor, dropped, calls, maintenance, snapshot,
                   reservations, outside>>

-----------------------------------------------------------------------------
(* run_start. *)

\* A step of process p that leaves its record as r.
Set(p, r) == proc' = [proc EXCEPT ![p] = r]
Goto(p, pc) == Set(p, [proc[p] EXCEPT !.pc = pc])
Publish(w) == snapshot' = w

\* The process returns: the worker to its coordinator, the monitor to its loop.
Return(p) ==
    Set(p, [Idle EXCEPT !.pc = CASE p = "worker" -> "finish" [] p = "monitor" -> "sleep"
                                 [] OTHER -> "idle"])

StartBegin ==
    LET w == [SetPhase(snapshot, Backends, "probing")
                EXCEPT !.running = FALSE, !.phase = "starting", !.conflicts = FALSE]
    IN  /\ proc["worker"].pc = "begin"
        /\ isolated' = {} /\ pending_release' = {} /\ isolation_conflicts' = FALSE
        /\ Publish(w)
        /\ Set("worker", [Idle EXCEPT !.pc = "probe", !.working = w, !.list = Registry, !.i = 1])
        /\ UNCHANGED <<running, started, in_flight, tasks, maintenance, reservations, outside>>

\* call_probe for the next backend; a cancelled call ends the round.
Probe ==
    LET x == proc["worker"]
        b == x.list[x.i]
        last == x.i = Len(x.list)
    IN  /\ x.pc = "probe"
        /\ \/ /\ ~Cancelled("worker") /\ Fine
              /\ \E cl \in SUBSET Resources :
                    Set("worker", [x EXCEPT !.working.status[b] = [phase |-> "observed", claims |-> cl],
                                            !.i = @ + 1, !.pc = IF last THEN "preflight" ELSE "probe"])
           \/ /\ IF Cancelled("worker") THEN Fine ELSE Fault
              /\ Set("worker", [x EXCEPT !.working.status[b] = [EmptyStatus EXCEPT !.phase = "failed"],
                                         !.i = @ + 1, !.bad = @ \cup {b},
                                         !.pc = IF last \/ Cancelled("worker") THEN "preflight" ELSE "probe"])
        /\ UNCHANGED <<lifecycle, tasks, maintenance, snapshot, reservations, held, freed>>

\* All probes are in: failures or conflicts end the start before any reconcile.
Preflight ==
    LET x == proc["worker"]
        clash == Affected(x.working, Backends)
    IN  /\ x.pc = "preflight"
        /\ IF x.bad = {} /\ clash = {}
           THEN /\ Set("worker", [x EXCEPT !.pc = "enter", !.i = 1])
                /\ UNCHANGED <<running, in_flight, snapshot>>
           ELSE /\ running' = FALSE /\ in_flight' = None
                /\ Publish(IF x.bad # {} THEN [x.working EXCEPT !.phase = "failed"]
                           ELSE MarkConflicts(x.working, clash))
                /\ Return("worker")
        /\ UNCHANGED <<started, isolated, pending_release, isolation_conflicts, tasks, maintenance,
                       reservations, outside>>

\* The backend is noted as in flight before it is called.
EnterReconcile ==
    LET x == proc["worker"]
    IN  /\ x.pc = "enter"
        /\ in_flight' = x.list[x.i]
        /\ freed' = freed \ {x.list[x.i]}
        /\ Goto("worker", "reconcile")
        /\ UNCHANGED <<running, started, isolated, pending_release, isolation_conflicts, tasks,
                       maintenance, snapshot, reservations, held, faults>>

Reconciled ==
    LET x == proc["worker"]
        b == x.list[x.i]
    IN  /\ x.pc = "reconcile" /\ ~Cancelled("worker") /\ Fine
        /\ held' = held \cup {b}
        /\ in_flight' = None
        /\ started' = Append(started, b)
        /\ \E ph \in RunningPhases :
              Set("worker", [x EXCEPT !.working.status[b].phase = ph, !.i = @ + 1,
                                      !.pc = IF x.i = Len(x.list) THEN "commit" ELSE "enter"])
        /\ UNCHANGED <<running, isolated, pending_release, isolation_conflicts, tasks, maintenance,
                       snapshot, reservations, freed>>

\* release_targets of list for the reason why, from a process record x.
StartRelease(x, why, list) ==
    [x EXCEPT !.pc = "release", !.why = why, !.targets = list, !.todo = list, !.failed = {}]

\* Faulty variant: only the backends that came up are rolled back.
RollbackStarted(b) == started

\* Those that came up, and the one that failed.
RollbackTargets(b) == IF b \in Range(started) THEN started ELSE Append(started, b)

\* An error, a timeout, a cancellation or a status that the preflight does not
\* cover.
ReconcileFails ==
    LET x == proc["worker"]
        b == x.list[x.i]
    IN  /\ x.pc = "reconcile"
        /\ IF Cancelled("worker") THEN Fine ELSE Fault
        /\ held' \in {held, held \cup {b}}
        /\ in_flight' = None
        /\ Set("worker", StartRelease([x EXCEPT !.working.status[b].phase = "failed", !.bad = {b}],
                                      "rollback", RollbackTargets(b)))
        /\ UNCHANGED <<running, started, isolated, pending_release, isolation_conflicts, tasks,
                       maintenance, snapshot, reservations, freed>>

Commit ==
    LET x == proc["worker"]
    IN  /\ x.pc = "commit"
        /\ IF Cancelled("worker")
           THEN /\ Set("worker", StartRelease(x, "cancelled", started))
                /\ UNCHANGED <<running, in_flight>>
           ELSE running' = TRUE /\ in_flight' = None /\ Goto("worker", "publish")
        /\ UNCHANGED <<started, isolated, pending_release, isolation_conflicts, tasks, maintenance,
                       snapshot, reservations, outside>>

\* The running snapshot, and install_monitor.
StartPublish ==
    LET x == proc["worker"]
    IN  /\ x.pc = "publish" /\ x.why = None
        /\ Publish([x.working EXCEPT !.running = TRUE, !.phase = AggregatePhase(started, x.working)])
        /\ monitor' = "some" /\ stopMonitor' = FALSE
        /\ proc' = [proc EXCEPT !["worker"] = [Idle EXCEPT !.pc = "finish"],
                                !["monitor"].pc = "sleep"]
        /\ UNCHANGED <<lifecycle, active, dropped, client, calls, maintenance, reservations, outside>>

-----------------------------------------------------------------------------
(* run_stop and emergency_shutdown. *)

\* The monitor that stop or the emergency has taken is joined.
DrainMonitor(p) ==
    /\ proc[p].pc = "drain"
    /\ proc["monitor"].pc = "idle"
    /\ Goto(p, "lock")
    /\ UNCHANGED <<lifecycle, tasks, maintenance, snapshot, reservations, outside>>

Stopping(list) ==
    [SetPhase(snapshot, Range(list), "stopping") EXCEPT !.running = FALSE, !.phase = "stopping"]

\* Faulty variant: stop does not wait for the maintenance lock.
StopUnserialised ==
    /\ proc["worker"].pc = "lock"
    /\ Publish(Stopping(started))
    /\ Set("worker", StartRelease([Idle EXCEPT !.working = Stopping(started)], "stop", started))
    /\ UNCHANGED <<lifecycle, tasks, maintenance, reservations, outside>>

\* Under the maintenance lock the targets are read and the phase published.
StopBegin ==
    /\ proc["worker"].pc = "lock" /\ maintenance = None
    /\ maintenance' = "worker"
    /\ Publish(Stopping(started))
    /\ Set("worker", StartRelease([Idle EXCEPT !.working = Stopping(started)], "stop", started))
    /\ UNCHANGED <<lifecycle, tasks, reservations, outside>>

\* Drop: no caller holds a reference any more.
Drop ==
    /\ ~dropped /\ proc["refresh"].pc = "idle" /\ \A c \in Clients : client[c] = "idle"
    /\ dropped' = TRUE
    /\ Spawn("emergency", "begin")
    /\ UNCHANGED <<lifecycle, active, monitor, stopMonitor, client, calls, maintenance, snapshot,
                   reservations, outside>>

EmergencyBegin ==
    /\ proc["emergency"].pc = "begin"
    /\ monitor' = "none" /\ stopMonitor' = (stopMonitor \/ monitor = "some")
    /\ Goto("emergency", IF monitor = "some" THEN "drain" ELSE "lock")
    /\ UNCHANGED <<lifecycle, active, dropped, client, calls, maintenance, snapshot, reservations,
                   outside>>

\* The operation under way is over (its rollback is bounded by less than the
\* time the emergency waits), the lock is free.
EmergencyRelease ==
    LET list == IF in_flight = None THEN started ELSE RollbackTargets(in_flight)
    IN  /\ proc["emergency"].pc = "lock" /\ active = None /\ maintenance = None
        /\ in_flight' = None
        /\ IF list = <<>>
           THEN Return("emergency") /\ UNCHANGED <<maintenance, snapshot>>
           ELSE /\ maintenance' = "emergency"
                /\ Publish(Stopping(list))
                /\ Set("emergency", StartRelease([Idle EXCEPT !.working = Stopping(list)], "drop", list))
        /\ UNCHANGED <<running, started, isolated, pending_release, isolation_conflicts, tasks,
                       reservations, outside>>

-----------------------------------------------------------------------------
(* release_targets, in reverse order, and what follows it for each reason. *)

\* A stop looks at its token; the others clean up under a fresh one.
CleanupCancelled(p) == proc[p].why = "stop" /\ Cancelled(p)

Released(p) ==
    LET x == proc[p]
        b == Last(x.todo)
    IN  /\ x.pc = "release" /\ x.todo # <<>> /\ ~CleanupCancelled(p) /\ Fine
        /\ held' = held \ {b} /\ freed' = freed \cup {b}
        /\ Set(p, [x EXCEPT !.todo = Front(@), !.working.status[b].phase = "stopped"])
        /\ UNCHANGED <<lifecycle, tasks, maintenance, snapshot, reservations>>

ReleaseFails(p) ==
    LET x == proc[p]
        b == Last(x.todo)
    IN  /\ x.pc = "release" /\ x.todo # <<>>
        /\ IF CleanupCancelled(p) THEN Fine ELSE Fault
        /\ held' \in {held, held \ {b}}
        /\ Set(p, [x EXCEPT !.todo = Front(@), !.failed = @ \cup {b},
                            !.working.status[b].phase = "failed"])
        /\ UNCHANGED <<lifecycle, tasks, maintenance, snapshot, reservations, freed>>

\* Faulty variant: what is left is listed in the order of the release.
StillStartedReversed(x) ==
    IF x.why \in {"retry", "status", "conflict"}
    THEN Keep(started, Backends \ (Range(x.targets) \ x.failed))
    ELSE Keep(Reverse(x.targets), x.failed)

\* Faulty variant: the monitor leaves in the list what it released.
StillStartedAll(x) ==
    IF x.why \in {"retry", "status", "conflict"} THEN started ELSE Keep(x.targets, x.failed)

\* retain_failed_order for the operations; the monitor takes out what it released.
StillStarted(x) ==
    IF x.why \in {"retry", "status", "conflict"}
    THEN Keep(started, Backends \ (Range(x.targets) \ x.failed))
    ELSE Keep(x.targets, x.failed)

\* Faulty variant: an incomplete stop forgets what is isolated.
ForgetIsolation(x) ==
    CASE x.why \in {"stop", "drop"}         -> {}
      [] x.why \in {"status", "conflict"}   -> isolated \cup Range(x.targets)
      [] OTHER                              -> isolated

\* Only a stop without failures clears the isolation.
IsolatedAfter(x) ==
    CASE x.why \in {"stop", "drop"}         -> IF x.failed = {} THEN {} ELSE isolated
      [] x.why \in {"status", "conflict"}   -> isolated \cup Range(x.targets)
      [] OTHER                              -> isolated

PendingAfter(x) ==
    CASE x.why \in {"stop", "drop", "retry"} -> pending_release \cap x.failed
      [] x.why \in {"status", "conflict"}    -> pending_release \cup x.failed
      [] OTHER                               -> pending_release

\* The section under the lifecycle lock after a release.
CommitRelease(p) ==
    LET x == proc[p]
        final == x.why \in {"stop", "drop"}
    IN  /\ x.pc = "release" /\ x.todo = <<>>
        /\ started' = StillStarted(x)
        /\ running' = FALSE
        /\ in_flight' = IF final THEN None ELSE in_flight
        /\ isolated' = IsolatedAfter(x)
        /\ pending_release' = PendingAfter(x)
        /\ isolation_conflicts' = CASE final /\ x.failed = {} -> FALSE
                                    [] x.why = "conflict"     -> TRUE
                                    [] OTHER                  -> isolation_conflicts
        /\ Goto(p, "publish")
        /\ UNCHANGED <<tasks, maintenance, snapshot, reservations, outside>>

\* The snapshot that ends a release.
AfterRelease(x) ==
    LET targets == Range(x.targets)
        down == [x.working EXCEPT !.running = FALSE]
    IN  CASE x.why = "rollback"  -> [SetPhase(down, x.bad, "failed") EXCEPT !.phase = "failed"]
          [] x.why = "cancelled" -> [down EXCEPT !.phase = "failed"]
          [] x.why \in {"stop", "drop"} ->
                IF x.failed = {}
                THEN [SetPhase(down, Backends, "stopped") EXCEPT !.phase = "stopped", !.conflicts = FALSE]
                ELSE [down EXCEPT !.phase = "failed"]
          [] x.why = "retry" ->
                [SetPhase(SetPhase(down, targets, "stopped"), x.failed, "failed")
                    EXCEPT !.phase = "degraded", !.conflicts = isolation_conflicts]
          [] x.why = "status"   -> [SetPhase(down, targets, "failed") EXCEPT !.phase = "degraded"]
          [] x.why = "conflict" -> [SetPhase(down, targets, "conflict")
                                       EXCEPT !.phase = "degraded", !.conflicts = TRUE]

\* The lock is given back with the process's guard.
Unlock(p) == maintenance' = IF maintenance = p THEN None ELSE maintenance

\* Faulty variant: a monitor that has been cancelled publishes nothing any more.
PublishUnlessCancelled(p) ==
    /\ proc[p].pc = "publish" /\ proc[p].why # None
    /\ IF p = "monitor" /\ Cancelled(p) THEN UNCHANGED snapshot ELSE Publish(AfterRelease(proc[p]))
    /\ Return(p) /\ Unlock(p)
    /\ UNCHANGED <<lifecycle, tasks, reservations, outside>>

\* After a retry without failures the monitor goes on to observe what is left.
PublishRelease(p) ==
    LET x == proc[p]
        onwards == x.why = "retry" /\ x.failed = {} /\ started # <<>> /\ ~Cancelled(p)
    IN  /\ x.pc = "publish" /\ x.why # None
        /\ Publish(AfterRelease(x))
        /\ IF onwards
           THEN /\ Set(p, [Idle EXCEPT !.pc = "observe", !.working = AfterRelease(x), !.list = started,
                                       !.i = 1, !.was = x.was])
                /\ UNCHANGED maintenance
           ELSE Return(p) /\ Unlock(p)
        /\ UNCHANGED <<lifecycle, tasks, reservations, outside>>

-----------------------------------------------------------------------------
(* refresh_once, for the monitor and for public callers. *)

\* Faulty variant: the loop ends when the supervisor is no longer running.
MonitorTickRunning ==
    /\ proc["monitor"].pc = "sleep"
    /\ Goto("monitor", IF Cancelled("monitor") \/ ~running THEN "idle" ELSE "acquire")
    /\ UNCHANGED <<lifecycle, tasks, maintenance, snapshot, reservations, outside>>

\* The monitor's loop: the cancellation comes first.
MonitorTick ==
    /\ proc["monitor"].pc = "sleep"
    /\ Goto("monitor", IF Cancelled("monitor") THEN "idle" ELSE "acquire")
    /\ UNCHANGED <<lifecycle, tasks, maintenance, snapshot, reservations, outside>>

CallRefresh ==
    /\ proc["refresh"].pc = "idle" /\ calls < MaxCalls /\ ~dropped
    /\ calls' = calls + 1
    /\ Goto("refresh", "acquire")
    /\ UNCHANGED <<lifecycle, active, monitor, stopMonitor, dropped, client, maintenance, snapshot,
                   reservations, outside>>

Acquire(p) ==
    /\ proc[p].pc = "acquire" /\ ~Cancelled(p) /\ maintenance = None
    /\ maintenance' = p
    /\ Goto(p, "read")
    /\ UNCHANGED <<lifecycle, tasks, snapshot, reservations, outside>>

\* acquire_maintenance is cancelled or times out.
GiveUp(p) ==
    /\ proc[p].pc = "acquire" /\ (Cancelled(p) \/ maintenance # None)
    /\ Return(p)
    /\ UNCHANGED <<lifecycle, tasks, maintenance, snapshot, reservations, outside>>

\* Return without a publication.
Leave(p) == Return(p) /\ Unlock(p) /\ UNCHANGED snapshot

\* Faulty variant: releases that are owed are not tried again.
ReadOnly(p) ==
    LET x == [Idle EXCEPT !.working = [snapshot EXCEPT !.conflicts = isolated # {} /\ isolation_conflicts],
                          !.list = started, !.i = 1, !.was = running]
    IN  /\ proc[p].pc = "read"
        /\ IF active # None \/ started = <<>> THEN Leave(p)
           ELSE Set(p, [x EXCEPT !.pc = "observe"]) /\ UNCHANGED <<maintenance, snapshot>>
        /\ UNCHANGED <<lifecycle, tasks, reservations, outside>>

\* The lifecycle is read; an operation under way has precedence, and for the
\* monitor so have releases that are owed.
Read(p) ==
    LET x == [Idle EXCEPT !.working = [snapshot EXCEPT !.conflicts = isolated # {} /\ isolation_conflicts],
                          !.list = started, !.i = 1, !.was = running]
        owed == p = "monitor" /\ pending_release # {}
    IN  /\ proc[p].pc = "read"
        /\ IF active # None \/ (owed /\ Cancelled(p)) \/ (~owed /\ started = <<>>)
           THEN Leave(p)
           ELSE /\ Set(p, IF owed THEN StartRelease(x, "retry", Keep(started, pending_release))
                          ELSE [x EXCEPT !.pc = "observe"])
                /\ UNCHANGED <<maintenance, snapshot>>
        /\ UNCHANGED <<lifecycle, tasks, reservations, outside>>

\* validate_running_observation: an external backend keeps its claims.
ValidClaims(b, cl, w) == b \in External => cl = w.status[b].claims

\* call_status for the next backend.  The claims of an owned one may change.
Observe(p) ==
    LET x == proc[p]
        b == x.list[x.i]
        next == [x EXCEPT !.i = @ + 1, !.pc = IF x.i = Len(x.list) THEN "judge" ELSE "observe"]
    IN  /\ x.pc = "observe"
        /\ IF Cancelled(p) THEN Leave(p) /\ Fine
           ELSE /\ \/ \E ph \in RunningPhases, cl \in SUBSET Resources :
                         /\ IF cl = x.working.status[b].claims THEN Fine ELSE Fault
                         /\ Set(p, IF ValidClaims(b, cl, x.working)
                                   THEN [next EXCEPT !.working.status[b] = [phase |-> ph, claims |-> cl]]
                                   ELSE [next EXCEPT !.bad = @ \cup {b}])
                   \/ Fault /\ Set(p, [next EXCEPT !.bad = @ \cup {b}])
                /\ UNCHANGED <<maintenance, snapshot>>
        /\ UNCHANGED <<lifecycle, tasks, reservations, held, freed>>

\* A status failed: the monitor isolates the backends, a refresh only reports.
JudgeFailed(p) ==
    LET x == proc[p]
        w == SetPhase(x.working, x.bad, "degraded")
    IN  /\ x.pc = "judge" /\ x.bad # {}
        /\ IF active # None \/ (p = "monitor" /\ Cancelled(p)) THEN Leave(p)
           ELSE IF p = "monitor"
           THEN /\ Set(p, StartRelease([x EXCEPT !.working = w], "status", Keep(x.list, x.bad)))
                /\ UNCHANGED <<maintenance, snapshot>>
           ELSE /\ Publish([w EXCEPT !.running = x.was, !.phase = "degraded"])
                /\ Return(p) /\ Unlock(p)
        /\ UNCHANGED <<lifecycle, tasks, reservations, outside>>

\* All are well: the observation is published.
JudgeClear(p) ==
    LET x == proc[p]
    IN  /\ x.pc = "judge" /\ x.bad = {} /\ Affected(x.working, Range(x.list)) = {}
        /\ IF active # None THEN Leave(p)
           ELSE /\ Publish([x.working EXCEPT
                       !.running = x.was /\ isolated = {} /\ Len(x.list) = Len(Registry),
                       !.phase = IF isolated = {} THEN AggregatePhase(x.list, x.working) ELSE "degraded"])
                /\ Return(p) /\ Unlock(p)
        /\ UNCHANGED <<lifecycle, tasks, reservations, outside>>

\* Claims have come into conflict: the monitor isolates the backends concerned.
JudgeConflict(p) ==
    LET x == proc[p]
        clash == Affected(x.working, Range(x.list))
        w == MarkConflicts(x.working, clash)
    IN  /\ x.pc = "judge" /\ x.bad = {} /\ clash # {}
        /\ IF (p = "refresh" /\ active # None) \/ (p = "monitor" /\ Cancelled(p)) THEN Leave(p)
           ELSE IF p = "monitor"
           THEN /\ Set(p, StartRelease([x EXCEPT !.working = w], "conflict", Keep(x.list, clash)))
                /\ UNCHANGED <<maintenance, snapshot>>
           ELSE /\ Publish([w EXCEPT !.running = x.was])
                /\ Return(p) /\ Unlock(p)
        /\ UNCHANGED <<lifecycle, tasks, reservations, outside>>

\* The future of a public refresh is dropped while it waits.
DropRefresh ==
    /\ proc["refresh"].pc \in {"acquire", "observe"}
    /\ Leave("refresh")
    /\ UNCHANGED <<lifecycle, tasks, reservations, outside>>

-----------------------------------------------------------------------------
WorkerStep ==
    \/ StartBegin \/ Probe \/ Preflight \/ EnterReconcile \/ Reconciled \/ ReconcileFails
    \/ Commit \/ StartPublish \/ DrainMonitor("worker") \/ StopBegin \/ FinishOperation
EmergencyStep == EmergencyBegin \/ DrainMonitor("emergency") \/ EmergencyRelease
ReleaseStep(p) == Released(p) \/ ReleaseFails(p) \/ CommitRelease(p) \/ PublishRelease(p)
RefreshStep(p) ==
    \/ Acquire(p) \/ GiveUp(p) \/ Read(p) \/ Observe(p)
    \/ JudgeFailed(p) \/ JudgeClear(p) \/ JudgeConflict(p)

Step(p) ==
    \/ p = "worker" /\ (WorkerStep \/ ReleaseStep(p))
    \/ p = "monitor" /\ (MonitorTick \/ RefreshStep(p) \/ ReleaseStep(p))
    \/ p = "refresh" /\ RefreshStep(p)
    \/ p = "emergency" /\ (EmergencyStep \/ ReleaseStep(p))

Next ==
    \/ \E c \in Clients : Call(c) \/ Again(c) \/ Abort(c)
    \/ \E p \in Procs : Step(p)
    \/ CallRefresh \/ DropRefresh \/ Drop

Spec == Init /\ [][Next]_vars

\* Tasks are polled, calls of backends have deadlines, and the interval fires.
FairSpec ==
    /\ Spec
    /\ \A p \in Procs : WF_vars(Step(p))
    /\ WF_vars(\E c \in Clients : Again(c))

-----------------------------------------------------------------------------
(* Properties. *)

BackendPhases ==
    RunningPhases \cup {"unknown", "probing", "observed", "failed", "conflict", "stopping", "stopped"}
Snapshots ==
    [running : BOOLEAN, conflicts : BOOLEAN,
     phase : {"idle", "starting", "running", "degraded", "failed", "stopping", "stopped"},
     status : [Backends -> [phase : BackendPhases, claims : SUBSET Resources]]]

\* Types; the backends started are listed in the order of their registration.
TypeOK ==
    /\ {running, isolation_conflicts, stopMonitor, dropped} \subseteq BOOLEAN
    /\ started = Keep(Registry, Range(started)) /\ in_flight \in Backends \cup {None}
    /\ {isolated, pending_release, held, freed} \subseteq SUBSET Backends
    /\ maintenance \in Procs \cup {None} /\ monitor \in {"none", "some"}
    /\ snapshot \in Snapshots
    /\ \A p \in Procs : proc[p].working = None \/ proc[p].working \in Snapshots
    /\ calls \in 0 .. MaxCalls /\ faults \in 0 .. MaxFaults

\* Processes that will publish the copy of the snapshot they have taken.
Writers == {p \in Procs : proc[p].working # None}

\* Two processes never work on copies of the snapshot at the same time, so that
\* none overwrites what the other one published.  run_start does without the
\* maintenance lock: the conditions of start and of refresh_once keep them apart.
OneWriter == Cardinality(Writers) <= 1

\* What may hold resources is on record: after a failed start, a failed stop or an
\* isolation, everything held is in started, in flight, or a target of the
\* rollback under way, and a later stop or the emergency reaches it.
HeldIsTracked ==
    held \subseteq Range(started) \cup {in_flight} \cup UNION {Range(proc[p].targets) : p \in Procs}

\* No backend is released again after a release that succeeded, whatever stop,
\* monitor and emergency do at the same time (comment in run_stop).
NoDoubleRelease == \A p \in Procs : Range(proc[p].todo) \cap freed = {}

\* The host stops capture when the snapshot says not running: when nobody is
\* about to publish, the snapshot says what the lifecycle says.
SnapshotAgrees == Writers = {} => snapshot.running = running

\* The isolation is latched (comment in LifecycleState): it ends only with a stop
\* that released everything.
IsolationLatched == [][~(isolated \subseteq isolated') => started' = <<>> /\ held' = {}]_vars

\* The monitor never reports a backend as running while its release is owed.
MonitorTrustsNoPending ==
    [][snapshot' # snapshot /\ proc["monitor"] # proc'["monitor"] /\ active = None =>
          \A b \in pending_release' : snapshot'.status[b].phase \notin RunningPhases]_vars

\* start and stop return, also those that wait for each other's operations.
Calling == \E c \in Clients : client[c] # "idle"
CallsReturn == Calling ~> ~Calling

\* A release that is owed is tried until it succeeds (failures are bounded here).
PendingIsReleased == (pending_release # {}) ~> (pending_release = {})

\* A dropped supervisor ends every task, and holds at most what the last attempt
\* failed to release.
DropEnds == dropped ~> (active = None /\ maintenance = None /\ \A p \in Procs : proc[p].pc = "idle")
=============================================================================
