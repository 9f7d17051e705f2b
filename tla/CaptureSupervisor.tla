-------------------------- MODULE CaptureSupervisor --------------------------
(***************************************************************************)
(* CaptureSupervisor of core-capture: start and stop of transparent        *)
(* capture, with the Linux engines it drives and the recovery journal.     *)
(*                                                                         *)
(* Callers of start and stop claim a transition by compare-and-swap on the *)
(* lifecycle and otherwise wait for a notification.  The claimant owns the *)
(* resources in a CleanupTransaction; any step may fail, the caller's      *)
(* future may be dropped at an await, and the process may be killed.       *)
(*                                                                         *)
(* The three kinds differ in who holds the journal's guard: the TUN engine *)
(* holds its own, the supervisor holds it for TPROXY and REDIRECT.         *)
(***************************************************************************)
EXTENDS Naturals, FiniteSets

CONSTANTS
    Tasks,       \* callers of start and stop
    None,        \* Option::None
    Kinds,       \* the EngineKinds to consider
    Faults,      \* which faults can happen, see below
    MaxCalls,    \* bound: calls of start and stop
    MaxCrashes   \* bound: kills of the process

(***************************************************************************)
(* Faults: "bind" a fake-DNS listener cannot be bound; "recover" the       *)
(* journal cannot be locked, recovered or written; "engine" start, the     *)
(* dispatcher or post_start fails; "stop" pre_stop or stop fails; "revert" *)
(* a best-effort rule removal leaves a rule; "sweep" mark_clean fails;     *)
(* "cancel" a caller's future is dropped; "noruntime" that may be where    *)
(* no Tokio runtime can take over; "crash" the process is killed.          *)
(***************************************************************************)
ASSUME CaptureAssumption ==
    /\ Kinds \subseteq {"tun", "tproxy", "redirect"}
    /\ MaxCalls \in Nat /\ MaxCrashes \in Nat

\* What a SupervisorResources may hold; tasks stands for the network listener,
\* purge and event tasks.
Resource == {"dns", "mark", "guard", "tasks", "dispatcher", "proxy"}

ASSUME NoneAssumption == \A r \in SUBSET Resource : r # None

VARIABLES
    kind,        \* the EngineKind of the plan
    runtime,     \* FALSE: dropped futures find no Tokio runtime to spawn on
    lifecycle,   \* the AtomicU8
    waiting,     \* tasks registered with lifecycle_changed and not yet notified
    slot,        \* resources: Option of the set of resources committed or kept
    mark,        \* TRUE: the process-wide outbound fwmark is not 0
    host,        \* the rules in the kernel that the process tracks: "base", "ingress"
    stale,       \* TRUE: there are rules nobody tracks, of a killed process or left
                 \* by a removal that ignores its errors
    journal,     \* the journal file: "empty", "torn" or "record"
    on,          \* the engine's started/on flag
    engineGuard, \* TRUE: the TUN engine holds a LinuxCaptureGuard
    t,           \* the tasks
    calls, crashes

process == <<lifecycle, waiting, slot, mark, on, engineGuard, t>>
kernel == <<host, stale, journal>>
plan == <<kind, runtime>>
vars == <<plan, process, kernel, calls, crashes>>

\* outbound_fwmark_for_plan, with auto_route.
UsesMark == kind \in {"tun", "tproxy"}

\* A task that is not in a call.  Its locals: op, the call; seen, the lifecycle
\* it read; res, the resources of its CleanupTransaction; stopEngine; to, the
\* lifecycle to publish; again, begin_start loops after its cleanup; spawned, no
\* caller waits for it any more.
Idle == [pc |-> "idle", op |-> "start", seen |-> "Stopped", res |-> {},
         stopEngine |-> FALSE, to |-> "Stopped", again |-> FALSE, spawned |-> FALSE]

Init ==
    /\ kind \in Kinds
    /\ runtime \in IF "noruntime" \in Faults THEN BOOLEAN ELSE {TRUE}
    /\ lifecycle = "Stopped" /\ waiting = {} /\ slot = None
    /\ mark = FALSE /\ on = FALSE /\ engineGuard = FALSE
    /\ host = {} /\ stale = FALSE /\ journal = "empty"
    /\ t = [x \in Tasks |-> Idle]
    /\ calls = 0 /\ crashes = 0

\* Task x goes on with the record r.
Go(x, r) == t' = [t EXCEPT ![x] = r]

To(x, pc) == Go(x, [t[x] EXCEPT !.pc = pc])

(***************************************************************************)
(* begin_start and begin_stop                                              *)
(***************************************************************************)
Call(x, op) ==
    /\ t[x].pc = "idle" /\ calls < MaxCalls
    /\ calls' = calls + 1
    /\ Go(x, [Idle EXCEPT !.pc = "enable", !.op = op])
    /\ UNCHANGED <<lifecycle, waiting, slot, mark, on, engineGuard, kernel, crashes>>

\* Register for the notification before the lifecycle is read.
Enable(x) ==
    /\ t[x].pc = "enable"
    /\ waiting' = waiting \cup {x}
    /\ To(x, "read")
    /\ UNCHANGED <<lifecycle, slot, mark, on, engineGuard, kernel, calls, crashes>>

\* The state in which the call has nothing to do.
Settled(op) == IF op = "start" THEN "Running" ELSE "Stopped"

Read(x) ==
    /\ t[x].pc = "read"
    /\ IF lifecycle = Settled(t[x].op)
       THEN Go(x, Idle) /\ waiting' = waiting \ {x}
       ELSE /\ Go(x, [t[x] EXCEPT !.seen = lifecycle,
                  !.pc = IF lifecycle \in {"Starting", "Stopping"} THEN "await" ELSE "cas"])
            /\ UNCHANGED waiting
    /\ UNCHANGED <<lifecycle, slot, mark, on, engineGuard, kernel, calls, crashes>>

\* Faulty variant: the claim is a plain store.
ClaimUnchecked(x) ==
    /\ t[x].pc = "cas"
    /\ waiting' = waiting \ {x}
    /\ IF t[x].seen = "Stopped"
       THEN lifecycle' = "Starting" /\ To(x, "dns") /\ UNCHANGED slot
       ELSE /\ lifecycle' = "Stopping"
            /\ slot' = None
            /\ Go(x, [t[x] EXCEPT !.pc = "tasks", !.stopEngine = TRUE,
                                  !.res = IF slot = None THEN {} ELSE slot])
    /\ UNCHANGED <<mark, on, engineGuard, kernel, calls, crashes>>

\* The claim.  A start that finds CleanupFailed first retries the cleanup.
Claim(x) ==
    /\ t[x].pc = "cas"
    /\ waiting' = waiting \ {x}
    /\ IF lifecycle # t[x].seen THEN To(x, "enable") /\ UNCHANGED <<lifecycle, slot>>
       ELSE IF lifecycle = "Stopped"
       THEN lifecycle' = "Starting" /\ To(x, "dns") /\ UNCHANGED slot
       ELSE /\ lifecycle' = "Stopping"
            /\ slot' = None
            /\ Go(x, [t[x] EXCEPT !.pc = "tasks", !.stopEngine = TRUE,
                                  !.res = IF slot = None THEN {} ELSE slot,
                                  !.again = (t[x].op = "start")])
    /\ UNCHANGED <<mark, on, engineGuard, kernel, calls, crashes>>

Awake(x) ==
    /\ t[x].pc = "await" /\ x \notin waiting
    /\ To(x, "enable")
    /\ UNCHANGED <<lifecycle, waiting, slot, mark, on, engineGuard, kernel, calls, crashes>>

(***************************************************************************)
(* start_with_failpoint                                                    *)
(***************************************************************************)
\* Faulty variant: a failed start says Stopped and keeps what it has.
FailStartKeeps(x) == Go(x, [t[x] EXCEPT !.pc = "finish", !.to = "Stopped"])

\* A step of start fails with the resources res.  Once the engine is marked
\* started the transaction is shut down; before, it is dropped: abort_sync, the
\* listeners close, a guard lets the journal's lock go, the fwmark stays.
FailStart(x) ==
    Go(x, IF t[x].stopEngine THEN [t[x] EXCEPT !.pc = "tasks"]
          ELSE [t[x] EXCEPT !.pc = "finish", !.to = "Stopped", !.res = {}])

BindDns(x) ==
    /\ t[x].pc = "dns"
    /\ \/ Go(x, [t[x] EXCEPT !.pc = "mark", !.res = @ \cup {"dns"}])
       \/ "bind" \in Faults /\ FailStart(x)
    /\ UNCHANGED <<lifecycle, waiting, slot, mark, on, engineGuard, kernel, calls, crashes>>

\* OutboundFwmarkLease::install.  The TUN engine opens its journal itself, after
\* mark_engine_started.
InstallMark(x) ==
    /\ t[x].pc = "mark"
    /\ IF UsesMark /\ mark THEN FailStart(x) /\ UNCHANGED mark
       ELSE /\ mark' = UsesMark
            /\ Go(x, [t[x] EXCEPT !.pc = "recover", !.stopEngine = (kind = "tun"),
                          !.res = @ \cup IF UsesMark THEN {"mark"} ELSE {}])
    /\ UNCHANGED <<lifecycle, waiting, slot, on, engineGuard, kernel, calls, crashes>>

\* Faulty variant: start takes the engine for one that already runs.
RecoverShortcut(x) ==
    /\ t[x].pc = "recover"
    /\ To(x, "commit")
    /\ UNCHANGED <<lifecycle, waiting, slot, mark, on, engineGuard, kernel, calls, crashes>>

\* recover_before_start: lock the journal, sweep what its record names.
Recover(x) ==
    /\ t[x].pc = "recover"
    /\ \/ /\ journal = "torn" \/ "recover" \in Faults
          /\ FailStart(x)
          /\ UNCHANGED kernel
       \/ /\ journal = "record"
          /\ host' = {} /\ stale' = FALSE /\ journal' = "empty"
          /\ To(x, "arm")
       \/ /\ journal = "empty"
          /\ To(x, "arm")
          /\ UNCHANGED kernel
    /\ UNCHANGED <<lifecycle, waiting, slot, mark, on, engineGuard, calls, crashes>>

\* write_record begins.  The TUN engine has opened its device and is started.
Arm(x) ==
    /\ t[x].pc = "arm"
    /\ \/ /\ journal' = "torn"
          /\ on' = (on \/ kind = "tun")
          /\ To(x, "armed")
       \/ /\ kind = "tun" /\ "engine" \in Faults
          /\ FailStart(x)
          /\ UNCHANGED <<journal, on>>
    /\ UNCHANGED <<lifecycle, waiting, slot, mark, host, stale, engineGuard, calls, crashes>>

\* Faulty variant: the record is not written before the engine starts.
ArmedUnwritten(x) ==
    /\ t[x].pc = "armed"
    /\ engineGuard' = (kind = "tun")
    /\ Go(x, [t[x] EXCEPT !.pc = "engine", !.stopEngine = TRUE,
                  !.res = @ \cup IF kind = "tun" THEN {} ELSE {"guard"}])
    /\ UNCHANGED <<lifecycle, waiting, slot, mark, kernel, on, calls, crashes>>

\* write_record ends; mark_engine_started for the kinds that have not yet.
Armed(x) ==
    /\ t[x].pc = "armed"
    /\ \/ /\ journal' = "record"
          /\ engineGuard' = (kind = "tun")
          /\ Go(x, [t[x] EXCEPT !.pc = "engine", !.stopEngine = TRUE,
                        !.res = @ \cup IF kind = "tun" THEN {} ELSE {"guard"}])
       \/ /\ "recover" \in Faults
          /\ FailStart(x)
          /\ UNCHANGED <<journal, engineGuard>>
    /\ UNCHANGED <<lifecycle, waiting, slot, mark, host, stale, on, calls, crashes>>

\* The rules that may be left when the engine's start fails: the TUN engine
\* leaves them to stop, TPROXY reverts them as best it can, REDIRECT installs
\* them in one nft transaction.
LeftByStart ==
    IF kind = "tun" THEN SUBSET {"base"} ELSE {{}}

\* A removal that ignores its errors, of the rules in gone, may leave some.
BestEffort(gone) ==
    \/ UNCHANGED stale
    \/ "revert" \in Faults /\ gone # {} /\ stale' = TRUE

\* Faulty variant: the proxy is written down among the rules.
EngineStartMixed(x) ==
    /\ t[x].pc = "engine"
    /\ host' = {"base", "proxy"}
    /\ on' = TRUE
    /\ To(x, "post")
    /\ UNCHANGED <<lifecycle, waiting, slot, mark, stale, journal, engineGuard, calls, crashes>>

\* engine.start installs the base rules; the system proxy follows.
EngineStart(x) ==
    /\ t[x].pc = "engine"
    /\ \/ /\ host' = {"base"}
          /\ on' = TRUE
          /\ Go(x, [t[x] EXCEPT !.pc = IF kind = "tun" THEN "dispatcher" ELSE "post",
                                !.res = @ \cup {"proxy"}])
          /\ UNCHANGED stale
       \/ /\ "engine" \in Faults
          /\ host' \in LeftByStart
          /\ BestEffort(IF kind = "tproxy" THEN {"base"} ELSE {})
          /\ FailStart(x)
          /\ UNCHANGED on
    /\ UNCHANGED <<lifecycle, waiting, slot, mark, journal, engineGuard, calls, crashes>>

\* The dispatcher takes over the TUN device.
StartDispatcher(x) ==
    /\ t[x].pc = "dispatcher"
    /\ \/ Go(x, [t[x] EXCEPT !.pc = "post", !.res = @ \cup {"dispatcher"}])
       \/ "engine" \in Faults /\ FailStart(x)
    /\ UNCHANGED <<lifecycle, waiting, slot, mark, on, engineGuard, kernel, calls, crashes>>

\* post_start opens the TUN ingress; the supervisor's tasks are spawned.
PostStart(x) ==
    /\ t[x].pc = "post"
    /\ \/ /\ host' = host \cup IF kind = "tun" THEN {"ingress"} ELSE {}
          /\ Go(x, [t[x] EXCEPT !.pc = "commit", !.res = @ \cup {"tasks"}])
       \/ /\ kind = "tun" /\ "engine" \in Faults
          /\ FailStart(x)
          /\ UNCHANGED host
    /\ UNCHANGED <<lifecycle, waiting, slot, mark, stale, journal, on, engineGuard,
                   calls, crashes>>

Commit(x) ==
    /\ t[x].pc = "commit"
    /\ slot' = t[x].res
    /\ Go(x, [t[x] EXCEPT !.pc = "finish", !.to = "Running", !.res = {},
                          !.stopEngine = FALSE])
    /\ UNCHANGED <<lifecycle, waiting, mark, on, engineGuard, kernel, calls, crashes>>

(***************************************************************************)
(* SupervisorResources::shutdown, in CLEANUP_ORDER                         *)
(***************************************************************************)
\* shutdown returns an error: what is left goes back to the slot.
KeepForRetry(x, res) ==
    /\ slot' = res
    /\ Go(x, [t[x] EXCEPT !.pc = "finish", !.to = "CleanupFailed", !.res = {},
                          !.stopEngine = FALSE, !.again = FALSE])

StopTasks(x) ==
    /\ t[x].pc = "tasks"
    /\ Go(x, [t[x] EXCEPT !.pc = "ingress", !.res = @ \ {"tasks"}])
    /\ UNCHANGED <<lifecycle, waiting, slot, mark, on, engineGuard, kernel, calls, crashes>>

\* Faulty variant: the dispatcher goes although pre_stop failed.
PreStopDropsDispatcher(x) ==
    /\ t[x].pc = "ingress"
    /\ host' = host
    /\ KeepForRetry(x, t[x].res \ {"dispatcher", "proxy"})
    /\ UNCHANGED <<lifecycle, waiting, mark, stale, journal, on, engineGuard, calls, crashes>>

\* pre_stop closes the ingress, then the dispatcher and the proxy go.
PreStop(x) ==
    /\ t[x].pc = "ingress"
    /\ \/ /\ host' = host \ {"ingress"}
          /\ Go(x, [t[x] EXCEPT !.pc = "stop", !.res = @ \ {"dispatcher", "proxy"}])
          /\ UNCHANGED slot
       \/ /\ kind = "tun" /\ "stop" \in Faults
          /\ host' \in {host, host \ {"ingress"}}
          /\ KeepForRetry(x, t[x].res)
    /\ UNCHANGED <<lifecycle, waiting, mark, stale, journal, on, engineGuard, calls, crashes>>

\* What a successful engine.stop does.  An engine that is not on has nothing to
\* do; TPROXY reverts as best it can; TUN sweeps with its guard, and without one
\* reverts as best it can.
EngineStopped ==
    /\ on' = FALSE
    /\ engineGuard' = FALSE
    /\ \/ /\ ~on
          /\ UNCHANGED <<host, stale, journal>>
       \/ /\ on /\ engineGuard
          /\ host' = {} /\ stale' = FALSE /\ journal' = "empty"
       \/ /\ on /\ ~engineGuard
          /\ host' = {}
          /\ BestEffort(IF kind = "redirect" THEN {} ELSE host)
          /\ UNCHANGED journal

\* What a failed engine.stop does: pre_stop or uninstall failed, or the TUN
\* engine's mark_clean, which consumes the guard.
EngineStopFailed ==
    \/ /\ "stop" \in Faults /\ kind \in {"tun", "redirect"}
       /\ UNCHANGED <<host, stale, journal, on, engineGuard>>
    \/ /\ "sweep" \in Faults /\ on /\ engineGuard
       /\ engineGuard' = FALSE
       /\ host' \in SUBSET host
       /\ UNCHANGED <<stale, journal, on>>

\* Faulty variant: the error of engine.stop is ignored.
StopEngineIgnored(x) ==
    /\ t[x].pc = "stop"
    /\ EngineStopped \/ EngineStopFailed
    /\ To(x, "release")
    /\ UNCHANGED <<lifecycle, waiting, slot, mark, calls, crashes>>

StopEngine(x) ==
    /\ t[x].pc = "stop"
    /\ \/ EngineStopped /\ To(x, "release") /\ UNCHANGED slot
       \/ EngineStopFailed /\ KeepForRetry(x, t[x].res)
    /\ UNCHANGED <<lifecycle, waiting, mark, calls, crashes>>

\* OutboundFwmarkLease::release.
ReleaseMark(x) ==
    /\ t[x].pc = "release"
    /\ mark' = (mark /\ "mark" \notin t[x].res)
    /\ Go(x, [t[x] EXCEPT !.pc = "undns", !.res = @ \ {"mark"}])
    /\ UNCHANGED <<lifecycle, waiting, slot, on, engineGuard, kernel, calls, crashes>>

CloseDns(x) ==
    /\ t[x].pc = "undns"
    /\ Go(x, [t[x] EXCEPT !.pc = "clean", !.res = @ \ {"dns"}])
    /\ UNCHANGED <<lifecycle, waiting, slot, mark, on, engineGuard, kernel, calls, crashes>>

\* mark_clean of the supervisor's guard: sweep, then empty the journal.  It
\* consumes the guard whether it succeeds or not.
MarkClean(x) ==
    /\ t[x].pc = "clean"
    /\ LET stopped == [t[x] EXCEPT !.pc = "finish", !.to = "Stopped", !.res = {},
                                   !.stopEngine = FALSE]
       IN  \/ /\ "guard" \notin t[x].res
              /\ Go(x, stopped)
              /\ UNCHANGED <<slot, kernel>>
           \/ /\ "guard" \in t[x].res
              /\ host' = {} /\ stale' = FALSE /\ journal' = "empty"
              /\ Go(x, stopped)
              /\ UNCHANGED slot
           \/ /\ "guard" \in t[x].res /\ "sweep" \in Faults
              /\ KeepForRetry(x, t[x].res \ {"guard"})
              /\ UNCHANGED kernel
    /\ UNCHANGED <<lifecycle, waiting, mark, on, engineGuard, calls, crashes>>

\* finish_transition: store, then notify_waiters.
Finish(x) ==
    /\ t[x].pc = "finish"
    /\ lifecycle' = t[x].to
    /\ To(x, "notify")
    /\ UNCHANGED <<waiting, slot, mark, on, engineGuard, kernel, calls, crashes>>

\* Faulty variant: the waiters are not notified.
NotifyLost(x) ==
    /\ t[x].pc = "notify"
    /\ Go(x, Idle)
    /\ UNCHANGED <<lifecycle, waiting, slot, mark, on, engineGuard, kernel, calls, crashes>>

Notify(x) ==
    /\ t[x].pc = "notify"
    /\ waiting' = {}
    /\ IF t[x].again /\ ~t[x].spawned
       THEN Go(x, [Idle EXCEPT !.pc = "enable", !.op = t[x].op])
       ELSE Go(x, Idle)
    /\ UNCHANGED <<lifecycle, slot, mark, on, engineGuard, kernel, calls, crashes>>

(***************************************************************************)
(* Cancellation and crashes                                                *)
(***************************************************************************)
\* Where a call awaits.
Awaits == {"await", "dns", "engine", "dispatcher", "post", "tasks", "ingress", "stop",
           "undns"} \cup (IF kind = "tun" THEN {"recover"} ELSE {})

\* The engine step that is dropped may have been done in part.
PartOfStop(x) ==
    \/ UNCHANGED <<kernel, on, engineGuard>>
    \/ /\ t[x].pc \in {"ingress", "stop"} /\ kind = "tun"
       /\ host' = host \ {"ingress"}
       /\ UNCHANGED <<stale, journal, on, engineGuard>>
    \/ t[x].pc = "stop" /\ kind # "tun" /\ EngineStopped

\* The caller's future is dropped.  An armed transaction with a started engine
\* is shut down by a spawned task; without a runtime it is aborted and kept.
Cancel(x) ==
    /\ "cancel" \in Faults
    /\ t[x].pc \in Awaits /\ ~t[x].spawned
    /\ waiting' = waiting \ {x}
    /\ IF t[x].pc = "await"
       THEN Go(x, Idle) /\ UNCHANGED <<slot, kernel, on, engineGuard>>
       ELSE IF ~t[x].stopEngine
       THEN FailStart(x) /\ UNCHANGED <<slot, kernel, on, engineGuard>>
       ELSE /\ PartOfStop(x)
            /\ IF runtime
               THEN Go(x, [t[x] EXCEPT !.pc = "tasks", !.spawned = TRUE]) /\ UNCHANGED slot
               ELSE KeepForRetry(x, t[x].res \ {"tasks", "dispatcher", "proxy"})
    /\ UNCHANGED <<lifecycle, mark, calls, crashes>>

\* The process is killed; the kernel's rules and the journal stay.
Crash ==
    /\ "crash" \in Faults /\ crashes < MaxCrashes
    /\ crashes' = crashes + 1
    /\ lifecycle' = "Stopped" /\ waiting' = {} /\ slot' = None
    /\ mark' = FALSE /\ on' = FALSE /\ engineGuard' = FALSE
    /\ t' = [x \in Tasks |-> Idle]
    /\ host' = {} /\ stale' = (stale \/ host # {})
    /\ UNCHANGED <<journal, calls>>

Begin(x) == Enable(x) \/ Read(x) \/ Claim(x) \/ Awake(x)

Start(x) ==
    \/ BindDns(x) \/ InstallMark(x) \/ Recover(x) \/ Arm(x) \/ Armed(x)
    \/ EngineStart(x) \/ StartDispatcher(x) \/ PostStart(x) \/ Commit(x)

Shutdown(x) ==
    \/ StopTasks(x) \/ PreStop(x) \/ StopEngine(x) \/ ReleaseMark(x) \/ CloseDns(x)
    \/ MarkClean(x)

Run(x) == Begin(x) \/ Start(x) \/ Shutdown(x) \/ Finish(x) \/ Notify(x)

Next ==
    /\ \/ \E x \in Tasks : Run(x) \/ Cancel(x) \/ \E op \in {"start", "stop"} : Call(x, op)
       \/ Crash
    /\ UNCHANGED plan

Spec == Init /\ [][Next]_vars

\* Tokio polls a task that can go on, and every engine operation ends.
FairSpec == Spec /\ \A x \in Tasks : WF_vars(Run(x) /\ UNCHANGED plan)

(***************************************************************************)
(* Properties                                                              *)
(***************************************************************************)
Lifecycle == {"Stopped", "Starting", "Running", "Stopping", "CleanupFailed"}

Task == [pc : {"idle", "enable", "read", "cas", "await", "dns", "mark", "recover", "arm",
               "armed", "engine", "dispatcher", "post", "commit", "tasks", "ingress",
               "stop", "release", "undns", "clean", "finish", "notify"},
         op : {"start", "stop"}, seen : Lifecycle, res : SUBSET Resource,
         stopEngine : BOOLEAN, to : Lifecycle, again : BOOLEAN, spawned : BOOLEAN]

\* Type invariant.
TypeOK ==
    /\ kind \in Kinds /\ runtime \in BOOLEAN
    /\ lifecycle \in Lifecycle
    /\ waiting \subseteq Tasks
    /\ slot # None => slot \subseteq Resource
    /\ mark \in BOOLEAN /\ on \in BOOLEAN /\ engineGuard \in BOOLEAN
    /\ host \subseteq {"base", "ingress"} /\ stale \in BOOLEAN
    /\ journal \in {"empty", "torn", "record"}
    /\ t \in [Tasks -> Task]
    /\ calls \in Nat /\ crashes \in Nat

\* The task is between its claim and the store that publishes the outcome.
InTransition(x) == t[x].pc \notin {"idle", "enable", "read", "cas", "await", "notify"}

\* Resources held by a transaction or kept in the slot.
Held == UNION {t[x].res : x \in Tasks} \cup (IF slot = None THEN {} ELSE slot)

\* The resources have one owner: a transition is under way exactly in the
\* transient lifecycles, by one task, and the slot is full exactly when nobody
\* is in a transition and there is something to stop (the two debug_asserts on
\* the slot, and the compare-and-swaps of begin_start and begin_stop).
SingleOwner ==
    /\ \A x, y \in Tasks : InTransition(x) /\ InTransition(y) => x = y
    /\ (\E x \in Tasks : InTransition(x)) <=> lifecycle \in {"Starting", "Stopping"}
    /\ lifecycle \in {"Running", "CleanupFailed"} => slot # None
    /\ slot # None => \/ lifecycle \in {"Running", "CleanupFailed"}
                      \/ \E x \in Tasks : t[x].pc = "finish"

\* While the process tracks rules in the host, its sockets carry the mark that
\* keeps them out of the capture and the DNS listeners the rules point at are
\* up (comments of the OutboundFwmark and DnsListener steps of shutdown).
ProtectedWhileCapturing ==
    host # {} => (UsesMark => mark) /\ "dns" \in Held

\* Ingress never feeds a data plane without its dispatcher, on the way up and
\* on the way down (comments at post_start and at EngineIngress).  The abort
\* without a runtime stops the dispatcher first.
DispatcherCoversIngress == runtime /\ "ingress" \in host => "dispatcher" \in Held

\* Rules never outlive the record that names them: whatever is in the host, of
\* this process, of a killed one or left by a failed removal, the next start finds
\* a whole record of it (LinuxCaptureGuard: arm before the first mutation, sweep
\* before truncation).
HostHasRecord == host # {} \/ stale => journal = "record"

\* Stopped means that the process tracks no rule and owns no resource any more.
StoppedIsClean == lifecycle = "Stopped" => host = {} /\ Held = {}

\* Stopped means that the fwmark is released, so that another start can install
\* it.  It is not when a TPROXY start fails to acquire the journal's guard.
StoppedReleasesMark == lifecycle = "Stopped" => ~mark

\* The supervisor implements its contract.
Contract == INSTANCE CaptureContract WITH captured <- (host # {})

ContractSpec == Contract!Spec

\* Every start and stop returns: no waiter misses the notification it waits for.
CallsReturn == \A x \in Tasks : t[x].pc # "idle" ~> t[x].pc = "idle"
=============================================================================
