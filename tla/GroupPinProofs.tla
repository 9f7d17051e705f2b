--------------------------- MODULE GroupPinProofs ---------------------------
(***************************************************************************)
(* Theorems about GroupPin, for any set of nodes and callers and any       *)
(* bounds.  The invariant has three layers: types (with what a handler's   *)
(* program counter says of its locals), the mutual exclusion that          *)
(* group_pin_lock gives, and what each stage of a transaction knows of the *)
(* store and of the generations.                                           *)
(***************************************************************************)
EXTENDS GroupPin, TLAPS

(***************************************************************************)
(* Types and the lock                                                      *)
(***************************************************************************)
\* The handlers are well typed, a set request has its argument, and a handler
\* that is past the lock is the head of the queue.
HandlersOK ==
    /\ h \in [Callers -> Handler]
    /\ queue \in Seq(Callers)
    /\ \A c \in Callers : h[c].op = "set" => h[c].arg \in Pin
    /\ \A c \in Callers : h[c].pc \in Critical => Owns(c)

Selector == [members : SUBSET Nodes, pin : Option(Pin), gen : Nat]

\* The rest of the state is well typed, and a refresh in progress has room for
\* the selector it will publish.
RuntimeOK ==
    /\ sel \in [Selectors -> Selector]
    /\ cur \in Selectors
    /\ row \in Option(Pin)
    /\ legacy \in Option(Nodes)
    /\ refresh \in Option([members : SUBSET Nodes, pin : Option(Pin)])
    /\ issued \in Nat
    /\ refresh # None => cur < MaxRefresh

TypeInv == HandlersOK /\ RuntimeOK

LEMMA NewSelectorType ==
    ASSUME NEW m \in SUBSET Nodes, NEW p \in Option(Pin)
    PROVE  NewSelector(m, p) \in Selector
BY PinAssumption DEF NewSelector, Selector, Option, Pin

LEMMA BootPinType ==
    ASSUME row \in Option(Pin), legacy \in Option(Nodes)
    PROVE  BootPin \in Option(Pin)
BY PinAssumption DEF BootPin, Option, Pin

\* The handlers that are not running.
LEMMA IdleType ==
    ASSUME NEW r \in {Idle, Gone}
    PROVE  /\ r \in Handler /\ r.op # "set" /\ r.pc \notin Critical
           /\ r.prev = None /\ r.tok = None
BY PinAssumption DEF Idle, Gone, Handler, Option, Selectors, Critical

\* A handler that takes its place in the queue.
LEMMA EnqueueKeeps ==
    ASSUME HandlersOK, NEW c \in Callers, NEW r \in Handler, r.op = "set" => r.arg \in Pin,
           Enqueue(c, r)
    PROVE  HandlersOK'
<1> DEFINE q == [r EXCEPT !.pc = "queued"]
<1>1. q \in Handler /\ q.op = r.op /\ q.arg = r.arg /\ q.pc = "queued"
  BY DEF Handler
<1>2. h' = [h EXCEPT ![c] = q] /\ queue' = Append(queue, c)
  BY DEF Enqueue
<1> HIDE DEF q
<1>3. h' \in [Callers -> Handler] /\ queue' \in Seq(Callers)
  BY <1>1, <1>2 DEF HandlersOK
<1>4. \A d \in Callers : h'[d].op = "set" => h'[d].arg \in Pin
  BY <1>1, <1>2 DEF HandlersOK
<1>5. ASSUME NEW d \in Callers, h'[d].pc \in Critical PROVE Owns(d)'
  <2>1. Owns(d)
    BY <1>1, <1>2, <1>5 DEF HandlersOK, Critical
  <2> QED
    BY <1>2, <2>1 DEF Owns, HandlersOK
<1> QED
  BY <1>3, <1>4, <1>5 DEF HandlersOK

\* The owner of the lock returns or is dropped.
LEMMA LeaveKeeps ==
    ASSUME HandlersOK, NEW c \in Callers, Owns(c), NEW r \in {Idle, Gone}, Leave(c, r)
    PROVE  HandlersOK'
<1>1. h' = [h EXCEPT ![c] = r] /\ queue' = Tail(queue) /\ queue # << >>
  BY DEF Leave, Owns
<1>2. h' \in [Callers -> Handler] /\ queue' \in Seq(Callers)
  BY <1>1, IdleType DEF HandlersOK
<1>3. \A d \in Callers : h'[d].op = "set" => h'[d].arg \in Pin
  BY <1>1, IdleType DEF HandlersOK
<1>4. \A d \in Callers : h'[d].pc \notin Critical
  BY <1>1, IdleType DEF HandlersOK, Owns
<1> QED
  BY <1>2, <1>3, <1>4 DEF HandlersOK

LEMMA ReturnKeeps ==
    ASSUME HandlersOK, NEW c \in Callers, Owns(c), Return(c)
    PROVE  HandlersOK'
BY LeaveKeeps DEF Return

\* A handler moves on; past the lock only if it owns it.
LEMMA AdvanceKeeps ==
    ASSUME HandlersOK, NEW c \in Callers, NEW r \in Handler, r.op = "set" => r.arg \in Pin,
           r.pc \in Critical => Owns(c), h' = [h EXCEPT ![c] = r], queue' = queue
    PROVE  HandlersOK'
<1>1. h' \in [Callers -> Handler] /\ queue' \in Seq(Callers)
  BY DEF HandlersOK
<1>2. \A d \in Callers : h'[d].op = "set" => h'[d].arg \in Pin
  BY DEF HandlersOK
<1>3. \A d \in Callers : h'[d].pc \in Critical => Owns(d)'
  BY DEF HandlersOK, Owns
<1> QED
  BY <1>1, <1>2, <1>3 DEF HandlersOK

\* The start of a process satisfies the type invariant.
LEMMA InitType == Init => TypeInv
<1> SUFFICES ASSUME Init PROVE TypeInv
  OBVIOUS
<1>1. row \in Option(Pin) /\ legacy \in Option(Nodes)
  BY DEF Init, Option
<1>2. NewSelector(Nodes, BootPin) \in Selector
  BY <1>1, NewSelectorType, BootPinType
<1>3. 0 \in Selectors
  BY PinAssumption DEF Selectors
<1>4. RuntimeOK
  BY <1>1, <1>2, <1>3 DEF Init, RuntimeOK, Option
<1>5. HandlersOK
  BY IdleType DEF Init, HandlersOK
<1> QED
  BY <1>4, <1>5 DEF TypeInv

\* Every step keeps the handlers well formed: one step per action.
LEMMA NextHandlers == TypeInv /\ [Next]_vars => HandlersOK'
<1> SUFFICES ASSUME TypeInv, [Next]_vars PROVE HandlersOK'
  OBVIOUS
<1>0. /\ HandlersOK
      /\ \A c \in Callers : h[c] \in Handler /\ (h[c].op = "set" => h[c].arg \in Pin)
      /\ \A c \in Callers : h[c].pc \in Critical => Owns(c)
      /\ cur \in Selectors
      /\ \A s \in Selectors : sel[s].pin \in Option(Pin)
  BY DEF TypeInv, HandlersOK, RuntimeOK, Selector
<1>1. ASSUME NEW c \in Callers, NEW n \in Nodes, CallSet(c, n) PROVE HandlersOK'
  <2> DEFINE r == [h[c] EXCEPT !.op = "set", !.arg = [node |-> n, gen |-> 0, id |-> issued + 1]]
  <2>1. [node |-> n, gen |-> 0, id |-> issued + 1] \in Pin
    BY DEF TypeInv, RuntimeOK, Pin
  <2>2. r \in Handler /\ r.arg \in Pin
    BY <1>0, <2>1 DEF Handler, Option
  <2>3. Enqueue(c, r)
    BY <1>1 DEF CallSet
  <2> QED
    BY <1>0, <2>2, <2>3, EnqueueKeeps
<1>2. ASSUME NEW c \in Callers, CallClear(c) PROVE HandlersOK'
  <2> DEFINE r == [h[c] EXCEPT !.op = "clear"]
  <2>1. r \in Handler /\ r.op # "set"
    BY <1>0 DEF Handler
  <2> QED
    BY <1>0, <1>2, <2>1, EnqueueKeeps DEF CallClear
<1>3. ASSUME NEW c \in Callers, BeginManualProbe(c) PROVE HandlersOK'
  <2> DEFINE r == [h[c] EXCEPT !.pc = "probing", !.op = "release", !.tok = sel[cur].pin]
  <2>1. r \in Handler /\ r.op # "set" /\ r.pc \notin Critical
    BY <1>0 DEF Handler, Critical
  <2>2. h' = [h EXCEPT ![c] = r] /\ queue' = queue
    BY <1>3 DEF BeginManualProbe
  <2> QED
    BY <1>0, <2>1, <2>2, AdvanceKeeps
<1>4. ASSUME NEW c \in Callers, NEW any_success \in BOOLEAN, ProbesDone(c, any_success)
      PROVE  HandlersOK'
  <2> DEFINE r == [h[c] EXCEPT !.tok = IF any_success /\ ~Manual THEN @ ELSE None]
  <2>1. r \in Handler /\ (r.op = "set" => r.arg \in Pin)
    BY <1>0 DEF Handler, Option
  <2>2. Enqueue(c, r)
    BY <1>4 DEF ProbesDone
  <2> QED
    BY <1>0, <2>1, <2>2, EnqueueKeeps
<1>5. ASSUME NEW c \in Callers, Load(c) PROVE HandlersOK'
  <2>1. CASE h[c].op = "set" /\ h[c].arg.node \notin sel[cur].members
    BY <1>0, <1>5, <2>1, ReturnKeeps DEF Load
  <2>2. CASE ~(h[c].op = "set" /\ h[c].arg.node \notin sel[cur].members)
    <3> DEFINE r == [h[c] EXCEPT !.on = cur,
                                 !.pc = IF h[c].op = "clear" THEN "commit" ELSE "loaded"]
    <3>1. r \in Handler /\ (r.op = "set" => r.arg \in Pin)
      BY <1>0 DEF Handler
    <3>2. h' = [h EXCEPT ![c] = r] /\ queue' = queue /\ Owns(c)
      BY <1>5, <2>2 DEF Load
    <3> QED
      BY <1>0, <3>1, <3>2, AdvanceKeeps
  <2> QED
    BY <2>1, <2>2
<1>6. ASSUME NEW c \in Callers, SetPin(c) PROVE HandlersOK'
  <2> DEFINE r == [h[c] EXCEPT !.pc = "commit", !.prev = sel[h[c].on].pin]
  <2>1. h[c].on \in Selectors
    BY <1>0 DEF Handler
  <2>2. r \in Handler /\ (r.op = "set" => r.arg \in Pin)
    BY <1>0, <2>1 DEF Handler
  <2>3. h' = [h EXCEPT ![c] = r] /\ queue' = queue /\ Owns(c)
    BY <1>0, <1>6 DEF SetPin, Critical
  <2> QED
    BY <1>0, <2>2, <2>3, AdvanceKeeps
<1>7. ASSUME NEW c \in Callers, CompleteManualProbe(c) PROVE HandlersOK'
  <2>1. h[c].on \in Selectors /\ Owns(c)
    BY <1>0, <1>7 DEF Handler, CompleteManualProbe, Critical
  <2>2. CASE TokenMatches(h[c].tok, sel[h[c].on].pin)
    <3> DEFINE r == [h[c] EXCEPT !.pc = "commit", !.prev = sel[h[c].on].pin]
    <3>1. r \in Handler /\ (r.op = "set" => r.arg \in Pin)
      BY <1>0, <2>1 DEF Handler
    <3>2. h' = [h EXCEPT ![c] = r] /\ queue' = queue
      BY <1>7, <2>2 DEF CompleteManualProbe
    <3> QED
      BY <1>0, <2>1, <3>1, <3>2, AdvanceKeeps
  <2>3. CASE ~TokenMatches(h[c].tok, sel[h[c].on].pin)
    BY <1>0, <1>7, <2>1, <2>3, ReturnKeeps DEF CompleteManualProbe
  <2> QED
    BY <2>2, <2>3
<1>8. ASSUME NEW c \in Callers, CommitOk(c) PROVE HandlersOK'
  <2>1. Owns(c)
    BY <1>0, <1>8 DEF CommitOk, Critical
  <2>2. CASE h[c].op = "clear"
    <3> DEFINE r == [h[c] EXCEPT !.pc = "deleted"]
    <3>1. r \in Handler /\ (r.op = "set" => r.arg \in Pin)
      BY <1>0 DEF Handler
    <3>2. h' = [h EXCEPT ![c] = r] /\ queue' = queue
      BY <1>8, <2>2 DEF CommitOk
    <3> QED
      BY <1>0, <2>1, <3>1, <3>2, AdvanceKeeps
  <2>3. CASE h[c].op # "clear"
    BY <1>0, <1>8, <2>1, <2>3, ReturnKeeps DEF CommitOk
  <2> QED
    BY <2>2, <2>3
<1>9. ASSUME NEW c \in Callers, CommitErr(c) \/ ClearPin(c) \/ Cancel(c) PROVE HandlersOK'
  <2>1. Owns(c) /\ (Leave(c, Idle) \/ Leave(c, Gone))
    BY <1>0, <1>9 DEF CommitErr, ClearPin, Cancel, Return, Critical
  <2> QED
    BY <1>0, <2>1, LeaveKeeps
<1>10. CASE Restart
  BY <1>10, IdleType DEF Restart, HandlersOK
<1>11. CASE UNCHANGED <<queue, h>>
  BY <1>0, <1>11 DEF HandlersOK, Owns
<1>12. CASE RefreshPublish \/ UNCHANGED vars \/ \E m \in SUBSET Nodes : RefreshRead(m)
  BY <1>11, <1>12 DEF RefreshPublish, RefreshRead, vars
<1> QED
  BY <1>1, <1>2, <1>3, <1>4, <1>5, <1>6, <1>7, <1>8, <1>9, <1>10, <1>12 DEF Next, Request, Run

\* A selector whose pin or generation changes is still a selector.
LEMMA SelectorUpdate ==
    ASSUME NEW s \in Selector, NEW p \in Option(Pin), NEW g \in Nat
    PROVE  [s EXCEPT !.pin = p, !.gen = g] \in Selector
BY DEF Selector

\* The pin set_pin builds from the request.
LEMMA PinUpdate ==
    ASSUME NEW p \in Pin, NEW g \in Nat
    PROVE  [p EXCEPT !.gen = g] \in Pin
BY DEF Pin

\* Every step keeps the selectors and the store well formed.
LEMMA NextRuntime == TypeInv /\ [Next]_vars => RuntimeOK'
<1> SUFFICES ASSUME TypeInv, [Next]_vars PROVE RuntimeOK'
  OBVIOUS
<1>0. RuntimeOK /\ None \in Option(Pin) /\ None \in Option(Nodes)
  BY DEF TypeInv, Option
<1>a. ASSUME NEW c \in Callers
      PROVE  /\ h[c].on \in Selectors
             /\ h[c].prev \in Option(Pin)
             /\ h[c].op = "set" => h[c].arg \in Pin
             /\ sel[h[c].on] \in Selector
             /\ sel[h[c].on].pin \in Option(Pin)
             /\ sel[h[c].on].gen \in Nat
  BY DEF TypeInv, HandlersOK, RuntimeOK, Handler, Selector
<1>1. CASE \E c \in Callers, n \in Nodes : CallSet(c, n)
  BY <1>0, <1>1 DEF CallSet, RuntimeOK, store
<1>2. CASE \E c \in Callers : CallClear(c) \/ BeginManualProbe(c) \/ Load(c)
  BY <1>0, <1>2 DEF CallClear, BeginManualProbe, Load, RuntimeOK, store
<1>3. CASE \E c \in Callers, any_success \in BOOLEAN : ProbesDone(c, any_success)
  BY <1>0, <1>3 DEF ProbesDone, RuntimeOK, store
<1>4. ASSUME NEW c \in Callers, SetPin(c) PROVE RuntimeOK'
  <2> DEFINE s == sel[h[c].on]
             p == [h[c].arg EXCEPT !.gen = s.gen + 1]
  <2>0. h[c].op = "set"
    BY <1>4 DEF SetPin
  <2>a. h[c].arg \in Pin /\ s \in Selector /\ s.gen \in Nat
    BY <1>a, <2>0
  <2>b. s.gen + 1 \in Nat
    BY <2>a
  <2>1. p \in Option(Pin)
    BY <2>a, <2>b, PinUpdate DEF Option
  <2>2. [s EXCEPT !.pin = p, !.gen = s.gen + 1] \in Selector
    BY <2>a, <2>b, <2>1, SelectorUpdate
  <2>3. sel' = [sel EXCEPT ![h[c].on] = [s EXCEPT !.pin = p, !.gen = s.gen + 1]]
    BY <1>0, <1>4 DEF SetPin, RuntimeOK
  <2>4. UNCHANGED <<cur, row, legacy, refresh, issued>>
    BY <1>4 DEF SetPin, store
  <2> HIDE DEF p, s
  <2> QED
    BY <1>0, <2>2, <2>3, <2>4 DEF RuntimeOK
<1>5. ASSUME NEW c \in Callers, NEW p \in Option(Pin), UNCHANGED <<cur, store, refresh, issued>>,
             sel' = [sel EXCEPT ![h[c].on] = [@ EXCEPT !.pin = p]]
      PROVE  RuntimeOK'
  <2>1. sel[h[c].on] \in Selector
    BY <1>a
  <2>2. [sel[h[c].on] EXCEPT !.pin = p] \in Selector
    BY <2>1 DEF Selector
  <2>3. sel' = [sel EXCEPT ![h[c].on] = [sel[h[c].on] EXCEPT !.pin = p]]
    BY <1>5, <1>a DEF RuntimeOK
  <2> QED
    BY <1>0, <1>5, <2>2, <2>3 DEF RuntimeOK, store
<1>6. CASE \E c \in Callers : CompleteManualProbe(c) \/ CommitErr(c) \/ ClearPin(c)
  <2>1. CASE sel' = sel
    BY <1>0, <1>6, <2>1 DEF CompleteManualProbe, CommitErr, ClearPin, RuntimeOK, store
  <2>2. CASE sel' # sel
    <3>1. PICK c \in Callers : CompleteManualProbe(c) \/ CommitErr(c) \/ ClearPin(c)
      BY <1>6
    <3>2. UNCHANGED <<cur, store, refresh, issued>>
      BY <3>1 DEF CompleteManualProbe, CommitErr, ClearPin
    <3>3. \/ sel' = [sel EXCEPT ![h[c].on] = [@ EXCEPT !.pin = None]]
          \/ sel' = [sel EXCEPT ![h[c].on] = [@ EXCEPT !.pin = h[c].prev]]
      BY <2>2, <3>1 DEF CompleteManualProbe, CommitErr, ClearPin
    <3> QED
      BY <1>0, <1>5, <1>a, <3>2, <3>3
  <2> QED
    BY <2>1, <2>2
<1>7. CASE \E c \in Callers : CommitOk(c) \/ Cancel(c)
  <2>1. PICK c \in Callers : CommitOk(c) \/ Cancel(c)
    BY <1>7
  <2>2. /\ UNCHANGED <<sel, cur, refresh, issued>>
        /\ row' = row \/ row' = sel[h[c].on].pin \/ row' = None
        /\ legacy' = legacy \/ legacy' = None
    BY <2>1 DEF CommitOk, Cancel, WriteBatch, store
  <2> QED
    BY <1>0, <1>a, <2>2 DEF RuntimeOK
<1>8. CASE \E m \in SUBSET Nodes : RefreshRead(m)
  <2>1. PICK m \in SUBSET Nodes : RefreshRead(m)
    BY <1>8
  <2>2. sel[cur].pin \in Option(Pin)
    BY <1>0 DEF RuntimeOK, Selector
  <2>3. refresh' = [members |-> m, pin |-> sel[cur].pin] /\ cur < MaxRefresh
    BY <2>1 DEF RefreshRead
  <2>4. UNCHANGED <<sel, cur, row, legacy, issued>>
    BY <2>1 DEF RefreshRead, store
  <2>5. refresh' \in Option([members : SUBSET Nodes, pin : Option(Pin)])
    BY <2>2, <2>3 DEF Option
  <2> QED
    BY <1>0, <2>3, <2>4, <2>5 DEF RuntimeOK
<1>9. CASE RefreshPublish
  <2>1. NewSelector(refresh.members, refresh.pin) \in Selector
    BY <1>0, <1>9, NewSelectorType DEF RefreshPublish, RuntimeOK, Option
  <2>2. cur + 1 \in Selectors
    BY <1>0, <1>9, PinAssumption DEF RefreshPublish, RuntimeOK, Selectors
  <2>3. refresh' = None /\ cur' = cur + 1 /\ UNCHANGED <<row, legacy, issued>>
    BY <1>9 DEF RefreshPublish, store
  <2>4. sel' \in [Selectors -> Selector]
    BY <1>0, <1>9, <2>1, <2>2 DEF RefreshPublish, RuntimeOK
  <2> QED
    BY <1>0, <2>2, <2>3, <2>4 DEF RuntimeOK, Option
<1>10. CASE Restart
  <2>1. NewSelector(Nodes, BootPin) \in Selector /\ 0 \in Selectors
    BY <1>0, NewSelectorType, BootPinType, PinAssumption DEF RuntimeOK, Selectors
  <2> QED
    BY <1>0, <1>10, <2>1 DEF Restart, RuntimeOK, store, Option
<1>11. CASE UNCHANGED vars
  BY <1>0, <1>11 DEF vars, RuntimeOK
<1> QED
  BY <1>1, <1>2, <1>3, <1>4, <1>6, <1>7, <1>8, <1>9, <1>10, <1>11 DEF Next, Request, Run

\* The type invariant is inductive, so it holds throughout.
LEMMA TypeInvariant == Spec => []TypeInv
<1>1. Init => TypeInv
  BY InitType
<1>2. TypeInv /\ [Next]_vars => TypeInv'
  BY NextHandlers, NextRuntime DEF TypeInv
<1> QED
  BY <1>1, <1>2, PTL DEF Spec

\* Type correctness: in every reachable state of every interleaving of
\* handlers, refresh and restart, the selectors, the store rows and the locals
\* of the handlers are well formed.
THEOREM TypeCorrect == Spec => []TypeOK
<1>1. TypeInv => TypeOK
  BY DEF TypeInv, HandlersOK, RuntimeOK, TypeOK, Selector
<1> QED
  BY <1>1, TypeInvariant, PTL

(***************************************************************************)
(* The published pin and the store                                         *)
(***************************************************************************)
\* What a transaction in progress knows of the store.  Before the commit the
\* store still agrees with the pin the rollback would restore; a clear changes
\* the selector last, after the rows are gone.
TxInv(c) ==
    /\ h[c].pc \in Critical => h[c].on = cur
    /\ h[c].pc = "loaded" => Agrees(sel[cur].pin)
    /\ h[c].pc = "commit" /\ h[c].op = "clear" => Agrees(sel[cur].pin)
    /\ h[c].pc = "commit" /\ h[c].op # "clear" => Agrees(h[c].prev)
    /\ h[c].pc = "commit" /\ h[c].op = "set" => sel[cur].pin \in Pin
    /\ h[c].pc = "commit" /\ h[c].op = "release" => sel[cur].pin = None
    /\ h[c].pc = "deleted" => row = None /\ legacy = None

Settled == Quiescent => Agrees(sel[cur].pin)

StoreInv ==
    /\ refresh = None
    /\ Settled
    /\ \A c \in Callers : TxInv(c)

\* A step after which the group is untouched by refreshes is not one of a refresh.
LEMMA NoRefreshStep ==
    ASSUME TypeInv, Unrefreshed'
    PROVE  ~RefreshPublish /\ \A m \in SUBSET Nodes : ~RefreshRead(m)
<1>1. ~RefreshPublish
  BY DEF RefreshPublish, Unrefreshed, TypeInv, RuntimeOK, Selectors
<1>2. ASSUME NEW m \in SUBSET Nodes, RefreshRead(m) PROVE FALSE
  <2>1. sel[cur].pin \in Option(Pin)
    BY DEF TypeInv, RuntimeOK, Selector
  <2>2. [members |-> m, pin |-> sel[cur].pin] \in [members : SUBSET Nodes, pin : Pin \cup {None}]
    BY <2>1 DEF Option
  <2> QED
    BY <1>2, <2>2, PinAssumption DEF RefreshRead, Unrefreshed
<1> QED
  BY <1>1, <1>2

\* A handler step, or a step that changes neither selector table nor handlers.
LEMMA HandlerSteps ==
    ASSUME TypeInv, [Next]_vars, Unrefreshed', ~Restart
    PROVE  /\ Unrefreshed
           /\ UNCHANGED h \/ \E c \in Callers : Request(c) \/ Run(c) \/ Cancel(c)
<1>1. CASE UNCHANGED vars
  BY <1>1 DEF vars, Unrefreshed
<1>2. CASE \E c \in Callers : Request(c) \/ Run(c) \/ Cancel(c)
  <2>1. UNCHANGED <<cur, refresh>>
    BY <1>2 DEF Request, Run, CallSet, CallClear, BeginManualProbe, ProbesDone, Load,
       SetPin, CompleteManualProbe, CommitOk, CommitErr, ClearPin, Cancel
  <2> QED
    BY <1>2, <2>1 DEF Unrefreshed
<1> QED
  BY <1>1, <1>2, NoRefreshStep DEF Next

\* Only a restart brings an undisturbed group back.
LEMMA DisturbedStays ==
    ASSUME TypeInv, [Next]_vars, Undisturbed', ~Restart
    PROVE  Undisturbed
<1>1. Unrefreshed /\ (UNCHANGED h \/ \E c \in Callers : Request(c) \/ Run(c) \/ Cancel(c))
  BY HandlerSteps DEF Undisturbed
<1>2. ASSUME NEW d \in Callers, h[d].pc = "gone" PROVE FALSE
  <2>1. CASE UNCHANGED h
    BY <1>2, <2>1 DEF Undisturbed
  <2>2. ASSUME NEW c \in Callers, Request(c) \/ Run(c) \/ Cancel(c) PROVE FALSE
    <3>1. h[c].pc # "gone"
      BY <2>2 DEF Request, Run, CallSet, CallClear, BeginManualProbe, ProbesDone, Load,
         SetPin, CompleteManualProbe, CommitOk, CommitErr, ClearPin, Cancel
    <3>2. \E r : h' = [h EXCEPT ![c] = r]
      BY <2>2 DEF Request, Run, CallSet, CallClear, BeginManualProbe, ProbesDone, Load,
         SetPin, CompleteManualProbe, CommitOk, CommitErr, ClearPin, Cancel, Enqueue, Return, Leave
    <3> QED
      BY <1>2, <3>1, <3>2 DEF Undisturbed, TypeInv, HandlersOK
  <2> QED
    BY <1>1, <2>1, <2>2
<1> QED
  BY <1>1, <1>2 DEF Undisturbed

\* At most one handler is past the lock.
LEMMA Exclusive ==
    ASSUME HandlersOK, NEW c \in Callers, Owns(c), NEW d \in Callers, h[d].pc \in Critical
    PROVE  d = c
BY DEF HandlersOK, Owns

\* What build_with restores agrees with the store.
LEMMA BootAgrees ==
    ASSUME row \in Option(Pin), legacy \in Option(Nodes)
    PROVE  Agrees(BootPin)
<1>1. CASE row # None
  BY <1>1 DEF Agrees, BootPin
<1>2. CASE row = None /\ legacy # None
  <2>1. BootPin = [node |-> legacy, gen |-> 1, id |-> 0]
    BY <1>2 DEF BootPin
  <2>2. BootPin \in Pin
    BY <1>2, <2>1 DEF Option, Pin
  <2> QED
    BY <1>2, <2>1, <2>2, PinAssumption DEF Agrees
<1>3. CASE row = None /\ legacy = None
  BY <1>3 DEF Agrees, BootPin
<1> QED
  BY <1>1, <1>2, <1>3

\* A step of a handler outside the lock leaves every transaction alone.
LEMMA OutsideKeeps ==
    ASSUME TypeInv, StoreInv, NEW c \in Callers, h[c].pc \notin Critical,
           NEW r, r.pc \notin Critical, h' = [h EXCEPT ![c] = r],
           UNCHANGED <<sel, cur, row, legacy, refresh>>
    PROVE  StoreInv'
<1>1. \A d \in Callers : h'[d].pc \in Critical <=> h[d].pc \in Critical
  BY DEF TypeInv, HandlersOK
<1>2. \A d \in Callers : h'[d].pc \in Critical => h'[d] = h[d]
  BY DEF TypeInv, HandlersOK
<1>3. Settled'
  BY <1>1 DEF StoreInv, Settled, Quiescent, Agrees
<1>4. ASSUME NEW d \in Callers PROVE TxInv(d)'
  <2>1. CASE h'[d].pc \in Critical
    BY <1>2, <2>1 DEF StoreInv, TxInv, Agrees
  <2>2. CASE h'[d].pc \notin Critical
    BY <2>2 DEF TxInv, Critical
  <2> QED
    BY <2>1, <2>2
<1> QED
  BY <1>3, <1>4 DEF StoreInv

\* The owner of the lock returns with the selector and the store in agreement.
LEMMA OwnerReturns ==
    ASSUME TypeInv, NEW c \in Callers, Owns(c), Return(c), refresh' = None,
           Agrees(sel[cur].pin)'
    PROVE  StoreInv'
<1>1. \A d \in Callers : h'[d].pc \notin Critical
  BY Exclusive, IdleType DEF TypeInv, HandlersOK, Return, Leave
<1>2. \A d \in Callers : TxInv(d)'
  BY <1>1 DEF TxInv, Critical
<1> QED
  BY <1>2 DEF StoreInv, Settled

\* The owner of the lock moves to another stage of its transaction.
LEMMA OwnerAdvances ==
    ASSUME TypeInv, NEW c \in Callers, Owns(c), NEW r, r.pc \in Critical,
           h' = [h EXCEPT ![c] = r], refresh' = None, TxInv(c)'
    PROVE  StoreInv'
<1>1. h'[c] = r
  BY DEF TypeInv, HandlersOK
<1>2. ~Quiescent'
  BY <1>1 DEF Quiescent
<1>3. ASSUME NEW d \in Callers, d # c PROVE TxInv(d)'
  <2>1. h'[d].pc \notin Critical
    BY <1>3, Exclusive DEF TypeInv, HandlersOK
  <2> QED
    BY <2>1 DEF TxInv, Critical
<1> QED
  BY <1>2, <1>3 DEF StoreInv, Settled

\* A process starts in agreement with the store, whatever the one before it did.
LEMMA RestartStore ==
    ASSUME TypeInv, Restart
    PROVE  StoreInv'
<1>1. Agrees(BootPin)
  BY BootAgrees DEF TypeInv, RuntimeOK
<1>2. 0 \in Selectors /\ UNCHANGED <<row, legacy>> /\ cur' = 0 /\ refresh' = None
  BY PinAssumption DEF Restart, Selectors, store
<1>3. sel'[cur'].pin = BootPin
  BY <1>2 DEF Restart, NewSelector
<1>4. \A c \in Callers : h'[c].pc \notin Critical
  BY IdleType DEF Restart
<1>5. Agrees(sel[cur].pin)'
  BY <1>1, <1>2, <1>3 DEF Agrees
<1>6. \A c \in Callers : TxInv(c)'
  BY <1>4 DEF TxInv, Critical
<1> QED
  BY <1>2, <1>5, <1>6 DEF StoreInv, Settled

\* As long as there is no concurrent refresh and no dropped handler, every step
\* keeps the agreement: one step per action.
LEMMA NextStore ==
    ASSUME Undisturbed, Undisturbed', TypeInv, StoreInv, [Next]_vars
    PROVE  StoreInv'
<1>0. /\ refresh = None
      /\ \A c \in Callers : h[c] \in Handler /\ TxInv(c)
      /\ \A c \in Callers : h[c].pc \in Critical => Owns(c)
      /\ h \in [Callers -> Handler]
      /\ sel \in [Selectors -> Selector] /\ cur \in Selectors
  BY DEF TypeInv, StoreInv, HandlersOK, RuntimeOK
<1>1. ASSUME NEW c \in Callers, NEW n \in Nodes, CallSet(c, n) PROVE StoreInv'
  <2> DEFINE r == [[h[c] EXCEPT !.op = "set",
                       !.arg = [node |-> n, gen |-> 0, id |-> issued + 1]] EXCEPT !.pc = "queued"]
  <2>1. r.pc = "queued"
    BY <1>0 DEF Handler
  <2>2. /\ h[c].pc \notin Critical /\ h' = [h EXCEPT ![c] = r]
        /\ UNCHANGED <<sel, cur, row, legacy, refresh>>
    BY <1>1 DEF CallSet, Enqueue, store, Critical
  <2> HIDE DEF r
  <2> QED
    BY <2>1, <2>2, OutsideKeeps DEF Critical
<1>2. ASSUME NEW c \in Callers, CallClear(c) PROVE StoreInv'
  <2> DEFINE r == [[h[c] EXCEPT !.op = "clear"] EXCEPT !.pc = "queued"]
  <2>1. r.pc = "queued"
    BY <1>0 DEF Handler
  <2>2. /\ h[c].pc \notin Critical /\ h' = [h EXCEPT ![c] = r]
        /\ UNCHANGED <<sel, cur, row, legacy, refresh>>
    BY <1>2 DEF CallClear, Enqueue, store, Critical
  <2> HIDE DEF r
  <2> QED
    BY <2>1, <2>2, OutsideKeeps DEF Critical
<1>3. ASSUME NEW c \in Callers, BeginManualProbe(c) PROVE StoreInv'
  <2> DEFINE r == [h[c] EXCEPT !.pc = "probing", !.op = "release", !.tok = sel[cur].pin]
  <2>1. r.pc = "probing"
    BY <1>0 DEF Handler
  <2>2. /\ h[c].pc \notin Critical /\ h' = [h EXCEPT ![c] = r]
        /\ UNCHANGED <<sel, cur, row, legacy, refresh>>
    BY <1>3 DEF BeginManualProbe, store, Critical
  <2> HIDE DEF r
  <2> QED
    BY <2>1, <2>2, OutsideKeeps DEF Critical
<1>4. ASSUME NEW c \in Callers, NEW any_success \in BOOLEAN, ProbesDone(c, any_success)
      PROVE  StoreInv'
  <2> DEFINE r == [[h[c] EXCEPT !.tok = IF any_success /\ ~Manual THEN @ ELSE None]
                      EXCEPT !.pc = "queued"]
  <2>1. r.pc = "queued"
    BY <1>0 DEF Handler
  <2>2. /\ h[c].pc \notin Critical /\ h' = [h EXCEPT ![c] = r]
        /\ UNCHANGED <<sel, cur, row, legacy, refresh>>
    BY <1>4 DEF ProbesDone, Enqueue, store, Critical
  <2> HIDE DEF r
  <2> QED
    BY <2>1, <2>2, OutsideKeeps DEF Critical
<1>5. ASSUME NEW c \in Callers, Load(c) PROVE StoreInv'
  <2>1. Owns(c) /\ h[c].pc = "queued" /\ UNCHANGED <<sel, cur, row, legacy, refresh>>
    BY <1>5 DEF Load, store
  <2>2. Agrees(sel[cur].pin)
    <3>1. Quiescent
      BY <1>0, <2>1, Exclusive DEF Quiescent, TypeInv, Critical
    <3> QED
      BY <3>1 DEF StoreInv, Settled
  <2>3. Agrees(sel[cur].pin)'
    BY <2>1, <2>2 DEF Agrees
  <2>4. CASE h[c].op = "set" /\ h[c].arg.node \notin sel[cur].members
    BY <1>0, <1>5, <2>1, <2>3, <2>4, OwnerReturns DEF Load
  <2>5. CASE ~(h[c].op = "set" /\ h[c].arg.node \notin sel[cur].members)
    <3> DEFINE r == [h[c] EXCEPT !.on = cur,
                                 !.pc = IF h[c].op = "clear" THEN "commit" ELSE "loaded"]
    <3>1. r.on = cur /\ r.op = h[c].op /\ r.pc = IF h[c].op = "clear" THEN "commit" ELSE "loaded"
      BY <1>0 DEF Handler
    <3>2. h' = [h EXCEPT ![c] = r]
      BY <1>5, <2>5 DEF Load
    <3>3. h'[c] = r
      BY <1>0, <3>2
    <3> HIDE DEF r
    <3>4. TxInv(c)'
      BY <2>1, <2>3, <3>1, <3>3 DEF TxInv
    <3>z. r.pc \in Critical /\ refresh' = None
      BY <1>0, <2>1, <3>1, <3>2, <3>4 DEF Critical
    <3> QED
      BY <3>z, <2>1, <3>1, <3>2, <3>4, OwnerAdvances
  <2> QED
    BY <2>4, <2>5
<1>6. ASSUME NEW c \in Callers, SetPin(c) PROVE StoreInv'
  <2> DEFINE g == sel[cur].gen + 1
             p == [h[c].arg EXCEPT !.gen = g]
             r == [h[c] EXCEPT !.pc = "commit", !.prev = sel[cur].pin]
  <2>1. /\ h[c].on = cur /\ h[c].op = "set" /\ h[c].pc = "loaded" /\ Owns(c)
        /\ Agrees(sel[cur].pin)
    BY <1>0, <1>6 DEF SetPin, TxInv, Critical
  <2>2. /\ sel' = [sel EXCEPT ![cur] = [@ EXCEPT !.pin = p, !.gen = g]]
        /\ h' = [h EXCEPT ![c] = r]
        /\ UNCHANGED <<cur, row, legacy, refresh>>
    BY <1>6, <2>1 DEF SetPin, store
  <2>3. sel[cur] \in Selector /\ g \in Nat /\ h[c].arg \in Pin
    BY <1>0, <2>1 DEF Selector, TypeInv, HandlersOK
  <2>4. p \in Pin
    BY <2>3, PinUpdate
  <2>5. sel'[cur'].pin = p
    BY <1>0, <2>2, <2>3 DEF Selector
  <2>6. r.pc = "commit" /\ r.op = "set" /\ r.on = cur /\ r.prev = sel[cur].pin
    BY <1>0, <2>1 DEF Handler
  <2> HIDE DEF p, g, r
  <2>7. h'[c] = r
    BY <1>0, <2>2
  <2>8. Agrees(h[c].prev)'
    BY <2>1, <2>2, <2>6, <2>7 DEF Agrees
  <2>9. TxInv(c)'
    BY <2>2, <2>4, <2>5, <2>6, <2>7, <2>8 DEF TxInv
  <2>z. r.pc \in Critical /\ refresh' = None
    BY <1>0, <2>1, <2>2, <2>6, <2>9 DEF Critical
  <2> QED
    BY <2>z, <2>1, <2>2, <2>6, <2>9, OwnerAdvances
<1>7. ASSUME NEW c \in Callers, CompleteManualProbe(c) PROVE StoreInv'
  <2>1. /\ h[c].on = cur /\ h[c].op = "release" /\ h[c].pc = "loaded" /\ Owns(c)
        /\ Agrees(sel[cur].pin)
        /\ UNCHANGED <<cur, row, legacy, refresh>>
    BY <1>0, <1>7 DEF CompleteManualProbe, TxInv, Critical, store
  <2>2. CASE TokenMatches(h[c].tok, sel[h[c].on].pin)
    <3> DEFINE r == [h[c] EXCEPT !.pc = "commit", !.prev = sel[cur].pin]
    <3>1. /\ sel' = [sel EXCEPT ![cur] = [@ EXCEPT !.pin = None]]
          /\ h' = [h EXCEPT ![c] = r]
      BY <1>7, <2>1, <2>2 DEF CompleteManualProbe
    <3>2. sel'[cur'].pin = None
      BY <1>0, <2>1, <3>1 DEF Selector
    <3>3. r.pc = "commit" /\ r.op = "release" /\ r.on = cur /\ r.prev = sel[cur].pin
      BY <1>0, <2>1 DEF Handler
    <3> HIDE DEF r
    <3>4. h'[c] = r
      BY <1>0, <3>1
    <3>5. Agrees(h[c].prev)'
      BY <2>1, <3>3, <3>4 DEF Agrees
    <3>6. TxInv(c)'
      BY <2>1, <3>2, <3>3, <3>4, <3>5 DEF TxInv
    <3>z. r.pc \in Critical /\ refresh' = None
      BY <1>0, <2>1, <3>1, <3>3, <3>6 DEF Critical
    <3> QED
      BY <3>z, <2>1, <3>1, <3>3, <3>6, OwnerAdvances
  <2>3. CASE ~TokenMatches(h[c].tok, sel[h[c].on].pin)
    <3>1. Return(c) /\ UNCHANGED sel
      BY <1>7, <2>3 DEF CompleteManualProbe
    <3>2. Agrees(sel[cur].pin)'
      BY <2>1, <3>1 DEF Agrees
    <3> QED
      BY <1>0, <2>1, <3>1, <3>2, OwnerReturns
  <2> QED
    BY <2>2, <2>3
<1>8. ASSUME NEW c \in Callers, CommitOk(c) PROVE StoreInv'
  <2>1. /\ h[c].on = cur /\ h[c].pc = "commit" /\ Owns(c) /\ TxInv(c)
        /\ UNCHANGED <<sel, cur, refresh>> /\ legacy' = None
        /\ row' = IF h[c].op = "set" THEN sel[cur].pin ELSE None
    BY <1>0, <1>8 DEF CommitOk, WriteBatch, TxInv, Critical
  <2>2. CASE h[c].op = "clear"
    <3> DEFINE r == [h[c] EXCEPT !.pc = "deleted"]
    <3>1. h' = [h EXCEPT ![c] = r]
      BY <1>8, <2>2 DEF CommitOk
    <3>2. r.pc = "deleted" /\ r.on = cur
      BY <1>0, <2>1 DEF Handler
    <3> HIDE DEF r
    <3>3. h'[c] = r
      BY <1>0, <3>1
    <3>4. TxInv(c)'
      BY <2>1, <2>2, <3>2, <3>3 DEF TxInv
    <3>z. r.pc \in Critical /\ refresh' = None
      BY <1>0, <2>1, <3>1, <3>2, <3>4 DEF Critical
    <3> QED
      BY <3>z, <2>1, <3>1, <3>2, <3>4, OwnerAdvances
  <2>3. CASE h[c].op # "clear"
    <3>1. Return(c)
      BY <1>8, <2>3 DEF CommitOk
    <3>2. h[c].op = "set" \/ h[c].op = "release"
      BY <1>0, <2>3 DEF Handler
    <3>3. Agrees(sel[cur].pin)'
      BY <2>1, <3>2 DEF TxInv, Agrees
    <3> QED
      BY <1>0, <2>1, <3>1, <3>3, OwnerReturns
  <2> QED
    BY <2>2, <2>3
<1>9. ASSUME NEW c \in Callers, CommitErr(c) PROVE StoreInv'
  <2>1. /\ h[c].on = cur /\ h[c].pc = "commit" /\ Owns(c) /\ TxInv(c) /\ Return(c)
        /\ UNCHANGED <<cur, row, legacy, refresh>>
    BY <1>0, <1>9 DEF CommitErr, TxInv, Critical, store
  <2>2. CASE h[c].op = "clear"
    BY <1>9, <1>0, <2>1, <2>2, OwnerReturns DEF CommitErr, TxInv, Agrees
  <2>3. CASE h[c].op # "clear"
    <3>1. sel' = [sel EXCEPT ![cur] = [@ EXCEPT !.pin = h[c].prev]]
      BY <1>9, <2>1, <2>3 DEF CommitErr
    <3>2. sel'[cur'].pin = h[c].prev
      BY <1>0, <2>1, <3>1 DEF Selector
    <3>3. Agrees(sel[cur].pin)'
      BY <2>1, <2>3, <3>2 DEF TxInv, Agrees
    <3> QED
      BY <1>0, <2>1, <3>3, OwnerReturns
  <2> QED
    BY <2>2, <2>3
<1>10. ASSUME NEW c \in Callers, ClearPin(c) PROVE StoreInv'
  <2>1. /\ h[c].on = cur /\ h[c].pc = "deleted" /\ Owns(c) /\ Return(c)
        /\ row = None /\ legacy = None
        /\ UNCHANGED <<cur, row, legacy, refresh>>
    BY <1>0, <1>10 DEF ClearPin, TxInv, Critical, store
  <2>2. sel' = [sel EXCEPT ![cur] = [@ EXCEPT !.pin = None]]
    BY <1>10, <2>1 DEF ClearPin
  <2>3. sel'[cur'].pin = None
    BY <1>0, <2>1, <2>2 DEF Selector
  <2>4. Agrees(sel[cur].pin)'
    BY <2>1, <2>3 DEF Agrees
  <2> QED
    BY <1>0, <2>1, <2>4, OwnerReturns
<1>11. CASE Restart
  BY <1>11, RestartStore
<1>12. CASE UNCHANGED vars
  BY <1>12 DEF vars, StoreInv, Settled, Quiescent, TxInv, Agrees
<1>13. ~RefreshPublish /\ \A m \in SUBSET Nodes : ~RefreshRead(m)
  BY NoRefreshStep DEF Undisturbed
<1>14. \A c \in Callers : ~Cancel(c)
  BY <1>0 DEF Cancel, Leave, Gone, Idle, Undisturbed
<1> QED
  BY <1>1, <1>2, <1>3, <1>4, <1>5, <1>6, <1>7, <1>8, <1>9, <1>10, <1>11, <1>12, <1>13,
     <1>14
     DEF Next, Request, Run

\* The initial state agrees with the store.
LEMMA InitStore == Init => StoreInv
<1> SUFFICES ASSUME Init PROVE StoreInv
  OBVIOUS
<1>1. row \in Option(Pin) /\ legacy \in Option(Nodes) /\ 0 \in Selectors
  BY PinAssumption DEF Init, Option, Selectors
<1>2. sel[cur].pin = BootPin
  BY <1>1 DEF Init, NewSelector
<1>3. \A c \in Callers : h[c].pc \notin Critical
  BY IdleType DEF Init
<1>4. \A c \in Callers : TxInv(c)
  BY <1>3 DEF TxInv, Critical
<1> QED
  BY <1>1, <1>2, <1>4, BootAgrees DEF Init, StoreInv, Settled

\* As long as no refresh replaces the group's selector and no handler is dropped
\* at the store, the runtime pin and the store row do not diverge, whichever
\* commits fail and whenever the process restarts; a restart makes them agree
\* again.
THEOREM PinAgreement == Spec => []PinAgreesWithStore
<1> DEFINE I == Undisturbed => StoreInv
<1>1. Init => I
  BY InitStore
<1>2. TypeInv /\ I /\ [Next]_vars => I'
  BY NextStore, RestartStore, DisturbedStays
<1>3. I => PinAgreesWithStore
  BY DEF StoreInv, Settled, PinAgreesWithStore
<1> QED
  BY <1>1, <1>2, <1>3, TypeInvariant, PTL DEF Spec

(***************************************************************************)
(* Generations identify choices                                            *)
(***************************************************************************)
\* The pins that can still meet in a comparison: the published one, the ones a
\* rollback may put back, and the ones probes have seen.
Live(p) ==
    \/ p = sel[cur].pin
    \/ \E c \in Callers : p = h[c].prev \/ p = h[c].tok

\* The counter is ahead of every live pin, and equal generations are the same
\* choice.
GenInv ==
    /\ refresh = None
    /\ \A c \in Callers : h[c].pc \in Critical => h[c].on = cur
    /\ \A p \in Pin : Live(p) => p.gen <= sel[cur].gen
    /\ \A p, q \in Pin : Live(p) /\ Live(q) /\ p.gen = q.gen => p.id = q.id

\* A step that makes no pin live and keeps the counter keeps the invariant.
LEMMA LiveShrinks ==
    ASSUME GenInv, refresh' = None, sel'[cur'].gen = sel[cur].gen,
           \A c \in Callers : h'[c].pc \in Critical => h'[c].on = cur',
           \A p \in Pin : Live(p)' => Live(p)
    PROVE  GenInv'
BY DEF GenInv

\* So does the step of a handler that remembers only live pins.
LEMMA HandlerKeepsGen ==
    ASSUME TypeInv, GenInv, NEW c \in Callers, NEW r, h' = [h EXCEPT ![c] = r],
           r.pc \in Critical => r.on = cur,
           r.prev \in {h[c].prev, sel[cur].pin, None},
           r.tok \in {h[c].tok, sel[cur].pin, None},
           cur' = cur, refresh' = refresh, sel'[cur].gen = sel[cur].gen,
           sel'[cur].pin \in {sel[cur].pin, h[c].prev, None}
    PROVE  GenInv'
<1>1. \A d \in Callers : h'[d] = IF d = c THEN r ELSE h[d]
  BY DEF TypeInv, HandlersOK
<1>2. ASSUME NEW p \in Pin, Live(p)' PROVE Live(p)
  <2>1. p # None
    BY PinAssumption
  <2>2. CASE p = sel'[cur'].pin
    BY <2>1, <2>2 DEF Live
  <2>3. CASE \E d \in Callers : p = h'[d].prev \/ p = h'[d].tok
    BY <1>1, <2>1, <2>3 DEF Live
  <2> QED
    BY <1>2, <2>2, <2>3 DEF Live
<1>3. \A d \in Callers : h'[d].pc \in Critical => h'[d].on = cur'
  BY <1>1 DEF GenInv
<1> QED
  BY <1>2, <1>3, LiveShrinks DEF GenInv

\* The locals of a handler that returns or is dropped.
LEMMA LeaveKeepsGen ==
    ASSUME TypeInv, GenInv, NEW c \in Callers, NEW r \in {Idle, Gone}, Leave(c, r),
           cur' = cur, refresh' = refresh, sel'[cur].gen = sel[cur].gen,
           sel'[cur].pin \in {sel[cur].pin, h[c].prev, None}
    PROVE  GenInv'
<1>1. r.pc \notin Critical /\ r.prev = None /\ r.tok = None
  BY IdleType
<1>2. h' = [h EXCEPT ![c] = r]
  BY DEF Leave
<1> QED
  BY <1>1, <1>2, HandlerKeepsGen

LEMMA ReturnKeepsGen ==
    ASSUME TypeInv, GenInv, NEW c \in Callers, Return(c),
           cur' = cur, refresh' = refresh, sel'[cur].gen = sel[cur].gen,
           sel'[cur].pin \in {sel[cur].pin, h[c].prev, None}
    PROVE  GenInv'
BY LeaveKeepsGen DEF Return

\* A process starts with at most one live pin.
LEMMA RestartGen ==
    ASSUME TypeInv, Restart
    PROVE  GenInv'
<1>1. 0 \in Selectors /\ cur' = 0 /\ refresh' = None /\ h' = [c \in Callers |-> Idle]
  BY PinAssumption DEF Restart, Selectors
<1>2. /\ sel'[cur'].pin = BootPin
      /\ sel'[cur'].gen = IF BootPin = None THEN 0 ELSE BootPin.gen
  BY <1>1 DEF Restart, NewSelector
<1>3. \A p \in Pin : Live(p)' => p = BootPin
  BY <1>1, <1>2, PinAssumption DEF Live, Idle
<1>4. \A p \in Pin : Live(p)' => p.gen <= sel'[cur'].gen
  BY <1>2, <1>3, PinAssumption DEF Pin
<1>5. \A c \in Callers : h'[c].pc \notin Critical
  BY <1>1, IdleType
<1> QED
  BY <1>1, <1>3, <1>4, <1>5 DEF GenInv

\* Without a refresh every step keeps it: one step per action.
LEMMA NextGen ==
    ASSUME Unrefreshed', TypeInv, GenInv, [Next]_vars
    PROVE  GenInv'
<1>0. /\ refresh = None
      /\ \A c \in Callers : h[c] \in Handler /\ (h[c].pc \in Critical => h[c].on = cur)
      /\ sel \in [Selectors -> Selector] /\ cur \in Selectors /\ sel[cur] \in Selector
      /\ h \in [Callers -> Handler]
  BY DEF TypeInv, GenInv, HandlersOK, RuntimeOK
<1>1. ASSUME NEW c \in Callers, NEW n \in Nodes, CallSet(c, n) PROVE GenInv'
  <2> DEFINE r == [[h[c] EXCEPT !.op = "set",
                       !.arg = [node |-> n, gen |-> 0, id |-> issued + 1]] EXCEPT !.pc = "queued"]
  <2>1. r.pc \notin Critical /\ r.prev = h[c].prev /\ r.tok = h[c].tok
    BY <1>0 DEF Handler, Critical
  <2>2. h' = [h EXCEPT ![c] = r] /\ UNCHANGED <<sel, cur, refresh>>
    BY <1>1 DEF CallSet, Enqueue
  <2> HIDE DEF r
  <2> QED
    BY <2>1, <2>2, HandlerKeepsGen
<1>2. ASSUME NEW c \in Callers, CallClear(c) PROVE GenInv'
  <2> DEFINE r == [[h[c] EXCEPT !.op = "clear"] EXCEPT !.pc = "queued"]
  <2>1. r.pc \notin Critical /\ r.prev = h[c].prev /\ r.tok = h[c].tok
    BY <1>0 DEF Handler, Critical
  <2>2. h' = [h EXCEPT ![c] = r] /\ UNCHANGED <<sel, cur, refresh>>
    BY <1>2 DEF CallClear, Enqueue
  <2> HIDE DEF r
  <2> QED
    BY <2>1, <2>2, HandlerKeepsGen
<1>3. ASSUME NEW c \in Callers, BeginManualProbe(c) PROVE GenInv'
  <2> DEFINE r == [h[c] EXCEPT !.pc = "probing", !.op = "release", !.tok = sel[cur].pin]
  <2>1. r.pc \notin Critical /\ r.prev = h[c].prev /\ r.tok = sel[cur].pin
    BY <1>0 DEF Handler, Critical
  <2>2. h' = [h EXCEPT ![c] = r] /\ UNCHANGED <<sel, cur, refresh>>
    BY <1>3 DEF BeginManualProbe
  <2> HIDE DEF r
  <2> QED
    BY <2>1, <2>2, HandlerKeepsGen
<1>4. ASSUME NEW c \in Callers, NEW any_success \in BOOLEAN, ProbesDone(c, any_success)
      PROVE  GenInv'
  <2> DEFINE r == [[h[c] EXCEPT !.tok = IF any_success /\ ~Manual THEN @ ELSE None]
                      EXCEPT !.pc = "queued"]
  <2>1. r.pc \notin Critical /\ r.prev = h[c].prev /\ r.tok \in {h[c].tok, None}
    BY <1>0 DEF Handler, Critical
  <2>2. h' = [h EXCEPT ![c] = r] /\ UNCHANGED <<sel, cur, refresh>>
    BY <1>4 DEF ProbesDone, Enqueue
  <2> HIDE DEF r
  <2> QED
    BY <2>1, <2>2, HandlerKeepsGen
<1>5. ASSUME NEW c \in Callers, Load(c) PROVE GenInv'
  <2>1. UNCHANGED <<sel, cur, refresh>>
    BY <1>5 DEF Load
  <2>2. CASE h[c].op = "set" /\ h[c].arg.node \notin sel[cur].members
    BY <1>5, <2>1, <2>2, ReturnKeepsGen DEF Load
  <2>3. CASE ~(h[c].op = "set" /\ h[c].arg.node \notin sel[cur].members)
    <3> DEFINE r == [h[c] EXCEPT !.on = cur,
                                 !.pc = IF h[c].op = "clear" THEN "commit" ELSE "loaded"]
    <3>1. r.on = cur /\ r.prev = h[c].prev /\ r.tok = h[c].tok
      BY <1>0 DEF Handler
    <3>2. h' = [h EXCEPT ![c] = r]
      BY <1>5, <2>3 DEF Load
    <3> HIDE DEF r
    <3> QED
      BY <2>1, <3>1, <3>2, HandlerKeepsGen
  <2> QED
    BY <2>2, <2>3
<1>6. ASSUME NEW c \in Callers, SetPin(c) PROVE GenInv'
  <2> DEFINE g == sel[cur].gen + 1
             a == [h[c].arg EXCEPT !.gen = g]
             r == [h[c] EXCEPT !.pc = "commit", !.prev = sel[cur].pin]
  <2>1. h[c].on = cur /\ h[c].op = "set"
    BY <1>0, <1>6 DEF SetPin, Critical
  <2>2. /\ sel' = [sel EXCEPT ![cur] = [@ EXCEPT !.pin = a, !.gen = g]]
        /\ h' = [h EXCEPT ![c] = r] /\ cur' = cur /\ refresh' = None
    BY <1>0, <1>6, <2>1 DEF SetPin
  <2>3. sel[cur].gen \in Nat /\ h[c].arg \in Pin
    BY <1>0, <2>1 DEF Selector, TypeInv, HandlersOK
  <2>4. a \in Pin /\ a.gen = g
    BY <2>3 DEF Pin
  <2>5. sel'[cur'].pin = a /\ sel'[cur'].gen = g
    BY <1>0, <2>2 DEF Selector
  <2>6. r.on = cur /\ r.prev = sel[cur].pin /\ r.tok = h[c].tok
    BY <1>0, <2>1 DEF Handler
  <2> HIDE DEF a, r
  <2>7. \A d \in Callers : h'[d] = IF d = c THEN r ELSE h[d]
    BY <1>0, <2>2
  <2>8. \A p \in Pin : Live(p)' => p = a \/ Live(p)
    BY <2>5, <2>6, <2>7 DEF Live
  <2>9. \A d \in Callers : h'[d].pc \in Critical => h'[d].on = cur'
    BY <1>0, <2>2, <2>6, <2>7
  <2>10. \A p \in Pin : Live(p) => p.gen <= sel[cur].gen /\ p.gen \in Nat
    BY DEF GenInv, Pin
  <2>11. \A p \in Pin : Live(p)' => p.gen <= sel'[cur'].gen
    BY <2>3, <2>4, <2>5, <2>8, <2>10
  <2>12. \A p, q \in Pin : Live(p)' /\ Live(q)' /\ p.gen = q.gen => p.id = q.id
    BY <2>3, <2>4, <2>8, <2>10 DEF GenInv
  <2> QED
    BY <2>2, <2>9, <2>11, <2>12 DEF GenInv
<1>7. ASSUME NEW c \in Callers, CompleteManualProbe(c) PROVE GenInv'
  <2>1. h[c].on = cur /\ cur' = cur /\ refresh' = refresh
    BY <1>0, <1>7 DEF CompleteManualProbe, Critical
  <2>2. CASE TokenMatches(h[c].tok, sel[h[c].on].pin)
    <3> DEFINE r == [h[c] EXCEPT !.pc = "commit", !.prev = sel[cur].pin]
    <3>1. /\ sel' = [sel EXCEPT ![cur] = [@ EXCEPT !.pin = None]]
          /\ h' = [h EXCEPT ![c] = r]
      BY <1>7, <2>1, <2>2 DEF CompleteManualProbe
    <3>2. sel'[cur].pin = None /\ sel'[cur].gen = sel[cur].gen
      BY <1>0, <3>1 DEF Selector
    <3>3. r.on = cur /\ r.prev = sel[cur].pin /\ r.tok = h[c].tok
      BY <1>0, <2>1 DEF Handler
    <3> HIDE DEF r
    <3> QED
      BY <2>1, <3>1, <3>2, <3>3, HandlerKeepsGen
  <2>3. CASE ~TokenMatches(h[c].tok, sel[h[c].on].pin)
    BY <1>7, <2>1, <2>3, ReturnKeepsGen DEF CompleteManualProbe
  <2> QED
    BY <2>2, <2>3
<1>8. ASSUME NEW c \in Callers, CommitOk(c) PROVE GenInv'
  <2>1. UNCHANGED <<sel, cur, refresh>> /\ h[c].on = cur
    BY <1>0, <1>8 DEF CommitOk, Critical
  <2>2. CASE h[c].op = "clear"
    <3> DEFINE r == [h[c] EXCEPT !.pc = "deleted"]
    <3>1. h' = [h EXCEPT ![c] = r]
      BY <1>8, <2>2 DEF CommitOk
    <3>2. r.on = cur /\ r.prev = h[c].prev /\ r.tok = h[c].tok
      BY <1>0, <2>1 DEF Handler
    <3> HIDE DEF r
    <3> QED
      BY <2>1, <3>1, <3>2, HandlerKeepsGen
  <2>3. CASE h[c].op # "clear"
    BY <1>8, <2>1, <2>3, ReturnKeepsGen DEF CommitOk
  <2> QED
    BY <2>2, <2>3
<1>9. ASSUME NEW c \in Callers, CommitErr(c) \/ ClearPin(c) \/ Cancel(c) PROVE GenInv'
  <2>1. /\ h[c].on = cur /\ cur' = cur /\ refresh' = refresh
        /\ Leave(c, Idle) \/ Leave(c, Gone)
    BY <1>0, <1>9 DEF CommitErr, ClearPin, Cancel, Return, Critical
  <2>2. \/ sel' = sel
        \/ sel' = [sel EXCEPT ![cur] = [@ EXCEPT !.pin = h[c].prev]]
        \/ sel' = [sel EXCEPT ![cur] = [@ EXCEPT !.pin = None]]
    BY <1>9, <2>1 DEF CommitErr, ClearPin, Cancel
  <2>3. sel'[cur].gen = sel[cur].gen /\ sel'[cur].pin \in {sel[cur].pin, h[c].prev, None}
    BY <1>0, <2>2 DEF Selector
  <2> QED
    BY <2>1, <2>3, LeaveKeepsGen
<1>10. CASE Restart
  BY <1>10, RestartGen
<1>11. CASE UNCHANGED vars
  BY <1>11 DEF vars, GenInv, Live
<1>12. ~RefreshPublish /\ \A m \in SUBSET Nodes : ~RefreshRead(m)
  BY NoRefreshStep
<1> QED
  BY <1>1, <1>2, <1>3, <1>4, <1>5, <1>6, <1>7, <1>8, <1>9, <1>10, <1>11, <1>12
     DEF Next, Request, Run

\* The first process starts with at most one live pin.
LEMMA InitGen == Init => GenInv
<1> SUFFICES ASSUME Init PROVE GenInv
  OBVIOUS
<1>1. 0 \in Selectors /\ cur = 0 /\ refresh = None /\ h = [c \in Callers |-> Idle]
  BY PinAssumption DEF Init, Selectors
<1>2. sel[cur].pin = BootPin /\ sel[cur].gen = IF BootPin = None THEN 0 ELSE BootPin.gen
  BY <1>1 DEF Init, NewSelector
<1>3. \A p \in Pin : Live(p) => p = BootPin
  BY <1>1, <1>2, PinAssumption DEF Live, Idle
<1>4. \A p \in Pin : Live(p) => p.gen <= sel[cur].gen
  BY <1>2, <1>3, PinAssumption DEF Pin
<1>5. \A c \in Callers : h[c].pc \notin Critical
  BY <1>1, IdleType
<1> QED
  BY <1>1, <1>3, <1>4, <1>5 DEF GenInv

\* As long as no refresh replaces the group's selector, a manual probe releases
\* only the choice it saw pinned when it began, although handlers may be dropped
\* at the store, commits may fail and the process may restart.
THEOREM StaleProbe == Spec => StaleProbeKeepsNewerPin
<1> DEFINE I == Unrefreshed => GenInv
           A == \A c \in Callers : Unrefreshed => ~ReleasesAnother(c)
<1>1. Init => I
  BY InitGen
<1>2. TypeInv /\ I /\ [Next]_vars => I'
  BY NextGen, RestartGen, HandlerSteps
<1>3. TypeInv /\ I /\ [Next]_vars => [A]_vars
  <2> SUFFICES ASSUME TypeInv, GenInv, [Next]_vars, NEW c \in Callers,
                      h[c].pc = "loaded", h[c].op = "release", h'[c].pc = "commit"
               PROVE  sel[h[c].on].pin.id = h[c].tok.id
    BY DEF ReleasesAnother
  <2>1. h[c] \in Handler /\ sel[cur] \in Selector /\ h \in [Callers -> Handler]
    BY DEF TypeInv, HandlersOK, RuntimeOK
  <2>2. h[c].on = cur
    BY DEF GenInv, Critical
  <2>3. h[c].tok \in Option(Pin) /\ sel[cur].pin \in Option(Pin)
    BY <2>1 DEF Handler, Selector
  <2>4. CompleteManualProbe(c)
    <3>1. \A d \in Callers : Request(d) \/ Run(d) \/ Cancel(d) => h'[c] = h[c] \/ d = c
      BY <2>1 DEF Request, Run, CallSet, CallClear, BeginManualProbe, ProbesDone, Load,
         SetPin, CompleteManualProbe, CommitOk, CommitErr, ClearPin, Cancel, Enqueue, Return, Leave
    <3>2. Request(c) \/ Run(c) \/ Cancel(c) => CompleteManualProbe(c)
      BY DEF Request, Run, CallSet, CallClear, BeginManualProbe, ProbesDone, Load,
         SetPin, CommitOk, CommitErr, ClearPin, Cancel
    <3>3. ~Restart
      BY DEF Restart, Idle
    <3>4. UNCHANGED h => FALSE
      OBVIOUS
    <3>5. RefreshPublish \/ (\E m \in SUBSET Nodes : RefreshRead(m)) => UNCHANGED h
      BY DEF RefreshPublish, RefreshRead
    <3> QED
      BY <3>1, <3>2, <3>3, <3>4, <3>5 DEF Next, vars
  <2>5. TokenMatches(h[c].tok, sel[cur].pin)
    <3>1. ~TokenMatches(h[c].tok, sel[cur].pin) => h' = [h EXCEPT ![c] = Idle]
      BY <2>2, <2>4 DEF CompleteManualProbe, Return, Leave
    <3>2. h' = [h EXCEPT ![c] = Idle] => h'[c].pc = "idle"
      BY <2>1 DEF Idle
    <3> QED
      BY <3>1, <3>2
  <2>6. h[c].tok \in Pin /\ sel[cur].pin \in Pin /\ sel[cur].pin.gen = h[c].tok.gen
    BY <2>3, <2>5 DEF TokenMatches, Option
  <2>7. Live(h[c].tok) /\ Live(sel[cur].pin)
    BY DEF Live
  <2> QED
    BY <2>2, <2>6, <2>7 DEF GenInv
<1> QED
  BY <1>1, <1>2, <1>3, TypeInvariant, PTL DEF Spec, StaleProbeKeepsNewerPin
=============================================================================
