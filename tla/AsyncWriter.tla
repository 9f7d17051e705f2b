---------------------------- MODULE AsyncWriter ----------------------------
(***************************************************************************)
(* The write-behind queue of crate core-store: AsyncWriter in front of     *)
(* Store::write_batch.  Callers enqueue into a bounded channel, one worker *)
(* (run_loop) collects a buffer and commits it in one transaction, which   *)
(* is retried while the database is busy.  Two things end the worker: the  *)
(* shutdown signal, and a crash of the process.                            *)
(***************************************************************************)
EXTENDS Integers, SequencesExt

CONSTANTS
    Keys,
    Capacity,     \* of the channel, in messages
    Threshold,    \* FLUSH_THRESHOLD, in operations
    MaxAttempts,  \* max_write_attempts
    Faults,       \* "busy", "error": of the database; "timeout": of shutdown; "crash"
    MaxOps        \* bound: operations enqueued

ASSUME WriterAssumption ==
    /\ {Capacity, Threshold, MaxAttempts} \subseteq Nat \ {0}
    /\ MaxOps \in Nat
    /\ Faults \subseteq {"busy", "error", "timeout", "crash"}

VARIABLES
    queue,     \* the channel: messages, each a sequence of operations
    open,      \* the receiver exists
    buffer,    \* collected by the worker
    batch,     \* drained from the buffer, being written
    attempt,   \* of write_encoded
    worker,    \* "select", "drain", "write", "stopped"
    last,      \* the write under way is the final flush
    signal,    \* the permit of Notify
    caller,    \* shutdown(): "idle", "join", "joined", "gone"
    db,        \* key -> the operation whose value it holds, 0 for none
    accepted,  \* history: operations that enqueue accepted
    handled,   \* history: <<operation, committed>> in the order of the flushes
    before     \* history: operations accepted before shutdown was called

vars == <<queue, open, buffer, batch, attempt, worker, last, signal, caller, db,
          accepted, handled, before>>
channel == <<queue, open, accepted>>
storage == <<db, handled>>
stopping == <<signal, caller, before>>

\* An operation is its number and the key it writes.
Op == [id : 1 .. MaxOps, key : Keys]

Init ==
    /\ queue = <<>> /\ open = TRUE
    /\ buffer = <<>> /\ batch = <<>> /\ attempt = 0
    /\ worker = "select" /\ last = FALSE
    /\ signal = FALSE /\ caller = "idle"
    /\ db = [k \in Keys |-> 0]
    /\ accepted = <<>> /\ handled = <<>> /\ before = 0

\* Faulty variant: the channel has no limit.
EnqueueUnbounded(ops) ==
    /\ open
    /\ queue' = Append(queue, ops)
    /\ accepted' = accepted \o ops
    /\ UNCHANGED <<open, buffer, batch, attempt, worker, last, stopping, storage>>

\* enqueue and enqueue_batch: try_send.  On a closed or full channel they return
\* false and change nothing.
Enqueue(ops) ==
    /\ open /\ Len(queue) < Capacity
    /\ queue' = Append(queue, ops)
    /\ accepted' = accepted \o ops
    /\ UNCHANGED <<open, buffer, batch, attempt, worker, last, stopping, storage>>

-----------------------------------------------------------------------------
(* The worker. *)

\* Faulty variant: flush writes a copy of the buffer.
FlushKeepsBuffer(buf, final) ==
    /\ batch' = buf
    /\ buffer' = buf
    /\ attempt' = 0
    /\ last' = final
    /\ worker' = IF buf # <<>> THEN "write" ELSE IF final THEN "stopped" ELSE "select"
    /\ open' = (open /\ ~(final /\ buf = <<>>))

\* flush drains the buffer; with nothing to write the worker goes on at once.
Flush(buf, final) ==
    /\ batch' = buf
    /\ buffer' = <<>>
    /\ attempt' = 0
    /\ last' = final
    /\ worker' = IF buf # <<>> THEN "write" ELSE IF final THEN "stopped" ELSE "select"
    /\ open' = (open /\ ~(final /\ buf = <<>>))

\* rx.recv(), in the order of the select: only without a signal.
Recv ==
    /\ worker = "select" /\ ~signal
    /\ queue # <<>>
    /\ queue' = Tail(queue)
    /\ LET buf == buffer \o Head(queue)
       IN  IF Len(buf) >= Threshold THEN Flush(buf, FALSE)
           ELSE buffer' = buf /\ UNCHANGED <<batch, attempt, last, worker, open>>
    /\ UNCHANGED <<accepted, stopping, storage>>

\* Faulty variant: only a full buffer is flushed.
TickIdle ==
    /\ worker = "select" /\ ~signal
    /\ Len(buffer) >= Threshold
    /\ Flush(buffer, FALSE)
    /\ UNCHANGED <<queue, accepted, stopping, storage>>

\* The interval fires.
Tick ==
    /\ worker = "select" /\ ~signal
    /\ Flush(buffer, FALSE)
    /\ UNCHANGED <<queue, accepted, stopping, storage>>

\* The signal comes first in the select.
Notified ==
    /\ worker = "select" /\ signal
    /\ signal' = FALSE
    /\ worker' = "drain"
    /\ UNCHANGED <<channel, buffer, batch, attempt, last, caller, before, storage>>

\* Faulty variant: the worker stops without emptying the channel.
DrainNothing ==
    /\ worker = "drain"
    /\ Flush(buffer, TRUE)
    /\ UNCHANGED <<queue, accepted, stopping, storage>>

\* try_recv until the channel is empty, then the final flush.
Drain ==
    /\ worker = "drain"
    /\ IF queue # <<>>
       THEN /\ queue' = Tail(queue)
            /\ buffer' = buffer \o Head(queue)
            /\ UNCHANGED <<open, batch, attempt, worker, last>>
       ELSE /\ Flush(buffer, TRUE)
            /\ UNCHANGED queue
    /\ UNCHANGED <<accepted, stopping, storage>>

\* The write is over; a final flush ends the worker and drops the receiver.
Written ==
    /\ batch' = <<>>
    /\ attempt' = 0
    /\ worker' = IF last THEN "stopped" ELSE "select"
    /\ open' = ~last
    /\ UNCHANGED <<queue, accepted, buffer, last, stopping>>

\* The value a key has after the operations of s were applied in turn.
Applied(s) ==
    [k \in Keys |-> LET mine == SelectSeq(s, LAMBDA op : op.key = k)
                    IN  IF mine = <<>> THEN db[k] ELSE Last(mine).id]

Handled(s, ok) == handled \o [i \in 1 .. Len(s) |-> <<s[i].id, ok>>]

\* Faulty variant: the operations of a batch are applied newest first.
CommitReversed ==
    /\ worker = "write"
    /\ db' = Applied(Reverse(batch))
    /\ handled' = Handled(batch, TRUE)
    /\ Written

\* execute_transaction commits.
Commit ==
    /\ worker = "write"
    /\ db' = Applied(batch)
    /\ handled' = Handled(batch, TRUE)
    /\ Written

\* A retryable error: the transaction is rolled back and tried again.
Busy ==
    /\ "busy" \in Faults
    /\ worker = "write"
    /\ attempt + 1 < MaxAttempts
    /\ attempt' = attempt + 1
    /\ UNCHANGED <<channel, buffer, batch, worker, last, stopping, storage>>

\* Any other error, or the last attempt: the batch is dropped.
WriteFails ==
    /\ worker = "write"
    /\ "error" \in Faults \/ ("busy" \in Faults /\ attempt + 1 = MaxAttempts)
    /\ handled' = Handled(batch, FALSE)
    /\ UNCHANGED db
    /\ Written

-----------------------------------------------------------------------------
(* shutdown, and the end of the process. *)

Shutdown ==
    /\ caller = "idle"
    /\ caller' = "join"
    /\ signal' = TRUE
    /\ before' = Len(accepted)
    /\ UNCHANGED <<channel, buffer, batch, attempt, worker, last, storage>>

Joined ==
    /\ caller = "join" /\ worker = "stopped"
    /\ caller' = "joined"
    /\ UNCHANGED <<channel, buffer, batch, attempt, worker, last, signal, before, storage>>

\* The five seconds are over while the worker waits for the database.
JoinTimeout ==
    /\ "timeout" \in Faults
    /\ caller = "join" /\ worker = "write"
    /\ caller' = "joined"
    /\ UNCHANGED <<channel, buffer, batch, attempt, worker, last, signal, before, storage>>

\* The process dies: what is not committed is gone.
Crash ==
    /\ "crash" \in Faults
    /\ caller # "gone"
    /\ caller' = "gone"
    /\ queue' = <<>> /\ open' = FALSE
    /\ buffer' = <<>> /\ batch' = <<>> /\ attempt' = 0
    /\ worker' = "stopped"
    /\ signal' = FALSE
    /\ UNCHANGED <<accepted, last, before, storage>>

WorkerStep ==
    \/ Recv \/ Tick \/ Notified \/ Drain \/ Commit \/ Busy \/ WriteFails

Next ==
    \/ \E k \in Keys : Len(accepted) < MaxOps /\ Enqueue(<<[id |-> Len(accepted) + 1, key |-> k]>>)
    \/ \E k, l \in Keys :
          /\ Len(accepted) + 1 < MaxOps
          /\ Enqueue(<<[id |-> Len(accepted) + 1, key |-> k], [id |-> Len(accepted) + 2, key |-> l]>>)
    \/ WorkerStep \/ Shutdown \/ Joined \/ JoinTimeout \/ Crash

Spec == Init /\ [][Next]_vars

\* The runtime polls the worker and the caller of shutdown.  The select is
\* biased: the interval comes before the channel, but it is ready only every
\* 200 ms, so the channel is read again and again; and the interval fires.
FairSpec ==
    /\ Spec
    /\ WF_vars(WorkerStep) /\ WF_vars(Joined)
    /\ SF_vars(Recv) /\ SF_vars(Tick)

-----------------------------------------------------------------------------
(* Properties. *)

Stages == {"select", "drain", "write", "stopped"}

\* Types of the state.
TypeOK ==
    /\ queue \in Seq(Seq(Op)) /\ Len(queue) <= Capacity
    /\ buffer \in Seq(Op) /\ batch \in Seq(Op)
    /\ {open, last, signal} \subseteq BOOLEAN
    /\ attempt \in 0 .. MaxAttempts - 1
    /\ worker \in Stages /\ caller \in {"idle", "join", "joined", "gone"}
    /\ (worker = "write") <=> (batch # <<>>)
    /\ open <=> worker # "stopped"
    /\ db \in [Keys -> 0 .. MaxOps]

Ids(s) == [i \in 1 .. Len(s) |-> s[i].id]

\* Until the worker stops, every accepted operation is in exactly one place of
\* the pipeline, and the places are in the order of acceptance: nothing is
\* lost, doubled or overtaken between try_send and the transaction.
Pipeline ==
    open => [i \in 1 .. Len(handled) |-> handled[i][1]] \o Ids(batch) \o Ids(buffer)
                \o Ids(FlattenSeq(queue)) = Ids(accepted)

\* A key holds the value of the newest committed operation on it: batching and
\* retries never let an older value win.
NewestWins ==
    \A k \in Keys :
        LET done == {i \in 1 .. Len(handled) :
                        handled[i][2] /\ accepted[handled[i][1]].key = k}
        IN  db[k] = IF done = {} THEN 0 ELSE handled[Max(done)][1]

\* When shutdown has seen the worker end, everything that was accepted before
\* the call has been through a flush (the drain loop of run_loop).
ShutdownFlushes ==
    caller = "joined" /\ worker = "stopped" => Len(handled) >= before

\* Every accepted operation goes through a flush if the process lives on
\* without shutdown, also when the buffer never fills up.
AcceptedIsHandled ==
    \A n \in 1 .. MaxOps : (Len(accepted) >= n) ~> (Len(handled) >= n \/ caller # "idle")

=============================================================================
