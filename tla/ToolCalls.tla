------------------------------- MODULE ToolCalls -------------------------------
(***************************************************************************)
(* The tool calls of one conversation: the batches of calls the model      *)
(* makes, the parallel read-only prefix and the serial tail that run them  *)
(* (D40), the suspension of a call the owner must confirm or answer and    *)
(* its resume (J2, J3, D44), the confirm tokens of the action gate         *)
(* (ACA-9), and what a Stop, a failed write, a crash and the reconcile     *)
(* leave of it in the database.  The turn marker (module SteeredThread)    *)
(* lets one drive of this conversation run at a time; Stop, crashes, the   *)
(* clock, redeemed tokens and work that outlives its call interleave with  *)
(* it at every await.                                                      *)
(***************************************************************************)
EXTENDS Naturals, SequencesExt

CONSTANTS
    N,              \* the calls the model makes, in order
    Batch,          \* the assistant message each call belongs to
    Kind,           \* what each call asks for
    Sig,            \* each call's (tool, args)
    MaxParallel     \* agent.max_parallel_tools

Calls == 1 .. N
InBatch(x) == {c \in Calls : Batch[c] = x}
Batches == {Batch[c] : c \in Calls}
Sigs == {Sig[c] : c \in Calls}
Gated == {c \in Calls : Kind[c] = "risky"}

\* read: low-risk, builtin, order-independent; act: runs unasked, but only in order;
\* risky: the gate asks first; question: suspends; malformed: its arguments did not parse.
Kinds == {"read", "act", "risky", "question", "malformed"}

ASSUME CallsAssumption ==
    /\ N \in Nat
    /\ Batch \in [Calls -> Nat \ {0}]
    /\ Kind \in [Calls -> Kinds]
    /\ Sig \in [Calls -> Nat]
    /\ MaxParallel \in Nat \ {0}

\* RunState; "done" stands for OK, ERROR and TIMEOUT.
Awaiting == {"awaiting_confirm", "awaiting_answer"}
Resolved == {"done", "denied", "cancelled"}
Stale == {"pending", "running"}
States == {"absent"} \cup Stale \cup Awaiting \cup Resolved
Verdicts == {"none", "execute", "always", "dismiss", "answer"}
Points == {"idle", "resume", "model", "head", "prefix", "tail", "flip", "invoke", "run", "ran",
           "audit", "asking", "persist", "park", "harvest", "cut", "backstop", "end", "boot"}
TaskStates == {"none", "queued", "running", "done", "failed", "taken"}

VARIABLES
    pc,          \* where the drive stands; idle when the thread has no turn
    batch,       \* the batch in hand
    at,          \* the call in hand
    state,       \* the calls' states on the Message objects in memory
    parts,       \* result_parts of this _run_calls
    row,         \* tool_msg: the row this _run_calls created, or 0
    task,        \* the parallel prefix's tasks
    ending,      \* how this _run_calls ends: done, suspended, cancelled, error
    stopping,    \* the turn's one cancel was fired
    denied,      \* guard.denied_sigs
    spent,       \* the calls a cap or an earlier repeat suppresses
    target,      \* the call a resume resolves, or 0
    verdict,     \* and the owner's decision on it
    carry,       \* the token the resume minted is live
    disk,        \* the calls' states in the database
    rows,        \* the tool rows of the database, each the calls whose results it holds
    shown,       \* the live tokens the owner was shown, by call
    granted,     \* the signatures an approval rule covers
    blocked,     \* the calls whose tool is outside the agent's toolset
    interactive, \* FALSE in a subagent or an unattended run
    begun,       \* calls let through the gate
    effects,     \* how often each call's tool did its work
    late,        \* calls whose work goes on after the wait for it was given up
    emitted,     \* calls whose tool.result went out
    consented,   \* calls the owner answered with execute
    finished,    \* calls whose tool returned a result, unless a crash took it
    dropped,     \* calls whose result a Stop during the prefix's harvest let go
    torn         \* a backstop or reconcile write failed

hand == <<batch, at, state, parts, row, task, ending>>
guard == <<denied, spent>>
owner == <<target, verdict, carry>>
durable == <<disk, rows>>
gate == <<shown, granted, blocked, interactive>>
history == <<begun, effects, late, emitted, consented, finished, dropped, torn>>
vars == <<pc, hand, stopping, guard, owner, durable, gate, history>>

Results == UNION {ToSet(rows[i]) : i \in DOMAIN rows}

-----------------------------------------------------------------------------
TypeOK ==
    /\ pc \in Points
    /\ batch \in Nat /\ at \in Calls \cup {0}
    /\ {state, disk} \subseteq [Calls -> States]
    /\ parts \in Seq(Calls)
    /\ row \in 0 .. Len(rows)
    /\ task \in [Calls -> TaskStates]
    /\ Cardinality({c \in Calls : task[c] = "running"}) <= MaxParallel
    /\ ending \in {"done", "suspended", "cancelled", "error"}
    /\ {stopping, carry, interactive, torn} \subseteq BOOLEAN
    /\ denied \subseteq Sigs /\ granted \subseteq Sigs
    /\ target \in Calls \cup {0} /\ verdict \in Verdicts
    /\ rows \in Seq(Seq(Calls))
    /\ {spent, shown, blocked, begun, late, emitted, consented, finished,
        dropped} \subseteq SUBSET Calls
    /\ effects \in [Calls -> Nat]

Init ==
    /\ pc = "idle"
    /\ batch = 0 /\ at = 0
    /\ state = [c \in Calls |-> "absent"]
    /\ parts = <<>> /\ row = 0
    /\ task = [c \in Calls |-> "none"]
    /\ ending = "done" /\ stopping = FALSE
    /\ denied = {} /\ spent = {}
    /\ target = 0 /\ verdict = "none" /\ carry = FALSE
    /\ disk = [c \in Calls |-> "absent"] /\ rows = <<>>
    /\ shown = {} /\ granted = {} /\ blocked = {}
    /\ interactive \in BOOLEAN
    /\ begun = {} /\ late = {} /\ emitted = {} /\ consented = {} /\ finished = {}
    /\ dropped = {}
    /\ effects = [c \in Calls |-> 0]
    /\ torn = FALSE

-----------------------------------------------------------------------------
\* The database, and the end of a drive.

\* One update of the assistant message rewrites all of its calls.
Written == [c \in Calls |-> IF Batch[c] = batch THEN state[c] ELSE disk[c]]

\* Mutant of RowsWritten: the results are left to the end of the step.
RowsWrittenAtEnd ==
    IF pc = "persist" \/ parts = <<>> THEN rows ELSE Append(rows, parts)

\* The one tool row of this _run_calls: created by the first result, then only updated.
RowsWritten ==
    IF parts = <<>> THEN rows
    ELSE IF row = 0 THEN Append(rows, parts)
    ELSE [rows EXCEPT ![row] = parts]

\* _persist's transaction: the state flips and the results together.
Commit ==
    /\ disk' = Written
    /\ rows' = RowsWritten
    /\ row' = IF row = 0 /\ parts # <<>> THEN Len(rows) + 1 ELSE row

\* Mutant of Reconciled: the suspend exclusion is per call.
ReconciledPerCall(d) ==
    [c \in Calls |-> IF d[c] \in Stale THEN "cancelled" ELSE d[c]]

\* reconcile_stale_calls: a message that holds a suspended call is left alone.
Reconciled(d) ==
    [c \in Calls |-> IF d[c] \in Stale /\ \A s \in InBatch(Batch[c]) : d[s] \notin Awaiting
                     THEN "cancelled" ELSE d[c]]

\* No drive in memory; the database holds d.
Forget(p, d) ==
    /\ pc' = p
    /\ disk' = d /\ state' = d
    /\ batch' = 0 /\ at' = 0
    /\ parts' = <<>> /\ row' = 0
    /\ task' = [c \in Calls |-> "none"]
    /\ ending' = "done" /\ stopping' = FALSE
    /\ denied' = {} /\ spent' = {}
    /\ target' = 0 /\ verdict' = "none" /\ carry' = FALSE
    /\ UNCHANGED rows

Rest(d) == Forget("idle", d)

\* The drive is at an await: only there does anything else happen.
AtAwait == pc \notin {"head", "tail", "invoke"}

Outstanding == {c \in Calls : task[c] \in {"queued", "running", "done", "failed"}}
Unresolved == {c \in InBatch(batch) : state[c] \notin Resolved}

\* The exception leaves through the prefix's finally, if tasks are left, and then the batch's.
Unwind(e) ==
    /\ ending' = e
    /\ pc' = IF Outstanding # {} THEN "harvest" ELSE "backstop"

-----------------------------------------------------------------------------
\* The model's turn.

\* A chat starts a drive; an older suspended call may be left behind.
FreshTurn ==
    /\ pc = "idle"
    /\ pc' = "model"
    /\ UNCHANGED <<hand, stopping, guard, owner, durable, gate, history>>

\* The model answers with the next assistant message; its calls are persisted PENDING.
EmitBatch ==
    /\ pc = "model" /\ ~stopping
    /\ \E c \in Calls :
        /\ state[c] = "absent" /\ \A d \in Calls : state[d] = "absent" => c <= d
        /\ batch' = Batch[c]
    /\ state' = [c \in Calls |-> IF Batch[c] = batch' THEN "pending" ELSE state[c]]
    /\ disk' = [c \in Calls |-> IF Batch[c] = batch' THEN "pending" ELSE disk[c]]
    /\ spent' \in {{}} \cup {{c} : c \in InBatch(batch')}
    /\ at' = 0 /\ parts' = <<>> /\ row' = 0
    /\ task' = [c \in Calls |-> "none"]
    /\ ending' = "done"
    /\ pc' = "head"
    /\ UNCHANGED <<stopping, denied, owner, rows, gate, history>>

\* A reply without calls, the wrap-up of a capped turn, or a chain-level failure.
Complete ==
    /\ pc = "model" /\ ~stopping
    /\ Rest(disk)
    /\ UNCHANGED <<gate, history>>

-----------------------------------------------------------------------------
\* The parallel prefix.

Admissible(c) == Kind[c] = "read" /\ Sig[c] \notin denied /\ c \notin spent

\* _classify_batch: the leading order-independent calls.
Prefix == {c \in InBatch(batch) : \A d \in InBatch(batch) : d <= c => Admissible(d)}

StartBatch ==
    /\ pc = "head"
    /\ IF MaxParallel > 1 /\ Cardinality(Prefix) >= 2
       THEN /\ task' = [c \in Calls |-> IF c \in Prefix THEN "queued" ELSE "none"]
            /\ pc' = "prefix"
       ELSE pc' = "tail" /\ UNCHANGED task
    /\ UNCHANGED <<batch, at, state, parts, row, ending, stopping, guard, owner, durable, gate,
                   history>>

TasksAlive == pc \in {"prefix", "persist", "harvest", "cut"}

\* Mutant of Slots: one more than the semaphore holds.
SlotsOneMore == MaxParallel + 1

\* The semaphore of _invoke_one.
Slots == MaxParallel

\* The task passes the semaphore; a call outside the toolset is refused, not run.
TaskStart(c) ==
    /\ TasksAlive /\ pc \notin {"harvest", "cut"}
    /\ task[c] = "queued"
    /\ Cardinality({d \in Calls : task[d] = "running"}) < Slots
    /\ task' = [task EXCEPT ![c] = "running"]
    /\ begun' = IF c \in blocked THEN begun ELSE begun \cup {c}
    /\ denied' = IF c \in blocked THEN denied \cup {Sig[c]} ELSE denied
    /\ UNCHANGED <<pc, batch, at, state, parts, row, ending, stopping, spent, owner, durable, gate,
                   effects, late, emitted, consented, finished, dropped, torn>>

\* The tool, its audit row, or the refusal's, is through; a failed invoke is a result too.
TaskDone(c) ==
    /\ TasksAlive
    /\ task[c] = "running"
    /\ task' = [task EXCEPT ![c] = "done"]
    /\ effects' = IF c \in begun THEN [effects EXCEPT ![c] = @ + 1] ELSE effects
    /\ finished' = finished \cup {c}
    /\ UNCHANGED <<pc, batch, at, state, parts, row, ending, stopping, guard, owner, durable, gate,
                   begun, late, emitted, consented, dropped, torn>>

\* _blocked_call is outside the task's try: its failed audit write raises.
TaskFails(c) ==
    /\ TasksAlive
    /\ task[c] = "running" /\ c \notin begun
    /\ task' = [task EXCEPT ![c] = "failed"]
    /\ UNCHANGED <<pc, batch, at, state, parts, row, ending, stopping, guard, owner, durable, gate,
                   history>>

Outcome(c) == IF c \in begun THEN "done" ELSE "denied"
Taken == {c \in Calls : task[c] = "taken"}
InModelOrder(S) ==
    CHOOSE q \in [1 .. Cardinality(S) -> S] : \A i, j \in DOMAIN q : i < j => q[i] < q[j]

\* The one consumer completes the tasks in the order they finish.
Take(c) ==
    /\ pc = "prefix" /\ ~stopping
    /\ task[c] = "done"
    /\ task' = [task EXCEPT ![c] = "taken"]
    /\ state' = [state EXCEPT ![c] = Outcome(c)]
    /\ parts' = InModelOrder(Taken \cup {c})
    /\ at' = c
    /\ pc' = "persist"
    /\ UNCHANGED <<batch, row, ending, stopping, guard, owner, durable, gate, history>>

TakeFailed(c) ==
    /\ pc = "prefix" /\ ~stopping
    /\ task[c] = "failed"
    /\ Unwind("error")
    /\ UNCHANGED <<batch, at, state, parts, row, task, stopping, guard, owner, durable, gate, history>>

\* The prefix's finally cancels what is left: a running call's work may still come to an end.
TaskCancelled(c) ==
    /\ pc \in {"harvest", "cut"}
    /\ task[c] \in {"queued", "running"}
    /\ task' = [task EXCEPT ![c] = "none"]
    /\ UNCHANGED <<pc, batch, at, state, parts, row, ending, stopping, guard, owner, durable, gate,
                   history>>

\* Mutant of Harvested: finished tasks nobody consumed are dropped.
HarvestedTakenOnly == Taken

Harvested == Taken \cup {c \in Calls : task[c] = "done"}

AllSettled == \A c \in Calls : task[c] \notin {"queued", "running"}

Harvest ==
    /\ pc = "harvest" /\ AllSettled
    /\ state' = [c \in Calls |-> IF task[c] = "done" /\ c \in Harvested THEN Outcome(c) ELSE state[c]]
    /\ parts' = InModelOrder(Harvested)
    /\ task' = [c \in Calls |-> "none"]
    /\ pc' = "backstop"
    /\ UNCHANGED <<batch, at, row, ending, stopping, guard, owner, durable, gate, history>>

\* A Stop came while the finally gathered its tasks: it leaves by the CancelledError,
\* and what the loop below the gather would have kept is let go.
HarvestCut ==
    /\ pc = "cut" /\ AllSettled
    /\ dropped' = dropped \cup {c \in Calls : task[c] = "done"}
    /\ task' = [c \in Calls |-> "none"]
    /\ ending' = "cancelled"
    /\ pc' = "backstop"
    /\ UNCHANGED <<batch, at, state, parts, row, stopping, guard, owner, durable, gate, begun,
                   effects, late, emitted, consented, finished, torn>>

-----------------------------------------------------------------------------
\* The serial tail, and the gate (ActionService.invoke).

Serving(c) == pc = "tail" /\ c \in Unresolved /\ \A d \in Unresolved : c <= d
Answering(c, v) == target = c /\ verdict = v
Fresh(c) == target # c

\* The call's result is known: its commit is next.
Resolve(c, s) ==
    /\ state' = [state EXCEPT ![c] = s]
    /\ parts' = Append(parts, c)
    /\ at' = c
    /\ pc' = "persist"
    /\ UNCHANGED <<batch, row, task, ending>>

\* The tail passes the call on.
Hand(c, p) ==
    /\ at' = c
    /\ pc' = p
    /\ UNCHANGED <<batch, state, parts, row, task, ending>>

AnswerInjected(c) ==
    /\ Serving(c) /\ Answering(c, "answer")
    /\ Resolve(c, "done")
    /\ UNCHANGED <<stopping, guard, owner, durable, gate, history>>

\* Mutant of Rejected: the rejected call's signature is not kept.
RejectedUnkept(c) == denied

Rejected(c) == denied \cup {Sig[c]}

Dismissed(c) ==
    /\ Serving(c) /\ Answering(c, "dismiss")
    /\ denied' = Rejected(c)
    /\ Resolve(c, "denied")
    /\ UNCHANGED <<stopping, spent, owner, durable, gate, history>>

\* A denial echo, or a repeat or per-tool cap.
Suppressed(c) ==
    /\ Serving(c) /\ Fresh(c)
    /\ \/ Sig[c] \in denied /\ Resolve(c, "denied")
       \/ Sig[c] \notin denied /\ c \in spent /\ \E s \in {"done", "denied"} : Resolve(c, s)
    /\ UNCHANGED <<stopping, guard, owner, durable, gate, history>>

Admitted(c) ==
    /\ Serving(c)
    /\ \/ Answering(c, "execute")
       \/ Fresh(c) /\ Sig[c] \notin denied /\ c \notin spent

Blocked(c) ==
    /\ Admitted(c) /\ c \in blocked
    /\ denied' = denied \cup {Sig[c]}
    /\ Hand(c, "audit")
    /\ UNCHANGED <<stopping, spent, owner, durable, gate, history>>

Malformed(c) ==
    /\ Admitted(c) /\ c \notin blocked /\ Kind[c] = "malformed"
    /\ Resolve(c, "done")
    /\ UNCHANGED <<stopping, guard, owner, durable, gate, history>>

\* Mutant of Marked: the confirmed call stays AWAITING_CONFIRM while it runs.
MarkedAwaiting(c) == state[c]

\* What a confirmed call is before its tool runs.
Marked(c) == "running"

\* C4-H1: on a confirmed resume the call is flipped in the database first.
Confirmed(c) ==
    /\ Admitted(c) /\ c \notin blocked /\ Kind[c] # "malformed" /\ Answering(c, "execute")
    /\ state' = [state EXCEPT ![c] = Marked(c)]
    /\ at' = c /\ pc' = "flip"
    /\ UNCHANGED <<batch, parts, row, task, ending, stopping, guard, owner, durable, gate, history>>

Unasked(c) ==
    /\ Admitted(c) /\ c \notin blocked /\ Kind[c] # "malformed" /\ Fresh(c)
    /\ Hand(c, "invoke")
    /\ UNCHANGED <<stopping, guard, owner, durable, gate, history>>

\* messages.update outside the shield.
Flip ==
    /\ pc = "flip" /\ ~stopping
    /\ disk' = Written
    /\ pc' = "invoke"
    /\ UNCHANGED <<hand, stopping, guard, owner, rows, gate, history>>

FlipFails ==
    /\ pc = "flip" /\ ~stopping
    /\ Unwind("error")
    /\ UNCHANGED <<batch, at, state, parts, row, task, stopping, guard, owner, durable, gate, history>>

\* Mutant of Approved: the owner's reply to one call covers the rest of its message.
ApprovedOnResume(c) == Sig[c] \in granted \/ target # 0

\* approval_match: an always-allow rule pins the exact arguments.
Approved(c) == Sig[c] \in granted

Allowed(c) == Kind[c] \in {"read", "act"} \/ Approved(c)

\* The gate lets the call through, on a rule or on the resume's token.
Begin ==
    /\ pc = "invoke" /\ Kind[at] # "question"
    /\ \/ Allowed(at) /\ UNCHANGED carry
       \/ ~Allowed(at) /\ target = at /\ carry /\ carry' = FALSE
    /\ begun' = begun \cup {at}
    /\ pc' = "run"
    /\ UNCHANGED <<hand, stopping, guard, target, verdict, durable, gate, effects, late, emitted,
                   consented, finished, dropped, torn>>

NeedsConfirm == pc = "invoke" /\ Kind[at] = "risky" /\ ~Allowed(at) /\ ~(target = at /\ carry)

\* A question's own Event row comes first: its tool has run, to no effect.
Question ==
    /\ pc = "invoke" /\ Kind[at] = "question"
    /\ pc' = "asking"
    /\ UNCHANGED <<hand, stopping, guard, owner, durable, gate, history>>

\* The turn parks on a confirm or on a question.
Ask ==
    /\ \/ NeedsConfirm /\ state' = [state EXCEPT ![at] = "awaiting_confirm"]
       \/ pc = "asking" /\ ~stopping /\ state' = [state EXCEPT ![at] = "awaiting_answer"]
    /\ interactive
    /\ pc' = "park"
    /\ UNCHANGED <<batch, at, parts, row, task, ending, stopping, guard, owner, durable, gate, history>>

\* Nobody to ask: the confirm is refused and the refusal audited.
DenyHeadless ==
    /\ NeedsConfirm /\ ~interactive
    /\ pc' = "audit"
    /\ UNCHANGED <<hand, stopping, guard, owner, durable, gate, history>>

\* question_policy decides.
AnswerHeadless ==
    /\ pc = "asking" /\ ~stopping /\ ~interactive
    /\ \E s \in {"done", "denied"} : Resolve(at, s)
    /\ UNCHANGED <<stopping, guard, owner, durable, gate, history>>

\* The tool does its work.
Effect ==
    /\ pc = "run"
    /\ effects' = [effects EXCEPT ![at] = @ + 1]
    /\ pc' = "ran"
    /\ UNCHANGED <<hand, stopping, guard, owner, durable, gate, begun, late, emitted, consented,
                   finished, dropped, torn>>

\* The tool answers, fails, or its deadline passes: then its work may go on.
Return ==
    /\ pc \in {"run", "ran"}
    /\ pc' = "audit"
    /\ IF pc = "run" THEN late' \in {late, late \cup {at}} ELSE UNCHANGED late
    /\ UNCHANGED <<hand, stopping, guard, owner, durable, gate, begun, effects, emitted, consented,
                   finished, dropped, torn>>

LateEffect(c) ==
    /\ AtAwait
    /\ c \in late
    /\ late' = late \ {c}
    /\ effects' = [effects EXCEPT ![c] = @ + 1]
    /\ UNCHANGED <<pc, hand, stopping, guard, owner, durable, gate, begun, emitted, consented,
                   finished, dropped, torn>>

\* The Event row of the run, or of the refusal, is written.
Audited ==
    /\ pc = "audit" /\ ~stopping
    /\ Resolve(at, Outcome(at))
    /\ finished' = finished \cup {at}
    /\ UNCHANGED <<stopping, guard, owner, durable, gate, begun, effects, late, emitted, consented,
                   dropped, torn>>

AuditFails ==
    /\ pc \in {"audit", "asking"} /\ ~stopping
    /\ Unwind("error")
    /\ UNCHANGED <<batch, at, state, parts, row, task, stopping, guard, owner, durable, gate, history>>

-----------------------------------------------------------------------------
\* The writes.  Each commit is a task of its own: a Stop cannot undo it (C3-H1).

\* persist-before-emit
Persisted ==
    /\ pc = "persist"
    /\ Commit
    /\ IF stopping
       THEN Unwind("cancelled") /\ UNCHANGED emitted
       ELSE /\ emitted' = emitted \cup {at}
            /\ pc' = CASE Outstanding # {} -> "prefix"
                       [] Outstanding = {} /\ Unresolved # {} -> "tail"
                       [] OTHER -> "backstop"
            /\ UNCHANGED ending
    /\ UNCHANGED <<batch, at, state, parts, task, stopping, guard, owner, gate, begun, effects, late,
                   consented, finished, dropped, torn>>

\* What has gone out when the commit failed.
EmittedUnwritten == emitted

PersistFails ==
    /\ pc = "persist"
    /\ emitted' = EmittedUnwritten
    /\ Unwind("error")
    /\ UNCHANGED <<batch, at, state, parts, row, task, stopping, guard, owner, durable, gate, begun,
                   effects, late, consented, finished, dropped, torn>>

\* The suspended call is durable before its bubble, and the bubble's token, go out.
Parked ==
    /\ pc = "park"
    /\ Commit
    /\ ending' = IF stopping THEN "cancelled" ELSE "suspended"
    /\ shown' = IF ~stopping /\ state[at] = "awaiting_confirm" THEN shown \cup {at} ELSE shown
    /\ pc' = "backstop"
    /\ UNCHANGED <<batch, at, state, parts, task, stopping, guard, owner, granted, blocked, interactive,
                   history>>

ParkFails ==
    /\ pc = "park"
    /\ Unwind("error")
    /\ UNCHANGED <<batch, at, state, parts, row, task, stopping, guard, owner, durable, gate, history>>

\* The finally: everything once more, to the same row.  The batch's locals are gone.
Backstop ==
    /\ pc = "backstop"
    /\ disk' = Written /\ rows' = RowsWritten
    /\ ending' = IF stopping /\ ending # "error" THEN "cancelled" ELSE ending
    /\ pc' = IF ending' = "done" THEN "model" ELSE "end"
    /\ batch' = 0 /\ at' = 0 /\ parts' = <<>> /\ row' = 0
    /\ task' = [c \in Calls |-> "none"]
    /\ spent' = {}
    /\ carry' = FALSE
    /\ UNCHANGED <<state, stopping, denied, target, verdict, gate, history>>

BackstopFails ==
    /\ pc = "backstop"
    /\ ending' = IF ending = "cancelled" THEN ending ELSE "error"
    /\ torn' = (torn \/ Written # disk \/ RowsWritten # rows)
    /\ pc' = "end"
    /\ UNCHANGED <<batch, at, state, parts, row, task, stopping, guard, owner, durable, gate, begun,
                   effects, late, emitted, consented, finished, dropped>>

\* drain_turn: a suspended turn ends as it is.
Close ==
    /\ pc = "end" /\ ending = "suspended"
    /\ Rest(disk)
    /\ UNCHANGED <<gate, history>>

\* A stopped or broken one is reconciled: shielded, the marker still held.
Reconcile ==
    /\ pc = "end" /\ ending # "suspended"
    /\ Rest(Reconciled(disk))
    /\ UNCHANGED <<gate, history>>

\* Best effort: a failed one is logged.
ReconcileFails ==
    /\ pc = "end" /\ ending # "suspended"
    /\ torn' = TRUE
    /\ Rest(disk)
    /\ UNCHANGED <<gate, begun, effects, late, emitted, consented, finished, dropped>>

-----------------------------------------------------------------------------
\* Stop, crash and boot.

\* cancel_turn's one-shot latch.  A Stop before the last task of a gather has settled
\* is in time to cut the harvest off.
Stop ==
    /\ pc \notin {"idle", "boot"} /\ AtAwait /\ ~stopping
    /\ pc = "harvest" => ~AllSettled
    /\ stopping' = TRUE
    /\ pc' = IF pc = "harvest" THEN "cut" ELSE pc
    /\ UNCHANGED <<hand, guard, owner, durable, gate, history>>

\* Mutant of Cancellable: the wait for a tool swallows the cancellation.
CancellableNotTool == {"flip", "audit", "asking", "prefix"}

\* The unshielded awaits of _run_calls; a Stop in the finally's own gather is HarvestCut.
Cancellable == {"flip", "audit", "asking", "run", "ran", "prefix"}

\* The CancelledError leaves the batch: an unshielded write may have landed,
\* a thread's work may go on.
CancelLands ==
    /\ stopping /\ pc \in Cancellable
    /\ Unwind("cancelled")
    /\ IF pc = "flip" THEN disk' \in {disk, Written} ELSE UNCHANGED disk
    /\ IF pc = "run" THEN late' \in {late, late \cup {at}} ELSE UNCHANGED late
    /\ UNCHANGED <<batch, at, state, parts, row, task, stopping, guard, owner, rows, gate, begun,
                   effects, emitted, consented, finished, dropped, torn>>

\* Before or between the batches.
CancelLandsOutside ==
    /\ stopping /\ pc \in {"resume", "model"}
    /\ pc' = "end"
    /\ UNCHANGED <<hand, stopping, guard, owner, durable, gate, history>>

\* The process dies; what its tools began on other hosts may go on.
Crash ==
    /\ pc # "boot" /\ AtAwait
    /\ Forget("boot", disk)
    /\ shown' = {}
    /\ finished' = finished \cap Results
    /\ UNCHANGED <<granted, blocked, interactive, begun, effects, late, emitted, consented, dropped, torn>>

\* lifespan: best effort.
Boot ==
    /\ pc = "boot"
    /\ \/ Rest(Reconciled(disk)) /\ UNCHANGED torn
       \/ Rest(disk) /\ torn' = TRUE
    /\ UNCHANGED <<gate, begun, effects, late, emitted, consented, finished, dropped>>

-----------------------------------------------------------------------------
\* The owner, and the clock.

\* The turn marker admits one resume at a time, so begin_execute (J2) never refuses.
Resume(c, v) ==
    /\ pc = "idle" /\ disk[c] \in Awaiting
    /\ pc' = "resume"
    /\ batch' = Batch[c] /\ target' = c /\ verdict' = v
    /\ UNCHANGED <<at, state, parts, row, task, ending, stopping, guard, carry, durable, gate, history>>

\* An answer to a confirm; a call whose tool is gone or refuses its arguments.
ResumeRefused ==
    /\ pc = "resume" /\ ~stopping
    /\ \/ verdict = "answer" /\ disk[target] # "awaiting_answer"
       \/ verdict = "execute" /\ target \notin blocked
    /\ Rest(disk)
    /\ UNCHANGED <<gate, history>>

\* M1: the tool left the toolset while the bubble was parked; the loop refuses it as a fresh call.
RefusedByAllowlist ==
    /\ pc = "resume" /\ ~stopping
    /\ verdict \in {"execute", "always"} /\ target \in blocked
    /\ target' = 0 /\ verdict' = "none"
    /\ pc' = "tail"
    /\ UNCHANGED <<hand, stopping, guard, carry, durable, gate, history>>

\* execute_always: the rule may not be expressible, or fail to be written; the call runs all the same.
Grant ==
    /\ pc = "resume" /\ ~stopping
    /\ verdict = "always" /\ target \notin blocked
    /\ granted' \in {granted} \cup {granted \cup {Sig[c]} : c \in {target} \cap Gated}
    /\ verdict' = "execute"
    /\ UNCHANGED <<pc, hand, stopping, guard, target, carry, durable, shown, blocked, interactive,
                   history>>

\* _invalidate_pending: no token of the call's (tool, args) stays live.
Outlived(c) == {s \in shown : Sig[s] # Sig[c]}

\* confirm_token_for: the durable call is the confirmation, the token is minted anew (J3).
Mint ==
    /\ pc = "resume" /\ ~stopping
    /\ verdict = "execute" /\ target \notin blocked
    /\ shown' = Outlived(target)
    /\ carry' = TRUE
    /\ consented' = consented \cup ({target} \cap Gated)
    /\ pc' = "tail"
    /\ UNCHANGED <<hand, stopping, guard, target, verdict, durable, granted, blocked, interactive,
                   begun, effects, late, emitted, finished, dropped, torn>>

\* The owner rejects the call, or answers the question.
Replied ==
    /\ pc = "resume" /\ ~stopping
    /\ \/ verdict = "dismiss" /\ shown' = Outlived(target)
       \/ verdict = "answer" /\ disk[target] = "awaiting_answer" /\ UNCHANGED shown
    /\ pc' = "tail"
    /\ UNCHANGED <<hand, stopping, guard, owner, durable, granted, blocked, interactive, history>>

\* A shown token is redeemed at POST /api/actions, or outlives _CONFIRM_TTL_S.
TokenGone(c) ==
    /\ AtAwait
    /\ c \in shown
    /\ shown' = shown \ {c}
    /\ UNCHANGED <<pc, hand, stopping, guard, owner, durable, granted, blocked, interactive, history>>

CarryExpires ==
    /\ AtAwait
    /\ carry
    /\ carry' = FALSE
    /\ UNCHANGED <<pc, hand, stopping, guard, target, verdict, durable, gate, history>>

\* The call's tool leaves the agent's toolset.
Withdraw(c) ==
    /\ AtAwait
    /\ blocked = {}
    /\ blocked' = {c}
    /\ UNCHANGED <<pc, hand, stopping, guard, owner, durable, shown, granted, interactive, history>>

-----------------------------------------------------------------------------
\* What the program does by itself, given its turn on the event loop and its database.
Serve(c) ==
    \/ AnswerInjected(c) \/ Dismissed(c) \/ Suppressed(c)
    \/ Blocked(c) \/ Malformed(c) \/ Confirmed(c) \/ Unasked(c)

Own ==
    \/ StartBatch \/ Flip \/ FlipFails \/ Begin \/ Question \/ Ask \/ DenyHeadless \/ AnswerHeadless
    \/ Audited \/ AuditFails \/ Persisted \/ PersistFails \/ Parked \/ ParkFails
    \/ Harvest \/ HarvestCut \/ Backstop \/ BackstopFails \/ Close \/ Reconcile \/ ReconcileFails
    \/ CancelLands \/ CancelLandsOutside \/ Boot
    \/ ResumeRefused \/ RefusedByAllowlist \/ Grant \/ Mint \/ Replied
    \/ \E c \in Calls : Serve(c) \/ TaskStart(c) \/ Take(c) \/ TakeFailed(c) \/ TaskCancelled(c)

\* The model, the tools, the owner, the clock and the host.
Environment ==
    \/ FreshTurn \/ EmitBatch \/ Complete \/ Effect \/ Return \/ Stop \/ Crash \/ CarryExpires
    \/ \E c \in Calls :
        \/ TaskDone(c) \/ TaskFails(c) \/ LateEffect(c) \/ TokenGone(c) \/ Withdraw(c)
        \/ \E v \in Verdicts \ {"none"} : Resume(c, v)

Next == Own \/ Environment

Spec == Init /\ [][Next]_vars

\* The event loop runs a ready task; no tool, model or owner is taken to answer.
FairSpec == Spec /\ WF_vars(Own)

-----------------------------------------------------------------------------
(***************************************************************************)
(* Properties.                                                             *)
(***************************************************************************)

\* A call that was let through to its tool is never resumable again: while its
\* outcome is not on record, no call of its message awaits the owner, so no
\* Stop, failed audit or crash leaves a bubble whose Allow would repeat it
\* (C4-H1, session.py's RUNNING flip).
EffectNotReplayable ==
    \A c \in begun : disk[c] \notin Resolved => \A s \in InBatch(Batch[c]) : disk[s] \notin Awaiting

\* A gated tool does its work only where the owner answered that very call
\* with execute, or a rule for exactly its arguments stands.
ConsentedOnly ==
    \A c \in Gated : effects[c] > 0 => c \in consented \/ Sig[c] \in granted

\* A token the owner was shown is live only while its bubble waits: no later
\* redemption can repeat an allowed call or run a rejected one (ACA-9, C2-M1).
\* A call refused because its tool was withdrawn keeps its token until the TTL.
TokenDiesWithBubble ==
    \A c \in shown : disk[c] = "awaiting_confirm" \/ c \in blocked

\* D40's persist-before-emit: a subscriber never holds a result whose row is missing.
EmittedDurable == emitted \subseteq Results

\* In the database a call is closed with a result exactly when a tool row holds
\* it: the flip and the result are one transaction, whatever crash or failure.
ResultsMatchStates ==
    \A c \in Calls : disk[c] \in {"done", "denied"} <=> c \in Results

\* Where result c stands before result d: two calls, in the model's order within a message.
MayPrecede(c, d) == c # d /\ (Batch[c] = Batch[d] => c < d)

\* A call's result is recorded once, and the results of one message stand in
\* the order the model made the calls, whichever finished first.
ResultsInOrder ==
    \A i, k \in DOMAIN rows : \A x \in DOMAIN rows[i], y \in DOMAIN rows[k] :
        i < k \/ (i = k /\ x < y) => MayPrecede(rows[i][x], rows[k][y])

\* Whenever no drive is alive, each message is resolved whole or waits on one
\* call: those before it resolved, those after it pending for the resume.
\* Only a failed backstop or reconcile write can leave it otherwise.
BatchSettled ==
    pc = "idle" /\ ~torn =>
        \A x \in Batches :
            \/ \A c \in InBatch(x) : disk[c] \in Resolved \cup {"absent"}
            \/ \E c \in InBatch(x) :
                /\ disk[c] \in Awaiting
                /\ \A d \in InBatch(x) \ {c} : disk[d] \in IF d < c THEN Resolved ELSE {"pending"}

\* A result a tool returned is on record once the drive is over, whether it
\* ended well, was stopped or failed (the prefix's harvest, the backstop).  The one
\* exception: a Stop during the gather of a prefix that already failed lets go of
\* the finished reads nobody had taken.
DoneWorkSurvives == pc = "idle" /\ ~torn => finished \subseteq Results \cup dropped

\* The harvest keeps every finished read ("so its work survives").
\* The code does not keep this: README, section 4.
HarvestKeepsWork == pc = "idle" /\ ~torn => finished \subseteq Results

\* A call the owner rejected is not put to the owner again in the same drive,
\* however often the model makes it anew (the denial echo).
RejectionStands ==
    [][pc = "invoke" /\ pc' = "park" /\ verdict = "dismiss" => Sig[at] # Sig[target]]_vars

\* The record tells the truth: of what is done, of what went out, and of what may
\* still be allowed.
RecordIsTrue ==
    EffectNotReplayable /\ EmittedDurable /\ ResultsMatchStates /\ TokenDiesWithBubble

\* What a drive did is on record, once and in order.
ResultsStand == ResultsInOrder /\ DoneWorkSurvives

\* A stopped drive ends, though no tool and no model answers.
StopEnds == stopping ~> pc = "idle"

\* No task of the prefix raises: one call's failure is only its own.
\* The code does not keep this: README, section 4.
PrefixIsolated == \A c \in Calls : task[c] # "failed"

Status(s) ==
    CASE s = "absent" -> "absent"
      [] s \in Stale -> "open"
      [] s \in Awaiting -> "asked"
      [] s \in Resolved -> "closed"

Ledger == INSTANCE CallLedger WITH status <- [c \in Calls |-> Status(disk[c])]

\* What the database and the tools show of a call is what the ledger promises:
\* closed for good, begun and in effect at most once, never asked about after.
KeepsLedger == Ledger!Spec

=============================================================================
