---------------------------- MODULE SteeredThread ----------------------------
(***************************************************************************)
(* One conversation of the panel: its turn marker (D38), the server-owned  *)
(* task that drives a turn (D39) and the queue of steers the owner sends   *)
(* while a turn runs (D41).  Everything runs on one asyncio loop, so a     *)
(* step here is the code between two awaits: endpoints, the drain task,    *)
(* its done-callback and the drain-B body interleave only at awaits.  The  *)
(* control points "top", "drain" and "body" are scheduling points the code *)
(* has only when the step before them awaited.                             *)
(***************************************************************************)
EXTENDS Naturals, SequencesExt

CONSTANTS
    Messages,     \* chat messages the owner may send, each at most once
    Execs,        \* "!cmd" commands the owner may send, each at most once
    Attached,     \* the messages that carry staged files
    Textless,     \* the messages that are nothing but their files
    QueueMax,     \* agent.turns.steer_queue_max
    MaxIter,      \* agent.max_iterations: model calls of one turn
    OwnerTurns,   \* bound: handles after which the owner starts no further turn
    MaxTurns,     \* bound: turn handles ever minted
    MaxStops      \* bound: presses of Stop

ASSUME BoundsAssumption ==
    /\ Attached \subseteq Messages
    /\ Textless \subseteq Attached
    /\ Messages \cap Execs = {}
    /\ QueueMax \in Nat \ {0}
    /\ MaxIter \in Nat \ {0}
    /\ OwnerTurns \in Nat
    /\ MaxTurns \in Nat \ {0}
    /\ MaxStops \in Nat

Entries == Messages \cup Execs
TurnIds == 1 .. MaxTurns
NoTurn == 0
StopIds == 1 .. MaxStops
Kinds == {"chat", "resume", "exec", "edit"}

\* Where the code behind a handle stands.  "handler" and the sync_* points are
\* an endpoint holding the marker with no task; "spawned" to "error_close" are
\* drain_turn; the body_* points are a drain-B body; "done" is a finished task
\* whose done-callback has not run yet.
SyncPoints == {"sync_start", "sync_run"}
BodyPoints == {"body_new", "body", "body_exec"}
DrainPoints == {"spawned", "prelude", "top", "drain", "claim", "txn", "exec", "model",
                "cancel_close", "error_close"}
TaskPoints == BodyPoints \cup DrainPoints
LivePoints == {"handler", "done"} \cup SyncPoints \cup TaskPoints
Statuses == {"none", "completed", "suspended", "capped", "cancelled", "error", "refused"}

VARIABLES
    marker,     \* app.state.turns[thread]: the handle holding the thread, or NoTurn
    turn,       \* every TurnHandle: its kind, control point, terminal_status, cancelling latch
    nextTurn,   \* the next handle to mint
    completed,  \* the thread's last ended turn completed
    work,       \* what a turn has in hand: seed message, peeked steers, open batch, model calls
    queue,      \* app.state.steer_queues[thread], empty when the key is absent
    applied,    \* user messages persisted and commands claimed to run, in order
    files,      \* the staged files of each entry: still staged, claimed, or refused
    dropped,    \* entries consumed without effect, with a notice to the owner
    lost,       \* messages taken off the queue or the request and never written
    accepted,   \* steers answered 202, in order
    used,       \* entries the owner has submitted
    unsent,     \* entries a DELETE answered "removed: true" for
    handed,     \* entries a Stop ever harvested
    receipt,    \* app.state.steer_harvests[thread]: absent, or the harvested entries
    stop,       \* the Stop requests and their responses
    nextStop,   \* the next Stop to press
    gateOpen,   \* shell.enabled and shell.user_exec_enabled
    shuttingDown

registry == <<marker, turn, nextTurn, completed>>
effects == <<applied, files, dropped, lost>>
owner == <<accepted, used, unsent>>
harvest == <<handed, receipt, stop, nextStop>>
environment == <<gateOpen, shuttingDown>>
vars == <<registry, work, queue, effects, owner, harvest, environment>>

\* The entries of s that lie in S, in their order: the k-th is the one at the place
\* in s that has k kept places up to it.
Only(s, S) ==
    LET kept == {i \in DOMAIN s : s[i] \in S}
        place(k) == CHOOSE i \in kept : Cardinality({j \in kept : j <= i}) = k
    IN  [k \in 1 .. Cardinality(kept) |-> s[place(k)]]

Without(s, S) == Only(s, ToSet(s) \ S)

\* The longest prefix of s whose elements all lie in S.
Leading(s, S) ==
    LET n == CHOOSE k \in 0 .. Len(s) :
                 /\ \A i \in 1 .. k : s[i] \in S
                 /\ k = Len(s) \/ s[k + 1] \notin S
    IN  SubSeq(s, 1, n)

Beyond(s, p) == SubSeq(s, Len(p) + 1, Len(s))

Live(t) == turn[t].pc \in LivePoints
HasTask(t) == turn[t].pc \in TaskPoints \cup {"done"}
At(t, points) == turn[t].pc \in points

Handle(k, p) == [kind |-> k, pc |-> p, terminal |-> "none", cancelling |-> FALSE]
Idle == [seed |-> <<>>, todo |-> <<>>, batch |-> <<>>, calls |-> 0]
NoReceipt == [held |-> FALSE, entries |-> <<>>]
NoStop == [pc |-> "idle", found |-> NoTurn]
Answered(scope) == [pc |-> IF scope = NoTurn THEN "unscoped" ELSE "scoped", found |-> NoTurn]

First(s) == IF s = <<>> THEN <<>> ELSE <<Head(s)>>

\* A coroutine that ends puts down what it has in hand; a seed it never wrote is gone.
PutDown(t) ==
    /\ work' = [work EXCEPT ![t] = Idle]
    /\ lost' = lost \cup (ToSet(work[t].seed) \ ToSet(applied))
    /\ UNCHANGED <<applied, files, dropped>>

\* The handle t at point p with status s and latch c.
Mark(t, p, s, c) ==
    [turn EXCEPT ![t] = [kind |-> turn[t].kind, pc |-> p, terminal |-> s, cancelling |-> c]]

Goto(t, p) == turn' = Mark(t, p, turn[t].terminal, turn[t].cancelling)

-----------------------------------------------------------------------------
RegistryTypeOK ==
    /\ marker \in TurnIds \cup {NoTurn}
    /\ turn \in [TurnIds -> [kind : Kinds, pc : LivePoints \cup {"unused", "over"},
                             terminal : Statuses, cancelling : BOOLEAN]]
    /\ nextTurn \in 1 .. MaxTurns + 1
    /\ completed \in BOOLEAN

TypeOK ==
    /\ RegistryTypeOK
    /\ \A t \in TurnIds :
           /\ work[t].seed \in Seq(Entries) /\ Len(work[t].seed) <= 1
           /\ work[t].todo \in Seq(Entries)
           /\ work[t].batch \in Seq(Entries)
           /\ work[t].calls \in 0 .. MaxIter
    /\ queue \in Seq(Entries)
    /\ applied \in Seq(Entries)
    /\ files \in [Attached -> {"staged", "claimed", "refused"}]
    /\ {dropped, lost, unsent, handed} \subseteq SUBSET Entries
    /\ used \subseteq Entries
    /\ accepted \in Seq(used)
    /\ receipt.held \in BOOLEAN /\ receipt.entries \in Seq(Entries)
    /\ stop \in [StopIds -> [pc : {"idle", "reading", "scoped", "unscoped"}, found : 0 .. MaxTurns]]
    /\ nextStop \in 1 .. MaxStops + 1
    /\ gateOpen \in BOOLEAN /\ shuttingDown \in BOOLEAN

Init ==
    /\ marker = NoTurn
    /\ turn = [t \in TurnIds |-> Handle("chat", "unused")]
    /\ nextTurn = 1
    /\ completed = FALSE
    /\ work = [t \in TurnIds |-> Idle]
    /\ queue = <<>>
    /\ applied = <<>>
    /\ files = [m \in Attached |-> "staged"] /\ dropped = {} /\ lost = {}
    /\ accepted = <<>> /\ used = {} /\ unsent = {}
    /\ handed = {} /\ receipt = NoReceipt
    /\ stop = [i \in StopIds |-> NoStop] /\ nextStop = 1
    /\ gateOpen = TRUE /\ shuttingDown = FALSE

-----------------------------------------------------------------------------
\* The marker registry.

\* reserve: the check and the insert are one step, and only an idle thread passes.
Reserve(k, p, inHand) ==
    /\ marker = NoTurn
    /\ nextTurn \in TurnIds
    /\ marker' = nextTurn
    /\ turn' = [turn EXCEPT ![nextTurn] = Handle(k, p)]
    /\ work' = [work EXCEPT ![nextTurn] = inHand]
    /\ nextTurn' = nextTurn + 1
    /\ UNCHANGED completed

\* release: by identity, so a stale release leaves a newer turn's marker alone.
Released(t) == IF marker = t THEN NoTurn ELSE marker

\* cancel_turn: one cancel per handle ever, and only while its task runs.
Latched(t) ==
    IF ~turn[t].cancelling /\ At(t, TaskPoints)
    THEN Mark(t, turn[t].pc, turn[t].terminal, TRUE)
    ELSE turn

\* Mutant of MaySpawnDrainB: an off-by-one on the queue's length.
MaySpawnDrainBOverTwo(status, q) ==
    /\ status = "completed"
    /\ ~shuttingDown
    /\ Len(q) > 1

\* _maybe_spawn_drain_b: only a completed turn, never during shutdown, only with steers left.
MaySpawnDrainB(status, q) ==
    /\ status = "completed"
    /\ ~shuttingDown
    /\ q # <<>>

\* What ends a handle: settle the status, release the marker, and either chain
\* into a drain-B body that takes the marker in the same step or leave the thread idle.
EndTurn(t, status) ==
    LET settled == [turn EXCEPT ![t] = Handle("chat", "over")]
    IN  IF MaySpawnDrainB(status, queue) /\ Released(t) = NoTurn
        THEN /\ nextTurn \in TurnIds
             /\ marker' = nextTurn
             /\ turn' = [settled EXCEPT ![nextTurn] = Handle("chat", "body_new")]
             /\ nextTurn' = nextTurn + 1
             /\ UNCHANGED completed
        ELSE /\ marker' = Released(t)
             /\ turn' = settled
             /\ completed' = (status = "completed")
             /\ UNCHANGED nextTurn

\* An exit that only releases: no terminal record and no chain.
Abandon(t, status) ==
    /\ marker' = Released(t)
    /\ turn' = [turn EXCEPT ![t] = Handle("chat", "over")]
    /\ completed' = (status = "completed")
    /\ UNCHANGED nextTurn

-----------------------------------------------------------------------------
\* The endpoints that take the marker or queue behind it.

OwnerMayAct == ~shuttingDown
OwnerMayStart == OwnerMayAct /\ nextTurn <= OwnerTurns

\* The live holder a chat or exec POST steers instead of answering busy.
Steerable == marker # NoTurn /\ turn[marker].kind \in {"chat", "resume"}

\* _steer_202 / enqueue: append under the cap; past it the POST is answered busy.
Enqueue(e) ==
    /\ Steerable
    /\ Len(queue) < QueueMax
    /\ queue' = Append(queue, e)
    /\ accepted' = Append(accepted, e)
    /\ used' = used \cup {e}
    /\ UNCHANGED <<registry, work, effects, unsent, harvest, environment>>

\* A new turn on the thread drops the lingering Stop receipt.
ForgetReceipt == receipt' = NoReceipt /\ UNCHANGED <<handed, stop, nextStop>>

\* POST /agent/chat with a message on an idle thread.
ChatStart(m) ==
    /\ OwnerMayStart
    /\ Reserve("chat", "handler", [Idle EXCEPT !.seed = <<m>>])
    /\ ForgetReceipt
    /\ used' = used \cup {m}
    /\ UNCHANGED <<queue, effects, accepted, unsent, environment>>

Chat(m) ==
    /\ OwnerMayAct
    /\ m \notin used
    /\ Enqueue(m) \/ ChatStart(m)

\* POST /exec with a command on an idle thread: runs inline under a sync marker.
ExecStart(x) ==
    /\ OwnerMayStart
    /\ Reserve("exec", "sync_start", [Idle EXCEPT !.seed = <<x>>])
    /\ ForgetReceipt
    /\ used' = used \cup {x}
    /\ UNCHANGED <<queue, effects, accepted, unsent, environment>>

Exec(x) ==
    /\ OwnerMayAct
    /\ gateOpen
    /\ x \notin used
    /\ Enqueue(x) \/ ExecStart(x)

\* POST /agent/resume: never queues, and leaves the Stop receipt in place.
Resume ==
    /\ OwnerMayStart
    /\ Reserve("resume", "handler", Idle)
    /\ UNCHANGED <<queue, effects, owner, harvest, environment>>

\* POST regenerate: a chat turn with no new user message.
Regenerate ==
    /\ OwnerMayStart
    /\ Reserve("chat", "handler", Idle)
    /\ ForgetReceipt
    /\ UNCHANGED <<queue, effects, owner, environment>>

\* plan, apply, compact, prune and edit hold the marker inline.
Edit ==
    /\ OwnerMayStart
    /\ Reserve("edit", "sync_run", Idle)
    /\ UNCHANGED <<queue, effects, owner, harvest, environment>>

\* claim_attachments over the files of A: those of F move in, the others are refused.
Claimed(A, F) ==
    [m \in Attached |-> IF m \in F THEN "claimed" ELSE IF m \in A THEN "refused" ELSE files[m]]

\* The handler revalidates the thread, claims its files and hands over to a drain task ...
HandOff(t) ==
    /\ At(t, {"handler"})
    /\ Goto(t, "spawned")
    /\ files' = Claimed(ToSet(work[t].seed), ToSet(work[t].seed))
    /\ UNCHANGED <<marker, nextTurn, completed, work, queue, applied, dropped, lost, owner, harvest, environment>>

\* ... or refuses (thread gone, a file expired) and releases what it reserved.
Refuse(t) ==
    /\ At(t, {"handler", "sync_start"})
    /\ Abandon(t, "refused")
    /\ PutDown(t)
    /\ UNCHANGED <<queue, owner, harvest, environment>>

\* /exec past its revalidation: the command runs.
SyncExec(t) ==
    /\ At(t, {"sync_start"})
    /\ Goto(t, "sync_run")
    /\ applied' = applied \o work[t].seed
    /\ UNCHANGED <<marker, nextTurn, completed, work, queue, files, dropped, lost, owner, harvest, environment>>

\* A sync holder's finally: release only, no chain; the thread keeps its last status.
SyncEnd(t) ==
    /\ At(t, {"sync_run"})
    /\ marker' = Released(t)
    /\ turn' = [turn EXCEPT ![t] = Handle("chat", "over")]
    /\ PutDown(t)
    /\ UNCHANGED <<nextTurn, completed, queue, owner, harvest, environment>>

-----------------------------------------------------------------------------
\* drain_turn over run_turn or resume.

Runs(t, points) == At(t, points) /\ ~turn[t].cancelling

Start(t) ==
    /\ Runs(t, {"spawned"})
    /\ Goto(t, "prelude")
    /\ UNCHANGED <<marker, nextTurn, completed, work, queue, effects, owner, harvest, environment>>

\* run_turn persists the user message (resume and regenerate have none) and enters _drive.
Persist(t) ==
    /\ Runs(t, {"prelude"})
    /\ Goto(t, "top")
    /\ applied' = applied \o work[t].seed
    /\ work' = [work EXCEPT ![t].seed = <<>>]
    /\ UNCHANGED <<marker, nextTurn, completed, queue, files, dropped, lost, owner, harvest, environment>>

\* The loop top: Drain A snapshots the queue once.
Peek(t) ==
    /\ Runs(t, {"top"})
    /\ Goto(t, "drain")
    /\ work' = [work EXCEPT ![t].todo = queue]
    /\ UNCHANGED <<marker, nextTurn, completed, queue, effects, owner, harvest, environment>>

\* A contiguous message run: its staged files are claimed, some of them perhaps refused.
ClaimFiles(t) ==
    /\ Runs(t, {"drain"})
    /\ work[t].todo # <<>> /\ Head(work[t].todo) \in Messages
    /\ Goto(t, "claim")
    /\ LET run == ToSet(Leading(work[t].todo, Messages))
       IN  \E F \in SUBSET (run \cap Attached) : files' = Claimed(run, F)
    /\ UNCHANGED <<marker, nextTurn, completed, work, queue, applied, dropped, lost, owner, harvest, environment>>

\* What the run still persists: its entries that are still queued and still say something.
Batch(t) ==
    LET run == Leading(work[t].todo, Messages)
    IN  Without(Only(run, ToSet(queue)), {m \in Textless : files[m] = "refused"})

OpenTransaction(t) ==
    /\ Runs(t, {"claim"})
    /\ Goto(t, "txn")
    /\ work' = [work EXCEPT ![t].batch = Batch(t)]
    /\ UNCHANGED <<marker, nextTurn, completed, queue, effects, owner, harvest, environment>>

\* Mutant of CommitTransaction: the run stays queued.
CommitLeavesQueue(t) ==
    LET run == Leading(work[t].todo, Messages)
    IN  /\ Runs(t, {"txn"})
        /\ Goto(t, "drain")
        /\ applied' = applied \o work[t].batch
        /\ work' = [work EXCEPT ![t].todo = Beyond(work[t].todo, run), ![t].batch = <<>>]
        /\ UNCHANGED <<marker, nextTurn, completed, queue, files, dropped, lost, owner, harvest, environment>>

\* The transaction commits, and only then does the whole run leave the queue.
CommitTransaction(t) ==
    LET run == Leading(work[t].todo, Messages)
    IN  /\ Runs(t, {"txn"})
        /\ Goto(t, "drain")
        /\ applied' = applied \o work[t].batch
        /\ queue' = Without(queue, ToSet(run))
        /\ dropped' = dropped \cup ((ToSet(run) \cap ToSet(queue)) \ ToSet(work[t].batch))
        /\ work' = [work EXCEPT ![t].todo = Beyond(work[t].todo, run), ![t].batch = <<>>]
        /\ UNCHANGED <<marker, nextTurn, completed, files, lost, owner, harvest, environment>>

\* The shared exec drain: the gate is read again, then the entry is claimed off
\* the queue before it runs; a claim that removes nothing is skipped.
DrainExec(t, running, skipped) ==
    LET x == Head(work[t].todo)
        rest == [work EXCEPT ![t].todo = Tail(work[t].todo)]
    IN  /\ work[t].todo # <<>> /\ x \in Execs
        /\ work' = rest
        /\ queue' = Without(queue, {x})
        /\ \/ /\ ~gateOpen
              /\ dropped' = dropped \cup ({x} \cap ToSet(queue))
              /\ Goto(t, skipped)
              /\ UNCHANGED applied
           \/ /\ gateOpen /\ x \in ToSet(queue)
              /\ applied' = Append(applied, x)
              /\ Goto(t, running)
              /\ UNCHANGED dropped
           \/ /\ gateOpen /\ x \notin ToSet(queue)
              /\ Goto(t, skipped)
              /\ UNCHANGED <<applied, dropped>>
        /\ UNCHANGED <<marker, nextTurn, completed, files, lost, owner, harvest, environment>>

RunExec(t) == Runs(t, {"drain"}) /\ DrainExec(t, "exec", "drain")

ExecDone(t) ==
    /\ Runs(t, {"exec"})
    /\ Goto(t, "drain")
    /\ UNCHANGED <<marker, nextTurn, completed, work, queue, effects, owner, harvest, environment>>

CallModel(t) ==
    /\ Runs(t, {"drain"})
    /\ work[t].todo = <<>>
    /\ Goto(t, "model")
    /\ work' = [work EXCEPT ![t].calls = work[t].calls + 1]
    /\ UNCHANGED <<marker, nextTurn, completed, queue, effects, owner, harvest, environment>>

\* Mutant of NextIteration: one call too many.
NextIterationPastCap(t) ==
    /\ Runs(t, {"model"})
    /\ work[t].calls <= MaxIter
    /\ Goto(t, "top")
    /\ UNCHANGED <<marker, nextTurn, completed, work, queue, effects, owner, harvest, environment>>

\* Tool calls loop back to the next boundary while the iteration cap allows.
NextIteration(t) ==
    /\ Runs(t, {"model"})
    /\ work[t].calls < MaxIter
    /\ Goto(t, "top")
    /\ UNCHANGED <<marker, nextTurn, completed, work, queue, effects, owner, harvest, environment>>

\* The generator's own done: the answer, a suspension, the finalizer, a model error.
Conclude(t) ==
    /\ Runs(t, {"model"})
    /\ \E s \in {"completed", "suspended", "capped", "error"} :
           turn' = Mark(t, "done", s, turn[t].cancelling)
    /\ PutDown(t)
    /\ UNCHANGED <<marker, nextTurn, completed, queue, owner, harvest, environment>>

\* A resume that is refused (no such call, already running), or whose batch still has an
\* open confirmation, is done before it reaches the loop.
ResumeEndsEarly(t) ==
    /\ Runs(t, {"prelude"}) /\ turn[t].kind = "resume"
    /\ \E s \in {"suspended", "error"} : turn' = Mark(t, "done", s, turn[t].cancelling)
    /\ PutDown(t)
    /\ UNCHANGED <<marker, nextTurn, completed, queue, owner, harvest, environment>>

\* An exception out of the generator: a failed write, a raising command, a lost
\* database.  The prelude may fail on either side of the user row's insert.
Raise(t) ==
    /\ Runs(t, {"prelude", "claim", "txn", "exec", "model"})
    /\ Goto(t, "error_close")
    /\ applied' \in {applied, applied \o work[t].seed}
    /\ UNCHANGED <<marker, nextTurn, completed, work, queue, files, dropped, lost, owner, harvest, environment>>

\* The one cancel lands at the task's next resumption.  A task that never
\* started runs none of its code; a write in flight may have committed already.
CancelLands(t) ==
    /\ turn[t].cancelling
    /\ \/ /\ At(t, {"spawned"})
          /\ Goto(t, "done")
          /\ UNCHANGED applied
       \/ /\ At(t, {"prelude", "top", "drain", "claim", "txn", "exec", "model"})
          /\ Goto(t, "cancel_close")
          /\ applied' \in {applied, applied \o work[t].seed \o work[t].batch}
    /\ UNCHANGED <<marker, nextTurn, completed, work, queue, files, dropped, lost, owner, harvest, environment>>

\* The shielded reconcile of in-flight calls, with the marker still held, then the status.
Close(t) ==
    /\ At(t, {"cancel_close", "error_close"})
    /\ turn' = Mark(t, "done", IF At(t, {"cancel_close"}) THEN "cancelled" ELSE "error",
                     turn[t].cancelling)
    /\ PutDown(t)
    /\ UNCHANGED <<marker, nextTurn, completed, queue, owner, harvest, environment>>

\* The done-callback: backfill a status, release, decide the chain.
Settled(t) ==
    IF turn[t].terminal = "none"
    THEN IF turn[t].cancelling THEN "cancelled" ELSE "error"
    ELSE turn[t].terminal

Cleanup(t) ==
    /\ At(t, {"done"})
    /\ EndTurn(t, Settled(t))
    /\ PutDown(t)
    /\ UNCHANGED <<queue, owner, harvest, environment>>

-----------------------------------------------------------------------------
\* The drain-B body: the leading commands, then the head message as a new turn.

\* Mutant of BodyStart: every queued command runs first, not only the leading ones.
BodyStartAllExecs(t) ==
    /\ Runs(t, {"body_new"})
    /\ IF shuttingDown \/ queue = <<>>
       THEN Abandon(t, "cancelled") /\ PutDown(t)
       ELSE /\ Goto(t, "body")
            /\ work' = [work EXCEPT ![t].todo = Only(queue, Execs),
                                    ![t].batch = First(Only(queue, Messages))]
            /\ UNCHANGED <<marker, nextTurn, completed, effects>>
    /\ UNCHANGED <<queue, owner, harvest, environment>>

\* The body's first step: bail out of a shutdown or of a queue harvested meanwhile,
\* else fix the leading commands and the head message.
BodyStart(t) ==
    /\ Runs(t, {"body_new"})
    /\ IF shuttingDown \/ queue = <<>>
       THEN Abandon(t, "cancelled") /\ PutDown(t)
       ELSE LET leading == Leading(queue, Execs)
            IN  /\ Goto(t, "body")
                /\ work' = [work EXCEPT ![t].todo = leading,
                                        ![t].batch = First(Beyond(queue, leading))]
                /\ UNCHANGED <<marker, nextTurn, completed, effects>>
    /\ UNCHANGED <<queue, owner, harvest, environment>>

BodyExec(t) == Runs(t, {"body"}) /\ DrainExec(t, "body_exec", "body")

BodyExecDone(t) ==
    /\ Runs(t, {"body_exec"})
    /\ Goto(t, "body")
    /\ UNCHANGED <<marker, nextTurn, completed, work, queue, effects, owner, harvest, environment>>

\* An all-exec queue ran: completed, released, and chained to what arrived meanwhile.
BodyAllExec(t) ==
    /\ Runs(t, {"body"})
    /\ work[t].todo = <<>> /\ work[t].batch = <<>>
    /\ EndTurn(t, "completed")
    /\ PutDown(t)
    /\ UNCHANGED <<queue, owner, harvest, environment>>

\* The head commits off the queue and seeds a turn under the same handle.
BodySeed(t) ==
    /\ Runs(t, {"body"})
    /\ work[t].todo = <<>> /\ work[t].batch # <<>>
    /\ Head(work[t].batch) \in ToSet(queue)
    /\ queue' = Without(queue, ToSet(work[t].batch))
    /\ Goto(t, "spawned")
    /\ work' = [work EXCEPT ![t].seed = work[t].batch, ![t].batch = <<>>]
    /\ UNCHANGED <<marker, nextTurn, completed, effects, owner, harvest, environment>>

\* requeue_front: a head taken off the queue goes back to its front, past the cap.
Requeued(head) == head \o Without(queue, ToSet(head))

\* Building the session raises after the head was committed off the queue.
BodySeedFails(t) ==
    /\ Runs(t, {"body"})
    /\ work[t].todo = <<>> /\ work[t].batch # <<>>
    /\ Head(work[t].batch) \in ToSet(queue)
    /\ queue' = Requeued(work[t].batch)
    /\ Abandon(t, "error")
    /\ PutDown(t)
    /\ UNCHANGED <<owner, harvest, environment>>

\* The head is no longer this queue's (deleted or harvested while a command ran).
BodyStaleHead(t) ==
    /\ Runs(t, {"body"})
    /\ work[t].todo = <<>> /\ work[t].batch # <<>>
    /\ Head(work[t].batch) \notin ToSet(queue)
    /\ Abandon(t, "cancelled")
    /\ PutDown(t)
    /\ UNCHANGED <<queue, owner, harvest, environment>>

BodyRaise(t) ==
    /\ Runs(t, {"body_exec"})
    /\ Abandon(t, "error")
    /\ PutDown(t)
    /\ UNCHANGED <<queue, owner, harvest, environment>>

\* Mutant of BodyCancelled: a body cancelled before its first step keeps the marker.
BodyCancelledKeepsMarker(t) ==
    /\ turn[t].cancelling
    /\ At(t, BodyPoints)
    /\ turn' = [turn EXCEPT ![t] = Handle("chat", "over")]
    /\ completed' = FALSE
    /\ PutDown(t)
    /\ UNCHANGED <<marker, nextTurn, queue, owner, harvest, environment>>

\* A cancel inside the body, or before its first step (_never_started).
BodyCancelled(t) ==
    /\ turn[t].cancelling
    /\ At(t, BodyPoints)
    /\ Abandon(t, "cancelled")
    /\ PutDown(t)
    /\ UNCHANGED <<queue, owner, harvest, environment>>

-----------------------------------------------------------------------------
\* Stop, unsend, and what happens around the thread.

\* _record_or_replay_harvest: a harvest overwrites the receipt, a repeat replays it.
RecordOrReplay ==
    IF queue # <<>>
    THEN receipt' = [held |-> TRUE, entries |-> queue]
    ELSE UNCHANGED receipt

\* Mutant of StopHarvests: the steers are reported but stay queued.
StopOnlyReads(i, scope) ==
    LET live == marker # NoTurn /\ HasTask(marker)
    IN  /\ handed' = handed \cup ToSet(queue)
        /\ RecordOrReplay
        /\ turn' = IF live /\ scope # NoTurn THEN Latched(marker) ELSE turn
        /\ stop' = [stop EXCEPT ![i] = IF live /\ scope = NoTurn
                                       THEN [pc |-> "reading", found |-> marker]
                                       ELSE Answered(scope)]
        /\ UNCHANGED queue

\* Any Stop but a refused one pops the queue first, then cancels the live turn;
\* one without a turn id reads its JSON body in between.
StopHarvests(i, scope) ==
    LET live == marker # NoTurn /\ HasTask(marker)
    IN  /\ queue' = <<>>
        /\ handed' = handed \cup ToSet(queue)
        /\ RecordOrReplay
        /\ turn' = IF live /\ scope # NoTurn THEN Latched(marker) ELSE turn
        /\ stop' = [stop EXCEPT ![i] = IF live /\ scope = NoTurn
                                       THEN [pc |-> "reading", found |-> marker]
                                       ELSE Answered(scope)]

\* A Stop that names another turn than the live one touches nothing.
Misdirected(scope) == scope # NoTurn /\ marker # NoTurn /\ HasTask(marker) /\ scope # marker

StopRefused(i, scope) ==
    /\ stop' = [stop EXCEPT ![i] = Answered(scope)]
    /\ UNCHANGED <<turn, queue, handed, receipt>>

\* POST /agent/turns/{thread}/cancel: the scope check comes before the harvest.
Stop(scope) ==
    /\ OwnerMayAct
    /\ nextStop \in StopIds
    /\ nextStop' = nextStop + 1
    /\ IF Misdirected(scope) THEN StopRefused(nextStop, scope) ELSE StopHarvests(nextStop, scope)
    /\ UNCHANGED <<marker, nextTurn, completed, work, effects, owner, environment>>

\* The body of a Stop without a turn id is read: the handle found first is cancelled,
\* unless that body names another turn.
StopCancels(i) ==
    /\ stop[i].pc = "reading"
    /\ stop' = [stop EXCEPT ![i] = Answered(NoTurn)]
    /\ turn' \in {turn, Latched(stop[i].found)}
    /\ UNCHANGED <<marker, nextTurn, completed, work, queue, effects, owner, handed, receipt, nextStop, environment>>

\* DELETE .../steer/{entry_id}
DeleteSteer(e) ==
    /\ OwnerMayAct
    /\ e \in ToSet(queue)
    /\ queue' = Without(queue, {e})
    /\ unsent' = unsent \cup {e}
    /\ UNCHANGED <<registry, work, effects, accepted, used, harvest, environment>>

\* linger_s passes.
ReceiptExpires ==
    /\ receipt.held
    /\ ForgetReceipt
    /\ UNCHANGED <<registry, work, queue, effects, owner, environment>>

\* The owner switches shell execution off (bound: once, and not back on).
CloseGate ==
    /\ OwnerMayAct /\ gateOpen
    /\ gateOpen' = FALSE
    /\ UNCHANGED <<registry, work, queue, effects, owner, harvest, shuttingDown>>

\* The lifespan's finally: the flag first, then the one cancel of the live task.
Shutdown ==
    /\ ~shuttingDown
    /\ shuttingDown' = TRUE
    /\ turn' = IF marker = NoTurn THEN turn ELSE Latched(marker)
    /\ UNCHANGED <<marker, nextTurn, completed, work, queue, effects, owner, harvest, gateOpen>>

-----------------------------------------------------------------------------
\* Every step the program takes by itself, once started.
HandlerStep(t) == HandOff(t) \/ Refuse(t) \/ SyncExec(t) \/ SyncEnd(t)

DrainStep(t) ==
    \/ Start(t) \/ Persist(t) \/ Peek(t)
    \/ ClaimFiles(t) \/ OpenTransaction(t) \/ CommitTransaction(t)
    \/ RunExec(t) \/ ExecDone(t)
    \/ CallModel(t) \/ NextIteration(t) \/ Conclude(t) \/ ResumeEndsEarly(t)
    \/ Raise(t) \/ CancelLands(t) \/ Close(t) \/ Cleanup(t)

BodyStep(t) ==
    \/ BodyStart(t) \/ BodyExec(t) \/ BodyExecDone(t) \/ BodyAllExec(t)
    \/ BodySeed(t) \/ BodySeedFails(t) \/ BodyStaleHead(t)
    \/ BodyRaise(t) \/ BodyCancelled(t)

TurnStep(t) == Live(t) /\ (HandlerStep(t) \/ DrainStep(t) \/ BodyStep(t))

OwnerStep ==
    \/ \E m \in Messages : Chat(m)
    \/ \E x \in Execs : Exec(x)
    \/ Resume \/ Regenerate \/ Edit
    \/ \E scope \in 0 .. nextTurn - 1 : Stop(scope)
    \/ \E e \in Entries : DeleteSteer(e)
    \/ CloseGate

Next ==
    \/ OwnerStep
    \/ \E t \in TurnIds : TurnStep(t)
    \/ \E i \in StopIds : StopCancels(i)
    \/ ReceiptExpires
    \/ Shutdown

\* The event loop runs every ready handler, task and callback of the thread (one handle
\* is live at a time), and a Stop's own coroutine; nothing obliges the owner, the clock
\* or the operator.
Fairness ==
    /\ WF_vars(\E t \in TurnIds : TurnStep(t))
    /\ WF_vars(\E i \in StopIds : StopCancels(i))

Spec == Init /\ [][Next]_vars /\ Fairness

-----------------------------------------------------------------------------
\* Properties.

\* The thread's marker names a handle exactly while code stands behind it: no two
\* turns of one thread ever run, and no marker outlives its turn and answers busy forever
\* (turns.py reserve/release, the done-callbacks, the drain-B body's finally).
MarkerExact == \A t \in TurnIds : Live(t) <=> marker = t

\* A Stop sent without a turn id overlapped the run.
LegacyStop == \E i \in StopIds : stop[i].pc \in {"reading", "unscoped"}

\* Nothing the owner sent takes effect twice: no command runs twice, and no message is
\* persisted twice unless a Stop without a turn id interfered (the harvest of such a Stop
\* and its cancel are separate steps, so a committing transaction can lose its clear).
AppliedOnce ==
    \A i, j \in DOMAIN applied :
        i < j /\ applied[i] = applied[j] => applied[i] \in Messages /\ LegacyStop

\* A command the owner took back, by unsend or by Stop, never runs (claim-before-run).
UnsentNeverRuns == ToSet(applied) \cap Execs \cap (unsent \cup handed) = {}

\* Steers take effect in the order they were accepted, across messages and commands,
\* mid-turn drains, turn-end spawns and a requeued head; what comes late is a steer that
\* a Stop without a turn id left queued after its run had been persisted.
FirstInFirstOut ==
    LET order(e) == CHOOSE i \in DOMAIN accepted : accepted[i] = e
        steers == Only(applied, ToSet(accepted))
    IN  \A i, j \in DOMAIN steers : i < j =>
            \/ order(steers[i]) <= order(steers[j])
            \/ LegacyStop /\ steers[j] \in Textless \cup {steers[k] : k \in 1 .. i - 1}

\* A turn that completed never leaves steers queued on an idle thread: it chains,
\* or the shutdown that stopped the chain is under way.
CompletedLeavesNone ==
    marker = NoTurn /\ queue # <<>> /\ completed => shuttingDown

\* Where an accepted steer may still be found: queued, applied, consumed with a notice,
\* given back to the owner, or in the hand of a live turn.
InHand(e) == \E t \in TurnIds : Live(t) /\ e \in ToSet(work[t].seed)
Traced(e) ==
    \/ e \in ToSet(queue) \cup ToSet(applied) \cup dropped \cup unsent \cup handed
    \/ InHand(e)

\* The only steers that vanish without a trace are heads taken off the queue to
\* seed a turn that then ended before it wrote them.
LostOnlyAsSeed ==
    \A e \in ToSet(accepted) :
        ~Traced(e) => e \in lost

\* A drain transaction never opens over a message already unsent or harvested.
OpensOverQueuedOnly ==
    [][\A t \in TurnIds :
           At(t, {"claim"}) /\ turn'[t].pc = "txn"
               => ToSet(work'[t].batch) \cap (unsent \cup handed) = {}]_vars

\* What a Stop handed back takes effect only if its write was already in flight.
StopNeverAutoRuns ==
    [][\A e \in handed : e \in ToSet(applied') \ ToSet(applied)
           => \E t \in TurnIds : At(t, {"txn"}) /\ e \in ToSet(work[t].batch)]_vars

\* What the owner sent is done once or, taken back, not at all.
TakenOnce == AppliedOnce /\ UnsentNeverRuns

\* No steer is left behind: not on an idle thread after a turn that completed, and
\* nowhere at all but as a seed.
NoneLeftBehind == CompletedLeavesNone /\ LostOnlyAsSeed

\* A steer is done once, or taken back and not done, or still where it will be done.
EachSteerOnce == TakenOnce /\ NoneLeftBehind

\* What was taken back stays back: no transaction opens over it, and only a write
\* already in flight still brings it in.
StaysTakenBack == OpensOverQueuedOnly /\ StopNeverAutoRuns

\* Every turn ends and frees the thread, whatever it is doing when Stop, an
\* error or a shutdown meets it.
TurnEnds == \A t \in TurnIds : Live(t) ~> ~Live(t)

\* A queued steer is eventually taken or given back, unless the thread sits idle
\* behind a turn that did not complete.
SteersMove ==
    \A e \in Entries :
        e \in ToSet(queue) ~>
            \/ e \notin ToSet(queue)
            \/ marker = NoTurn /\ (~completed \/ shuttingDown)

\* The thread moves: its turns end, and its queue is taken.
ThreadMoves == TurnEnds /\ SteersMove

\* What the decision record says of Stop ("Stop can neither auto-run nor lose a
\* steer"): every accepted steer stays accounted for.
StopLosesNothing == \A e \in ToSet(accepted) : Traced(e)

\* What SteerEntry says of its attachments (dropping them "would silently lose the
\* owner's photo"): a steer that took effect has its files, or was refused them in a claim.
\* The code does not keep this: README, section 4.
FilesFollowSteer ==
    \A e \in ToSet(accepted) \cap Attached :
        e \in ToSet(applied) => files[e] # "staged"

=============================================================================
