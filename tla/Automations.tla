----------------------------- MODULE Automations -----------------------------
(***************************************************************************)
(* Scheduled automations (A3, D49): the poll loop and run-now share one    *)
(* arbiter; each claims a durable run row in a transaction, drives one     *)
(* agent turn through the thread's marker and closes the row.  Around      *)
(* them: the owner's edits and deletes, retention, a chat in the thread of *)
(* an old run, shutdown, crashes and the boot sweep.                       *)
(*                                                                         *)
(* A step is what runs between two awaits.  A transaction that takes       *)
(* thread markers has three: its body, its COMMIT and the release of the   *)
(* markers.  A thread has the number of the run it was created for.        *)
(***************************************************************************)
EXTENDS Integers, Sequences, FiniteSets

CONSTANTS
    Autos,      \* the automations there can be
    None,       \* no automation
    Period,     \* a schedule fires at the multiples of Period
    Grace,      \* automations.misfire_grace_s
    Keep,       \* automations.keep_runs
    Drafts,     \* what the owner may save: mode, enabled, a new schedule or not
    MaxTime,    \* bound: the last instant of the clock
    MaxEvents   \* bound: run-nows, edits, requests, shutdowns and crashes

\* A definition, as it is stored: what the owner saved, and where it has come to.
Definition == [life : {"unborn", "stored", "deleted"}, enabled : BOOLEAN,
               mode : {"fresh", "rolling"}, rev : Nat, next : Nat, thread : Nat,
               usable : BOOLEAN]

ASSUME AutomationsAssumption ==
    /\ None \notin Autos \cup Definition
    /\ Period \in Nat \ {0} /\ Grace \in Nat /\ Keep \in Nat
    /\ Drafts \subseteq [mode : {"fresh", "rolling"}, enabled : BOOLEAN,
                         reschedule : BOOLEAN]
    /\ MaxTime \in Nat /\ MaxEvents \in Nat

VARIABLES
    now,        \* the wall clock
    autos,      \* the definitions: life, enabled, mode, rev, next slot, thread, usable
    runs,       \* the run rows, oldest first; a deleted row is "gone"
    threads,    \* the threads that exist
    markers,    \* TurnRegistry: the marker held on a thread
    arbiter,    \* who holds AutomationRunner._arbiter
    task,       \* the poll loop and the run-now: request, then detached task
    op,         \* the owner's update or delete in progress
    chat,       \* one interactive request on a thread, then its turn
    phase,      \* up, or how far the process is in going down or coming up
    todo,       \* the rows a sweep_orphans has still to look at
    events      \* how many of MaxEvents have happened

vars == <<now, autos, runs, threads, markers, arbiter, task, op, chat, phase,
          todo, events>>

world == <<now, events>>
store == <<autos, runs, threads>>      \* the database
process == <<phase, todo>>
requests == <<op, chat>>

Tasks == {"loop", "manual"}
Live == {"live", "stopping"}
\* Where a task can be: between its runs, in a tick, a claim, a run, retention.
Points == {"off", "sleep", "scan", "next", "claiming",
           "claimed", "created", "resolve", "adopt", "record", "drive", "wait", "overdue",
           "grace", "finish", "audit", "closed", "prune", "commit", "committed"}
Terminal == {"ok", "error", "timed_out", "interrupted", "missed"}

\* No row is claimed, no turn runs: what a task is before and after its runs.
Blank == [pc |-> "off", due |-> {}, auto |-> None, rev |-> 0, moment |-> 0,
          run |-> 0, rolling |-> FALSE, thread |-> 0, turn |-> "none", status |-> "error",
          drop |-> {}, marks |-> {}, cancelled |-> FALSE]
NoOp == [stage |-> "idle", auto |-> None, row |-> None, marks |-> {}]
NoChat == [pc |-> "idle", thread |-> 0]

NextFire(after) == Period * (after \div Period + 1)

Init ==
    /\ now = 0
    /\ \E foreign \in SUBSET Autos :
         autos = [a \in Autos |->
           IF a \in foreign
           THEN [life |-> "stored", enabled |-> TRUE, mode |-> "fresh",
                 rev |-> 1, next |-> 1, thread |-> 0, usable |-> FALSE]
           ELSE [life |-> "unborn", enabled |-> FALSE, mode |-> "fresh",
                 rev |-> 1, next |-> 0, thread |-> 0, usable |-> TRUE]]
    /\ runs = <<>> /\ threads = {} /\ markers = {}
    /\ arbiter = "free"
    /\ task = [loop |-> [Blank EXCEPT !.pc = "sleep"], manual |-> Blank]
    /\ op = NoOp /\ chat = NoChat
    /\ phase = "up" /\ todo = {}
    /\ events = 0

\* Stored by another build with a schedule this one cannot use.
Unusable == {a \in Autos : ~autos[a].usable}

-----------------------------------------------------------------------------
Happens == events < MaxEvents /\ events' = events + 1

Held(t) == \E m \in markers : m.thread = t
Marks(ts, kind) == {[thread |-> t, kind |-> kind] : t \in ts}

\* Database._write_lock: no transaction body is open.
Unlocked == op.stage # "body" /\ \A p \in Tasks : task[p].pc # "commit"

RollingOwned(t) == \E a \in Autos :
    autos[a].life = "stored" /\ autos[a].thread = t /\ autos[a].mode = "rolling"

Open == {r \in DOMAIN runs : runs[r].status = "running"}
RunsOf(a) == {r \in DOMAIN runs : runs[r].auto = a /\ runs[r].status # "gone"}
DueAt(a, moment) == /\ autos[a].life = "stored" /\ autos[a].enabled
                    /\ autos[a].next # 0 /\ autos[a].next <= moment
Due(a) == DueAt(a, now)

Row(a, trigger, slot, status) ==
    [auto |-> a, trigger |-> trigger, slot |-> slot, status |-> status,
     thread |-> 0, events |-> 0]

Go(p, pc) == task' = [task EXCEPT ![p].pc = pc]
Conclude(p, status) ==
    task' = [task EXCEPT ![p].pc = "finish", ![p].status = status]
\* The task ends; what it leaves behind is the turn it did not wait for.
End(p) == task' = [task EXCEPT ![p] =
    IF @.turn \in Live
    THEN [Blank EXCEPT !.turn = task[p].turn, !.thread = task[p].thread]
    ELSE Blank]
Free(p) == arbiter' = IF arbiter = p THEN "free" ELSE arbiter

\* A tick goes on to its next due row; a run-now is over.
MoveOn(p) ==
    IF p = "loop" /\ ~task[p].cancelled
    THEN /\ task' = [task EXCEPT ![p] = [Blank EXCEPT !.pc = "next",
                                                      !.due = task[p].due]]
         /\ UNCHANGED arbiter
    ELSE End(p) /\ Free(p)

-----------------------------------------------------------------------------
(* The two entry points *)

TickStarts ==
    /\ task["loop"].pc = "sleep" /\ ~task["loop"].cancelled
    /\ phase = "up" /\ arbiter = "free"
    /\ arbiter' = "loop"
    /\ Go("loop", "scan")
    /\ UNCHANGED <<markers, world, store, process, requests>>

TickScans ==
    /\ task["loop"].pc = "scan" /\ ~task["loop"].cancelled
    /\ task' = [task EXCEPT !["loop"].pc = "next", !["loop"].due =
           {[auto |-> a, rev |-> autos[a].rev, slot |-> autos[a].next] :
               a \in {b \in Autos : Due(b)}}]
    /\ UNCHANGED <<markers, arbiter, world, store, process, requests>>

\* The next row of the scan, oldest slot first, or the end of the tick.
TickNext ==
    LET due == task["loop"].due IN
    /\ task["loop"].pc = "next" /\ ~task["loop"].cancelled
    /\ IF due = {} \/ phase # "up"
       THEN /\ task' = [task EXCEPT !["loop"] = [Blank EXCEPT !.pc = "sleep"]]
            /\ Free("loop")
       ELSE \E d \in due :
            /\ \A e \in due : d.slot <= e.slot
            /\ task' = [task EXCEPT !["loop"] =
                   [Blank EXCEPT !.pc = "claiming", !.due = due \ {d},
                                 !.auto = d.auto, !.rev = d.rev, !.moment = now]]
            /\ UNCHANGED arbiter
    /\ UNCHANGED <<markers, world, store, process, requests>>

StartNow(a) ==
    /\ phase = "up" /\ arbiter = "free" /\ task["manual"].pc = "off"
    /\ Happens
    /\ arbiter' = "manual"
    /\ task' = [task EXCEPT !["manual"] =
           [Blank EXCEPT !.pc = "claiming", !.auto = a, !.moment = now]]
    /\ UNCHANGED <<now, markers, store, process, requests>>

\* The handler of a run-now is cancelled while its claim is in flight.
RequestCancelled ==
    /\ task["manual"].pc = "claiming" /\ ~task["manual"].cancelled
    /\ task' = [task EXCEPT !["manual"].cancelled = TRUE]
    /\ UNCHANGED <<markers, arbiter, world, store, process, requests>>

-----------------------------------------------------------------------------
(* The claim: one transaction, on a task no cancel reaches. Its moment was  *)
(* read before the write lock, and may be past when it has it.               *)

Declined(p) ==
    LET a == task[p].auto IN
    \/ autos[a].life # "stored"
    \/ p = "loop" /\ (~DueAt(a, task[p].moment) \/ autos[a].rev # task[p].rev)

\* _advance: the next slot after now, or disarmed with an error row.
Advanced(a, moment) ==
    autos' = [autos EXCEPT ![a].next =
                  IF a \in Unusable THEN 0 ELSE NextFire(moment)]
Refusal(a, trigger) ==
    IF a \in Unusable THEN <<Row(a, trigger, autos[a].next, "error")>> ELSE <<>>

ClaimDeclines(p) ==
    /\ task[p].pc = "claiming" /\ Unlocked
    /\ Declined(p)
    /\ MoveOn(p)
    /\ UNCHANGED <<markers, world, store, process, requests>>

\* A scheduled slot that cannot run: an unusable schedule, or one too late.
ClaimSkips(p) ==
    LET a == task[p].auto
        late == task[p].moment - autos[a].next > Grace IN
    /\ task[p].pc = "claiming" /\ Unlocked /\ ~Declined(p)
    /\ p = "loop" /\ (a \in Unusable \/ late)
    /\ Advanced(a, task[p].moment)
    /\ runs' = runs \o (IF a \in Unusable
                        THEN Refusal(a, "scheduled")
                        ELSE <<Row(a, "scheduled", autos[a].next, "missed")>>)
    /\ MoveOn(p)
    /\ UNCHANGED <<threads, markers, world, process, requests>>

ClaimTakes(p) ==
    LET a == task[p].auto
        trigger == IF p = "loop" THEN "scheduled" ELSE "manual"
        due == DueAt(a, task[p].moment)
        slot == IF due THEN autos[a].next ELSE 0 IN
    /\ task[p].pc = "claiming" /\ Unlocked /\ ~Declined(p)
    /\ p = "loop" => a \notin Unusable /\ task[p].moment - autos[a].next <= Grace
    /\ IF due THEN Advanced(a, task[p].moment) ELSE UNCHANGED autos
    /\ LET before == IF due THEN Refusal(a, trigger) ELSE <<>> IN
       /\ runs' = runs \o before \o <<Row(a, trigger, slot, "running")>>
       /\ task' = [task EXCEPT ![p].pc = "claimed", ![p].run = Len(runs'),
                               ![p].rolling = autos[a].mode = "rolling",
                               ![p].thread = autos[a].thread]
    /\ UNCHANGED <<threads, markers, arbiter, world, process, requests>>

\* Mutant of HandOff: start_now gives the arbiter back when it returns.
HandOffAndRelease ==
    /\ task["manual"].pc = "claimed" /\ ~task["manual"].cancelled
    /\ Go("manual", "created")
    /\ arbiter' = "free"
    /\ UNCHANGED <<markers, world, store, process, requests>>

\* start_now reads the row back and hands it, with the arbiter, to a task.
HandOff ==
    /\ task["manual"].pc = "claimed" /\ ~task["manual"].cancelled
    /\ Go("manual", "created")
    /\ UNCHANGED <<markers, arbiter, world, store, process, requests>>

-----------------------------------------------------------------------------
(* One run *)

\* The agent is gone, or (at the reserve) the server's turns are all taken.
Refused(p) ==
    /\ Conclude(p, "error")
    /\ UNCHANGED <<threads, markers>>

Begins(p) ==
    /\ task[p].pc = (IF p = "loop" THEN "claimed" ELSE "created")
    /\ ~task[p].cancelled
    /\ Refused(p) \/ (Go(p, "resolve") /\ UNCHANGED <<threads, markers>>)
    /\ UNCHANGED <<autos, runs, arbiter, world, process, requests>>

\* Mutant of ResolveThread: a rolling run goes on in the thread it was told of.
ResolveThreadTrusting(p) ==
    LET continues == task[p].rolling IN
    /\ task[p].pc = "resolve" /\ ~task[p].cancelled
    /\ continues \/ Unlocked
    /\ IF continues
       THEN Go(p, "record") /\ UNCHANGED threads
       ELSE /\ threads' = threads \cup {task[p].run}
            /\ task' = [task EXCEPT
                   ![p].thread = task[p].run,
                   ![p].pc = IF task[p].rolling THEN "adopt" ELSE "record"]
    /\ UNCHANGED <<autos, runs, markers, arbiter, world, process, requests>>

\* A rolling run goes on in the automation's thread, if it is still there.
ResolveThread(p) ==
    LET continues == task[p].rolling /\ task[p].thread \in threads IN
    /\ task[p].pc = "resolve" /\ ~task[p].cancelled
    /\ continues \/ Unlocked
    /\ IF continues
       THEN Go(p, "record") /\ UNCHANGED threads
       ELSE /\ threads' = threads \cup {task[p].run}
            /\ task' = [task EXCEPT
                   ![p].thread = task[p].run,
                   ![p].pc = IF task[p].rolling THEN "adopt" ELSE "record"]
    /\ UNCHANGED <<autos, runs, markers, arbiter, world, process, requests>>

\* The definition takes the new thread (an UPDATE: of nothing, once deleted).
AdoptThread(p) ==
    /\ task[p].pc = "adopt" /\ ~task[p].cancelled /\ Unlocked
    /\ autos' = [autos EXCEPT ![task[p].auto].thread = task[p].thread]
    /\ Go(p, "record")
    /\ UNCHANGED <<runs, threads, markers, arbiter, world, process, requests>>

RecordThread(p) ==
    /\ task[p].pc = "record" /\ ~task[p].cancelled /\ Unlocked
    /\ runs' = [runs EXCEPT ![task[p].run].thread = task[p].thread]
    /\ Go(p, "drive")
    /\ UNCHANGED <<autos, threads, markers, arbiter, world, process, requests>>

Drive(p) ==
    /\ task[p].pc = "drive" /\ ~task[p].cancelled
    /\ \/ Refused(p)
       \/ /\ ~Held(task[p].thread)
          /\ markers' = markers \cup Marks({task[p].thread}, "automation")
          /\ task' = [task EXCEPT ![p].pc = "wait", ![p].turn = "live"]
          /\ UNCHANGED threads
    /\ UNCHANGED <<autos, runs, arbiter, world, process, requests>>

\* The drain task ends: on its own, or some time after it was cancelled.
TurnEnds(p) ==
    /\ task[p].turn \in Live
    /\ \E how \in {"completed", "failed"} \cup
                  (IF task[p].turn = "stopping" THEN {"cancelled"} ELSE {}) :
           task' = [task EXCEPT ![p].turn = how]
    /\ markers' = markers \ Marks({task[p].thread}, "automation")
    /\ UNCHANGED <<arbiter, world, store, process, requests>>

OwnerStops(p) ==
    /\ task[p].turn = "live" /\ phase = "up"
    /\ task' = [task EXCEPT ![p].turn = "stopping"]
    /\ UNCHANGED <<markers, arbiter, world, store, process, requests>>

Deadline(p) ==
    /\ task[p].pc = "wait" /\ task[p].turn \in Live /\ ~task[p].cancelled
    /\ task' = [task EXCEPT ![p].turn = "stopping", ![p].pc = "overdue"]
    /\ UNCHANGED <<markers, arbiter, world, store, process, requests>>

Collects(p) ==
    /\ task[p].pc \in {"wait", "overdue"} /\ task[p].turn \notin Live
    /\ ~task[p].cancelled
    /\ Conclude(p, CASE task[p].pc = "overdue" -> "timed_out"
                     [] task[p].turn = "completed" -> "ok"
                     [] task[p].turn = "cancelled" -> "interrupted"
                     [] task[p].turn = "failed" -> "error")
    /\ UNCHANGED <<markers, arbiter, world, store, process, requests>>

\* shutdown_grace_s is over, or the turn is: the cancelled wait stops there.
GraceEnds(p) ==
    /\ task[p].pc = "grace"
    /\ Conclude(p, "interrupted")
    /\ UNCHANGED <<markers, arbiter, world, store, process, requests>>

\* finish_run: whoever finds the row running closes it.
Closed(r, status) == runs' = [runs EXCEPT ![r].status = status]

\* Mutant of Finalize: the row is closed whoever closed it before.
FinalizeAnyway(p) ==
    /\ task[p].pc = "finish" /\ Unlocked
    /\ IF runs[task[p].run].status # "gone"
       THEN Closed(task[p].run, task[p].status) /\ Go(p, "audit")
       ELSE UNCHANGED runs /\ Go(p, "closed")
    /\ UNCHANGED <<autos, threads, markers, arbiter, world, process, requests>>

Finalize(p) ==
    /\ task[p].pc = "finish" /\ Unlocked
    /\ IF runs[task[p].run].status = "running"
       THEN Closed(task[p].run, task[p].status) /\ Go(p, "audit")
       ELSE UNCHANGED runs /\ Go(p, "closed")
    /\ UNCHANGED <<autos, threads, markers, arbiter, world, process, requests>>

RecordEvent(p) ==
    /\ task[p].pc = "audit" /\ Unlocked
    /\ runs' = [runs EXCEPT ![task[p].run].events = @ + 1]
    /\ Go(p, "closed")
    /\ UNCHANGED <<autos, threads, markers, arbiter, world, process, requests>>

-----------------------------------------------------------------------------
(* Retention, after each run *)

\* The terminal rows of the automation beyond the newest Keep.
Excess(a) == {r \in RunsOf(a) : /\ runs[r].status # "running"
                                /\ Cardinality({s \in RunsOf(a) : s > r}) >= Keep}
OwnThread(a, r) == IF runs[r].thread = autos[a].thread THEN 0 ELSE runs[r].thread

PruneReads(p) ==
    LET a == task[p].auto IN
    /\ task[p].pc = "closed" /\ ~task[p].cancelled
    /\ IF autos[a].life # "stored" \/ Excess(a) = {}
       THEN MoveOn(p)
       ELSE /\ task' = [task EXCEPT ![p].pc = "prune", ![p].drop = Excess(a)]
            /\ UNCHANGED arbiter
    /\ UNCHANGED <<markers, world, store, process, requests>>

\* A run whose own thread has a turn is left for a later cycle.
PruneTakesMarkers(p) ==
    LET own(r) == OwnThread(task[p].auto, r)
        drop == {r \in task[p].drop : own(r) = 0 \/ ~Held(own(r))}
        marks == {own(r) : r \in drop} \ {0} IN
    /\ task[p].pc = "prune" /\ ~task[p].cancelled /\ Unlocked
    /\ markers' = markers \cup Marks(marks, "prune")
    /\ task' = [task EXCEPT ![p].pc = "commit", ![p].drop = drop, ![p].marks = marks]
    /\ UNCHANGED <<arbiter, world, store, process, requests>>

Gone(rs) == runs' = [r \in DOMAIN runs |->
    IF r \in rs THEN [runs[r] EXCEPT !.status = "gone"] ELSE runs[r]]

PruneCommits(p) ==
    /\ task[p].pc = "commit" /\ ~task[p].cancelled
    /\ Gone(task[p].drop)
    /\ threads' = threads \ task[p].marks
    /\ Go(p, "committed")
    /\ UNCHANGED <<autos, markers, arbiter, world, process, requests>>

PruneReleases(p) ==
    /\ task[p].pc = "committed"
    /\ markers' = markers \ Marks(task[p].marks, "prune")
    /\ MoveOn(p)
    /\ UNCHANGED <<world, store, process, requests>>

-----------------------------------------------------------------------------
(* A cancel of the task lands at the await it is suspended in *)

\* Mutant of CancelLands: a cancel abandons what the claim committed.
CancelLandsUnshielded(p) ==
    /\ task[p].cancelled
    /\ \/ \* Nothing claimed, or a prune rolled back: the task unwinds.
          /\ task[p].pc \in {"sleep", "scan", "next", "claimed", "closed", "prune", "commit"}
          /\ End(p) /\ Free(p)
          /\ markers' = markers \ Marks(task[p].marks, "prune")
       \/ \* Before its first step a task runs no finally: the row stays open.
          /\ task[p].pc = "created"
          /\ End(p)
          /\ UNCHANGED <<arbiter, markers>>
       \/ /\ task[p].pc \in {"resolve", "adopt", "record", "drive"}
          /\ Conclude(p, "interrupted")
          /\ UNCHANGED <<arbiter, markers>>
       \/ /\ task[p].pc \in {"wait", "overdue"}
          /\ task' = [task EXCEPT ![p].pc = "grace", ![p].turn =
                 IF task[p].turn = "live" THEN "stopping" ELSE task[p].turn]
          /\ UNCHANGED <<arbiter, markers>>
    /\ UNCHANGED <<world, store, process, requests>>

CancelLands(p) ==
    /\ task[p].cancelled
    /\ \/ \* Nothing claimed, or a prune rolled back: the task unwinds.
          /\ task[p].pc \in {"sleep", "scan", "next", "closed", "prune", "commit"}
          /\ End(p) /\ Free(p)
          /\ markers' = markers \ Marks(task[p].marks, "prune")
       \/ \* Before its first step a task runs no finally: the row stays open.
          /\ task[p].pc = "created"
          /\ End(p)
          /\ UNCHANGED <<arbiter, markers>>
       \/ /\ task[p].pc \in {"claimed", "resolve", "adopt", "record", "drive"}
          /\ Conclude(p, "interrupted")
          /\ UNCHANGED <<arbiter, markers>>
       \/ /\ task[p].pc \in {"wait", "overdue"}
          /\ task' = [task EXCEPT ![p].pc = "grace", ![p].turn =
                 IF task[p].turn = "live" THEN "stopping" ELSE task[p].turn]
          /\ UNCHANGED <<arbiter, markers>>
    /\ UNCHANGED <<world, store, process, requests>>

-----------------------------------------------------------------------------
(* The owner's definitions *)

MayEdit == phase = "up" /\ op.stage = "idle" /\ Unlocked

\* create(): a strictly future first slot, and only when it is enabled.
Create(a, draft) ==
    /\ phase = "up" /\ Unlocked /\ autos[a].life = "unborn"
    /\ autos' = [autos EXCEPT ![a] =
           [life |-> "stored", enabled |-> draft.enabled, mode |-> draft.mode, rev |-> 1,
            next |-> IF draft.enabled THEN NextFire(now) ELSE 0, thread |-> 0,
            usable |-> TRUE]]
    /\ UNCHANGED <<runs, threads, markers, arbiter, task, world, process, requests>>

\* set_enabled(): arming a schedule this build cannot use is refused.
SetEnabled(a, enabled) ==
    /\ MayEdit /\ autos[a].life = "stored"
    /\ enabled => a \notin Unusable
    /\ autos' = [autos EXCEPT ![a].enabled = enabled, ![a].rev = @ + 1,
                              ![a].next = IF enabled THEN NextFire(now) ELSE 0]
    /\ Happens
    /\ UNCHANGED <<now, runs, threads, markers, arbiter, task, process, requests>>

\* update(): a pending slot survives unless the schedule changed; a change of
\* mode takes the thread's marker, and is refused while a turn has it.
UpdateStarts(a, draft) ==
    LET row == autos[a]
        marks == IF draft.mode # row.mode /\ row.thread # 0 THEN {row.thread} ELSE {}
        next == IF ~draft.enabled THEN 0
                ELSE IF draft.reschedule \/ ~row.enabled \/ row.next = 0
                THEN NextFire(now) ELSE row.next IN
    /\ MayEdit /\ row.life = "stored" /\ a \notin Unusable
    /\ \A t \in marks : ~Held(t)
    /\ markers' = markers \cup Marks(marks, "prune")
    /\ op' = [stage |-> "body", auto |-> a, marks |-> marks,
              row |-> [row EXCEPT !.enabled = draft.enabled, !.mode = draft.mode,
                                  !.rev = @ + 1, !.next = next]]
    /\ Happens
    /\ UNCHANGED <<now, arbiter, task, chat, store, process>>

\* delete(): refused while a run of it is open or a turn has a thread of it.
DeleteStarts(a) ==
    LET marks == ({autos[a].thread} \cup {runs[r].thread : r \in RunsOf(a)}) \ {0} IN
    /\ MayEdit /\ autos[a].life = "stored"
    /\ Open \cap RunsOf(a) = {}
    /\ \A t \in marks : ~Held(t)
    /\ markers' = markers \cup Marks(marks, "prune")
    /\ op' = [stage |-> "body", auto |-> a, marks |-> marks, row |-> None]
    /\ Happens
    /\ UNCHANGED <<now, arbiter, task, chat, store, process>>

OpCommits ==
    /\ op.stage = "body"
    /\ IF op.row = None
       THEN /\ autos' = [autos EXCEPT ![op.auto].life = "deleted"]
            /\ Gone(RunsOf(op.auto))
            /\ threads' = threads \ op.marks
       ELSE /\ autos' = [autos EXCEPT ![op.auto] = op.row]
            /\ UNCHANGED <<runs, threads>>
    /\ op' = [op EXCEPT !.stage = "committed"]
    /\ UNCHANGED <<markers, arbiter, task, chat, world, process>>

OpReleases ==
    /\ op.stage = "committed"
    /\ markers' = markers \ Marks(op.marks, "prune")
    /\ op' = NoOp
    /\ UNCHANGED <<arbiter, task, chat, world, store, process>>

-----------------------------------------------------------------------------
(* An interactive request on the thread of a run: its marker first. (Chat,   *)
(* exec and resume look at the thread before as well; that look can be as    *)
(* old as it likes by the time they reserve, and decides nothing.)           *)

ChatReserves(t) ==
    /\ phase = "up" /\ chat.pc = "idle" /\ Happens
    /\ \E r \in DOMAIN runs : runs[r].thread = t
    /\ ~Held(t)
    /\ chat' = [pc |-> "reserved", thread |-> t]
    /\ markers' = markers \cup Marks({t}, "chat")
    /\ UNCHANGED <<now, arbiter, task, op, store, process>>

\* _revalidate_thread, the marker held.
Stale(t) == t \notin threads \/ RollingOwned(t)

ChatRevalidates ==
    /\ chat.pc = "reserved"
    /\ IF Stale(chat.thread)
       THEN /\ chat' = NoChat
            /\ markers' = markers \ Marks({chat.thread}, "chat")
       ELSE chat' = [chat EXCEPT !.pc = "turn"] /\ UNCHANGED markers
    /\ UNCHANGED <<arbiter, task, op, world, store, process>>

ChatEnds ==
    /\ chat.pc \in {"turn", "stopping"}
    /\ chat' = NoChat
    /\ markers' = markers \ Marks({chat.thread}, "chat")
    /\ UNCHANGED <<arbiter, task, op, world, store, process>>

-----------------------------------------------------------------------------
(* The process: shutdown, crash and boot *)

Cancelled(p, ts) == [ts EXCEPT ![p].cancelled = ts[p].pc # "off"]

\* uvicorn has stopped serving: no request is in flight. Every turn is cancelled.
ShutdownStarts ==
    /\ phase = "up"
    /\ op.stage = "idle" /\ task["manual"].pc \notin {"claiming", "claimed"}
    /\ task["manual"].cancelled = FALSE
    /\ chat.pc \in {"idle", "turn"}
    /\ Happens
    /\ phase' = "drain"
    /\ task' = [p \in Tasks |-> [task[p] EXCEPT !.turn =
                                     IF @ = "live" THEN "stopping" ELSE @]]
    /\ chat' = [chat EXCEPT !.pc = IF @ = "turn" THEN "stopping" ELSE @]
    /\ UNCHANGED <<now, markers, arbiter, op, todo, store>>

\* The drain is over, or its grace is: the poll loop is cancelled and awaited.
LoopCancelled ==
    /\ phase = "drain"
    /\ phase' = "joining"
    /\ task' = Cancelled("loop", task)
    /\ UNCHANGED <<markers, arbiter, todo, world, store, requests>>

\* runner.shutdown(): a run-now still there is cancelled and waited for.
ManualCancelled ==
    /\ phase = "joining" /\ task["loop"].pc = "off"
    /\ phase' = IF task["manual"].pc = "off" THEN "closing" ELSE "manual"
    /\ task' = Cancelled("manual", task)
    /\ UNCHANGED <<markers, arbiter, todo, world, store, requests>>

\* It unwound, or its grace is over: the backstop sweep reads the open rows.
BackstopSweep ==
    /\ phase = "manual"
    /\ phase' = "closing" /\ todo' = Open
    /\ UNCHANGED <<markers, arbiter, task, world, store, requests>>

\* sweep_orphans, one row: at boot and as the backstop of a shutdown.
SweepRow(r) ==
    /\ phase \in {"closing", "boot"} /\ r \in todo /\ Unlocked
    /\ todo' = todo \ {r}
    /\ LET row == runs[r]
       IN runs' = [runs EXCEPT ![r] = IF row.status = "running"
              THEN [row EXCEPT !.status = "interrupted", !.events = row.events + 1]
              ELSE row]
    /\ UNCHANGED <<autos, threads, markers, arbiter, task, phase, world, requests>>

ProcessEnds(how) ==
    /\ phase' = how
    /\ markers' = {} /\ arbiter' = "free" /\ todo' = {}
    /\ task' = [p \in Tasks |-> Blank] /\ op' = NoOp /\ chat' = NoChat

DatabaseCloses ==
    /\ phase = "closing" /\ todo = {}
    /\ ProcessEnds("down")
    /\ UNCHANGED <<world, store>>

Crash ==
    /\ phase # "down" /\ phase # "crashed"
    /\ Happens
    /\ ProcessEnds("crashed")
    /\ UNCHANGED <<now, store>>

\* Mutant of Boot: the open rows of the dead process are left alone.
BootUnswept ==
    /\ phase \in {"down", "crashed"}
    /\ phase' = "boot" /\ todo' = {}
    /\ UNCHANGED <<markers, arbiter, task, world, store, requests>>

Boot ==
    /\ phase \in {"down", "crashed"}
    /\ phase' = "boot" /\ todo' = Open
    /\ UNCHANGED <<markers, arbiter, task, world, store, requests>>

\* The orphan sweep is over: the poll loop starts.
LoopStarts ==
    /\ phase = "boot" /\ todo = {}
    /\ phase' = "up"
    /\ Go("loop", "sleep")
    /\ UNCHANGED <<markers, arbiter, todo, world, store, requests>>

ClockTicks ==
    /\ now < MaxTime
    /\ now' = now + 1
    /\ UNCHANGED <<markers, arbiter, task, events, store, process, requests>>

-----------------------------------------------------------------------------
TaskSteps(p) ==
    \/ ClaimDeclines(p) \/ ClaimSkips(p) \/ ClaimTakes(p)
    \/ Begins(p) \/ ResolveThread(p) \/ AdoptThread(p) \/ RecordThread(p)
    \/ Drive(p) \/ Collects(p) \/ GraceEnds(p) \/ Finalize(p) \/ RecordEvent(p)
    \/ PruneReads(p) \/ PruneTakesMarkers(p) \/ PruneCommits(p) \/ PruneReleases(p)
    \/ CancelLands(p)

OwnerSteps(a) ==
    \/ StartNow(a) \/ DeleteStarts(a)
    \/ \E enabled \in BOOLEAN : SetEnabled(a, enabled)
    \/ \E draft \in Drafts : Create(a, draft) \/ UpdateStarts(a, draft)

Next ==
    \/ TickStarts \/ TickScans \/ TickNext \/ HandOff \/ RequestCancelled
    \/ \E p \in Tasks : TaskSteps(p) \/ TurnEnds(p) \/ OwnerStops(p) \/ Deadline(p)
    \/ \E a \in Autos : OwnerSteps(a)
    \/ OpCommits \/ OpReleases
    \/ \E t \in DOMAIN runs : ChatReserves(t)
    \/ ChatRevalidates \/ ChatEnds
    \/ ShutdownStarts \/ LoopCancelled \/ ManualCancelled \/ BackstopSweep
    \/ \E r \in todo : SweepRow(r)
    \/ DatabaseCloses \/ Crash \/ Boot \/ LoopStarts \/ ClockTicks

Spec == Init /\ [][Next]_vars

\* What the event loop runs because it is ready, the timers of the waits and
\* the supervisor that starts the process again. The owner, the clock and a
\* turn nobody cancelled may do nothing; the deadline cancels such a turn.
Fairness ==
    /\ WF_vars(TickStarts) /\ WF_vars(TickScans) /\ WF_vars(TickNext)
    /\ WF_vars(HandOff)
    /\ \A p \in Tasks :
           /\ WF_vars(TaskSteps(p)) /\ WF_vars(Deadline(p))
           /\ WF_vars(task[p].turn = "stopping" /\ TurnEnds(p))
    /\ WF_vars(OpCommits) /\ WF_vars(OpReleases)
    /\ WF_vars(LoopCancelled) /\ WF_vars(ManualCancelled) /\ WF_vars(BackstopSweep)
    /\ WF_vars(\E r \in todo : SweepRow(r))
    /\ WF_vars(DatabaseCloses) /\ WF_vars(Boot) /\ WF_vars(LoopStarts)

FairSpec == Spec /\ Fairness

-----------------------------------------------------------------------------
(* What the automations promise *)

\* Every variable holds a value of its kind.
TypeOK ==
    /\ now \in 0 .. MaxTime
    /\ autos \in [Autos -> Definition]
    /\ runs \in Seq([auto : Autos, trigger : {"scheduled", "manual"},
           slot : Nat, status : Terminal \cup {"running", "gone"},
           thread : Nat, events : Nat])
    /\ threads \subseteq DOMAIN runs
    /\ markers \subseteq [thread : DOMAIN runs,
                          kind : {"automation", "chat", "prune"}]
    /\ arbiter \in Tasks \cup {"free"}
    /\ task \in [Tasks -> [pc : Points,
           due : SUBSET [auto : Autos, rev : Nat, slot : Nat],
           auto : Autos \cup {None}, rev : Nat, moment : Nat, run : {0} \cup DOMAIN runs,
           rolling : BOOLEAN, thread : Nat,
           turn : Live \cup {"none", "completed", "failed", "cancelled"},
           status : Terminal, drop : SUBSET DOMAIN runs,
           marks : SUBSET DOMAIN runs, cancelled : BOOLEAN]]
    /\ op.stage \in {"idle", "body", "committed"} /\ op.marks \subseteq DOMAIN runs
    /\ chat.pc \in {"idle", "reserved", "turn", "stopping"}
    /\ phase \in {"up", "drain", "joining", "manual", "closing", "down",
                  "crashed", "boot"}
    /\ todo \subseteq DOMAIN runs /\ events \in 0 .. MaxEvents

\* Every claimed run is terminalized: an open row has a task that will close
\* it or a sweep that has it in its list; a graceful shutdown leaves none.
Owning == {"claimed", "created", "resolve", "adopt", "record", "drive", "wait",
           "overdue", "grace", "finish"}
EveryRunOwned == \A r \in Open :
    \/ \E p \in Tasks : task[p].run = r /\ task[p].pc \in Owning
    \/ r \in todo
    \/ phase \in {"crashed", "manual"}

\* Concurrency 1 (owner ruling 2): no two automation turns run at once, and
\* while the server is up none runs after its arbiter was given back.
OneRunAtATime ==
    /\ \A p, q \in Tasks : task[p].turn \in Live /\ task[q].turn \in Live => p = q
    /\ phase = "up" => \A p \in Tasks : task[p].turn \in Live => arbiter = p

\* A row reads ok, error or timed_out only when its turn is really over.
HonestTerminals == \A p \in Tasks :
    task[p].run # 0 /\ task[p].turn \in Live =>
        runs[task[p].run].status \in {"running", "interrupted", "gone"}

\* A slot is executed at most once, whoever claims it: two rows of one slot
\* never both leave it to a turn (an unusable schedule adds its error row).
SlotOnce == \A r, s \in DOMAIN runs :
    /\ r # s /\ runs[r].auto = runs[s].auto /\ runs[r].slot = runs[s].slot
    /\ runs[r].slot # 0
    => runs[r].auto \in Unusable

\* Retention, a delete and a change of mode never pull a thread away from a
\* turn: it exists while a turn runs in it, and no chat turn runs in the
\* continuing conversation of an automation.
TurnsKeepTheirThread ==
    /\ \A p \in Tasks : task[p].turn \in Live => task[p].thread \in threads
    /\ chat.pc \in {"turn", "stopping"} =>
           chat.thread \in threads /\ ~RollingOwned(chat.thread)

\* A delete never takes the definition away from under a claimed run.
NoGhostRuns == \A p \in Tasks :
    task[p].pc \in Owning => autos[task[p].auto].life = "stored"

\* First writer wins: a terminal status is never replaced, and a run has at
\* most one terminal event.
ClosedOnce == [][\A r \in DOMAIN runs :
    /\ runs[r].status \in Terminal => runs'[r].status \in {runs[r].status, "gone"}
    /\ runs'[r].events <= 1]_vars

\* A claimed run ends, whatever its turn, a shutdown or a crash does: no row
\* stays open (one at a time, and the owner's events are bounded).
RunsEnd == []<>(Open = {})

\* A due slot is run, skipped or withdrawn: none stays due for ever.
SlotsMove == []<>(\A a \in Autos : ~Due(a))

\* What a claim gives a run it keeps: an owner until its row says, truthfully,
\* how its turn ended; its slot to itself; its thread and its definition.
RunKept == EveryRunOwned /\ HonestTerminals /\ SlotOnce /\ TurnsKeepTheirThread /\ NoGhostRuns

\* Every claimed run ends and every due slot moves on.
RunsAndSlotsMove == RunsEnd /\ SlotsMove

=============================================================================
