------------------------ MODULE AutomationsRunProofs ------------------------
(***************************************************************************)
(* Proofs about Automations: what a claimed run can count on until it is   *)
(* closed, RunKept, and the types, for every set of automations, schedule, *)
(* retention bound and number of events.                                   *)
(*                                                                         *)
(* A run is claimed in one step with the advance of its slot; from then on *)
(* some task, or the sweep of a shutdown or boot, owns the open row, the   *)
(* slots already run lie before the next one, and whoever is in a thread   *)
(* holds its marker, which is what keeps an owner's delete, a mode switch  *)
(* and retention away from it. No part of that is inductive alone: the     *)
(* step that would break one is excluded by another, so they go together   *)
(* as RunInv.                                                              *)
(*                                                                         *)
(* Each action has its lemma. A step of a task that leaves the store, the  *)
(* markers and the process alone is a walk, and what a walk keeps is       *)
(* proved once; the others say what they change and which parts of RunInv  *)
(* can tell.                                                               *)
(***************************************************************************)
EXTENDS AutomationsProofs

-----------------------------------------------------------------------------
\* From which points on a task has an automation, and a row.
Engaged == Points \ {"off", "sleep", "scan", "next"}
WithRow == Engaged \ {"claiming"}
Turns == Live \cup {"none", "completed", "failed", "cancelled"}

RowSet == [auto : Autos, trigger : {"scheduled", "manual"}, slot : Nat,
           status : Terminal \cup {"running", "gone"}, thread : Nat, events : Nat]
TaskSet == [pc : Points, due : SUBSET [auto : Autos, rev : Nat, slot : Nat],
            auto : Autos \cup {None}, rev : Nat, moment : Nat, run : Nat, rolling : BOOLEAN,
            thread : Nat, turn : Turns, status : Terminal, drop : SUBSET Nat,
            marks : SUBSET Nat, cancelled : BOOLEAN]
OpSet == [stage : {"idle", "body", "committed"}, auto : Autos \cup {None},
          row : Definition \cup {None}, marks : SUBSET Nat]
ChatSet == [pc : {"idle", "reserved", "turn", "stopping"}, thread : Nat]
Phases == {"up", "drain", "joining", "manual", "closing", "down", "crashed", "boot"}

KindsInv ==
    /\ now \in 0 .. MaxTime /\ phase \in Phases
    /\ autos \in [Autos -> Definition] /\ runs \in Seq(RowSet)
    /\ task \in [Tasks -> TaskSet] /\ op \in OpSet /\ chat \in ChatSet

\* A thread number is 0 or the row the thread was created for, a row of the same automation.
Of(t, a) == t \in DOMAIN runs /\ runs[t].auto = a

KnownTask(p) ==
    /\ task[p].pc \in Engaged => task[p].auto \in Autos
    /\ task[p].pc \in WithRow => Of(task[p].run, task[p].auto)
    /\ task[p].run \in {0} \cup DOMAIN runs
    /\ task[p].thread \in {0} \cup DOMAIN runs
    /\ task[p].pc \in WithRow /\ task[p].thread # 0 => Of(task[p].thread, task[p].auto)
    /\ task[p].drop \cup task[p].marks \subseteq DOMAIN runs
    /\ task[p].marks # {} => task[p].pc \in {"commit", "committed"}

KnownInv ==
    /\ threads \cup todo \subseteq DOMAIN runs
    /\ markers \subseteq [thread : DOMAIN runs, kind : {"automation", "chat", "prune"}]
    /\ \A a \in Autos : autos[a].thread # 0 => Of(autos[a].thread, a)
    /\ \A r \in DOMAIN runs : runs[r].thread # 0 => Of(runs[r].thread, runs[r].auto)
    /\ \A p \in Tasks : KnownTask(p)
    /\ \A t \in op.marks : Of(t, op.auto)
    /\ chat.pc # "idle" => chat.thread \in DOMAIN runs

\* The owner's operation, and the phases in which there is none.
OpInv ==
    /\ op.stage # "idle" => phase = "up" /\ op.auto \in Autos
    /\ op.stage = "idle" => op.marks = {}
    /\ op.stage = "body" =>
           /\ \A p \in Tasks : task[p].pc # "commit"
           /\ autos[op.auto].life = "stored"
           /\ op.row = None => Open \cap RunsOf(op.auto) = {}
           /\ op.row # None =>
                  /\ op.row.thread = autos[op.auto].thread /\ op.row.life = "stored"
                  /\ op.row.usable /\ autos[op.auto].usable
                  /\ op.row.mode = autos[op.auto].mode \/ op.row.thread \in {0} \cup op.marks

\* What a task may be up to in a phase.
PhaseOf(p, t) ==
    /\ p = "loop" => t.pc # "created"
    /\ p = "manual" /\ phase \in {"drain", "joining", "manual", "closing"} =>
           t.pc \notin {"claiming", "claimed"}
    /\ p = "loop" /\ phase \in {"manual", "closing"} => t.pc = "off"
    /\ p = "manual" /\ t.pc = "created" /\ t.cancelled => phase \in {"manual", "closing"}
PhaseInv == \A p \in Tasks : PhaseOf(p, task[p])

\* The rows of the runs in progress.
OpenInv ==
    /\ EveryRunOwned /\ NoGhostRuns
    /\ phase \in {"closing", "down", "boot"} => Open \subseteq todo
    /\ \A p \in Tasks :
          /\ task[p].pc \in Owning => runs[task[p].run].status \in {"running", "interrupted"}
          /\ task[p].pc \in Owning /\ phase # "closing" => runs[task[p].run].status = "running"
          /\ Running(p) /\ task[p].run # 0 =>
                 runs[task[p].run].status \in {"running", "interrupted", "gone"}
          /\ Running(p) /\ task[p].pc = "finish" => task[p].status = "interrupted"
          /\ \A r \in task[p].drop : runs[r].status # "running"
    /\ \A p, q \in Tasks : task[p].run = task[q].run /\ task[p].run # 0 => p = q

\* The slots.
Slots(a, next) == \A r \in DOMAIN runs :
    runs[r].auto = a => runs[r].slot <= now /\ (next # 0 => runs[r].slot < next)
SlotInv ==
    /\ \A a \in Autos \ Unusable : Slots(a, autos[a].next)
    /\ op.stage = "body" /\ op.row # None => Slots(op.auto, op.row.next)
    /\ \A p \in Tasks : task[p].pc = "claiming" => task[p].moment <= now
    /\ \A a \in Autos : autos[a].life = "unborn" => autos[a].usable
    /\ SlotOnce

\* Who holds which thread.
MarkerInv ==
    /\ \A p \in Tasks :
          /\ Running(p) => Marks({task[p].thread}, "automation") \subseteq markers
          /\ Marks(task[p].marks, "prune") \subseteq markers
    /\ Marks(op.marks, "prune") \subseteq markers
    /\ chat.pc # "idle" => Marks({chat.thread}, "chat") \subseteq markers

Apart ==
    /\ \A p \in Tasks :
          /\ task[p].marks \cap op.marks = {}
          /\ chat.pc # "idle" => chat.thread \notin task[p].marks
          /\ Running(p) =>
                 /\ task[p].thread \notin op.marks
                 /\ \A q \in Tasks : task[p].thread \notin task[q].marks
    /\ chat.pc # "idle" => chat.thread \notin op.marks

\* The threads.
ThreadInv ==
    /\ \A p \in Tasks :
          /\ task[p].pc \in {"adopt", "record", "drive"} => task[p].thread \in threads
          /\ task[p].pc = "adopt" => task[p].thread = task[p].run
          /\ task[p].pc \in {"claimed", "created", "resolve", "adopt"} =>
                 /\ \A r \in DOMAIN runs : runs[r].thread # task[p].run
                 /\ \A a \in Autos : autos[a].thread # task[p].run
                 /\ chat.pc # "idle" => chat.thread # task[p].run
    /\ TurnsKeepTheirThread

RunInv ==
    /\ KindsInv /\ KnownInv /\ OpInv /\ PhaseInv /\ OpenInv /\ SlotInv
    /\ MarkerInv /\ Apart /\ ThreadInv

USE DEF Tasks

LEMMA NextMultiple ==
  ASSUME NEW n \in Nat, n # 0, NEW x \in Nat
  PROVE  n * (x \div n + 1) \in Nat /\ n * (x \div n + 1) > x
<1>1. n * (x \div n + 1) > x
  OBVIOUS
<1>2. n * (x \div n + 1) \in Int
  OBVIOUS
<1>. QED
  BY <1>1, <1>2

\* The next slot is a later one.
LEMMA NextFireLater ==
  ASSUME NEW x \in Nat PROVE NextFire(x) \in Nat /\ NextFire(x) > x
  BY NextMultiple, AutomationsAssumption DEF NextFire

LEMMA BlankKind == Blank \in TaskSet
  BY DEF Blank, TaskSet, Points, Owning, Turns, Live, Terminal

LEMMA RowsKind == ASSUME KindsInv PROVE
   /\ Len(runs) \in Nat /\ DOMAIN runs = 1 .. Len(runs) /\ runs \in [DOMAIN runs -> RowSet]
   /\ \A r \in DOMAIN runs : runs[r] \in RowSet /\ r \in Nat \ {0}
<1>1. runs \in Seq(RowSet)
  BY DEF KindsInv
<1>. HIDE DEF RowSet
<1>. QED
  BY <1>1, LenProperties

\* One task becomes t.
LEMMA Becomes ==
  ASSUME KindsInv, NEW p \in Tasks, NEW t \in TaskSet, task' = [task EXCEPT ![p] = t]
  PROVE  /\ task' \in [Tasks -> TaskSet] /\ task'[p] = t
         /\ \A q \in Tasks \ {p} : task'[q] = task[q]
  BY DEF KindsInv

LEMMA WentTo ==
  ASSUME KindsInv, NEW p \in Tasks, NEW pc \in Points, Go(p, pc)
  PROVE  /\ task' \in [Tasks -> TaskSet]
         /\ \A q \in Tasks \ {p} : task'[q] = task[q]
         /\ task'[p] = [task[p] EXCEPT !.pc = pc]
         /\ task'[p].pc = pc
<1>1. task[p] \in TaskSet
  BY DEF KindsInv
<1>2. [task[p] EXCEPT !.pc = pc] \in TaskSet
  BY <1>1 DEF TaskSet
<1>3. task' = [task EXCEPT ![p] = [task[p] EXCEPT !.pc = pc]]
  BY DEF Go
<1>4. [task[p] EXCEPT !.pc = pc].pc = pc
  BY <1>1 DEF TaskSet
<1>. HIDE DEF TaskSet
<1>. QED
  BY <1>2, <1>3, <1>4, Becomes

-----------------------------------------------------------------------------
(* What a step of a task may be, the rest of the system as it was *)

Fresh == {"claimed", "created", "resolve", "adopt"}
WithThread == {"adopt", "record", "drive"}

\* The task goes on with what it has.
Walk(p, t) ==
    /\ t.auto = task[p].auto /\ t.run = task[p].run /\ t.thread = task[p].thread
    /\ t.marks = task[p].marks /\ t.moment = task[p].moment
    /\ t.drop = task[p].drop \/ t.drop \subseteq {r \in DOMAIN runs : runs[r].status # "running"}
    /\ t.turn \in Live <=> task[p].turn \in Live
    /\ t.pc \in Owning => task[p].pc \in Owning
    /\ task[p].pc \in Owning => t.pc \in Owning \/ runs[task[p].run].status # "running"
    /\ t.pc \in Engaged <=> task[p].pc \in Engaged
    /\ t.pc \in WithRow <=> task[p].pc \in WithRow
    /\ t.pc = "commit" <=> task[p].pc = "commit"
    /\ t.pc = "committed" <=> task[p].pc = "committed"
    /\ t.pc \in Fresh => task[p].pc \in Fresh
    /\ t.pc \in WithThread => task[p].thread \in threads
    /\ t.pc = "adopt" => task[p].pc = "adopt"
    /\ t.pc = "finish" /\ t.turn \in Live => t.status = "interrupted"
    /\ PhaseOf(p, t)

\* The task has nothing more to do with its run, or begins anew.
Rest(p, t) ==
    /\ t.pc \in {"off", "sleep", "next", "claiming"}
    /\ t.run = 0 /\ t.marks = {} /\ t.drop = {}
    /\ t.thread \in {0, task[p].thread}
    /\ t.turn \in Live => task[p].turn \in Live /\ t.thread = task[p].thread
    /\ t.pc = "claiming" => t.auto \in Autos /\ t.moment = now
    /\ task[p].pc \in Owning => phase \in {"manual", "closing"}
    /\ PhaseOf(p, t)

Walks(p) ==
    /\ \E t \in TaskSet : task' = [task EXCEPT ![p] = t] /\ Walk(p, t)
    /\ UNCHANGED <<markers, world, store, process, requests>>
Resting(p) == \E t \in TaskSet : task' = [task EXCEPT ![p] = t] /\ Rest(p, t)
Rests(p) ==
    /\ Resting(p)
    /\ markers' = markers \ Marks(task[p].marks, "prune")
    /\ UNCHANGED <<now, store, process, requests>>

LEMMA TaskKind == ASSUME KindsInv, NEW p \in Tasks PROVE task[p] \in TaskSet
  BY DEF KindsInv

LEMMA GoWalks ==
  ASSUME KindsInv, NEW p \in Tasks, NEW pc \in Points, Go(p, pc),
         UNCHANGED <<markers, world, store, process, requests>>,
         pc \in Owning <=> task[p].pc \in Owning,
         pc \in Engaged <=> task[p].pc \in Engaged,
         pc \in WithRow <=> task[p].pc \in WithRow,
         pc = "commit" <=> task[p].pc = "commit",
         pc = "committed" <=> task[p].pc = "committed",
         pc \in Fresh => task[p].pc \in Fresh,
         pc \in WithThread => task[p].thread \in threads,
         pc = "adopt" => task[p].pc = "adopt",
         pc # "finish", pc # "claiming",
         p = "loop" => pc # "created" /\ phase \notin {"manual", "closing"},
         p = "manual" => pc # "claimed" /\ (pc = "created" => ~task[p].cancelled)
  PROVE  Walks(p)
<1>. DEFINE u == task[p]
            t == [u EXCEPT !.pc = pc]
<1>1. u \in TaskSet /\ u.turn \in Turns /\ u.status \in Terminal
  BY DEF KindsInv, TaskSet
<1>2. task' = [task EXCEPT ![p] = t]
  BY DEF Go
<1>3. /\ t \in TaskSet
      /\ t.auto = u.auto /\ t.run = u.run /\ t.thread = u.thread /\ t.marks = u.marks
      /\ t.drop = u.drop /\ t.moment = u.moment
      /\ t.pc = pc /\ t.turn = u.turn /\ t.cancelled = u.cancelled
  BY <1>1 DEF TaskSet
<1>. HIDE DEF t
<1>4. PhaseOf(p, t)
  BY <1>3 DEF PhaseOf
<1>5. Walk(p, t)
  BY <1>3, <1>4 DEF Walk
<1>. QED
  BY <1>2, <1>3, <1>5 DEF Walks

LEMMA ConcludeWalks ==
  ASSUME KindsInv, PhaseInv, NEW p \in Tasks, NEW status \in Terminal, Conclude(p, status),
         UNCHANGED <<markers, world, store, process, requests>>,
         task[p].pc \in Owning, Running(p) => status = "interrupted"
  PROVE  Walks(p)
<1>. DEFINE u == task[p]
            t == [u EXCEPT !.pc = "finish", !.status = status]
<1>1. u \in TaskSet /\ u.turn \in Turns /\ "finish" \in Points
  BY DEF KindsInv, TaskSet, Points, Owning
<1>2. task' = [task EXCEPT ![p] = t]
  BY DEF Conclude
<1>3. /\ t \in TaskSet
      /\ t.auto = u.auto /\ t.run = u.run /\ t.thread = u.thread /\ t.marks = u.marks
      /\ t.drop = u.drop /\ t.moment = u.moment
      /\ t.pc = "finish" /\ t.turn = u.turn /\ t.status = status
  BY <1>1 DEF TaskSet
<1>. HIDE DEF t
<1>4. PhaseOf(p, t)
  BY <1>3 DEF PhaseOf, PhaseInv, Owning
<1>5. /\ t.pc \in Owning /\ t.pc \in Engaged /\ t.pc \in WithRow
      /\ u.pc \in Engaged /\ u.pc \in WithRow /\ u.pc \notin {"commit", "committed"}
      /\ t.pc \notin {"commit", "committed", "adopt"} \cup Fresh \cup WithThread
  BY <1>3 DEF Owning, Engaged, WithRow, Points, Fresh, WithThread
<1>6. Walk(p, t)
  BY <1>3, <1>4, <1>5 DEF Walk, Running
<1>. QED
  BY <1>2, <1>3, <1>6 DEF Walks

\* The turn goes on, or was asked to stop; the wait for it goes on.
\* The turn goes on, or was asked to stop.
LEMMA TurnWalks ==
  ASSUME KindsInv, PhaseInv, NEW p \in Tasks, NEW turn \in Turns,
         task' = [task EXCEPT ![p].turn = turn],
         UNCHANGED <<markers, world, store, process, requests>>,
         turn \in Live <=> Running(p),
         task[p].pc = "finish" => ~Running(p) \/ task[p].status = "interrupted",
         task[p].pc \in WithThread => task[p].thread \in threads
  PROVE  Walks(p)
<1>. DEFINE u == task[p]
            t == [u EXCEPT !.turn = turn]
<1>1. u \in TaskSet
  BY DEF KindsInv
<1>2. task' = [task EXCEPT ![p] = t]
  OBVIOUS
<1>3. /\ t \in TaskSet
      /\ t.auto = u.auto /\ t.run = u.run /\ t.thread = u.thread /\ t.marks = u.marks
      /\ t.drop = u.drop /\ t.moment = u.moment /\ t.status = u.status
      /\ t.pc = u.pc /\ t.turn = turn /\ t.cancelled = u.cancelled
  BY <1>1 DEF TaskSet
<1>. HIDE DEF t
<1>4. PhaseOf(p, t)
  BY <1>3 DEF PhaseOf, PhaseInv
<1>5. Walk(p, t)
  BY <1>3, <1>4 DEF Walk, Running
<1>. QED
  BY <1>2, <1>3, <1>5 DEF Walks

\* The wait for the turn goes on, past its deadline or a cancel.
LEMMA WaitWalks ==
  ASSUME KindsInv, PhaseInv, NEW p \in Tasks, NEW pc \in {"overdue", "grace"}, NEW turn \in Turns,
         task' = [task EXCEPT ![p].pc = pc, ![p].turn = turn],
         task[p].pc \in {"wait", "overdue"},
         UNCHANGED <<markers, world, store, process, requests>>,
         turn \in Live <=> Running(p)
  PROVE  Walks(p)
<1>. DEFINE u == task[p]
            t == [u EXCEPT !.pc = pc, !.turn = turn]
<1>1. u \in TaskSet /\ pc \in Points
  BY DEF KindsInv, Points, Owning
<1>2. task' = [task EXCEPT ![p] = t]
  OBVIOUS
<1>3. /\ t \in TaskSet
      /\ t.auto = u.auto /\ t.run = u.run /\ t.thread = u.thread /\ t.marks = u.marks
      /\ t.drop = u.drop /\ t.moment = u.moment /\ t.status = u.status
      /\ t.pc = pc /\ t.turn = turn /\ t.cancelled = u.cancelled
  BY <1>1 DEF TaskSet
<1>. HIDE DEF t
<1>4. PhaseOf(p, t)
  BY <1>3 DEF PhaseOf, PhaseInv
<1>5. /\ t.pc \in Owning /\ t.pc \in Engaged /\ t.pc \in WithRow
      /\ u.pc \in Owning /\ u.pc \in Engaged /\ u.pc \in WithRow
      /\ u.pc \notin {"commit", "committed"}
      /\ t.pc \notin {"commit", "committed", "adopt", "finish"} \cup Fresh \cup WithThread
  BY <1>3 DEF Owning, Engaged, WithRow, Points, Fresh, WithThread
<1>6. Walk(p, t)
  BY <1>3, <1>4, <1>5 DEF Walk, Running
<1>. QED
  BY <1>2, <1>3, <1>6 DEF Walks

\* The task becomes one with no run.
LEMMA RestIs ==
  ASSUME NEW p \in Tasks, NEW t \in TaskSet, task' = [task EXCEPT ![p] = t], Rest(p, t)
  PROVE  Resting(p)
  BY DEF Resting

\* What End leaves of the task.
LEMMA EndRests ==
  ASSUME RunInv, NEW p \in Tasks, End(p),
         task[p].pc \in Owning => phase \in {"manual", "closing"}
  PROVE  Resting(p)
<1>. DEFINE u == task[p]
            left == [Blank EXCEPT !.turn = u.turn, !.thread = u.thread]
            t == IF u.turn \in Live THEN left ELSE Blank
<1>1. KindsInv /\ u \in TaskSet
  BY DEF RunInv, KindsInv
<1>2. /\ Blank \in TaskSet /\ Blank.pc = "off" /\ Blank.run = 0 /\ Blank.marks = {}
      /\ Blank.drop = {} /\ Blank.thread = 0 /\ Blank.turn = "none"
  BY BlankKind DEF Blank
<1>3. /\ left \in TaskSet /\ left.pc = "off" /\ left.run = 0 /\ left.marks = {}
      /\ left.drop = {} /\ left.thread = u.thread /\ left.turn = u.turn
  BY <1>1, <1>2 DEF TaskSet, Blank
<1>4. task' = [task EXCEPT ![p] = t]
  BY <1>1 DEF End, KindsInv
<1>5. t \in TaskSet /\ t.pc = "off" /\ t.run = 0 /\ t.marks = {} /\ t.drop = {}
  BY <1>2, <1>3
<1>6. /\ t.thread \in {0, u.thread}
      /\ t.turn \in Live => u.turn \in Live /\ t.thread = u.thread
  BY <1>2, <1>3 DEF Live
<1>. HIDE DEF t
<1>7. Rest(p, t)
  BY <1>5, <1>6 DEF Rest, PhaseOf
<1>. QED
  BY <1>1, <1>4, <1>5, <1>7, RestIs

\* The loop goes on with its tick.
LEMMA GoesOnRests ==
  ASSUME RunInv, NEW t, NEW due, NEW p \in Tasks, p = "loop",
         t = [Blank EXCEPT !.pc = "next", !.due = due], due \in SUBSET [auto : Autos, rev : Nat, slot : Nat],
         task' = [task EXCEPT ![p] = t], task[p].pc \notin Owning \cup {"off"}
  PROVE  Resting(p)
<1>1. /\ t \in TaskSet /\ t.pc = "next" /\ t.run = 0 /\ t.marks = {} /\ t.drop = {}
      /\ t.thread = 0 /\ t.turn = "none"
  BY BlankKind DEF TaskSet, Blank, Points
<1>2. Rest(p, t)
  BY <1>1 DEF Rest, PhaseOf, Live, RunInv, PhaseInv
<1>. QED
  BY <1>1, <1>2, RestIs DEF RunInv

LEMMA MoveOnRests ==
  ASSUME RunInv, NEW p \in Tasks, MoveOn(p), task[p].pc \notin Owning \cup {"off"}
  PROVE  Resting(p)
<1>. DEFINE t == [Blank EXCEPT !.pc = "next", !.due = task[p].due]
<1>1. task[p].due \in SUBSET [auto : Autos, rev : Nat, slot : Nat]
  BY DEF RunInv, KindsInv, TaskSet
<1>2. CASE End(p)
  BY <1>2, EndRests
<1>3. CASE p = "loop" /\ task' = [task EXCEPT ![p] = t]
  <2>. HIDE DEF t
  <2>. QED
    BY <1>1, <1>3, GoesOnRests DEF t
<1>. QED
  BY <1>2, <1>3 DEF MoveOn

LEMMA NothingMarked == ASSUME NEW ts, ts = {} PROVE markers \ Marks(ts, "prune") = markers
  BY DEF Marks

\* Where a task has no marks.
LEMMA Unmarked ==
  ASSUME RunInv, NEW p \in Tasks, task[p].pc \notin {"commit", "committed"}, UNCHANGED markers
  PROVE  markers' = markers \ Marks(task[p].marks, "prune")
<1>1. task[p].marks = {}
  BY DEF RunInv, KnownInv, KnownTask
<1>. QED
  BY <1>1, NothingMarked

LEMMA TickStartsWalks == ASSUME RunInv, TickStarts PROVE Walks("loop")
<1>1. /\ Go("loop", "scan") /\ task["loop"].pc = "sleep" /\ phase = "up"
      /\ UNCHANGED <<markers, world, store, process, requests>>
  BY DEF TickStarts
<1>. QED
  BY <1>1, GoWalks DEF RunInv, Owning, Engaged, WithRow, Points, Fresh, WithThread

LEMMA TickScansWalks == ASSUME RunInv, TickScans PROVE Walks("loop")
<1>. DEFINE u == task["loop"]
            due == {[auto |-> a, rev |-> autos[a].rev, slot |-> autos[a].next] :
                       a \in {b \in Autos : Due(b)}}
            t == [u EXCEPT !.pc = "next", !.due = due]
<1>1. /\ task' = [task EXCEPT !["loop"] = t] /\ u.pc = "scan"
      /\ UNCHANGED <<markers, world, store, process, requests>>
  BY DEF TickScans
<1>2. u \in TaskSet /\ KindsInv
  BY DEF RunInv, KindsInv
<1>3. due \in SUBSET [auto : Autos, rev : Nat, slot : Nat]
  BY DEF RunInv, KindsInv, Definition
<1>. HIDE DEF due
<1>4. /\ t \in TaskSet /\ t.pc = "next"
      /\ t.auto = u.auto /\ t.run = u.run /\ t.thread = u.thread /\ t.marks = u.marks
      /\ t.drop = u.drop /\ t.moment = u.moment /\ t.turn = u.turn
  BY <1>2, <1>3 DEF TaskSet, Points
<1>. HIDE DEF t
<1>5. PhaseOf("loop", t)
  BY <1>1, <1>4 DEF PhaseOf, RunInv, PhaseInv
<1>6. Walk("loop", t)
  BY <1>1, <1>4, <1>5 DEF Walk, Owning, Engaged, WithRow, Points, Fresh, WithThread
<1>. QED
  BY <1>1, <1>4, <1>6 DEF Walks

LEMMA TickNextRests == ASSUME RunInv, TickNext PROVE Rests("loop")
<1>1. /\ task["loop"].pc = "next" /\ KindsInv /\ UNCHANGED markers
      /\ UNCHANGED <<now, store, process, requests>>
  BY DEF TickNext, RunInv, world
<1>2. markers' = markers \ Marks(task["loop"].marks, "prune")
  BY <1>1, Unmarked
<1>3. phase \notin {"manual", "closing"}
  BY <1>1 DEF RunInv, PhaseInv, PhaseOf
<1>4. CASE task' = [task EXCEPT !["loop"] = [Blank EXCEPT !.pc = "sleep"]]
  <2>. DEFINE t == [Blank EXCEPT !.pc = "sleep"]
  <2>1. /\ t \in TaskSet /\ t.pc = "sleep" /\ t.run = 0 /\ t.marks = {} /\ t.drop = {}
        /\ t.thread = 0 /\ t.turn = "none"
    BY BlankKind DEF TaskSet, Blank, Points
  <2>2. task' = [task EXCEPT !["loop"] = t]
    BY <1>4
  <2>. HIDE DEF t
  <2>3. Rest("loop", t)
    BY <1>1, <1>3, <2>1 DEF Rest, PhaseOf, Live, Owning
  <2>. QED
    BY <1>1, <1>2, <2>1, <2>2, <2>3, RestIs DEF Rests
<1>5. ASSUME NEW d \in task["loop"].due,
             task' = [task EXCEPT !["loop"] =
                   [Blank EXCEPT !.pc = "claiming", !.due = task["loop"].due \ {d},
                                 !.auto = d.auto, !.rev = d.rev, !.moment = now]]
      PROVE  Rests("loop")
  <2>. DEFINE t == [Blank EXCEPT !.pc = "claiming", !.due = task["loop"].due \ {d},
                                 !.auto = d.auto, !.rev = d.rev, !.moment = now]
  <2>1. /\ d \in [auto : Autos, rev : Nat, slot : Nat] /\ now \in Nat
        /\ task["loop"].due \ {d} \in SUBSET [auto : Autos, rev : Nat, slot : Nat]
    BY <1>1 DEF KindsInv, TaskSet
  <2>2. /\ t \in TaskSet /\ t.pc = "claiming" /\ t.run = 0 /\ t.marks = {} /\ t.drop = {}
        /\ t.thread = 0 /\ t.turn = "none" /\ t.auto \in Autos /\ t.moment = now
    BY <2>1, BlankKind DEF TaskSet, Blank, Points
  <2>3. task' = [task EXCEPT !["loop"] = t]
    BY <1>5
  <2>. HIDE DEF t
  <2>4. Rest("loop", t)
    BY <1>1, <1>3, <2>2 DEF Rest, PhaseOf, Live, Owning
  <2>. QED
    BY <1>1, <1>2, <2>2, <2>3, <2>4, RestIs DEF Rests
<1>. QED
  BY <1>4, <1>5 DEF TickNext

LEMMA StartNowRests == ASSUME RunInv, NEW a \in Autos, StartNow(a) PROVE Rests("manual")
<1>. DEFINE t == [Blank EXCEPT !.pc = "claiming", !.auto = a, !.moment = now]
<1>1. /\ task["manual"].pc = "off" /\ phase = "up" /\ KindsInv /\ UNCHANGED markers
      /\ task' = [task EXCEPT !["manual"] = t]
      /\ UNCHANGED <<now, store, process, requests>>
  BY DEF StartNow, RunInv
<1>2. markers' = markers \ Marks(task["manual"].marks, "prune")
  BY <1>1, Unmarked
<1>3. now \in Nat
  BY <1>1 DEF KindsInv
<1>4. /\ t \in TaskSet /\ t.pc = "claiming" /\ t.run = 0 /\ t.marks = {} /\ t.drop = {}
      /\ t.thread = 0 /\ t.turn = "none" /\ t.auto \in Autos /\ t.moment = now
  BY <1>3, BlankKind DEF TaskSet, Blank, Points
<1>. HIDE DEF t
<1>5. Rest("manual", t)
  BY <1>1, <1>4 DEF Rest, PhaseOf, Live, Owning
<1>. QED
  BY <1>1, <1>2, <1>4, <1>5, RestIs DEF Rests

LEMMA HandOffWalks == ASSUME RunInv, HandOff PROVE Walks("manual")
<1>1. /\ Go("manual", "created") /\ task["manual"].pc = "claimed" /\ ~task["manual"].cancelled
      /\ UNCHANGED <<markers, world, store, process, requests>>
  BY DEF HandOff
<1>. QED
  BY <1>1, GoWalks DEF RunInv, Owning, Engaged, WithRow, Points, Fresh, WithThread

LEMMA RequestCancelledWalks == ASSUME RunInv, RequestCancelled PROVE Walks("manual")
<1>. DEFINE u == task["manual"]
            t == [u EXCEPT !.cancelled = TRUE]
<1>1. /\ task' = [task EXCEPT !["manual"] = t] /\ u.pc = "claiming"
      /\ UNCHANGED <<markers, world, store, process, requests>>
  BY DEF RequestCancelled
<1>2. u \in TaskSet
  BY DEF RunInv, KindsInv
<1>3. /\ t \in TaskSet /\ t.pc = u.pc
      /\ t.auto = u.auto /\ t.run = u.run /\ t.thread = u.thread /\ t.marks = u.marks
      /\ t.drop = u.drop /\ t.moment = u.moment /\ t.turn = u.turn
  BY <1>2 DEF TaskSet
<1>. HIDE DEF t
<1>4. PhaseOf("manual", t)
  BY <1>1, <1>3 DEF PhaseOf, RunInv, PhaseInv
<1>5. Walk("manual", t)
  BY <1>1, <1>3, <1>4 DEF Walk, Fresh, WithThread
<1>. QED
  BY <1>1, <1>3, <1>5 DEF Walks

LEMMA BeginsWalks == ASSUME RunInv, ArbiterInv, NEW p \in Tasks, Begins(p) PROVE Walks(p)
<1>1. /\ task[p].pc = (IF p = "loop" THEN "claimed" ELSE "created") /\ ~task[p].cancelled
      /\ UNCHANGED <<markers, world, store, process, requests>>
  BY DEF Begins, Refused, store
<1>2. ~Running(p)
  BY <1>1 DEF ArbiterInv, NoneBeforeDrive, Early
<1>3. p = "loop" => phase \notin {"manual", "closing"}
  BY <1>1 DEF RunInv, PhaseInv, PhaseOf
<1>4. CASE Conclude(p, "error")
  BY <1>1, <1>2, <1>4, ConcludeWalks DEF RunInv, Owning, Terminal
<1>5. CASE Go(p, "resolve")
  BY <1>1, <1>3, <1>5, GoWalks DEF RunInv, Owning, Engaged, WithRow, Points, Fresh, WithThread
<1>. QED
  BY <1>4, <1>5 DEF Begins, Refused

LEMMA ResolveWalks ==
  ASSUME RunInv, NEW p \in Tasks, ResolveThread(p), task[p].rolling, task[p].thread \in threads
  PROVE  Walks(p)
<1>1. /\ task[p].pc = "resolve" /\ Go(p, "record")
      /\ UNCHANGED <<markers, world, store, process, requests>>
  BY DEF ResolveThread, store
<1>2. p = "loop" => phase \notin {"manual", "closing"}
  BY <1>1 DEF RunInv, PhaseInv, PhaseOf
<1>. QED
  BY <1>1, <1>2, GoWalks DEF RunInv, Owning, Engaged, WithRow, Points, Fresh, WithThread

LEMMA DriveWalks ==
  ASSUME RunInv, ArbiterInv, NEW p \in Tasks, Drive(p), Refused(p) PROVE Walks(p)
<1>1. /\ task[p].pc = "drive" /\ Conclude(p, "error")
      /\ UNCHANGED <<markers, world, store, process, requests>>
  BY DEF Drive, Refused, store
<1>2. ~Running(p)
  BY <1>1 DEF ArbiterInv, NoneBeforeDrive, Early
<1>. QED
  BY <1>1, <1>2, ConcludeWalks DEF RunInv, Owning, Terminal

\* What the invariant says of a turn that walks on.
LEMMA StillHas ==
  ASSUME RunInv, NEW p \in Tasks
  PROVE  /\ KindsInv /\ PhaseInv
         /\ task[p].pc = "finish" => ~Running(p) \/ task[p].status = "interrupted"
         /\ task[p].pc \in WithThread => task[p].thread \in threads
  BY DEF RunInv, OpenInv, ThreadInv, WithThread

LEMMA OwnerStopsWalks == ASSUME RunInv, NEW p \in Tasks, OwnerStops(p) PROVE Walks(p)
<1>1. /\ Running(p) /\ task' = [task EXCEPT ![p].turn = "stopping"]
      /\ UNCHANGED <<markers, world, store, process, requests>>
  BY DEF OwnerStops, Running, Live
<1>2. "stopping" \in Turns /\ "stopping" \in Live
  BY DEF Turns, Live
<1>. QED
  BY <1>1, <1>2, StillHas, TurnWalks

LEMMA DeadlineWalks == ASSUME RunInv, NEW p \in Tasks, Deadline(p) PROVE Walks(p)
<1>1. /\ Running(p) /\ task' = [task EXCEPT ![p].pc = "overdue", ![p].turn = "stopping"]
      /\ task[p].pc = "wait" /\ UNCHANGED <<markers, world, store, process, requests>>
  <2>1. task[p] \in TaskSet /\ task \in [Tasks -> TaskSet]
    BY DEF RunInv, KindsInv
  <2>. QED
    BY <2>1 DEF Deadline, Running, TaskSet
<1>2. "stopping" \in Turns /\ "stopping" \in Live
  BY DEF Turns, Live
<1>. QED
  BY <1>1, <1>2, StillHas, WaitWalks

LEMMA CollectsWalks == ASSUME RunInv, RowsInv, NEW p \in Tasks, Collects(p) PROVE Walks(p)
<1>1. /\ task[p].pc \in {"wait", "overdue"} /\ ~Running(p)
      /\ UNCHANGED <<markers, world, store, process, requests>>
  BY DEF Collects, Running
<1>2. PICK status \in {"timed_out", "ok", "interrupted", "error"} : Conclude(p, status)
  BY DEF Collects, RowsInv, TaskEnds, Waiting
<1>3. status \in Terminal
  BY DEF Terminal
<1>4. task[p].pc \in Owning
  BY <1>1 DEF Owning
<1>. QED
  BY <1>1, <1>2, <1>3, <1>4, StillHas, ConcludeWalks

LEMMA GraceEndsWalks == ASSUME RunInv, NEW p \in Tasks, GraceEnds(p) PROVE Walks(p)
<1>1. /\ task[p].pc \in Owning /\ "interrupted" \in Terminal /\ Conclude(p, "interrupted")
      /\ UNCHANGED <<markers, world, store, process, requests>>
  BY DEF GraceEnds, Owning, Terminal
<1>. QED
  BY <1>1, StillHas, ConcludeWalks

LEMMA CancelLandsMoves ==
  ASSUME RunInv, NEW p \in Tasks, CancelLands(p) PROVE Walks(p) \/ Rests(p)
<1>1. /\ task[p].cancelled /\ KindsInv
      /\ UNCHANGED <<world, store, process, requests>>
      /\ UNCHANGED <<now, store, process, requests>>
  BY DEF CancelLands, RunInv, world
<1>2. CASE /\ task[p].pc \in {"sleep", "scan", "next", "closed", "prune", "commit"}
           /\ End(p) /\ markers' = markers \ Marks(task[p].marks, "prune")
  BY <1>1, <1>2, EndRests DEF Owning, Rests
<1>3. CASE task[p].pc = "created" /\ End(p) /\ UNCHANGED markers
  <2>1. phase \in {"manual", "closing"}
    BY <1>1, <1>3 DEF RunInv, PhaseInv, PhaseOf
  <2>2. markers' = markers \ Marks(task[p].marks, "prune")
    BY <1>3, Unmarked
  <2>. QED
    BY <1>1, <1>3, <2>1, <2>2, EndRests DEF Rests
<1>4. CASE /\ task[p].pc \in {"claimed", "resolve", "adopt", "record", "drive"}
           /\ Conclude(p, "interrupted") /\ UNCHANGED markers
  BY <1>1, <1>4, StillHas, ConcludeWalks DEF Owning, Terminal
<1>5. CASE /\ task[p].pc \in {"wait", "overdue"} /\ UNCHANGED markers
           /\ task' = [task EXCEPT ![p].pc = "grace", ![p].turn =
                 IF task[p].turn = "live" THEN "stopping" ELSE task[p].turn]
  <2>. DEFINE turn == IF task[p].turn = "live" THEN "stopping" ELSE task[p].turn
  <2>1. task[p].turn \in Turns
    BY <1>1 DEF KindsInv, TaskSet
  <2>2. turn \in Turns /\ (turn \in Live <=> Running(p))
    BY <2>1 DEF Turns, Live, Running
  <2>3. task' = [task EXCEPT ![p].pc = "grace", ![p].turn = turn]
    BY <1>5
  <2>. HIDE DEF turn
  <2>. QED
    BY <1>1, <1>5, <2>2, <2>3, StillHas, WaitWalks
<1>. QED
  BY <1>2, <1>3, <1>4, <1>5 DEF CancelLands

LEMMA ClaimDeclinesRests == ASSUME RunInv, NEW p \in Tasks, ClaimDeclines(p) PROVE Rests(p)
<1>1. /\ task[p].pc = "claiming" /\ MoveOn(p) /\ UNCHANGED markers
      /\ UNCHANGED <<now, store, process, requests>>
  BY DEF ClaimDeclines, world
<1>2. markers' = markers \ Marks(task[p].marks, "prune")
  BY <1>1, Unmarked
<1>. QED
  BY <1>1, <1>2, MoveOnRests DEF Owning, Rests

LEMMA PruneReadsRests ==
  ASSUME RunInv, NEW p \in Tasks, PruneReads(p), MoveOn(p) PROVE Rests(p)
<1>1. /\ task[p].pc = "closed" /\ UNCHANGED markers /\ UNCHANGED <<now, store, process, requests>>
  BY DEF PruneReads, world
<1>2. markers' = markers \ Marks(task[p].marks, "prune")
  BY <1>1, Unmarked
<1>. QED
  BY <1>1, <1>2, MoveOnRests DEF Owning, Rests

LEMMA PruneReleasesRests == ASSUME RunInv, NEW p \in Tasks, PruneReleases(p) PROVE Rests(p)
<1>1. /\ task[p].pc = "committed" /\ MoveOn(p)
      /\ markers' = markers \ Marks(task[p].marks, "prune")
      /\ UNCHANGED <<now, store, process, requests>>
  BY DEF PruneReleases, world
<1>. QED
  BY <1>1, MoveOnRests DEF Owning, Rests

\* A row somebody has closed already is left to him.
LEMMA FinalizeWalks ==
  ASSUME RunInv, NEW p \in Tasks, Finalize(p), runs[task[p].run].status # "running"
  PROVE  Walks(p)
<1>. DEFINE u == task[p]
            t == [u EXCEPT !.pc = "closed"]
<1>1. /\ task' = [task EXCEPT ![p] = t] /\ u.pc = "finish"
      /\ UNCHANGED <<markers, world, store, process, requests>>
  BY DEF Finalize, Go, store
<1>2. u \in TaskSet
  BY DEF RunInv, KindsInv
<1>3. /\ t \in TaskSet /\ t.pc = "closed"
      /\ t.auto = u.auto /\ t.run = u.run /\ t.thread = u.thread /\ t.marks = u.marks
      /\ t.drop = u.drop /\ t.moment = u.moment /\ t.turn = u.turn
  BY <1>2 DEF TaskSet, Points
<1>. HIDE DEF t
<1>4. PhaseOf(p, t)
  BY <1>1, <1>3 DEF PhaseOf, RunInv, PhaseInv
<1>5. Walk(p, t)
  BY <1>1, <1>3, <1>4 DEF Walk, Owning, Engaged, WithRow, Points, Fresh, WithThread
<1>. QED
  BY <1>1, <1>3, <1>5 DEF Walks

\* Retention goes for the terminal rows.
LEMMA PruneReadsWalks ==
  ASSUME RunInv, NEW p \in Tasks, PruneReads(p), ~MoveOn(p) PROVE Walks(p)
<1>. DEFINE u == task[p]
            drop == Excess(u.auto)
            t == [u EXCEPT !.pc = "prune", !.drop = drop]
<1>1. /\ task' = [task EXCEPT ![p] = t] /\ u.pc = "closed"
      /\ UNCHANGED <<markers, world, store, process, requests>>
  BY DEF PruneReads
<1>2. u \in TaskSet
  BY DEF RunInv, KindsInv
<1>3. drop \subseteq {r \in DOMAIN runs : runs[r].status # "running"} /\ drop \in SUBSET Nat
  <2>1. DOMAIN runs \subseteq Nat
    BY RowsKind DEF RunInv
  <2>2. drop \subseteq {r \in DOMAIN runs : runs[r].status # "running"}
    BY DEF Excess, RunsOf
  <2>. QED
    BY <2>1, <2>2
<1>. HIDE DEF drop
<1>4. /\ t \in TaskSet /\ t.pc = "prune" /\ t.drop = drop
      /\ t.auto = u.auto /\ t.run = u.run /\ t.thread = u.thread /\ t.marks = u.marks
      /\ t.moment = u.moment /\ t.turn = u.turn
  BY <1>2, <1>3 DEF TaskSet, Points
<1>. HIDE DEF t
<1>5. PhaseOf(p, t)
  BY <1>1, <1>4 DEF PhaseOf, RunInv, PhaseInv
<1>6. Walk(p, t)
  BY <1>1, <1>3, <1>4, <1>5 DEF Walk, Owning, Engaged, WithRow, Points, Fresh, WithThread
<1>. QED
  BY <1>1, <1>4, <1>6 DEF Walks

-----------------------------------------------------------------------------
(* What most steps leave the tasks with, and what each part of the           *)
(* invariant asks of them                                                    *)

\* The task has what it had, or less.
Kept(q) ==
    /\ task'[q].pc \in Engaged => task'[q].auto \in Autos
    /\ task'[q].pc \in WithRow =>
           /\ task[q].pc \in WithRow /\ task'[q].auto = task[q].auto
           /\ task'[q].run = task[q].run /\ task'[q].thread = task[q].thread
    /\ task'[q].run \in {0, task[q].run} /\ task'[q].thread \in {0, task[q].thread}
    /\ task'[q].marks \subseteq task[q].marks
    /\ task'[q].marks # {} => task'[q].pc \in {"commit", "committed"}
    /\ Running(q)' => Running(q) /\ task'[q].thread = task[q].thread
    /\ task'[q].pc = "commit" => task[q].pc = "commit"
    /\ task'[q].pc = "claiming" => task'[q].moment <= now
    /\ task'[q].drop \subseteq {r \in DOMAIN runs : runs[r].status # "running"}
    /\ task'[q].pc \in Owning => task[q].pc \in Owning
    /\ task'[q].pc \in Fresh => task[q].pc \in Fresh
    /\ task'[q].pc = "adopt" => task[q].pc = "adopt"
    /\ task'[q].pc \in WithThread => task[q].thread \in threads
    /\ Running(q)' /\ task'[q].pc = "finish" => task'[q].status = "interrupted"
KeptAll == \A q \in Tasks : Kept(q)

LEMMA StillKept ==
  ASSUME RunInv, NEW q \in Tasks, task'[q] = task[q] PROVE Kept(q)
<1>1. KnownTask(q) /\ task[q] \in TaskSet
  BY DEF RunInv, KnownInv, KindsInv
<1>2. /\ task[q].drop \subseteq {r \in DOMAIN runs : runs[r].status # "running"}
      /\ Running(q) /\ task[q].pc = "finish" => task[q].status = "interrupted"
      /\ task[q].pc = "claiming" => task[q].moment <= now
      /\ task[q].pc \in WithThread => task[q].thread \in threads
  BY <1>1 DEF RunInv, OpenInv, SlotInv, ThreadInv, KnownTask, WithThread
<1>3. Running(q)' <=> Running(q)
  BY DEF Running
<1>. QED
  BY <1>1, <1>2, <1>3 DEF Kept, KnownTask

\* What a walk and a rest leave.
Untouched(p) == \A q \in Tasks \ {p} : task'[q] = task[q]

LEMMA WalkKept ==
  ASSUME RunInv, NEW p \in Tasks, Walks(p)
  PROVE  /\ task' \in [Tasks -> TaskSet] /\ PhaseInv' /\ KeptAll
         /\ \A q \in Tasks : /\ task'[q].marks = task[q].marks
                             /\ task[q].pc \in Owning => \/ task'[q].pc \in Owning
                                                         \/ runs[task[q].run].status # "running"
<1>1. PICK t \in TaskSet : task' = [task EXCEPT ![p] = t] /\ Walk(p, t)
  BY DEF Walks
<1>2. UNCHANGED phase
  BY DEF Walks, process
<1>3. /\ task' \in [Tasks -> TaskSet] /\ task'[p] = t /\ task[p] \in TaskSet
      /\ Untouched(p)
  BY <1>1, Becomes DEF RunInv, KindsInv, Untouched
<1>4. Kept(p)
  <2>1. KnownTask(p)
    BY DEF RunInv, KnownInv
  <2>2. task[p].drop \subseteq {r \in DOMAIN runs : runs[r].status # "running"}
    BY <2>1 DEF RunInv, OpenInv, KnownTask
  <2>3. task[p].pc = "claiming" => task[p].moment <= now
    BY DEF RunInv, SlotInv
  <2>4. t.pc = "claiming" => task[p].pc = "claiming"
    BY <1>1, <1>3 DEF Walk, Engaged, WithRow, Points, Owning
  <2>5. Running(p)' <=> Running(p)
    BY <1>1, <1>3 DEF Walk, Running
  <2>. QED
    BY <1>1, <1>3, <2>1, <2>2, <2>3, <2>4, <2>5 DEF Kept, Walk, KnownTask, Running
<1>5. KeptAll
  BY <1>3, <1>4, StillKept DEF KeptAll, Untouched
<1>6. PhaseInv'
  <2>1. ASSUME NEW q \in Tasks PROVE PhaseOf(q, task[q])'
    <3>1. PhaseOf(q, task[q]) /\ UNCHANGED phase
      BY <1>2 DEF RunInv, PhaseInv
    <3>2. task'[q] = task[q] \/ (q = p /\ task'[q] = t)
      BY <1>3 DEF Untouched
    <3>. QED
      BY <1>1, <3>1, <3>2 DEF PhaseOf, Walk
  <2>. QED
    BY <2>1 DEF PhaseInv
<1>. QED
  BY <1>1, <1>3, <1>5, <1>6 DEF Walk, Untouched

LEMMA RestKept ==
  ASSUME RunInv, NEW p \in Tasks, Resting(p), UNCHANGED phase
  PROVE  /\ task' \in [Tasks -> TaskSet] /\ PhaseInv' /\ KeptAll
         /\ \A q \in Tasks :
               /\ task'[q].marks = IF q = p THEN {} ELSE task[q].marks
               /\ task[q].pc \in Owning => \/ task'[q].pc \in Owning
                                           \/ phase \in {"manual", "closing"}
<1>1. PICK t \in TaskSet : task' = [task EXCEPT ![p] = t] /\ Rest(p, t)
  BY DEF Resting
<1>2. UNCHANGED phase /\ now \in Nat
  BY DEF RunInv, KindsInv
<1>3. /\ task' \in [Tasks -> TaskSet] /\ task'[p] = t /\ task[p] \in TaskSet
      /\ Untouched(p)
  BY <1>1, Becomes DEF RunInv, KindsInv, Untouched
<1>4. Kept(p)
  <2>1. t.pc \notin WithRow \cup Owning \cup Fresh \cup WithThread \cup {"finish", "commit"}
    BY <1>1 DEF Rest, Engaged, WithRow, Owning, Points, Fresh, WithThread
  <2>2. t.pc \in Engaged => t.pc = "claiming"
    BY <1>1 DEF Rest, Engaged
  <2>. QED
    BY <1>1, <1>2, <1>3, <2>1, <2>2 DEF Kept, Rest, Running, Fresh
<1>5. KeptAll
  BY <1>3, <1>4, StillKept DEF KeptAll, Untouched
<1>6. PhaseInv'
  <2>1. ASSUME NEW q \in Tasks PROVE PhaseOf(q, task[q])'
    <3>1. PhaseOf(q, task[q]) /\ UNCHANGED phase
      BY <1>2 DEF RunInv, PhaseInv
    <3>2. task'[q] = task[q] \/ (q = p /\ task'[q] = t)
      BY <1>3 DEF Untouched
    <3>. QED
      BY <1>1, <3>1, <3>2 DEF PhaseOf, Rest
  <2>. QED
    BY <2>1 DEF PhaseInv
<1>. QED
  BY <1>1, <1>3, <1>5, <1>6 DEF Rest, Untouched

\* The rows stay, of the automation they were of; those that stay are as they were in
\* slot; none opens.
RowsStay == \A r \in DOMAIN runs : r \in DOMAIN runs' /\ runs'[r].auto = runs[r].auto
RowsKept ==
    /\ DOMAIN runs' = DOMAIN runs
    /\ \A r \in DOMAIN runs : /\ runs'[r].auto = runs[r].auto /\ runs'[r].slot = runs[r].slot
                              /\ runs'[r].status = "running" => runs[r].status = "running"

LEMMA OfStays == ASSUME RowsStay, NEW t, NEW a, Of(t, a) PROVE t \in DOMAIN runs' /\ runs'[t].auto = a
  BY DEF RowsStay, Of

LEMMA KeptTaskKnown ==
  ASSUME RunInv, RowsStay, NEW q \in Tasks, Kept(q) PROVE KnownTask(q)'
<1>1. KnownTask(q) /\ Kept(q)
  BY DEF RunInv, KnownInv
<1>2. DOMAIN runs \subseteq DOMAIN runs'
  BY DEF RowsStay
<1>3. task'[q].pc \in WithRow =>
         /\ task'[q].run \in DOMAIN runs' /\ runs'[task'[q].run].auto = task'[q].auto
         /\ task'[q].thread # 0 =>
              task'[q].thread \in DOMAIN runs' /\ runs'[task'[q].thread].auto = task'[q].auto
  BY <1>1, OfStays DEF Kept, KnownTask
<1>. QED
  BY <1>1, <1>2, <1>3 DEF Kept, KnownTask, Of

LEMMA KeptKnown == ASSUME RunInv, RowsStay, KeptAll PROVE \A q \in Tasks : KnownTask(q)'
  BY KeptTaskKnown DEF KeptAll

LEMMA OpGoesOn ==
  ASSUME RunInv, RowsKept, UNCHANGED <<op, phase>>,
         op.stage = "body" =>
            /\ \A q \in Tasks : task'[q].pc # "commit"
            /\ autos'[op.auto].life = autos[op.auto].life
            /\ autos'[op.auto].usable = autos[op.auto].usable
            /\ autos'[op.auto].mode = autos[op.auto].mode
            /\ autos'[op.auto].thread = autos[op.auto].thread
  PROVE  OpInv'
<1>1. (Open \cap RunsOf(op.auto))' \subseteq Open \cap RunsOf(op.auto)
  BY DEF Open, RunsOf, RowsKept
<1>. QED
  BY <1>1 DEF RunInv, OpInv

LEMMA KeptOp ==
  ASSUME RunInv, KeptAll, RowsKept, UNCHANGED <<op, phase>>,
         op.stage = "body" =>
            /\ autos'[op.auto].life = autos[op.auto].life
            /\ autos'[op.auto].usable = autos[op.auto].usable
            /\ autos'[op.auto].mode = autos[op.auto].mode
            /\ autos'[op.auto].thread = autos[op.auto].thread
  PROVE  OpInv'
<1>1. op.stage = "body" => \A q \in Tasks : task'[q].pc # "commit"
  BY DEF KeptAll, Kept, RunInv, OpInv
<1>. QED
  BY <1>1, OpGoesOn

\* The task keeps its row, or has none.
KeepsRow(q) ==
    /\ task'[q].pc \in Owning => /\ task[q].pc \in Owning /\ task'[q].run = task[q].run
                                  /\ task'[q].auto = task[q].auto
    /\ task'[q].run \in {0, task[q].run}
    /\ Running(q)' => Running(q) \/ task'[q].pc \in Owning
    /\ Running(q)' /\ task'[q].pc = "finish" => task'[q].status = "interrupted"
    /\ task'[q].drop \subseteq {r \in DOMAIN runs : runs[r].status # "running"}

LEMMA RunsGoOn ==
  ASSUME RunInv, \A q \in Tasks : KeepsRow(q), RowsKept, UNCHANGED <<phase, todo>>,
         \A r \in DOMAIN runs : \/ runs'[r].status = runs[r].status
                                \/ runs[r].status # "running" /\ runs'[r].status = "gone",
         \A q \in Tasks :
            /\ task'[q].pc \in Owning => /\ runs'[task[q].run].status = runs[task[q].run].status
                                         /\ autos'[task[q].auto].life = "stored"
            /\ task[q].pc \in Owning => \/ task'[q].pc \in Owning
                                        \/ runs[task[q].run].status # "running"
                                        \/ phase \in {"manual", "closing"}
  PROVE  OpenInv'
<1>1. Open' \subseteq Open /\ DOMAIN runs' = DOMAIN runs
  BY DEF Open, RowsKept
<1>2. EveryRunOwned'
  <2>1. ASSUME NEW r \in Open'
        PROVE  \/ \E q \in Tasks : task'[q].run = r /\ task'[q].pc \in Owning
               \/ r \in todo' \/ phase' \in {"crashed", "manual"}
    <3>1. r \in Open /\ runs[r].status = "running"
      BY <1>1 DEF Open
    <3>2. CASE \E q \in Tasks : task[q].run = r /\ task[q].pc \in Owning
      <4>1. PICK q \in Tasks : task[q].run = r /\ task[q].pc \in Owning
        BY <3>2
      <4>2. CASE task'[q].pc \in Owning
        <5>1. task'[q].run = r
          BY <4>1, <4>2 DEF KeepsRow
        <5>. QED
          BY <4>2, <5>1
      <4>3. CASE phase \in {"manual", "closing"}
        BY <3>1, <4>3 DEF RunInv, OpenInv
      <4>. QED
        BY <3>1, <4>1, <4>2, <4>3
    <3>. QED
      BY <3>1, <3>2 DEF RunInv, OpenInv, EveryRunOwned
  <2>. QED
    BY <2>1 DEF EveryRunOwned
<1>3. \A q \in Tasks : KeepsRow(q) /\ task[q].run \in {0} \cup DOMAIN runs
  BY DEF RunInv, KnownInv, KnownTask
<1>4. NoGhostRuns'
  BY <1>3 DEF NoGhostRuns, KeepsRow
<1>5. \A q \in Tasks :
        /\ task'[q].pc \in Owning => runs'[task'[q].run].status \in {"running", "interrupted"}
        /\ task'[q].pc \in Owning /\ phase' # "closing" => runs'[task'[q].run].status = "running"
        /\ \A r \in task'[q].drop : runs'[r].status # "running"
  BY <1>3 DEF RunInv, OpenInv, RowsKept, KeepsRow
<1>6. ASSUME NEW q \in Tasks, Running(q)', task'[q].run # 0
      PROVE  runs'[task'[q].run].status \in {"running", "interrupted", "gone"}
  <2>1. CASE task'[q].pc \in Owning
    BY <1>5, <2>1
  <2>2. CASE Running(q)
    <3>1. task'[q].run = task[q].run /\ task[q].run \in DOMAIN runs
      BY <1>3, <1>6 DEF KeepsRow
    <3>2. runs[task[q].run].status \in {"running", "interrupted", "gone"}
      BY <1>6, <2>2, <3>1 DEF RunInv, OpenInv
    <3>. QED
      BY <3>1, <3>2
  <2>. QED
    BY <1>3, <1>6, <2>1, <2>2 DEF KeepsRow
<1>7. \A p, q \in Tasks : task'[p].run = task'[q].run /\ task'[p].run # 0 => p = q
  BY <1>3 DEF RunInv, OpenInv, KeepsRow
<1>8. phase' \in {"closing", "down", "boot"} => Open' \subseteq todo'
  BY <1>1 DEF RunInv, OpenInv
<1>. QED
  BY <1>2, <1>3, <1>4, <1>5, <1>6, <1>7, <1>8 DEF OpenInv, KeepsRow

LEMMA KeptOpen ==
  ASSUME RunInv, KeptAll, RowsKept, UNCHANGED <<phase, todo>>,
         \A r \in DOMAIN runs : \/ runs'[r].status = runs[r].status
                                \/ runs[r].status # "running" /\ runs'[r].status = "gone",
         \A q \in Tasks :
            /\ task'[q].pc \in Owning => /\ runs'[task[q].run].status = runs[task[q].run].status
                                         /\ autos'[task[q].auto].life = "stored"
            /\ task[q].pc \in Owning => \/ task'[q].pc \in Owning
                                        \/ runs[task[q].run].status # "running"
                                        \/ phase \in {"manual", "closing"}
  PROVE  OpenInv'
<1>1. \A q \in Tasks : KeepsRow(q)
  BY DEF KeptAll, Kept, KeepsRow, Owning, WithRow, Engaged, Points
<1>. QED
  BY <1>1, RunsGoOn

LEMMA KeptSlots ==
  ASSUME RunInv, RowsKept, UNCHANGED now,
         \A a \in Autos : /\ autos'[a].next = autos[a].next /\ autos'[a].usable = autos[a].usable
                          /\ autos'[a].life = "unborn" => autos[a].life = "unborn",
         \A q \in Tasks : task'[q].pc = "claiming" => task'[q].moment <= now,
         op'.stage = "body" /\ op'.row # None => op' = op
  PROVE  SlotInv'
<1>1. \A a, n : Slots(a, n) => Slots(a, n)'
  BY DEF Slots, RowsKept
<1>2. Unusable' = Unusable
  BY DEF Unusable
<1>3. SlotOnce'
  <2>1. \A r \in DOMAIN runs : runs'[r].auto = runs[r].auto /\ runs'[r].slot = runs[r].slot
    BY DEF RowsKept
  <2>. QED
    BY <1>2, <2>1 DEF RunInv, SlotInv, SlotOnce, RowsKept
<1>. QED
  BY <1>1, <1>2, <1>3 DEF RunInv, SlotInv

LEMMA KeptMarkers ==
  ASSUME RunInv, KeptAll, NEW gone, markers \ gone \subseteq markers',
         \A q \in Tasks :
            /\ Running(q)' => [thread |-> task'[q].thread, kind |-> "automation"] \notin gone
            /\ Marks(task'[q].marks, "prune") \cap gone = {},
         op'.marks \subseteq op.marks, Marks(op'.marks, "prune") \cap gone = {},
         chat'.pc # "idle" =>
            /\ chat.pc # "idle" /\ chat'.thread = chat.thread
            /\ [thread |-> chat'.thread, kind |-> "chat"] \notin gone
  PROVE  MarkerInv'
<1>1. ASSUME NEW q \in Tasks
      PROVE  /\ Running(q)' => Marks({task'[q].thread}, "automation") \subseteq markers'
             /\ Marks(task'[q].marks, "prune") \subseteq markers'
  <2>1. /\ Running(q)' => Running(q) /\ task'[q].thread = task[q].thread
        /\ task'[q].marks \subseteq task[q].marks
    BY DEF KeptAll, Kept
  <2>2. Running(q)' => Marks({task'[q].thread}, "automation") \subseteq markers'
    BY <2>1 DEF RunInv, MarkerInv, Marks
  <2>3. Marks(task'[q].marks, "prune") \subseteq markers'
    BY <2>1 DEF RunInv, MarkerInv, Marks
  <2>. QED
    BY <2>2, <2>3
<1>2. Marks(op'.marks, "prune") \subseteq markers'
  BY DEF RunInv, MarkerInv, Marks
<1>3. chat'.pc # "idle" => Marks({chat'.thread}, "chat") \subseteq markers'
  BY DEF RunInv, MarkerInv, Marks
<1>. QED
  BY <1>1, <1>2, <1>3 DEF MarkerInv, Marks

LEMMA KeptApart ==
  ASSUME RunInv, KeptAll, op'.marks \subseteq op.marks,
         chat'.pc # "idle" => chat.pc # "idle" /\ chat'.thread = chat.thread
  PROVE  Apart'
<1>1. \A q \in Tasks : /\ Running(q)' => Running(q) /\ task'[q].thread = task[q].thread
                       /\ task'[q].marks \subseteq task[q].marks
  BY DEF KeptAll, Kept
<1>. QED
  BY <1>1 DEF RunInv, Apart

\* The threads the tasks, the rows and the definitions know of.
LEMMA LeftThreads ==
  ASSUME RunInv, KeptAll,
         DOMAIN runs' = DOMAIN runs, \A r \in DOMAIN runs : runs'[r].thread = runs[r].thread,
         \A a \in Autos : autos'[a].thread \in {0, autos[a].thread},
         \A t \in threads' : RollingOwned(t)' => RollingOwned(t),
         chat'.pc # "idle" => chat.pc # "idle" /\ chat'.thread = chat.thread,
         chat'.pc \in {"turn", "stopping"} =>
             chat.pc \in {"turn", "stopping"} /\ chat.thread \in threads',
         \A q \in Tasks : Running(q)' \/ task'[q].pc \in WithThread => task'[q].thread \in threads'
  PROVE  ThreadInv'
<1>1. ASSUME NEW q \in Tasks
      PROVE  /\ task'[q].pc \in Fresh => task[q].pc \in Fresh /\ task'[q].run = task[q].run
             /\ task'[q].pc \in WithThread => task'[q].thread = task[q].thread
             /\ task'[q].pc = "adopt" => task[q].pc = "adopt" /\ task'[q].run = task[q].run
             /\ task'[q].pc \in Fresh => task[q].run # 0
  <2>1. Kept(q) /\ KnownTask(q)
    BY DEF KeptAll, RunInv, KnownInv
  <2>2. /\ task'[q].pc \in Fresh \cup WithThread => task'[q].pc \in WithRow
        /\ task[q].pc \in Fresh => task[q].pc \in WithRow
    BY DEF Fresh, WithThread, WithRow, Engaged, Points, Owning
  <2>3. 0 \notin DOMAIN runs
    BY RowsKind DEF RunInv
  <2>. QED
    BY <2>1, <2>2, <2>3 DEF Kept, KnownTask, Of, Fresh, WithThread
<1>2. TurnsKeepTheirThread'
  BY DEF RunInv, ThreadInv, TurnsKeepTheirThread, Running
<1>3. ASSUME NEW q \in Tasks, task'[q].pc \in Fresh
      PROVE  /\ \A r \in DOMAIN runs' : runs'[r].thread # task'[q].run
             /\ \A a \in Autos : autos'[a].thread # task'[q].run
             /\ chat'.pc # "idle" => chat'.thread # task'[q].run
  BY <1>1, <1>3 DEF RunInv, ThreadInv, Fresh
<1>. QED
  BY <1>1, <1>2, <1>3 DEF ThreadInv, RunInv, Fresh, WithThread

LEMMA KeptThreads ==
  ASSUME RunInv, KeptAll, threads \subseteq threads',
         DOMAIN runs' = DOMAIN runs, \A r \in DOMAIN runs : runs'[r].thread = runs[r].thread,
         \A a \in Autos : autos'[a].thread \in {0, autos[a].thread},
         \A t \in threads' : RollingOwned(t)' => RollingOwned(t),
         chat'.pc # "idle" => chat.pc # "idle" /\ chat'.thread = chat.thread,
         chat'.pc \in {"turn", "stopping"} => chat.pc \in {"turn", "stopping"}
  PROVE  ThreadInv'
<1>1. ASSUME NEW q \in Tasks, Running(q)' \/ task'[q].pc \in WithThread
      PROVE  task'[q].thread \in threads'
  <2>1. Kept(q)
    BY DEF KeptAll
  <2>2. task'[q].pc \in WithThread => task'[q].pc \in WithRow
    BY DEF WithThread, WithRow, Engaged, Points, Owning
  <2>. QED
    BY <1>1, <2>1, <2>2 DEF Kept, RunInv, ThreadInv, TurnsKeepTheirThread, Running
<1>2. chat'.pc \in {"turn", "stopping"} => chat.thread \in threads'
  BY DEF RunInv, ThreadInv, TurnsKeepTheirThread
<1>. QED
  BY <1>1, <1>2, LeftThreads

LEMMA SameRowsKept == ASSUME UNCHANGED runs PROVE RowsKept /\ RowsStay
  BY DEF RowsKept, RowsStay

LEMMA GrownMarkers ==
  ASSUME RunInv, KeptAll, markers \subseteq markers', op'.marks \subseteq op.marks,
         chat'.pc # "idle" => chat.pc # "idle" /\ chat'.thread = chat.thread
  PROVE  MarkerInv'
<1>. DEFINE gone == {}
<1>1. /\ markers \ gone \subseteq markers' /\ Marks(op'.marks, "prune") \cap gone = {}
      /\ \A q \in Tasks : Marks(task'[q].marks, "prune") \cap gone = {}
      /\ \A m : m \notin gone
  OBVIOUS
<1>. HIDE DEF gone
<1>. QED
  BY <1>1, KeptMarkers

LEMMA WalkKeeps == ASSUME RunInv, NEW p \in Tasks, Walks(p) PROVE RunInv'
<1>0. /\ task' \in [Tasks -> TaskSet] /\ PhaseInv' /\ KeptAll
      /\ \A q \in Tasks : /\ task'[q].marks = task[q].marks
                          /\ task[q].pc \in Owning => \/ task'[q].pc \in Owning
                                                      \/ runs[task[q].run].status # "running"
  BY WalkKept
<1>1. UNCHANGED <<markers, now, autos, runs, threads, phase, todo, op, chat>>
  BY DEF Walks, world, store, process, requests
<1>2. RowsKept /\ RowsStay
  BY <1>1, SameRowsKept
<1>3. KindsInv'
  BY <1>0, <1>1 DEF RunInv, KindsInv
<1>4. KnownInv'
  BY <1>0, <1>1, <1>2, KeptKnown DEF RunInv, KnownInv, Of
<1>5. OpInv'
  BY <1>0, <1>1, <1>2, KeptOp
<1>6. OpenInv'
  <2>1. \A q \in Tasks : task'[q].pc \in Owning =>
           autos[task[q].auto].life = "stored"
    BY <1>0 DEF RunInv, OpenInv, NoGhostRuns, KeptAll, Kept
  <2>. QED
    BY <1>0, <1>1, <1>2, <2>1, KeptOpen
<1>7. SlotInv'
  BY <1>0, <1>1, <1>2, KeptSlots DEF KeptAll, Kept
<1>8. MarkerInv'
  BY <1>0, <1>1, GrownMarkers
<1>9. Apart' /\ ThreadInv'
  BY <1>0, <1>1, KeptApart, KeptThreads DEF RollingOwned
<1>. QED
  BY <1>0, <1>3, <1>4, <1>5, <1>6, <1>7, <1>8, <1>9 DEF RunInv

\* Only one task has marks.
LEMMA OneMarks ==
  ASSUME RunInv, ArbiterInv, NEW p \in Tasks, NEW q \in Tasks, task[p].marks # {}, task[q].marks # {}
  PROVE  p = q
  BY DEF RunInv, KnownInv, KnownTask, ArbiterInv, BusyHoldsArbiter, Busy

LEMMA RestKeeps == ASSUME RunInv, ArbiterInv, NEW p \in Tasks, Rests(p) PROVE RunInv'
<1>0. /\ task' \in [Tasks -> TaskSet] /\ PhaseInv' /\ KeptAll
      /\ \A q \in Tasks : /\ task'[q].marks = IF q = p THEN {} ELSE task[q].marks
                          /\ task[q].pc \in Owning => \/ task'[q].pc \in Owning
                                                      \/ phase \in {"manual", "closing"}
  BY RestKept DEF Rests, process
<1>1. /\ UNCHANGED <<now, autos, runs, threads, phase, todo, op, chat>>
      /\ markers' = markers \ Marks(task[p].marks, "prune")
  BY DEF Rests, store, process, requests
<1>2. RowsKept /\ RowsStay
  BY <1>1, SameRowsKept
<1>3. KindsInv'
  BY <1>0, <1>1 DEF RunInv, KindsInv
<1>4. KnownInv'
  BY <1>0, <1>1, <1>2, KeptKnown DEF RunInv, KnownInv, Of
<1>5. OpInv'
  BY <1>0, <1>1, <1>2, KeptOp
<1>6. OpenInv'
  <2>1. \A q \in Tasks : task'[q].pc \in Owning =>
           autos[task[q].auto].life = "stored"
    BY <1>0 DEF RunInv, OpenInv, NoGhostRuns, KeptAll, Kept
  <2>. QED
    BY <1>0, <1>1, <1>2, <2>1, KeptOpen
<1>7. SlotInv'
  BY <1>0, <1>1, <1>2, KeptSlots DEF KeptAll, Kept
<1>8. MarkerInv'
  <2>. DEFINE gone == Marks(task[p].marks, "prune")
  <2>1. \A q \in Tasks :
           /\ [thread |-> task'[q].thread, kind |-> "automation"] \notin gone
           /\ Marks(task'[q].marks, "prune") \cap gone = {}
    <3>1. \A q \in Tasks : task'[q].marks = {} \/ task[p].marks = {}
      BY <1>0, OneMarks
    <3>. QED
      BY <3>1 DEF Marks
  <2>2. Marks(op.marks, "prune") \cap gone = {}
    BY DEF RunInv, Apart, Marks
  <2>3. [thread |-> chat.thread, kind |-> "chat"] \notin gone
    BY DEF Marks
  <2>. HIDE DEF gone
  <2>4. markers \ gone \subseteq markers'
    BY <1>1 DEF gone
  <2>. QED
    BY <1>0, <1>1, <2>1, <2>2, <2>3, <2>4, KeptMarkers
<1>9. Apart' /\ ThreadInv'
  BY <1>0, <1>1, KeptApart, KeptThreads DEF RollingOwned
<1>. QED
  BY <1>0, <1>3, <1>4, <1>5, <1>6, <1>7, <1>8, <1>9 DEF RunInv

-----------------------------------------------------------------------------
(* The steps of a run that change more than the task *)

\* The task goes on, to a point after the one it was at.
LEMMA GoKept ==
  ASSUME RunInv, NEW p \in Tasks, NEW pc \in {"record", "drive", "audit", "closed", "committed"},
         Go(p, pc), UNCHANGED phase, task[p].pc \in WithRow,
         pc \in {"record", "drive"} => task[p].pc \in Owning /\ task[p].thread \in threads,
         pc = "committed" \/ task[p].pc \notin {"commit", "committed"}
  PROVE  /\ task' \in [Tasks -> TaskSet] /\ Untouched(p) /\ PhaseInv' /\ KeptAll
         /\ task'[p].pc = pc /\ task'[p].run = task[p].run /\ task'[p].auto = task[p].auto
         /\ task'[p].thread = task[p].thread /\ task'[p].turn = task[p].turn
         /\ pc \in {"record", "drive"} => \A q \in Tasks : task'[q].pc \in Owning <=> task[q].pc \in Owning
<1>. DEFINE u == task[p]
            t == [u EXCEPT !.pc = pc]
<1>1. KindsInv /\ u \in TaskSet /\ KnownTask(p)
  BY DEF RunInv, KindsInv, KnownInv
<1>2. task' = [task EXCEPT ![p] = t]
  BY DEF Go
<1>3. /\ t \in TaskSet /\ t.pc = pc
      /\ t.auto = u.auto /\ t.run = u.run /\ t.thread = u.thread /\ t.marks = u.marks
      /\ t.drop = u.drop /\ t.moment = u.moment /\ t.turn = u.turn /\ t.status = u.status
  BY <1>1 DEF TaskSet, Points, Owning
<1>. HIDE DEF t
<1>4. task' \in [Tasks -> TaskSet] /\ task'[p] = t /\ Untouched(p)
  BY <1>1, <1>2, <1>3, Becomes DEF Untouched
<1>5. /\ pc \in WithRow /\ pc \notin Fresh /\ pc \notin {"commit", "claiming", "finish"}
      /\ pc \in WithThread => pc \in {"record", "drive"}
      /\ pc \in Owning <=> pc \in {"record", "drive"}
      /\ u.pc \in Engaged /\ u.pc \notin {"off", "claiming"}
  BY DEF WithRow, Engaged, Points, Owning, Fresh, WithThread
<1>6. Kept(p)
  <2>1. u.drop \subseteq {r \in DOMAIN runs : runs[r].status # "running"}
    BY <1>1 DEF RunInv, OpenInv, KnownTask
  <2>2. u.marks # {} => pc \in {"commit", "committed"}
    <3>1. CASE pc = "committed"
      BY <3>1
    <3>2. CASE pc # "committed"
      <4>1. ASSUME u.marks # {} PROVE FALSE
        BY <1>1, <1>3, <3>2, <4>1 DEF KnownTask
      <4>. QED
        BY <4>1
    <3>. QED
      BY <3>1, <3>2
  <2>3. Running(p)' <=> Running(p)
    BY <1>3, <1>4 DEF Running
  <2>. QED
    BY <1>1, <1>3, <1>4, <1>5, <2>1, <2>2, <2>3 DEF Kept, KnownTask
<1>7. KeptAll
  BY <1>4, <1>6, StillKept DEF KeptAll, Untouched
<1>8. PhaseInv'
  <2>1. ASSUME NEW q \in Tasks PROVE PhaseOf(q, task[q])'
    <3>1. PhaseOf(q, task[q]) /\ PhaseOf(p, task[p]) /\ UNCHANGED phase
      BY DEF RunInv, PhaseInv
    <3>2. task'[q] = task[q] \/ (q = p /\ task'[q] = t)
      BY <1>4 DEF Untouched
    <3>. QED
      BY <1>3, <1>5, <3>1, <3>2 DEF PhaseOf
  <2>. QED
    BY <2>1 DEF PhaseInv
<1>. QED
  BY <1>3, <1>4, <1>5, <1>7, <1>8 DEF Untouched

LEMMA AdoptKeeps == ASSUME RunInv, ArbiterInv, NEW p \in Tasks, AdoptThread(p) PROVE RunInv'
<1>. DEFINE a == task[p].auto
            t == task[p].thread
<1>1. /\ task[p].pc = "adopt" /\ Unlocked /\ Go(p, "record")
      /\ autos' = [autos EXCEPT ![a].thread = t]
      /\ UNCHANGED <<now, markers, runs, threads, phase, todo, op, chat>>
  BY DEF AdoptThread, world, process, requests
<1>2. /\ KindsInv /\ a \in Autos /\ t \in threads /\ t = task[p].run /\ t \in Nat
      /\ t # 0 => Of(t, a)
      /\ task[p].pc \in WithRow /\ task[p].pc \in Owning
  <2>1. KnownTask(p) /\ KindsInv /\ task[p] \in TaskSet
    BY DEF RunInv, KnownInv, KindsInv
  <2>2. task[p].pc \in WithRow /\ task[p].pc \in Owning /\ task[p].pc \in Engaged
    BY <1>1 DEF WithRow, Engaged, Points, Owning
  <2>. QED
    BY <1>1, <2>1, <2>2 DEF KnownTask, RunInv, ThreadInv, TaskSet
<1>. HIDE DEF a, t
<1>3. /\ task' \in [Tasks -> TaskSet] /\ Untouched(p) /\ PhaseInv' /\ KeptAll
      /\ task'[p].pc = "record" /\ task'[p].thread = t
      /\ \A q \in Tasks : task'[q].pc \in Owning <=> task[q].pc \in Owning
  BY <1>1, <1>2, GoKept DEF t
<1>4. /\ autos' \in [Autos -> Definition]
      /\ \A b \in Autos : /\ autos'[b].life = autos[b].life /\ autos'[b].next = autos[b].next
                          /\ autos'[b].usable = autos[b].usable /\ autos'[b].mode = autos[b].mode
                          /\ autos'[b].thread = IF b = a THEN t ELSE autos[b].thread
  BY ZenonT(40), <1>1, <1>2 DEF KindsInv, Definition
<1>5. RowsKept /\ RowsStay
  BY <1>1, SameRowsKept
<1>6. KindsInv'
  BY <1>1, <1>3, <1>4 DEF RunInv, KindsInv
<1>7. KnownInv'
  BY <1>1, <1>2, <1>3, <1>4, <1>5, KeptKnown DEF RunInv, KnownInv, Of
<1>8. OpInv'
  BY <1>1, <1>3, <1>5, KeptOp DEF Unlocked
<1>9. OpenInv'
  <2>1. \A q \in Tasks : task'[q].pc \in Owning => autos'[task[q].auto].life = "stored"
    <3>1. ASSUME NEW q \in Tasks, task'[q].pc \in Owning PROVE autos'[task[q].auto].life = "stored"
      <4>1. task[q].pc \in Owning /\ task[q].auto \in Autos
        BY <1>3, <3>1 DEF RunInv, KnownInv, KnownTask, Owning, Engaged, Points
      <4>. QED
        BY <1>4, <4>1 DEF RunInv, OpenInv, NoGhostRuns
    <3>. QED
      BY <3>1
  <2>. QED
    BY <1>1, <1>3, <1>5, <2>1, KeptOpen
<1>10. SlotInv'
  BY <1>1, <1>3, <1>4, <1>5, KeptSlots DEF KeptAll, Kept
<1>11. MarkerInv' /\ Apart'
  BY <1>1, <1>3, GrownMarkers, KeptApart
<1>12. ThreadInv'
  <2>1. \A q \in Tasks : task'[q].pc \in Fresh => FALSE
    BY <1>1, <1>3 DEF ArbiterInv, BusyHoldsArbiter, Busy, Untouched, Fresh
  <2>2. \A q \in Tasks : task'[q].pc \in WithThread => task'[q].thread \in threads'
    BY <1>1, <1>2, <1>3 DEF RunInv, ThreadInv, Untouched, WithThread
  <2>3. \A q \in Tasks : task'[q].turn \in Live => task'[q].thread \in threads'
    BY <1>1, <1>3 DEF RunInv, ThreadInv, TurnsKeepTheirThread, KeptAll, Kept, Running
  <2>4. chat.pc # "idle" => chat.thread # t
    BY <1>1, <1>2 DEF RunInv, ThreadInv
  <2>5. chat.pc # "idle" /\ RollingOwned(chat.thread)' => RollingOwned(chat.thread)
    BY <1>1, <1>4, <2>4 DEF RollingOwned
  <2>6. TurnsKeepTheirThread'
    BY <1>1, <2>3, <2>5 DEF RunInv, ThreadInv, TurnsKeepTheirThread, RollingOwned
  <2>. QED
    BY <2>1, <2>2, <2>6 DEF ThreadInv, Fresh, WithThread
<1>. QED
  BY <1>3, <1>6, <1>7, <1>8, <1>9, <1>10, <1>11, <1>12 DEF RunInv

\* Rows of the kind in the places of rows.
LEMMA RowsReplaced ==
  ASSUME RunInv, DOMAIN runs' = DOMAIN runs, runs' = [r \in DOMAIN runs |-> runs'[r]],
         \A r \in DOMAIN runs : runs'[r] \in RowSet
  PROVE  runs' \in Seq(RowSet)
<1>1. Len(runs) \in Nat /\ DOMAIN runs = 1 .. Len(runs)
  BY RowsKind DEF RunInv
<1>2. runs' \in [1 .. Len(runs) -> RowSet]
  BY <1>1
<1>. HIDE DEF RowSet
<1>. QED
  BY <1>1, <1>2, SeqDef

\* One row is written.
LEMMA RowWritten ==
  ASSUME RunInv, NEW r \in DOMAIN runs, NEW row \in RowSet, runs' = [runs EXCEPT ![r] = row]
  PROVE  /\ runs' \in Seq(RowSet) /\ DOMAIN runs' = DOMAIN runs
         /\ runs'[r] = row /\ \A n \in DOMAIN runs : n # r => runs'[n] = runs[n]
<1>1. /\ DOMAIN runs' = DOMAIN runs /\ runs' = [n \in DOMAIN runs |-> runs'[n]]
      /\ runs'[r] = row /\ \A n \in DOMAIN runs : n # r => runs'[n] = runs[n]
  OBVIOUS
<1>2. \A n \in DOMAIN runs : runs[n] \in RowSet
  BY RowsKind DEF RunInv
<1>. HIDE DEF RowSet
<1>3. \A n \in DOMAIN runs : runs'[n] \in RowSet
  BY <1>1, <1>2
<1>. QED
  BY <1>1, <1>3, RowsReplaced

\* A task with a row: whose it is.
LEMMA HasRow ==
  ASSUME RunInv, NEW p \in Tasks, task[p].pc \in WithRow
  PROVE  /\ task[p].run \in DOMAIN runs /\ runs[task[p].run] \in RowSet /\ task[p].run # 0
         /\ runs[task[p].run].auto = task[p].auto /\ task[p].auto \in Autos
         /\ task[p].thread \in Nat
         /\ task[p].thread # 0 => Of(task[p].thread, task[p].auto)
<1>1. KnownTask(p) /\ KindsInv /\ task[p] \in TaskSet
  BY DEF RunInv, KnownInv, KindsInv
<1>2. task[p].run \in DOMAIN runs /\ runs[task[p].run].auto = task[p].auto
  BY <1>1 DEF KnownTask, Of
<1>3. runs[task[p].run] \in RowSet /\ task[p].run # 0
  BY <1>1, <1>2, RowsKind
<1>. QED
  BY <1>1, <1>2, <1>3 DEF KnownTask, WithRow, TaskSet

LEMMA RecordKeeps == ASSUME RunInv, ArbiterInv, NEW p \in Tasks, RecordThread(p) PROVE RunInv'
<1>. DEFINE own == task[p].run
            t == task[p].thread
            row == [runs[own] EXCEPT !.thread = t]
<1>1. /\ task[p].pc = "record" /\ Go(p, "drive")
      /\ runs' = [runs EXCEPT ![own] = row]
      /\ UNCHANGED <<now, autos, markers, threads, phase, todo, op, chat>>
  BY DEF RecordThread, world, process, requests
<1>2. /\ task[p].pc \in WithRow /\ task[p].pc \in Owning /\ t \in threads
  BY <1>1 DEF WithRow, Engaged, Points, Owning, RunInv, ThreadInv
<1>3. /\ own \in DOMAIN runs /\ runs[own] \in RowSet /\ t \in Nat
      /\ runs[own].auto = task[p].auto /\ (t # 0 => Of(t, task[p].auto))
  BY <1>2, HasRow
<1>4. /\ row \in RowSet /\ row.auto = runs[own].auto /\ row.slot = runs[own].slot
      /\ row.status = runs[own].status /\ row.thread = t
  BY <1>3 DEF RowSet
<1>. HIDE DEF row, own, t
<1>5. /\ runs' \in Seq(RowSet) /\ DOMAIN runs' = DOMAIN runs
      /\ runs'[own] = row /\ \A n \in DOMAIN runs : n # own => runs'[n] = runs[n]
  BY <1>1, <1>3, <1>4, RowWritten
<1>6. \A n \in DOMAIN runs :
         /\ runs'[n].auto = runs[n].auto /\ runs'[n].slot = runs[n].slot
         /\ runs'[n].status = runs[n].status
         /\ runs'[n].thread = IF n = own THEN t ELSE runs[n].thread
  BY <1>4, <1>5
<1>7. /\ task' \in [Tasks -> TaskSet] /\ Untouched(p) /\ PhaseInv' /\ KeptAll
      /\ task'[p].pc = "drive" /\ task'[p].thread = t
      /\ \A q \in Tasks : task'[q].pc \in Owning <=> task[q].pc \in Owning
  BY <1>1, <1>2, GoKept DEF t
<1>8. RowsKept /\ RowsStay
  BY <1>5, <1>6 DEF RowsKept, RowsStay
<1>9. KindsInv'
  BY <1>1, <1>5, <1>7 DEF RunInv, KindsInv
<1>10. KnownInv'
  <2>1. \A n \in DOMAIN runs' : runs'[n].thread # 0 => Of(runs[n].thread, runs[n].auto)'
    BY <1>3, <1>5, <1>6 DEF RunInv, KnownInv, Of
  <2>2. \A a \in Autos : autos[a].thread # 0 => Of(autos[a].thread, a)'
    BY <1>1, <1>5, <1>6 DEF RunInv, KnownInv, Of
  <2>3. \A n \in op.marks : Of(n, op.auto)'
    BY <1>1, <1>5, <1>6 DEF RunInv, KnownInv, Of
  <2>4. \A q \in Tasks : KnownTask(q)'
    BY <1>7, <1>8, KeptKnown
  <2>. QED
    BY <1>1, <1>5, <2>1, <2>2, <2>3, <2>4 DEF RunInv, KnownInv, Of
<1>11. OpInv'
  BY <1>1, <1>7, <1>8, KeptOp
<1>12. OpenInv'
  <2>1. \A q \in Tasks : task'[q].pc \in Owning =>
           /\ autos[task[q].auto].life = "stored"
           /\ runs'[task[q].run].status = runs[task[q].run].status
    <3>1. ASSUME NEW q \in Tasks, task'[q].pc \in Owning
          PROVE  /\ autos[task[q].auto].life = "stored"
                 /\ runs'[task[q].run].status = runs[task[q].run].status
      <4>1. task[q].pc \in Owning /\ task[q].pc \in WithRow
        BY <1>7, <3>1 DEF Owning, WithRow, Engaged, Points
      <4>2. task[q].run \in DOMAIN runs
        BY <4>1, HasRow
      <4>. QED
        BY <1>6, <4>1, <4>2 DEF RunInv, OpenInv, NoGhostRuns
    <3>. QED
      BY <3>1
  <2>. QED
    BY <1>1, <1>6, <1>7, <1>8, <2>1, KeptOpen
<1>13. SlotInv'
  BY <1>1, <1>7, <1>8, KeptSlots DEF KeptAll, Kept
<1>14. MarkerInv' /\ Apart'
  BY <1>1, <1>7, GrownMarkers, KeptApart
<1>15. ThreadInv'
  <2>1. \A q \in Tasks : task'[q].pc \in Fresh => FALSE
    BY <1>1, <1>7 DEF ArbiterInv, BusyHoldsArbiter, Busy, Untouched, Fresh
  <2>2. \A q \in Tasks : task'[q].pc \in WithThread => task'[q].thread \in threads'
    BY <1>1, <1>2, <1>7 DEF RunInv, ThreadInv, Untouched, WithThread
  <2>3. \A q \in Tasks : task'[q].turn \in Live => task'[q].thread \in threads'
    BY <1>1, <1>7 DEF RunInv, ThreadInv, TurnsKeepTheirThread, KeptAll, Kept, Running
  <2>4. TurnsKeepTheirThread'
    BY <1>1, <2>3 DEF RunInv, ThreadInv, TurnsKeepTheirThread, RollingOwned
  <2>. QED
    BY <2>1, <2>2, <2>4 DEF ThreadInv, Fresh, WithThread
<1>. QED
  BY <1>7, <1>9, <1>10, <1>11, <1>12, <1>13, <1>14, <1>15 DEF RunInv

\* The turn is over: its task has no part in the thread any more.
LEMMA TurnEndsKeeps == ASSUME RunInv, ArbiterInv, NEW p \in Tasks, TurnEnds(p) PROVE RunInv'
<1>. DEFINE u == task[p]
            gone == Marks({u.thread}, "automation")
<1>1. /\ Running(p) /\ markers' = markers \ gone
      /\ UNCHANGED <<now, autos, runs, threads, phase, todo, op, chat>>
  BY DEF TurnEnds, Running, world, store, process, requests
<1>2. PICK how \in {"completed", "failed", "cancelled"} : task' = [task EXCEPT ![p].turn = how]
  BY DEF TurnEnds
<1>. DEFINE t == [u EXCEPT !.turn = how]
<1>3. u \in TaskSet /\ KindsInv
  BY DEF RunInv, KindsInv
<1>4. /\ t \in TaskSet /\ t.pc = u.pc /\ t.turn = how /\ t.cancelled = u.cancelled
      /\ t.auto = u.auto /\ t.run = u.run /\ t.thread = u.thread /\ t.marks = u.marks
      /\ t.drop = u.drop /\ t.moment = u.moment
  BY <1>3 DEF TaskSet, Turns
<1>5. task' = [task EXCEPT ![p] = t]
  BY <1>2
<1>. HIDE DEF t
<1>6. task' \in [Tasks -> TaskSet] /\ task'[p] = t /\ Untouched(p)
  BY <1>3, <1>4, <1>5, Becomes DEF Untouched
<1>7. Kept(p)
  <2>1. KnownTask(p)
    BY DEF RunInv, KnownInv
  <2>2. u.drop \subseteq {r \in DOMAIN runs : runs[r].status # "running"}
    BY <2>1 DEF RunInv, OpenInv, KnownTask
  <2>3. /\ u.pc = "claiming" => u.moment <= now
        /\ u.pc \in WithThread => u.thread \in threads
    BY DEF RunInv, SlotInv, ThreadInv, WithThread
  <2>4. ~Running(p)'
    BY <1>4, <1>6 DEF Running, Live
  <2>. QED
    BY <1>4, <1>6, <2>1, <2>2, <2>3, <2>4 DEF Kept, KnownTask
<1>8. KeptAll
  BY <1>6, <1>7, StillKept DEF KeptAll, Untouched
<1>9. \A q \in Tasks : task'[q].pc = task[q].pc /\ task'[q].cancelled = task[q].cancelled
  BY <1>4, <1>6 DEF Untouched
<1>10. PhaseInv'
  BY <1>1, <1>9 DEF RunInv, PhaseInv, PhaseOf
<1>11. RowsKept /\ RowsStay
  BY <1>1, SameRowsKept
<1>12. KindsInv'
  BY <1>1, <1>6 DEF RunInv, KindsInv
<1>13. KnownInv'
  <2>1. \A q \in Tasks : KnownTask(q)'
    BY <1>8, <1>11, KeptKnown
  <2>. QED
    BY <1>1, <2>1 DEF RunInv, KnownInv, Of
<1>14. OpInv'
  BY <1>1, <1>8, <1>11, KeptOp
<1>15. OpenInv'
  <2>1. \A q \in Tasks : task'[q].pc \in Owning => autos[task[q].auto].life = "stored"
    BY <1>9 DEF RunInv, OpenInv, NoGhostRuns
  <2>. QED
    BY <1>1, <1>8, <1>9, <1>11, <2>1, KeptOpen
<1>16. SlotInv'
  BY <1>1, <1>8, <1>11, KeptSlots DEF KeptAll, Kept
<1>17. MarkerInv'
  <2>1. \A q \in Tasks : ~Running(q)'
    <3>1. \A q \in Tasks \ {p} : ~Running(q)
      BY <1>1 DEF ArbiterInv, OneTurn
    <3>. QED
      BY <1>4, <1>6, <3>1 DEF Running, Live, Untouched
  <2>2. /\ \A q \in Tasks : Marks(task'[q].marks, "prune") \cap gone = {}
        /\ Marks(op.marks, "prune") \cap gone = {}
        /\ [thread |-> chat.thread, kind |-> "chat"] \notin gone
    BY DEF Marks
  <2>. HIDE DEF gone
  <2>3. markers \ gone \subseteq markers'
    BY <1>1
  <2>. QED
    BY <1>1, <1>8, <2>1, <2>2, <2>3, KeptMarkers
<1>18. Apart' /\ ThreadInv'
  BY <1>1, <1>8, KeptApart, KeptThreads DEF RollingOwned
<1>. QED
  BY <1>10, <1>12, <1>13, <1>14, <1>15, <1>16, <1>17, <1>18 DEF RunInv

\* A row with an event more.
LEMMA RecordEventKeeps ==
  ASSUME RunInv, ArbiterInv, NEW p \in Tasks, RecordEvent(p) PROVE RunInv'
<1>. DEFINE own == task[p].run
            row == [runs[own] EXCEPT !.events = runs[own].events + 1]
<1>1. /\ task[p].pc = "audit" /\ Go(p, "closed")
      /\ runs' = [runs EXCEPT ![own] = row]
      /\ UNCHANGED <<now, autos, markers, threads, phase, todo, op, chat>>
  BY DEF RecordEvent, world, process, requests
<1>2. task[p].pc \in WithRow /\ task[p].pc \notin Owning
  BY <1>1 DEF WithRow, Engaged, Points, Owning
<1>3. own \in DOMAIN runs /\ runs[own] \in RowSet
  BY <1>2, HasRow
<1>4. /\ row \in RowSet /\ row.auto = runs[own].auto /\ row.slot = runs[own].slot
      /\ row.status = runs[own].status /\ row.thread = runs[own].thread
  BY <1>3 DEF RowSet
<1>. HIDE DEF row, own
<1>5. /\ runs' \in Seq(RowSet) /\ DOMAIN runs' = DOMAIN runs
      /\ runs'[own] = row /\ \A n \in DOMAIN runs : n # own => runs'[n] = runs[n]
  BY <1>1, <1>3, <1>4, RowWritten
<1>6. \A n \in DOMAIN runs :
         /\ runs'[n].auto = runs[n].auto /\ runs'[n].slot = runs[n].slot
         /\ runs'[n].status = runs[n].status /\ runs'[n].thread = runs[n].thread
  BY <1>4, <1>5
<1>7. /\ task' \in [Tasks -> TaskSet] /\ Untouched(p) /\ PhaseInv' /\ KeptAll
      /\ task'[p].pc = "closed"
  BY <1>1, <1>2, GoKept
<1>8. RowsKept /\ RowsStay
  BY <1>5, <1>6 DEF RowsKept, RowsStay
<1>9. KindsInv'
  BY <1>1, <1>5, <1>7 DEF RunInv, KindsInv
<1>10. KnownInv'
  <2>1. \A q \in Tasks : KnownTask(q)'
    BY <1>7, <1>8, KeptKnown
  <2>. QED
    BY <1>1, <1>5, <1>6, <2>1 DEF RunInv, KnownInv, Of
<1>11. OpInv'
  BY <1>1, <1>7, <1>8, KeptOp
<1>12. OpenInv'
  <2>1. \A q \in Tasks : task'[q].pc \in Owning <=> task[q].pc \in Owning
    BY <1>2, <1>7 DEF Untouched, Owning
  <2>2. \A q \in Tasks : task'[q].pc \in Owning =>
           /\ autos[task[q].auto].life = "stored" /\ task[q].run \in DOMAIN runs
    BY <2>1, HasRow DEF RunInv, OpenInv, NoGhostRuns, Owning, WithRow, Engaged, Points
  <2>. QED
    BY <1>1, <1>6, <1>7, <1>8, <2>1, <2>2, KeptOpen
<1>13. SlotInv'
  BY <1>1, <1>7, <1>8, KeptSlots DEF KeptAll, Kept
<1>14. MarkerInv' /\ Apart' /\ ThreadInv'
  BY <1>1, <1>5, <1>6, <1>7, GrownMarkers, KeptApart, KeptThreads DEF RollingOwned
<1>. QED
  BY <1>7, <1>9, <1>10, <1>11, <1>12, <1>13, <1>14 DEF RunInv

\* The task closes its row: if its turn still runs, with a status that says so.
LEMMA FinalizeKeeps ==
  ASSUME RunInv, ArbiterInv, RowsInv, NEW p \in Tasks, Finalize(p),
         runs[task[p].run].status = "running"
  PROVE  RunInv'
<1>. DEFINE own == task[p].run
            s == task[p].status
            row == [runs[own] EXCEPT !.status = s]
<1>1. /\ task[p].pc = "finish" /\ Go(p, "audit")
      /\ runs' = [runs EXCEPT ![own] = row]
      /\ UNCHANGED <<now, autos, markers, threads, phase, todo, op, chat>>
  BY DEF Finalize, Closed, world, process, requests
<1>2. task[p].pc \in WithRow /\ task[p].pc \in Owning
  BY <1>1 DEF WithRow, Engaged, Points, Owning
<1>3. own \in DOMAIN runs /\ runs[own] \in RowSet /\ s \in Terminal /\ own # 0
  BY <1>2, HasRow DEF RunInv, KindsInv, TaskSet
<1>4. /\ row \in RowSet /\ row.auto = runs[own].auto /\ row.slot = runs[own].slot
      /\ row.status = s /\ row.thread = runs[own].thread
  BY <1>3 DEF RowSet
<1>4a. s # "running"
  BY DEF RowsInv, TaskEnds
<1>. HIDE DEF row, own, s
<1>5. /\ runs' \in Seq(RowSet) /\ DOMAIN runs' = DOMAIN runs
      /\ runs'[own] = row /\ \A n \in DOMAIN runs : n # own => runs'[n] = runs[n]
  BY <1>1, <1>3, <1>4, RowWritten
<1>6. \A n \in DOMAIN runs :
         /\ runs'[n].auto = runs[n].auto /\ runs'[n].slot = runs[n].slot
         /\ runs'[n].status = IF n = own THEN s ELSE runs[n].status
         /\ runs'[n].thread = runs[n].thread
  BY <1>4, <1>5
<1>7. /\ task' \in [Tasks -> TaskSet] /\ Untouched(p) /\ PhaseInv' /\ KeptAll
      /\ task'[p].pc = "audit" /\ task'[p].run = own /\ task'[p].turn = task[p].turn
  BY <1>1, <1>2, GoKept DEF own
<1>8. RowsKept /\ RowsStay
  BY <1>4a, <1>5, <1>6 DEF RowsKept, RowsStay
<1>9. KindsInv'
  BY <1>1, <1>5, <1>7 DEF RunInv, KindsInv
<1>10. KnownInv'
  <2>1. \A q \in Tasks : KnownTask(q)'
    BY <1>7, <1>8, KeptKnown
  <2>. QED
    BY <1>1, <1>5, <1>6, <2>1 DEF RunInv, KnownInv, Of
<1>11. OpInv'
  BY <1>1, <1>7, <1>8, KeptOp
<1>12. OpenInv'
  <2>1. \A q \in Tasks : task'[q].pc \in Owning <=> q # p /\ task[q].pc \in Owning
    BY <1>7 DEF Untouched, Owning
  <2>2. \A q \in Tasks \ {p} : task[q].run # own
    BY <1>3 DEF RunInv, OpenInv, own
  <2>3. Open' \subseteq Open \ {own}
    BY <1>4a, <1>5, <1>6 DEF Open
  <2>4. EveryRunOwned'
    <3>1. ASSUME NEW r \in Open'
          PROVE  \/ \E q \in Tasks : task'[q].run = r /\ task'[q].pc \in Owning
                 \/ r \in todo' \/ phase' \in {"crashed", "manual"}
      <4>1. r \in Open /\ r # own
        BY <2>3
      <4>2. \A q \in Tasks : task[q].run = r /\ task[q].pc \in Owning =>
               task'[q].run = r /\ task'[q].pc \in Owning
        BY <1>7, <2>1, <4>1 DEF Untouched, own
      <4>. QED
        BY <1>1, <4>1, <4>2 DEF RunInv, OpenInv, EveryRunOwned
    <3>. QED
      BY <3>1 DEF EveryRunOwned
  <2>5. NoGhostRuns'
    BY <1>1, <1>7, <2>1 DEF RunInv, OpenInv, NoGhostRuns, Untouched
  <2>6. ASSUME NEW q \in Tasks, task'[q].run # 0, q # p
        PROVE  /\ task'[q] = task[q] /\ task[q].run \in DOMAIN runs
               /\ runs'[task'[q].run].status = runs[task[q].run].status
    <3>1. KnownTask(q) /\ task'[q] = task[q]
      BY <1>7, <2>6 DEF Untouched, RunInv, KnownInv
    <3>2. task[q].run \in DOMAIN runs /\ task[q].run # own
      BY <2>2, <2>6, <3>1 DEF KnownTask
    <3>. QED
      BY <1>6, <3>1, <3>2
  <2>7. ASSUME NEW q \in Tasks
        PROVE  /\ task'[q].pc \in Owning =>
                     /\ runs'[task'[q].run].status \in {"running", "interrupted"}
                     /\ phase' # "closing" => runs'[task'[q].run].status = "running"
    <3>1. ASSUME task'[q].pc \in Owning PROVE q # p /\ task[q].pc \in Owning /\ task'[q].run # 0
      <4>1. q # p /\ task[q].pc \in Owning /\ task'[q] = task[q]
        BY <1>7, <2>1, <3>1 DEF Untouched
      <4>. QED
        BY <4>1, HasRow DEF Owning, WithRow, Engaged, Points
    <3>. QED
      BY <1>1, <2>6, <3>1 DEF RunInv, OpenInv
  <2>8. ASSUME NEW q \in Tasks, Running(q)', task'[q].run # 0
        PROVE  runs'[task'[q].run].status \in {"running", "interrupted", "gone"}
    <3>1. CASE q # p
      BY <2>6, <2>8, <3>1 DEF RunInv, OpenInv, Running
    <3>2. CASE q = p
      <4>1. Running(p)
        BY <1>7, <2>8, <3>2 DEF Running
      <4>2. s = "interrupted"
        BY <1>1, <4>1 DEF RunInv, OpenInv, s
      <4>. QED
        BY <1>3, <1>6, <1>7, <3>2, <4>2
    <3>. QED
      BY <3>1, <3>2
  <2>9. \A q \in Tasks : /\ Running(q)' /\ task'[q].pc = "finish" => task'[q].status = "interrupted"
                         /\ \A r \in task'[q].drop : runs'[r].status # "running"
    BY <1>7, <1>8 DEF KeptAll, Kept, RowsKept
  <2>10. \A q, r \in Tasks : task'[q].run = task'[r].run /\ task'[q].run # 0 => q = r
    BY <1>7, <2>2 DEF RunInv, OpenInv, Untouched
  <2>11. phase' \in {"closing", "down", "boot"} => Open' \subseteq todo'
    BY <1>1, <2>3 DEF RunInv, OpenInv
  <2>. QED
    BY <2>4, <2>5, <2>7, <2>8, <2>9, <2>10, <2>11 DEF OpenInv
<1>13. SlotInv'
  BY <1>1, <1>7, <1>8, KeptSlots DEF KeptAll, Kept
<1>14. MarkerInv' /\ Apart' /\ ThreadInv'
  BY <1>1, <1>5, <1>6, <1>7, GrownMarkers, KeptApart, KeptThreads DEF RollingOwned
<1>. QED
  BY <1>7, <1>9, <1>10, <1>11, <1>12, <1>13, <1>14 DEF RunInv

\* Rows that are deleted.
LEMMA RowsGone ==
  ASSUME RunInv, NEW rs, Gone(rs)
  PROVE  /\ runs' \in Seq(RowSet) /\ DOMAIN runs' = DOMAIN runs /\ RowsKept /\ RowsStay
         /\ \A r \in DOMAIN runs :
               /\ runs'[r].thread = runs[r].thread /\ runs'[r].auto = runs[r].auto
               /\ runs'[r].status = IF r \in rs THEN "gone" ELSE runs[r].status
<1>1. /\ DOMAIN runs' = DOMAIN runs /\ runs' = [r \in DOMAIN runs |-> runs'[r]]
      /\ \A r \in DOMAIN runs :
            runs'[r] = IF r \in rs THEN [runs[r] EXCEPT !.status = "gone"] ELSE runs[r]
  BY DEF Gone
<1>2. \A r \in DOMAIN runs : runs[r] \in RowSet
  BY RowsKind DEF RunInv
<1>3. ASSUME NEW r \in DOMAIN runs
      PROVE  /\ runs'[r] \in RowSet /\ runs'[r].thread = runs[r].thread
             /\ runs'[r].auto = runs[r].auto /\ runs'[r].slot = runs[r].slot
             /\ runs'[r].status = IF r \in rs THEN "gone" ELSE runs[r].status
  BY <1>1, <1>2 DEF RowSet
<1>4. runs' \in Seq(RowSet)
  BY <1>1, <1>3, RowsReplaced
<1>5. RowsKept /\ RowsStay
  BY <1>1, <1>3 DEF RowsKept, RowsStay
<1>. QED
  BY <1>1, <1>3, <1>4, <1>5

\* Retention deletes terminal rows, and threads nobody is in.
LEMMA PruneCommitsKeeps ==
  ASSUME RunInv, ArbiterInv, NEW p \in Tasks, PruneCommits(p) PROVE RunInv'
<1>. DEFINE drop == task[p].drop
            marks == task[p].marks
<1>1. /\ task[p].pc = "commit" /\ Go(p, "committed") /\ Gone(drop)
      /\ threads' = threads \ marks
      /\ UNCHANGED <<now, autos, markers, phase, todo, op, chat>>
  BY DEF PruneCommits, world, process, requests
<1>2. task[p].pc \in WithRow /\ task[p].pc \notin Owning
  BY <1>1 DEF WithRow, Engaged, Points, Owning
<1>3. \A r \in drop : runs[r].status # "running"
  BY DEF RunInv, OpenInv
<1>4. /\ \A q \in Tasks : Running(q) => task[q].thread \notin marks
      /\ chat.pc # "idle" => chat.thread \notin marks
  BY DEF RunInv, Apart
<1>. HIDE DEF drop, marks
<1>5. /\ runs' \in Seq(RowSet) /\ DOMAIN runs' = DOMAIN runs /\ RowsKept /\ RowsStay
      /\ \A r \in DOMAIN runs :
            /\ runs'[r].thread = runs[r].thread /\ runs'[r].auto = runs[r].auto
            /\ runs'[r].status = IF r \in drop THEN "gone" ELSE runs[r].status
  BY <1>1, RowsGone
<1>7. /\ task' \in [Tasks -> TaskSet] /\ Untouched(p) /\ PhaseInv' /\ KeptAll
      /\ task'[p].pc = "committed"
  BY <1>1, <1>2, GoKept
<1>8. \A q \in Tasks : task[q].pc \notin Owning /\ task'[q].pc \notin Owning
  BY <1>1, <1>7 DEF ArbiterInv, BusyHoldsArbiter, Busy, Untouched, Owning
<1>9. KindsInv'
  BY <1>1, <1>5, <1>7 DEF RunInv, KindsInv
<1>10. KnownInv'
  <2>1. \A q \in Tasks : KnownTask(q)'
    BY <1>5, <1>7, KeptKnown
  <2>. QED
    BY <1>1, <1>5, <2>1 DEF RunInv, KnownInv, Of
<1>11. OpInv'
  BY <1>1, <1>5, <1>7, KeptOp
<1>12. OpenInv'
  BY <1>1, <1>3, <1>5, <1>7, <1>8, KeptOpen
<1>13. SlotInv'
  BY <1>1, <1>5, <1>7, KeptSlots DEF KeptAll, Kept
<1>14. MarkerInv' /\ Apart'
  BY <1>1, <1>7, GrownMarkers, KeptApart
<1>15. ThreadInv'
  <2>1. \A q \in Tasks : Running(q)' => task'[q].thread \in threads'
    <3>1. \A q \in Tasks : Running(q)' => Running(q) /\ task'[q].thread = task[q].thread
      BY <1>7 DEF KeptAll, Kept
    <3>. QED
      BY <1>1, <1>4, <3>1 DEF RunInv, ThreadInv, TurnsKeepTheirThread, Running
  <2>2. \A q \in Tasks : task'[q].pc \notin WithThread
    BY <1>8 DEF WithThread, Owning
  <2>3. chat.pc \in {"turn", "stopping"} => chat.thread \in threads'
    BY <1>1, <1>4 DEF RunInv, ThreadInv, TurnsKeepTheirThread
  <2>. QED
    BY <1>1, <1>5, <1>7, <2>1, <2>2, <2>3, LeftThreads DEF RollingOwned
<1>. QED
  BY <1>7, <1>9, <1>10, <1>11, <1>12, <1>13, <1>14, <1>15 DEF RunInv

\* Whoever is in a thread, or about to take it away, holds its marker.
LEMMA Holders ==
  ASSUME RunInv
  PROVE  /\ \A q \in Tasks : /\ Running(q) => Held(task[q].thread)
                             /\ \A t \in task[q].marks : Held(t)
         /\ \A t \in op.marks : Held(t)
         /\ chat.pc # "idle" => Held(chat.thread)
<1>1. \A t, kind : [thread |-> t, kind |-> kind].thread = t
  OBVIOUS
<1>2. ASSUME NEW ts, NEW kind, Marks(ts, kind) \subseteq markers, NEW t \in ts PROVE Held(t)
  BY <1>1, <1>2 DEF Marks, Held
<1>. QED
  BY <1>2 DEF RunInv, MarkerInv

\* The others have nothing to do with it.
LEMMA OthersKnown ==
  ASSUME RunInv, NEW p \in Tasks, Untouched(p), UNCHANGED runs
  PROVE  \A q \in Tasks \ {p} : KnownTask(q)' /\ KeepsRow(q)
<1>1. RowsStay
  BY SameRowsKept
<1>2. ASSUME NEW q \in Tasks \ {p} PROVE KnownTask(q)' /\ KeepsRow(q)
  <2>1. Kept(q)
    BY StillKept DEF Untouched
  <2>2. KnownTask(q)'
    BY <1>1, <2>1, KeptTaskKnown
  <2>3. KeepsRow(q)
    BY <2>1 DEF Kept, KeepsRow, Owning, WithRow, Engaged, Points
  <2>. QED
    BY <2>2, <2>3
<1>. QED
  BY <1>2

\* One task is at another point, in a phase that allows it.
LEMMA OneMoves ==
  ASSUME RunInv, NEW p \in Tasks, Untouched(p), UNCHANGED phase, task[p].pc # "off",
         task'[p].pc \notin {"created", "claimed", "claiming"}
  PROVE  PhaseInv'
<1>1. ASSUME NEW q \in Tasks PROVE PhaseOf(q, task[q])'
  <2>1. PhaseOf(q, task[q])
    BY DEF RunInv, PhaseInv
  <2>2. q # p => task'[q] = task[q]
    BY DEF Untouched
  <2>. QED
    BY <2>1, <2>2 DEF PhaseOf
<1>. QED
  BY <1>1 DEF PhaseInv

\* Retention takes the markers of threads nobody is in.
LEMMA PruneTakesKeeps ==
  ASSUME RunInv, ArbiterInv, NEW p \in Tasks, PruneTakesMarkers(p) PROVE RunInv'
<1>. DEFINE u == task[p]
            own(r) == OwnThread(u.auto, r)
            drop == {r \in u.drop : own(r) = 0 \/ ~Held(own(r))}
            marks == {own(r) : r \in drop} \ {0}
            t == [u EXCEPT !.pc = "commit", !.drop = drop, !.marks = marks]
<1>1. /\ u.pc = "prune" /\ Unlocked /\ task' = [task EXCEPT ![p] = t]
      /\ markers' = markers \cup Marks(marks, "prune")
      /\ UNCHANGED <<now, autos, runs, threads, phase, todo, op, chat>>
  BY DEF PruneTakesMarkers, world, store, process, requests
<1>2. KindsInv /\ u \in TaskSet /\ KnownTask(p) /\ DOMAIN runs \subseteq Nat /\ KnownInv
  BY RowsKind DEF RunInv, KindsInv, KnownInv
<1>3. drop \subseteq {r \in DOMAIN runs : runs[r].status # "running"}
  BY <1>2 DEF KnownTask, RunInv, OpenInv
<1>4. marks \subseteq DOMAIN runs
  BY <1>2, <1>3 DEF KnownInv, OwnThread, Of
<1>5. \A m \in marks : ~Held(m)
  OBVIOUS
<1>. HIDE DEF drop, marks
<1>6. /\ t \in TaskSet /\ t.pc = "commit" /\ t.drop = drop /\ t.marks = marks
      /\ t.auto = u.auto /\ t.run = u.run /\ t.thread = u.thread /\ t.turn = u.turn
  BY <1>2, <1>3, <1>4 DEF TaskSet, Points
<1>. HIDE DEF t
<1>7. task' \in [Tasks -> TaskSet] /\ task'[p] = t /\ Untouched(p)
  BY <1>1, <1>2, <1>6, Becomes DEF Untouched
<1>8. /\ u.pc \in WithRow /\ u.pc \in Engaged /\ u.pc \notin Owning /\ t.pc \notin Owning \cup Fresh
      /\ t.pc \notin WithThread
  BY <1>1, <1>6 DEF WithRow, Engaged, Points, Owning, Fresh, WithThread
<1>9. KindsInv'
  BY <1>1, <1>2, <1>7 DEF KindsInv
<1>10. KnownInv'
  <2>1. KnownTask(p)'
    BY <1>1, <1>2, <1>3, <1>4, <1>6, <1>7, <1>8 DEF KnownTask, Of
  <2>2. \A q \in Tasks : KnownTask(q)'
    BY <1>1, <1>7, <2>1, OthersKnown
  <2>3. markers' \subseteq [thread : DOMAIN runs, kind : {"automation", "chat", "prune"}]
    BY <1>1, <1>2, <1>4 DEF KnownInv, Marks
  <2>. QED
    BY <1>1, <1>2, <2>2, <2>3 DEF KnownInv, Of
<1>11. RowsKept
  BY <1>1, SameRowsKept
<1>12. OpInv'
  BY <1>1, <1>11, OpGoesOn DEF Unlocked
<1>13. PhaseInv'
  BY <1>1, <1>6, <1>7, OneMoves
<1>14. OpenInv'
  <2>1. KeepsRow(p)
    BY <1>3, <1>6, <1>7, <1>8 DEF KeepsRow, Running
  <2>2. \A q \in Tasks : KeepsRow(q)
    BY <1>1, <1>7, <2>1, OthersKnown
  <2>3. \A q \in Tasks : task'[q].pc \in Owning <=> task[q].pc \in Owning
    BY <1>7, <1>8 DEF Untouched
  <2>4. \A q \in Tasks : task[q].pc \in Owning => autos[task[q].auto].life = "stored"
    BY DEF RunInv, OpenInv, NoGhostRuns
  <2>. QED
    BY <1>1, <1>11, <2>2, <2>3, <2>4, RunsGoOn
<1>15. SlotInv'
  <2>1. \A q \in Tasks : task'[q].pc = "claiming" => task'[q].moment <= now
    BY <1>6, <1>7 DEF Untouched, RunInv, SlotInv
  <2>. QED
    BY <1>1, <1>11, <2>1, KeptSlots
<1>16. MarkerInv'
  <2>1. \A q \in Tasks : /\ Running(q)' <=> Running(q)
                         /\ task'[q].thread = task[q].thread
                         /\ task'[q].marks = IF q = p THEN marks ELSE task[q].marks
    BY <1>6, <1>7 DEF Untouched, Running
  <2>. QED
    BY <1>1, <2>1 DEF RunInv, MarkerInv, Marks
<1>17. Apart'
  <2>1. \A q \in Tasks : /\ Running(q)' <=> Running(q)
                         /\ task'[q].thread = task[q].thread
                         /\ task'[q].marks = IF q = p THEN marks ELSE task[q].marks
    BY <1>6, <1>7 DEF Untouched, Running
  <2>2. /\ \A q \in Tasks : Running(q) => task[q].thread \notin marks
        /\ marks \cap op.marks = {} /\ (chat.pc # "idle" => chat.thread \notin marks)
    BY <1>5, Holders
  <2>. QED
    BY <1>1, <2>1, <2>2 DEF RunInv, Apart
<1>18. ThreadInv'
  <2>1. \A q \in Tasks : /\ task'[q].thread = task[q].thread /\ task'[q].turn = task[q].turn
                         /\ task'[q].run = task[q].run
                         /\ task'[q].pc \in Fresh \cup WithThread => task'[q].pc = task[q].pc
    BY <1>6, <1>7, <1>8 DEF Untouched
  <2>2. TurnsKeepTheirThread'
    BY <1>1, <2>1 DEF RunInv, ThreadInv, TurnsKeepTheirThread, RollingOwned
  <2>. QED
    BY <1>1, <2>1, <2>2 DEF RunInv, ThreadInv, Fresh, WithThread
<1>. QED
  BY <1>9, <1>10, <1>12, <1>13, <1>14, <1>15, <1>16, <1>17, <1>18 DEF RunInv

\* The turn begins: the marker of its thread was free.
LEMMA DriveKeeps ==
  ASSUME RunInv, ArbiterInv, NEW p \in Tasks, Drive(p), ~Refused(p) PROVE RunInv'
<1>. DEFINE u == task[p]
            t == [u EXCEPT !.pc = "wait", !.turn = "live"]
<1>1. /\ u.pc = "drive" /\ ~Held(u.thread) /\ task' = [task EXCEPT ![p] = t]
      /\ markers' = markers \cup Marks({u.thread}, "automation")
      /\ UNCHANGED <<now, autos, runs, threads, phase, todo, op, chat>>
  BY DEF Drive, world, process, requests
<1>2. KindsInv /\ u \in TaskSet /\ KnownTask(p) /\ KnownInv
  BY DEF RunInv, KindsInv, KnownInv
<1>3. u.thread \in threads
  BY <1>1 DEF RunInv, ThreadInv
<1>4. /\ t \in TaskSet /\ t.pc = "wait" /\ t.drop = u.drop /\ t.marks = u.marks
      /\ t.auto = u.auto /\ t.run = u.run /\ t.thread = u.thread /\ t.turn = "live"
  BY <1>2 DEF TaskSet, Points, Owning, Turns, Live
<1>. HIDE DEF t
<1>5. task' \in [Tasks -> TaskSet] /\ task'[p] = t /\ Untouched(p)
  BY <1>1, <1>2, <1>4, Becomes DEF Untouched
<1>6. /\ u.pc \in WithRow /\ u.pc \in Engaged /\ u.pc \in Owning /\ t.pc \in Owning
      /\ t.pc \notin WithThread \cup Fresh /\ u.marks = {}
  BY <1>1, <1>2, <1>4 DEF WithRow, Engaged, Points, Owning, Fresh, WithThread, KnownTask
<1>7. KindsInv'
  BY <1>1, <1>2, <1>5 DEF KindsInv
<1>8. KnownInv'
  <2>1. KnownTask(p)'
    BY <1>1, <1>2, <1>4, <1>5, <1>6 DEF KnownTask, Of
  <2>2. \A q \in Tasks : KnownTask(q)'
    BY <1>1, <1>5, <2>1, OthersKnown
  <2>3. markers' \subseteq [thread : DOMAIN runs, kind : {"automation", "chat", "prune"}]
    BY <1>1, <1>2, <1>3 DEF KnownInv, Marks
  <2>. QED
    BY <1>1, <1>2, <2>2, <2>3 DEF KnownInv, Of
<1>9. RowsKept
  BY <1>1, SameRowsKept
<1>10. OpInv'
  <2>1. op.stage = "body" => \A q \in Tasks : task'[q].pc # "commit"
    BY <1>4, <1>5 DEF Untouched, RunInv, OpInv
  <2>. QED
    BY <1>1, <1>9, <2>1, OpGoesOn
<1>11. PhaseInv'
  BY <1>1, <1>4, <1>5, OneMoves
<1>12. OpenInv'
  <2>1. KeepsRow(p)
    BY <1>2, <1>4, <1>5, <1>6 DEF KeepsRow, RunInv, OpenInv, KnownTask
  <2>2. \A q \in Tasks : KeepsRow(q)
    BY <1>1, <1>5, <2>1, OthersKnown
  <2>3. \A q \in Tasks : task'[q].pc \in Owning <=> task[q].pc \in Owning
    BY <1>5, <1>6 DEF Untouched
  <2>4. \A q \in Tasks : task[q].pc \in Owning => autos[task[q].auto].life = "stored"
    BY DEF RunInv, OpenInv, NoGhostRuns
  <2>. QED
    BY <1>1, <1>9, <2>2, <2>3, <2>4, RunsGoOn
<1>13. SlotInv'
  <2>1. \A q \in Tasks : task'[q].pc = "claiming" => task'[q].moment <= now
    BY <1>4, <1>5 DEF Untouched, RunInv, SlotInv
  <2>. QED
    BY <1>1, <1>9, <2>1, KeptSlots
<1>14. MarkerInv'
  <2>1. \A q \in Tasks : /\ q # p => (Running(q)' <=> Running(q))
                         /\ task'[q].thread = task[q].thread
                         /\ task'[q].marks = task[q].marks
    BY <1>4, <1>5 DEF Untouched, Running
  <2>. QED
    BY <1>1, <2>1 DEF RunInv, MarkerInv, Marks
<1>15. Apart'
  <2>1. \A q \in Tasks : /\ q # p => (Running(q)' <=> Running(q))
                         /\ task'[q].thread = task[q].thread
                         /\ task'[q].marks = task[q].marks
    BY <1>4, <1>5 DEF Untouched, Running
  <2>2. u.thread \notin op.marks /\ \A q \in Tasks : u.thread \notin task[q].marks
    BY <1>1, Holders
  <2>. QED
    BY <1>1, <2>1, <2>2 DEF RunInv, Apart
<1>16. ThreadInv'
  <2>1. \A q \in Tasks : /\ task'[q].thread = task[q].thread
                         /\ q # p => task'[q].turn = task[q].turn
                         /\ task'[q].run = task[q].run
                         /\ task'[q].pc \in Fresh \cup WithThread => task'[q].pc = task[q].pc
    BY <1>4, <1>5, <1>6 DEF Untouched
  <2>2. TurnsKeepTheirThread'
    BY <1>1, <1>3, <2>1 DEF RunInv, ThreadInv, TurnsKeepTheirThread, RollingOwned
  <2>. QED
    BY <1>1, <2>1, <2>2 DEF RunInv, ThreadInv, Fresh, WithThread
<1>. QED
  BY <1>7, <1>8, <1>10, <1>11, <1>12, <1>13, <1>14, <1>15, <1>16 DEF RunInv

\* A thread is created for the run.
LEMMA ResolveKeeps ==
  ASSUME RunInv, ArbiterInv, NEW p \in Tasks, ResolveThread(p),
         ~(task[p].rolling /\ task[p].thread \in threads)
  PROVE  RunInv'
<1>. DEFINE u == task[p]
            pc == IF u.rolling THEN "adopt" ELSE "record"
            t == [u EXCEPT !.thread = u.run, !.pc = pc]
<1>1. /\ u.pc = "resolve" /\ task' = [task EXCEPT ![p] = t]
      /\ threads' = threads \cup {u.run}
      /\ UNCHANGED <<now, autos, runs, markers, phase, todo, op, chat>>
  BY DEF ResolveThread, world, process, requests
<1>2. KindsInv /\ u \in TaskSet /\ KnownTask(p) /\ KnownInv /\ ~Running(p)
  BY <1>1 DEF RunInv, KindsInv, KnownInv, ArbiterInv, NoneBeforeDrive, Early
<1>3. pc \in {"adopt", "record"}
  OBVIOUS
<1>. HIDE DEF pc
<1>4. /\ t \in TaskSet /\ t.pc = pc /\ t.drop = u.drop /\ t.marks = u.marks
      /\ t.auto = u.auto /\ t.run = u.run /\ t.thread = u.run /\ t.turn = u.turn
  BY <1>2, <1>3 DEF TaskSet, Points, Owning
<1>. HIDE DEF t
<1>5. task' \in [Tasks -> TaskSet] /\ task'[p] = t /\ Untouched(p)
  BY <1>1, <1>2, <1>4, Becomes DEF Untouched
<1>6. /\ u.pc \in WithRow /\ u.pc \in Engaged /\ u.pc \in Owning /\ t.pc \in Owning
      /\ u.pc \in Fresh /\ u.marks = {}
  BY <1>1, <1>2, <1>3, <1>4 DEF WithRow, Engaged, Points, Owning, Fresh, KnownTask
<1>7. KindsInv'
  BY <1>1, <1>2, <1>5 DEF KindsInv
<1>8. KnownInv'
  <2>1. KnownTask(p)'
    BY <1>1, <1>2, <1>4, <1>5, <1>6 DEF KnownTask, Of
  <2>2. \A q \in Tasks : KnownTask(q)'
    BY <1>1, <1>5, <2>1, OthersKnown
  <2>3. u.run \in DOMAIN runs
    BY <1>2, <1>6 DEF KnownTask, Of
  <2>. QED
    BY <1>1, <1>2, <2>2, <2>3 DEF KnownInv, Of
<1>9. RowsKept
  BY <1>1, SameRowsKept
<1>10. OpInv'
  <2>1. op.stage = "body" => \A q \in Tasks : task'[q].pc # "commit"
    BY <1>3, <1>4, <1>5 DEF Untouched, RunInv, OpInv
  <2>. QED
    BY <1>1, <1>9, <2>1, OpGoesOn
<1>11. PhaseInv'
  BY <1>1, <1>3, <1>4, <1>5, OneMoves
<1>12. OpenInv'
  <2>1. KeepsRow(p)
    BY <1>2, <1>4, <1>5, <1>6 DEF KeepsRow, RunInv, OpenInv, KnownTask, Running
  <2>2. \A q \in Tasks : KeepsRow(q)
    BY <1>1, <1>5, <2>1, OthersKnown
  <2>3. \A q \in Tasks : task'[q].pc \in Owning <=> task[q].pc \in Owning
    BY <1>5, <1>6 DEF Untouched
  <2>4. \A q \in Tasks : task[q].pc \in Owning => autos[task[q].auto].life = "stored"
    BY DEF RunInv, OpenInv, NoGhostRuns
  <2>. QED
    BY <1>1, <1>9, <2>2, <2>3, <2>4, RunsGoOn
<1>13. SlotInv'
  <2>1. \A q \in Tasks : task'[q].pc = "claiming" => task'[q].moment <= now
    BY <1>3, <1>4, <1>5 DEF Untouched, RunInv, SlotInv
  <2>. QED
    BY <1>1, <1>9, <2>1, KeptSlots
<1>14. \A q \in Tasks : /\ Running(q)' => q # p
                        /\ Running(q)' <=> Running(q)
                        /\ q # p => task'[q].thread = task[q].thread
                        /\ task'[q].marks = task[q].marks
  BY <1>2, <1>4, <1>5 DEF Untouched, Running
<1>15. MarkerInv'
  BY <1>1, <1>14 DEF RunInv, MarkerInv, Marks
<1>16. Apart'
  BY <1>1, <1>14 DEF RunInv, Apart
<1>17. ThreadInv'
  <2>1. \A q \in Tasks : /\ task'[q].run = task[q].run
                         /\ q # p => task'[q] = task[q]
                         /\ task'[q].pc \in Fresh => task[q].pc \in Fresh
    BY <1>4, <1>5, <1>6 DEF Untouched
  <2>2. \A q \in Tasks : task'[q].turn \in Live => q # p /\ task'[q] = task[q]
    BY <1>14, <2>1 DEF Running
  <2>3. TurnsKeepTheirThread'
    BY <1>1, <2>2 DEF RunInv, ThreadInv, TurnsKeepTheirThread, RollingOwned
  <2>4. \A q \in Tasks : /\ task'[q].pc \in WithThread => task'[q].thread \in threads'
                         /\ task'[q].pc = "adopt" => task'[q].thread = task'[q].run
    BY <1>1, <1>4, <1>5, <2>1 DEF RunInv, ThreadInv, WithThread
  <2>5. \A q \in Tasks : task'[q].pc \in Fresh =>
           /\ \A r \in DOMAIN runs : runs[r].thread # task'[q].run
           /\ \A a \in Autos : autos[a].thread # task'[q].run
           /\ chat.pc # "idle" => chat.thread # task'[q].run
    BY <2>1 DEF RunInv, ThreadInv, Fresh
  <2>. QED
    BY <1>1, <2>3, <2>4, <2>5 DEF ThreadInv, Fresh, WithThread
<1>. QED
  BY <1>7, <1>8, <1>10, <1>11, <1>12, <1>13, <1>15, <1>16, <1>17 DEF RunInv

-----------------------------------------------------------------------------
(* The steps of the chat, and of nobody *)

\* The parts of the invariant that know nothing of the chat, the markers and the threads.
LEMMA StillThere ==
  ASSUME RunInv, UNCHANGED <<now, autos, runs, task, op, phase, todo>>
  PROVE  OpInv' /\ PhaseInv' /\ OpenInv' /\ SlotInv' /\ KeptAll
<1>1. OpInv' /\ PhaseInv'
  BY DEF RunInv, OpInv, PhaseInv, PhaseOf, Open, RunsOf
<1>2. OpenInv'
  BY DEF RunInv, OpenInv, EveryRunOwned, NoGhostRuns, Open, Running
<1>3. SlotInv'
  BY DEF RunInv, SlotInv, Slots, SlotOnce, Unusable
<1>4. KeptAll
  BY StillKept DEF KeptAll
<1>. QED
  BY <1>1, <1>2, <1>3, <1>4

LEMMA ChatReservesKeeps ==
  ASSUME RunInv, NEW t \in DOMAIN runs, ChatReserves(t) PROVE RunInv'
<1>1. /\ ~Held(t) /\ \E r \in DOMAIN runs : runs[r].thread = t
      /\ chat' = [pc |-> "reserved", thread |-> t]
      /\ markers' = markers \cup Marks({t}, "chat")
      /\ UNCHANGED <<now, autos, runs, threads, task, op, phase, todo>>
  BY DEF ChatReserves, store, process
<1>2. OpInv' /\ PhaseInv' /\ OpenInv' /\ SlotInv' /\ KeptAll
  BY <1>1, StillThere
<1>3. chat'.pc = "reserved" /\ chat'.thread = t /\ chat' \in ChatSet
  <2>1. t \in Nat
    BY RowsKind DEF RunInv
  <2>. QED
    BY <1>1, <2>1 DEF ChatSet
<1>4. KindsInv'
  BY <1>1, <1>3 DEF RunInv, KindsInv
<1>5. KnownInv'
  <2>1. markers' \subseteq [thread : DOMAIN runs, kind : {"automation", "chat", "prune"}]
    BY <1>1 DEF RunInv, KnownInv, Marks
  <2>. QED
    BY <1>1, <1>3, <2>1 DEF RunInv, KnownInv, KnownTask, Of
<1>6. MarkerInv'
  BY <1>1, <1>3 DEF RunInv, MarkerInv, Running
<1>7. Apart'
  <2>1. /\ \A q \in Tasks : \A m \in task[q].marks : m # t
        /\ \A m \in op.marks : m # t
    BY <1>1, Holders
  <2>. QED
    BY <1>1, <1>3, <2>1 DEF RunInv, Apart, Running
<1>8. ThreadInv'
  BY <1>1, <1>3 DEF RunInv, ThreadInv, TurnsKeepTheirThread
<1>. QED
  BY <1>2, <1>4, <1>5, <1>6, <1>7, <1>8 DEF RunInv

LEMMA ChatLeavesKeeps ==
  ASSUME RunInv, chat' = NoChat, markers' = markers \ Marks({chat.thread}, "chat"),
         UNCHANGED <<now, autos, runs, threads, task, op, phase, todo>>
  PROVE  RunInv'
<1>2. OpInv' /\ PhaseInv' /\ OpenInv' /\ SlotInv' /\ KeptAll
  BY StillThere
<1>3. chat'.pc = "idle" /\ chat' \in ChatSet
  BY DEF ChatSet, NoChat
<1>4. KindsInv'
  BY <1>3 DEF RunInv, KindsInv
<1>5. KnownInv'
  BY <1>3 DEF RunInv, KnownInv, KnownTask, Of
<1>6. MarkerInv'
  BY <1>3 DEF RunInv, MarkerInv, Running, Marks
<1>7. Apart' /\ ThreadInv'
  BY <1>2, <1>3, KeptApart, KeptThreads DEF RollingOwned
<1>. QED
  BY <1>2, <1>4, <1>5, <1>6, <1>7 DEF RunInv

LEMMA ChatRevalidatesKeeps == ASSUME RunInv, ChatRevalidates PROVE RunInv'
<1>1. /\ chat.pc = "reserved"
      /\ UNCHANGED <<now, autos, runs, threads, task, op, phase, todo>>
  BY DEF ChatRevalidates, world, store, process
<1>2. CASE Stale(chat.thread)
  BY <1>1, <1>2, ChatLeavesKeeps DEF ChatRevalidates
<1>3. CASE ~Stale(chat.thread)
  <2>1. UNCHANGED markers /\ chat' = [chat EXCEPT !.pc = "turn"]
    BY <1>3 DEF ChatRevalidates
  <2>2. OpInv' /\ PhaseInv' /\ OpenInv' /\ SlotInv' /\ KeptAll
    BY <1>1, StillThere
  <2>3. chat' \in ChatSet /\ chat'.pc = "turn" /\ chat'.thread = chat.thread
    BY <2>1 DEF RunInv, KindsInv, ChatSet
  <2>4. KindsInv'
    BY <1>1, <2>3 DEF RunInv, KindsInv
  <2>5. KnownInv'
    BY <1>1, <2>1, <2>3 DEF RunInv, KnownInv, KnownTask, Of
  <2>6. MarkerInv' /\ Apart'
    BY <1>1, <2>1, <2>2, <2>3, GrownMarkers, KeptApart
  <2>7. ThreadInv'
    BY <1>1, <1>3, <2>3 DEF RunInv, ThreadInv, TurnsKeepTheirThread, Stale, RollingOwned
  <2>. QED
    BY <2>2, <2>4, <2>5, <2>6, <2>7 DEF RunInv
<1>. QED
  BY <1>2, <1>3

LEMMA ChatEndsKeeps == ASSUME RunInv, ChatEnds PROVE RunInv'
  BY ChatLeavesKeeps DEF ChatEnds, world, store, process

LEMMA ClockTicksKeeps == ASSUME RunInv, ClockTicks PROVE RunInv'
<1>1. /\ now < MaxTime /\ now' = now + 1
      /\ UNCHANGED <<autos, runs, threads, markers, task, op, chat, phase, todo>>
  BY DEF ClockTicks, store, process, requests
<1>2. now \in 0 .. MaxTime /\ MaxTime \in Nat
  BY AutomationsAssumption DEF RunInv, KindsInv
<1>3. KindsInv'
  BY <1>1, <1>2 DEF RunInv, KindsInv
<1>4. KnownInv' /\ OpInv' /\ PhaseInv' /\ OpenInv'
  BY <1>1 DEF RunInv, KnownInv, KnownTask, Of, OpInv, PhaseInv, PhaseOf, OpenInv, EveryRunOwned,
              NoGhostRuns, Open, RunsOf, Running
<1>5. MarkerInv' /\ Apart' /\ ThreadInv'
  BY <1>1 DEF RunInv, MarkerInv, Apart, ThreadInv, TurnsKeepTheirThread, RollingOwned, Running
<1>6. SlotInv'
  <2>1. \A r \in DOMAIN runs : runs[r].slot \in Nat
    BY RowsKind DEF RunInv, RowSet
  <2>2. \A a, n : Slots(a, n) => Slots(a, n)'
    BY <1>1, <1>2, <2>1 DEF Slots
  <2>3. \A p \in Tasks : task[p].moment \in Nat
    BY DEF RunInv, KindsInv, TaskSet
  <2>. QED
    BY <1>1, <1>2, <2>2, <2>3 DEF RunInv, SlotInv, SlotOnce, Unusable
<1>. QED
  BY <1>3, <1>4, <1>5, <1>6 DEF RunInv

LEMMA StutterKeeps ==
  ASSUME RunInv, UNCHANGED <<now, autos, runs, threads, markers, task, op, chat, phase, todo>>
  PROVE  RunInv'
<1>1. OpInv' /\ PhaseInv' /\ OpenInv' /\ SlotInv'
  BY StillThere
<1>2. KindsInv' /\ KnownInv'
  BY DEF RunInv, KindsInv, KnownInv, KnownTask, Of
<1>3. MarkerInv' /\ Apart' /\ ThreadInv'
  BY DEF RunInv, MarkerInv, Apart, ThreadInv, TurnsKeepTheirThread, RollingOwned, Running
<1>. QED
  BY <1>1, <1>2, <1>3 DEF RunInv

-----------------------------------------------------------------------------
(* The steps of the process *)

\* The definitions, rows and slots, where only the tasks, the phase and the sweep change.
LEMMA StoreStays ==
  ASSUME RunInv, UNCHANGED <<now, autos, runs, threads, markers>>, op' = op, KeptAll,
         chat'.pc # "idle" => chat.pc # "idle" /\ chat'.thread = chat.thread,
         chat'.pc \in {"turn", "stopping"} => chat.pc \in {"turn", "stopping"}
  PROVE  /\ SlotInv' /\ MarkerInv' /\ Apart' /\ ThreadInv'
         /\ todo' \subseteq DOMAIN runs => KnownInv'
<1>1. RowsKept /\ RowsStay
  BY SameRowsKept
<1>2. SlotInv'
  BY <1>1, KeptSlots DEF KeptAll, Kept
<1>3. MarkerInv' /\ Apart' /\ ThreadInv'
  BY GrownMarkers, KeptApart, KeptThreads DEF RollingOwned
<1>4. ASSUME todo' \subseteq DOMAIN runs PROVE KnownInv'
  <2>1. \A q \in Tasks : KnownTask(q)'
    BY <1>1, KeptKnown
  <2>. QED
    BY <1>4, <2>1 DEF RunInv, KnownInv, Of
<1>. QED
  BY <1>2, <1>3, <1>4

\* The tasks have the turns and the rows they had, cancelled or not.
SameRuns == \A q \in Tasks :
    /\ task'[q].pc = task[q].pc /\ task'[q].auto = task[q].auto /\ task'[q].run = task[q].run
    /\ task'[q].thread = task[q].thread /\ task'[q].marks = task[q].marks
    /\ task'[q].drop = task[q].drop /\ task'[q].moment = task[q].moment
    /\ task'[q].status = task[q].status
    /\ Running(q)' <=> Running(q)

LEMMA SameRunsKept == ASSUME RunInv, SameRuns PROVE KeptAll
<1>1. ASSUME NEW q \in Tasks PROVE Kept(q)
  <2>1. KnownTask(q)
    BY DEF RunInv, KnownInv
  <2>2. /\ task[q].drop \subseteq {r \in DOMAIN runs : runs[r].status # "running"}
        /\ Running(q) /\ task[q].pc = "finish" => task[q].status = "interrupted"
        /\ task[q].pc = "claiming" => task[q].moment <= now
        /\ task[q].pc \in WithThread => task[q].thread \in threads
    BY <2>1 DEF RunInv, OpenInv, SlotInv, ThreadInv, KnownTask, WithThread
  <2>. QED
    BY <2>1, <2>2 DEF Kept, KnownTask, SameRuns
<1>. QED
  BY <1>1 DEF KeptAll

\* Going from one phase to another, the runs in progress as they were.
LEMMA OpenMovesOn ==
  ASSUME RunInv, SameRuns, UNCHANGED <<autos, runs>>, todo' = todo \/ todo' = Open,
         phase' \notin {"closing", "down", "boot"} \/ Open \subseteq todo',
         phase \notin {"crashed", "manual"} \/ Open \subseteq todo' \/ phase' \in {"crashed", "manual"},
         phase # "closing" \/ phase' = "closing"
  PROVE  OpenInv'
<1>1. Open' = Open
  BY DEF Open
<1>2. EveryRunOwned'
  BY <1>1 DEF RunInv, OpenInv, EveryRunOwned, SameRuns
<1>3. NoGhostRuns'
  BY DEF RunInv, OpenInv, NoGhostRuns, SameRuns
<1>4. ASSUME NEW q \in Tasks
      PROVE  /\ task'[q].pc \in Owning => runs[task'[q].run].status \in {"running", "interrupted"}
             /\ task'[q].pc \in Owning /\ phase' # "closing" => runs[task'[q].run].status = "running"
             /\ Running(q)' /\ task'[q].run # 0 =>
                    runs[task'[q].run].status \in {"running", "interrupted", "gone"}
             /\ Running(q)' /\ task'[q].pc = "finish" => task'[q].status = "interrupted"
             /\ \A r \in task'[q].drop : runs[r].status # "running"
  BY DEF RunInv, OpenInv, SameRuns
<1>5. \A p, q \in Tasks : task'[p].run = task'[q].run /\ task'[p].run # 0 => p = q
  BY DEF RunInv, OpenInv, SameRuns
<1>. QED
  BY <1>1, <1>2, <1>3, <1>4, <1>5 DEF OpenInv

LEMMA ShutdownKeeps == ASSUME RunInv, ShutdownStarts PROVE RunInv'
<1>1. /\ phase = "up" /\ phase' = "drain" /\ op.stage = "idle"
      /\ task["manual"].pc \notin {"claiming", "claimed"} /\ task["manual"].cancelled = FALSE
      /\ task' = [p \in Tasks |-> [task[p] EXCEPT !.turn =
                                       IF task[p].turn = "live" THEN "stopping" ELSE task[p].turn]]
      /\ chat.pc \in {"idle", "turn"}
      /\ chat' = [chat EXCEPT !.pc = IF chat.pc = "turn" THEN "stopping" ELSE chat.pc]
      /\ UNCHANGED <<now, markers, op, todo, autos, runs, threads>>
  BY DEF ShutdownStarts, store
<1>2. task \in [Tasks -> TaskSet] /\ chat \in ChatSet
  BY DEF RunInv, KindsInv
<1>3. ASSUME NEW q \in Tasks
      PROVE  /\ task'[q] \in TaskSet /\ task'[q].cancelled = task[q].cancelled
             /\ task'[q].pc = task[q].pc /\ task'[q].auto = task[q].auto /\ task'[q].run = task[q].run
             /\ task'[q].thread = task[q].thread /\ task'[q].marks = task[q].marks
             /\ task'[q].drop = task[q].drop /\ task'[q].moment = task[q].moment
             /\ task'[q].status = task[q].status
             /\ Running(q)' <=> Running(q)
  <2>. DEFINE turn == IF task[q].turn = "live" THEN "stopping" ELSE task[q].turn
  <2>1. task[q] \in TaskSet /\ task[q].turn \in Turns
    BY <1>2 DEF TaskSet
  <2>2. turn \in Turns /\ (turn \in Live <=> task[q].turn \in Live)
    BY <2>1 DEF Turns, Live
  <2>3. task'[q] = [task[q] EXCEPT !.turn = turn]
    BY <1>1
  <2>. HIDE DEF turn
  <2>4. /\ task'[q] \in TaskSet /\ task'[q].turn = turn /\ task'[q].cancelled = task[q].cancelled
        /\ task'[q].pc = task[q].pc /\ task'[q].auto = task[q].auto /\ task'[q].run = task[q].run
        /\ task'[q].thread = task[q].thread /\ task'[q].marks = task[q].marks
        /\ task'[q].drop = task[q].drop /\ task'[q].moment = task[q].moment
        /\ task'[q].status = task[q].status
    BY <2>1, <2>2, <2>3 DEF TaskSet
  <2>. QED
    BY <2>2, <2>4 DEF Running
<1>4. task' \in [Tasks -> TaskSet] /\ SameRuns
  BY <1>1, <1>3 DEF SameRuns
<1>5. /\ chat' \in ChatSet /\ chat'.thread = chat.thread
      /\ chat'.pc = IF chat.pc = "turn" THEN "stopping" ELSE chat.pc
  BY <1>1, <1>2 DEF ChatSet
<1>6. KeptAll
  BY <1>4, SameRunsKept
<1>7. KindsInv'
  BY <1>1, <1>4, <1>5 DEF RunInv, KindsInv, Phases
<1>8. todo' \subseteq DOMAIN runs
  BY <1>1 DEF RunInv, KnownInv
<1>9. KnownInv' /\ SlotInv' /\ MarkerInv' /\ Apart' /\ ThreadInv'
  BY <1>1, <1>5, <1>6, <1>8, StoreStays
<1>10. OpInv'
  BY <1>1 DEF RunInv, OpInv
<1>11. PhaseInv'
  BY <1>1, <1>3 DEF RunInv, PhaseInv, PhaseOf
<1>12. OpenInv'
  BY <1>1, <1>4, OpenMovesOn
<1>. QED
  BY <1>7, <1>9, <1>10, <1>11, <1>12 DEF RunInv

\* A task is cancelled.
LEMMA CancelledSame ==
  ASSUME RunInv, NEW p \in Tasks, task' = Cancelled(p, task)
  PROVE  /\ task' \in [Tasks -> TaskSet] /\ SameRuns
         /\ \A q \in Tasks : task'[q].cancelled = IF q = p THEN task[p].pc # "off"
                                                  ELSE task[q].cancelled
<1>. DEFINE t == [task[p] EXCEPT !.cancelled = task[p].pc # "off"]
<1>1. KindsInv /\ task[p] \in TaskSet
  BY DEF RunInv, KindsInv
<1>2. /\ t \in TaskSet /\ t.pc = task[p].pc /\ t.auto = task[p].auto /\ t.run = task[p].run
      /\ t.thread = task[p].thread /\ t.marks = task[p].marks /\ t.drop = task[p].drop
      /\ t.moment = task[p].moment /\ t.turn = task[p].turn /\ t.status = task[p].status
      /\ t.cancelled = (task[p].pc # "off")
  BY <1>1 DEF TaskSet
<1>3. task' = [task EXCEPT ![p] = t]
  BY <1>1 DEF Cancelled, KindsInv
<1>. HIDE DEF t
<1>4. task' \in [Tasks -> TaskSet] /\ task'[p] = t /\ \A q \in Tasks \ {p} : task'[q] = task[q]
  BY <1>1, <1>2, <1>3, Becomes
<1>. QED
  BY <1>2, <1>4 DEF SameRuns, Running

LEMMA LoopCancelledKeeps == ASSUME RunInv, LoopCancelled PROVE RunInv'
<1>1. /\ phase = "drain" /\ phase' = "joining" /\ task' = Cancelled("loop", task)
      /\ UNCHANGED <<now, markers, todo, autos, runs, threads, op, chat>>
  BY DEF LoopCancelled, world, store, requests
<1>2. /\ task' \in [Tasks -> TaskSet] /\ SameRuns
      /\ task'["manual"].cancelled = task["manual"].cancelled
  BY <1>1, CancelledSame
<1>3. KeptAll
  BY <1>2, SameRunsKept
<1>4. KindsInv'
  BY <1>1, <1>2 DEF RunInv, KindsInv, Phases
<1>5. todo' \subseteq DOMAIN runs
  BY <1>1 DEF RunInv, KnownInv
<1>6. KnownInv' /\ SlotInv' /\ MarkerInv' /\ Apart' /\ ThreadInv'
  BY <1>1, <1>3, <1>5, StoreStays
<1>7. OpInv'
  BY <1>1 DEF RunInv, OpInv
<1>8. PhaseInv'
  BY <1>1, <1>2 DEF RunInv, PhaseInv, PhaseOf, SameRuns
<1>9. OpenInv'
  BY <1>1, <1>2, OpenMovesOn
<1>. QED
  BY <1>4, <1>6, <1>7, <1>8, <1>9 DEF RunInv

LEMMA ManualCancelledKeeps == ASSUME RunInv, ManualCancelled PROVE RunInv'
<1>1. /\ phase = "joining" /\ task["loop"].pc = "off"
      /\ phase' = (IF task["manual"].pc = "off" THEN "closing" ELSE "manual")
      /\ task' = Cancelled("manual", task)
      /\ UNCHANGED <<now, markers, todo, autos, runs, threads, op, chat>>
  BY DEF ManualCancelled, world, store, requests
<1>2. task' \in [Tasks -> TaskSet] /\ SameRuns
  BY <1>1, CancelledSame
<1>3. KeptAll
  BY <1>2, SameRunsKept
<1>4. KindsInv'
  BY <1>1, <1>2 DEF RunInv, KindsInv, Phases
<1>5. todo' \subseteq DOMAIN runs
  BY <1>1 DEF RunInv, KnownInv
<1>6. KnownInv' /\ SlotInv' /\ MarkerInv' /\ Apart' /\ ThreadInv'
  BY <1>1, <1>3, <1>5, StoreStays
<1>7. OpInv'
  BY <1>1 DEF RunInv, OpInv
<1>8. PhaseInv'
  BY <1>1, <1>2 DEF RunInv, PhaseInv, PhaseOf, SameRuns
<1>9. phase' = "closing" => Open \subseteq todo
  BY <1>1 DEF RunInv, OpenInv, EveryRunOwned, Owning
<1>10. OpenInv'
  BY <1>1, <1>2, <1>9, OpenMovesOn
<1>. QED
  BY <1>4, <1>6, <1>7, <1>8, <1>10 DEF RunInv

\* The tasks stay, the phase goes on and a sweep may begin.
LEMMA SweepBegins ==
  ASSUME RunInv, UNCHANGED <<now, markers, task, autos, runs, threads, op, chat>>, todo' = Open,
         phase' \in {"closing", "boot"}, phase \in {"manual", "down", "crashed"}, PhaseInv'
  PROVE  RunInv'
<1>1. SameRuns
  BY DEF SameRuns, Running
<1>2. KeptAll
  BY <1>1, SameRunsKept
<1>3. KindsInv'
  BY DEF RunInv, KindsInv, Phases
<1>4. todo' \subseteq DOMAIN runs
  BY DEF Open
<1>5. KnownInv' /\ SlotInv' /\ MarkerInv' /\ Apart' /\ ThreadInv'
  BY <1>2, <1>4, StoreStays
<1>6. OpInv'
  BY DEF RunInv, OpInv
<1>7. OpenInv'
  BY <1>1, OpenMovesOn
<1>. QED
  BY <1>3, <1>5, <1>6, <1>7 DEF RunInv

LEMMA BackstopKeeps == ASSUME RunInv, BackstopSweep PROVE RunInv'
<1>1. /\ phase = "manual" /\ phase' = "closing" /\ todo' = Open
      /\ UNCHANGED <<now, markers, task, autos, runs, threads, op, chat>>
  BY DEF BackstopSweep, world, store, requests
<1>2. PhaseInv'
  BY <1>1 DEF RunInv, PhaseInv, PhaseOf
<1>. QED
  BY <1>1, <1>2, SweepBegins

LEMMA BootKeeps == ASSUME RunInv, ArbiterInv, Boot PROVE RunInv'
<1>1. /\ phase \in {"down", "crashed"} /\ phase' = "boot" /\ todo' = Open
      /\ UNCHANGED <<now, markers, task, autos, runs, threads, op, chat>>
  BY DEF Boot, world, store, requests
<1>2. PhaseInv'
  BY <1>1 DEF ArbiterInv, NobodyHome, Absent, PhaseInv, PhaseOf
<1>. QED
  BY <1>1, <1>2, SweepBegins

\* The sweep interrupts an open row.
LEMMA SweepRowKeeps ==
  ASSUME RunInv, ArbiterInv, NEW r \in todo, SweepRow(r) PROVE RunInv'
<1>. DEFINE old == runs[r]
            more == old.events + 1
            swept == [old EXCEPT !.status = "interrupted", !.events = more]
            row == IF old.status = "running" THEN swept ELSE old
<1>1. /\ phase \in {"closing", "boot"} /\ todo' = todo \ {r}
      /\ runs' = [runs EXCEPT ![r] = row]
      /\ UNCHANGED <<now, autos, threads, markers, task, phase, op, chat>>
  BY DEF SweepRow, world, requests
<1>2. r \in DOMAIN runs /\ old \in RowSet
  <2>1. r \in DOMAIN runs
    BY DEF RunInv, KnownInv
  <2>. QED
    BY <2>1, RowsKind DEF RunInv
<1>3. /\ row \in RowSet /\ row.auto = old.auto /\ row.slot = old.slot /\ row.thread = old.thread
      /\ row.status = IF old.status = "running" THEN "interrupted" ELSE old.status
  <2>1. /\ swept \in RowSet /\ swept.auto = old.auto /\ swept.slot = old.slot
        /\ swept.thread = old.thread /\ swept.status = "interrupted"
    <3>1. more \in Nat /\ "interrupted" \in Terminal
      BY <1>2 DEF RowSet, Terminal
    <3>. HIDE DEF more
    <3>. QED
      BY <1>2, <3>1 DEF RowSet
  <2>. QED
    BY <1>2, <2>1
<1>. HIDE DEF row
<1>4. /\ runs' \in Seq(RowSet) /\ DOMAIN runs' = DOMAIN runs
      /\ runs'[r] = row /\ \A n \in DOMAIN runs : n # r => runs'[n] = runs[n]
  BY <1>1, <1>2, <1>3, RowWritten
<1>5. \A n \in DOMAIN runs :
         /\ runs'[n].auto = runs[n].auto /\ runs'[n].slot = runs[n].slot
         /\ runs'[n].thread = runs[n].thread
         /\ \/ runs'[n].status = runs[n].status
            \/ n = r /\ runs[n].status = "running" /\ runs'[n].status = "interrupted"
         /\ runs'[r].status # "running"
  BY <1>3, <1>4
<1>6. RowsKept /\ RowsStay
  BY <1>4, <1>5 DEF RowsKept, RowsStay
<1>7. KeptAll
  BY <1>1, StillKept DEF KeptAll
<1>8. KindsInv'
  BY <1>1, <1>4 DEF RunInv, KindsInv
<1>9. KnownInv'
  <2>1. \A q \in Tasks : KnownTask(q)'
    BY <1>6, <1>7, KeptKnown
  <2>. QED
    BY <1>1, <1>4, <1>5, <2>1 DEF RunInv, KnownInv, Of
<1>10. OpInv' /\ PhaseInv'
  BY <1>1 DEF RunInv, OpInv, PhaseInv, PhaseOf
<1>11. OpenInv'
  <2>1. Open \subseteq todo /\ Open' \subseteq todo'
    <3>1. Open \subseteq todo
      BY <1>1 DEF RunInv, OpenInv
    <3>2. Open' \subseteq Open \ {r}
      BY <1>4, <1>5 DEF Open
    <3>. QED
      BY <1>1, <3>1, <3>2
  <2>2. phase = "boot" => \A q \in Tasks : task[q].pc \notin Owning /\ ~Running(q)
    BY DEF ArbiterInv, NobodyHome, Absent, Owning
  <2>3. \A q \in Tasks : task[q].pc \in Owning \/ task[q].run # 0 => task[q].run \in DOMAIN runs
    BY HasRow DEF RunInv, KnownInv, KnownTask, Owning, WithRow, Engaged, Points
  <2>4. ASSUME NEW q \in Tasks
        PROVE  /\ task[q].pc \in Owning =>
                      /\ phase = "closing"
                      /\ runs'[task[q].run].status \in {"running", "interrupted"}
               /\ Running(q) /\ task[q].run # 0 =>
                      runs'[task[q].run].status \in {"running", "interrupted", "gone"}
               /\ \A n \in task[q].drop : runs'[n].status # "running"
    <3>1. task[q].pc \in Owning =>
             /\ phase = "closing" /\ runs'[task[q].run].status \in {"running", "interrupted"}
      BY <1>1, <1>5, <2>2, <2>3 DEF RunInv, OpenInv
    <3>2. Running(q) /\ task[q].run # 0 =>
             runs'[task[q].run].status \in {"running", "interrupted", "gone"}
      BY <1>5, <2>3 DEF RunInv, OpenInv
    <3>3. KnownTask(q)
      BY DEF RunInv, KnownInv
    <3>4. \A n \in task[q].drop : runs'[n].status # "running"
      BY <1>5, <3>3 DEF RunInv, OpenInv, KnownTask
    <3>. QED
      BY <3>1, <3>2, <3>4
  <2>5. EveryRunOwned' /\ NoGhostRuns'
    BY <1>1, <2>1 DEF EveryRunOwned, NoGhostRuns, RunInv, OpenInv
  <2>. QED
    BY <1>1, <2>1, <2>4, <2>5 DEF RunInv, OpenInv, Running
<1>12. SlotInv'
  BY <1>1, <1>6, <1>7, KeptSlots DEF KeptAll, Kept
<1>13. MarkerInv' /\ Apart' /\ ThreadInv'
  BY <1>1, <1>4, <1>5, <1>7, GrownMarkers, KeptApart, KeptThreads DEF RollingOwned
<1>. QED
  BY <1>8, <1>9, <1>10, <1>11, <1>12, <1>13 DEF RunInv

\* The process is gone, with all it had in memory.
LEMMA ProcessEndsKeeps ==
  ASSUME RunInv, NEW how \in {"down", "crashed"}, ProcessEnds(how), UNCHANGED <<now, autos, runs, threads>>,
         how = "crashed" \/ Open = {}
  PROVE  RunInv'
<1>1. /\ phase' = how /\ markers' = {} /\ todo' = {}
      /\ task' = [p \in Tasks |-> Blank] /\ op' = NoOp /\ chat' = NoChat
  BY DEF ProcessEnds
<1>2. \A q \in Tasks : /\ task'[q].pc = "off" /\ task'[q].run = 0 /\ task'[q].thread = 0
                       /\ task'[q].turn = "none" /\ task'[q].drop = {} /\ task'[q].marks = {}
  BY <1>1 DEF Blank
<1>3. task' \in [Tasks -> TaskSet]
  BY <1>1, BlankKind
<1>4. /\ op'.stage = "idle" /\ op'.marks = {} /\ op' \in OpSet
      /\ chat'.pc = "idle" /\ chat' \in ChatSet
  BY <1>1 DEF NoOp, NoChat, OpSet, ChatSet
<1>5. \A q \in Tasks : /\ ~Running(q)'
                       /\ task'[q].pc \notin Engaged \cup WithRow \cup Owning \cup Fresh \cup WithThread
  BY <1>2 DEF Running, Live, Engaged, WithRow, Owning, Points, Fresh, WithThread
<1>6. KindsInv'
  BY <1>1, <1>3, <1>4 DEF RunInv, KindsInv, Phases
<1>7. KnownInv'
  <2>1. \A q \in Tasks : KnownTask(q)'
    BY <1>2, <1>5 DEF KnownTask
  <2>. QED
    BY <1>1, <1>4, <2>1 DEF RunInv, KnownInv, Of
<1>8. OpInv' /\ PhaseInv'
  BY <1>2, <1>4 DEF OpInv, PhaseInv, PhaseOf
<1>9. Open' = Open
  BY DEF Open
<1>10. OpenInv'
  BY <1>1, <1>2, <1>5, <1>9 DEF OpenInv, EveryRunOwned, NoGhostRuns
<1>11. SlotInv'
  <2>1. RowsKept
    BY SameRowsKept
  <2>. QED
    BY <1>2, <1>4, <2>1, KeptSlots
<1>12. MarkerInv' /\ Apart'
  BY <1>2, <1>4, <1>5 DEF MarkerInv, Apart, Marks
<1>13. ThreadInv'
  BY <1>2, <1>4, <1>5 DEF ThreadInv, TurnsKeepTheirThread, Running, Fresh, WithThread
<1>. QED
  BY <1>6, <1>7, <1>8, <1>10, <1>11, <1>12, <1>13 DEF RunInv

LEMMA ProcessGoneKeeps == ASSUME RunInv, DatabaseCloses \/ Crash PROVE RunInv'
<1>1. CASE DatabaseCloses
  <2>1. Open = {}
    BY <1>1 DEF DatabaseCloses, RunInv, OpenInv
  <2>. QED
    BY <1>1, <2>1, ProcessEndsKeeps DEF DatabaseCloses, world, store
<1>2. CASE Crash
  BY <1>2, ProcessEndsKeeps DEF Crash, store
<1>. QED
  BY <1>1, <1>2

LEMMA LoopStartsKeeps == ASSUME RunInv, ArbiterInv, LoopStarts PROVE RunInv'
<1>. DEFINE t == [task["loop"] EXCEPT !.pc = "sleep"]
<1>1. /\ phase = "boot" /\ todo = {} /\ phase' = "up" /\ task' = [task EXCEPT !["loop"] = t]
      /\ UNCHANGED <<now, autos, runs, threads, markers, op, chat, todo>>
  BY DEF LoopStarts, Go, world, store, requests
<1>2. \A q \in Tasks : task[q].pc = "off" /\ ~Running(q)
  BY <1>1 DEF ArbiterInv, NobodyHome, Absent
<1>3. KindsInv /\ task["loop"] \in TaskSet
  BY DEF RunInv, KindsInv
<1>4. /\ t \in TaskSet /\ t.pc = "sleep" /\ t.run = task["loop"].run
      /\ t.thread = task["loop"].thread /\ t.marks = task["loop"].marks
      /\ t.drop = task["loop"].drop /\ t.turn = task["loop"].turn
  BY <1>3 DEF TaskSet, Points
<1>. HIDE DEF t
<1>5. task' \in [Tasks -> TaskSet] /\ task'["loop"] = t /\ task'["manual"] = task["manual"]
  BY <1>1, <1>3, <1>4, Becomes
<1>6. \A q \in Tasks : /\ ~Running(q)' /\ task'[q].pc \in {"off", "sleep"}
                       /\ task'[q].run = task[q].run /\ task'[q].marks = task[q].marks
                       /\ task'[q].drop = task[q].drop /\ task'[q].thread = task[q].thread
  BY <1>2, <1>4, <1>5 DEF Running
<1>7. \A q \in Tasks : task'[q].pc \notin Engaged \cup WithRow \cup Owning \cup Fresh \cup WithThread
  BY <1>6 DEF Engaged, WithRow, Owning, Points, Fresh, WithThread
<1>8. KeptAll
  <2>1. ASSUME NEW q \in Tasks PROVE Kept(q)
    <3>1. KnownTask(q)
      BY DEF RunInv, KnownInv
    <3>2. task[q].marks = {}
      BY <1>2, <3>1 DEF KnownTask
    <3>3. task[q].drop \subseteq {r \in DOMAIN runs : runs[r].status # "running"}
      BY <3>1 DEF KnownTask, RunInv, OpenInv
    <3>4. task'[q].pc \notin {"commit", "claiming", "adopt"}
      BY <1>6
    <3>. QED
      BY <1>6, <1>7, <3>1, <3>2, <3>3, <3>4 DEF Kept, KnownTask
  <2>. QED
    BY <2>1 DEF KeptAll
<1>9. KindsInv'
  BY <1>1, <1>3, <1>5 DEF KindsInv, Phases
<1>10. todo' \subseteq DOMAIN runs
  BY <1>1
<1>11. KnownInv' /\ SlotInv' /\ MarkerInv' /\ Apart' /\ ThreadInv'
  BY <1>1, <1>8, <1>10, StoreStays
<1>12. OpInv'
  BY <1>1 DEF RunInv, OpInv
<1>13. PhaseInv'
  BY <1>1, <1>6 DEF PhaseInv, PhaseOf
<1>14. OpenInv'
  <2>1. Open = {} /\ Open' = {}
    BY <1>1 DEF RunInv, OpenInv, Open
  <2>2. \A q \in Tasks : \A r \in task'[q].drop : runs'[r].status # "running"
    BY <1>1, <1>6 DEF RunInv, OpenInv
  <2>3. \A p, q \in Tasks : task'[p].run = task'[q].run /\ task'[p].run # 0 => p = q
    BY <1>6 DEF RunInv, OpenInv
  <2>. QED
    BY <1>1, <1>6, <1>7, <2>1, <2>2, <2>3 DEF OpenInv, EveryRunOwned, NoGhostRuns
<1>. QED
  BY <1>9, <1>11, <1>12, <1>13, <1>14 DEF RunInv

-----------------------------------------------------------------------------
(* The steps of the owner *)

\* One definition is written: the runs in progress and their threads do not mind.
LEMMA WrittenKeeps ==
  ASSUME RunInv, NEW a \in Autos, NEW row \in Definition, autos' = [autos EXCEPT ![a] = row],
         UNCHANGED <<now, runs, threads, markers, task, op, chat, phase, todo>>,
         op.stage # "body", row.life = "stored", row.thread \in {0, autos[a].thread},
         row.usable = autos[a].usable,
         (row.mode = autos[a].mode /\ autos[a].life = "stored") \/ row.thread = 0,
         row.usable => Slots(a, row.next)
  PROVE  RunInv'
<1>1. /\ autos' \in [Autos -> Definition] /\ autos'[a] = row
      /\ \A b \in Autos : b # a => autos'[b] = autos[b]
  BY DEF RunInv, KindsInv
<1>2. KeptAll
  BY StillKept DEF KeptAll
<1>3. RowsKept /\ RowsStay
  BY SameRowsKept
<1>4. KindsInv'
  BY <1>1 DEF RunInv, KindsInv
<1>5. KnownInv'
  <2>1. \A q \in Tasks : KnownTask(q)'
    BY <1>2, <1>3, KeptKnown
  <2>. QED
    BY <1>1, <2>1 DEF RunInv, KnownInv, Of
<1>6. OpInv' /\ PhaseInv'
  BY <1>3, <1>2, KeptOp DEF RunInv, PhaseInv, PhaseOf
<1>7. OpenInv'
  <2>1. \A q \in Tasks : task'[q].pc \in Owning =>
           /\ autos'[task[q].auto].life = "stored" /\ runs'[task[q].run].status = runs[task[q].run].status
    BY <1>1, HasRow DEF RunInv, OpenInv, NoGhostRuns, Owning, WithRow, Engaged, Points
  <2>. QED
    BY <1>2, <1>3, <2>1, KeptOpen
<1>8. SlotInv'
  <2>1. \A b, n : Slots(b, n) => Slots(b, n)'
    BY DEF Slots
  <2>2. Unusable' = Unusable
    BY <1>1 DEF Unusable
  <2>3. SlotOnce'
    BY <2>2 DEF RunInv, SlotInv, SlotOnce
  <2>. QED
    BY <1>1, <2>1, <2>2, <2>3 DEF RunInv, SlotInv, Unusable
<1>9. MarkerInv' /\ Apart'
  BY <1>2, GrownMarkers, KeptApart
<1>10. ThreadInv'
  <2>1. 0 \notin threads'
    BY RowsKind DEF RunInv, KnownInv
  <2>2. \A t \in threads' : RollingOwned(t)' => RollingOwned(t)
    BY <1>1, <2>1 DEF RollingOwned
  <2>. QED
    BY <1>1, <1>2, <2>2, KeptThreads
<1>. QED
  BY <1>4, <1>5, <1>6, <1>7, <1>8, <1>9, <1>10 DEF RunInv

\* A slot after now is later than any slot that has been.
LEMMA LaterSlots ==
  ASSUME RunInv, NEW a \in Autos, autos[a].usable
  PROVE  Slots(a, 0) /\ Slots(a, NextFire(now)) /\ Slots(a, autos[a].next) /\ NextFire(now) \in Nat
<1>1. now \in Nat
  BY AutomationsAssumption DEF RunInv, KindsInv
<1>2. NextFire(now) \in Nat /\ NextFire(now) > now
  BY <1>1, NextFireLater
<1>3. Slots(a, autos[a].next)
  BY DEF RunInv, SlotInv, Unusable
<1>4. \A r \in DOMAIN runs : runs[r].slot \in Nat
  BY RowsKind DEF RunInv, RowSet
<1>. QED
  BY <1>1, <1>2, <1>3, <1>4 DEF Slots

LEMMA CreateKeeps ==
  ASSUME RunInv, NEW a \in Autos, NEW draft \in Drafts, Create(a, draft) PROVE RunInv'
<1>. DEFINE next == IF draft.enabled THEN NextFire(now) ELSE 0
            row == [life |-> "stored", enabled |-> draft.enabled, mode |-> draft.mode, rev |-> 1,
                    next |-> next, thread |-> 0, usable |-> TRUE]
<1>1. /\ Unlocked /\ autos[a].life = "unborn" /\ autos' = [autos EXCEPT ![a] = row]
      /\ UNCHANGED <<now, runs, threads, markers, task, op, chat, phase, todo>>
  BY DEF Create, world, process, requests
<1>2. autos[a].usable
  BY <1>1 DEF RunInv, SlotInv
<1>3. next \in Nat /\ Slots(a, next)
  BY <1>2, LaterSlots
<1>4. draft.enabled \in BOOLEAN /\ draft.mode \in {"fresh", "rolling"}
  BY AutomationsAssumption
<1>. HIDE DEF next
<1>5. /\ row \in Definition /\ row.life = "stored" /\ row.thread = 0 /\ row.usable = TRUE
      /\ row.next = next
  BY <1>3, <1>4 DEF Definition
<1>. HIDE DEF row
<1>. QED
  BY <1>1, <1>2, <1>3, <1>5, WrittenKeeps DEF Unlocked

LEMMA SetEnabledKeeps ==
  ASSUME RunInv, NEW a \in Autos, NEW enabled \in BOOLEAN, SetEnabled(a, enabled) PROVE RunInv'
<1>. DEFINE next == IF enabled THEN NextFire(now) ELSE 0
            rev == autos[a].rev + 1
            row == [autos[a] EXCEPT !.enabled = enabled, !.rev = rev, !.next = next]
<1>1. autos \in [Autos -> Definition] /\ autos[a] \in Definition
  BY DEF RunInv, KindsInv
<1>2. /\ MayEdit /\ autos[a].life = "stored" /\ (enabled => a \notin Unusable)
      /\ autos' = [autos EXCEPT ![a] = row]
      /\ UNCHANGED <<now, runs, threads, markers, task, op, chat, phase, todo>>
  <2>1. autos' = [autos EXCEPT ![a].enabled = enabled, ![a].rev = rev, ![a].next = next]
    BY DEF SetEnabled
  <2>2. autos' = [autos EXCEPT ![a] = row]
    BY <1>1, <2>1
  <2>. QED
    BY <2>2 DEF SetEnabled, process, requests
<1>3. enabled => next \in Nat
  BY <1>2, LaterSlots DEF Unusable
<1>4. next \in Nat /\ rev \in Nat
  BY <1>1, <1>3 DEF Definition
<1>5. autos[a].usable => Slots(a, next)
  BY LaterSlots
<1>. HIDE DEF next, rev
<1>6. /\ row \in Definition /\ row.life = "stored" /\ row.thread = autos[a].thread
      /\ row.usable = autos[a].usable /\ row.next = next /\ row.mode = autos[a].mode
  BY <1>1, <1>2, <1>4 DEF Definition
<1>. HIDE DEF row
<1>. QED
  BY <1>2, <1>5, <1>6, WrittenKeeps DEF MayEdit

\* An update or a delete begins: with the markers of the threads it is about to take.
LEMMA OpStarts ==
  ASSUME RunInv, MayEdit, op'.stage = "body", op' \in OpSet, op'.auto \in Autos,
         autos[op'.auto].life = "stored",
         op'.row = None => Open \cap RunsOf(op'.auto) = {},
         op'.row # None =>
             /\ op'.row.thread = autos[op'.auto].thread /\ op'.row.life = "stored"
             /\ op'.row.usable /\ autos[op'.auto].usable
             /\ op'.row.mode = autos[op'.auto].mode \/ op'.row.thread \in {0} \cup op'.marks
             /\ Slots(op'.auto, op'.row.next),
         \A t \in op'.marks : ~Held(t) /\ Of(t, op'.auto),
         markers' = markers \cup Marks(op'.marks, "prune"),
         UNCHANGED <<now, autos, runs, threads, task, chat, phase, todo>>
  PROVE  RunInv'
<1>1. phase = "up" /\ op.stage = "idle" /\ \A p \in Tasks : task[p].pc # "commit"
  BY DEF MayEdit, Unlocked
<1>2. KindsInv'
  BY DEF RunInv, KindsInv
<1>3. KnownInv'
  <2>1. \A t \in op'.marks : t \in DOMAIN runs
    BY DEF Of
  <2>2. markers' \subseteq [thread : DOMAIN runs, kind : {"automation", "chat", "prune"}]
    BY <2>1 DEF RunInv, KnownInv, Marks
  <2>. QED
    BY <2>2 DEF RunInv, KnownInv, KnownTask, Of
<1>4. OpInv'
  <2>1. (Open \cap RunsOf(op.auto))' = Open \cap RunsOf(op'.auto)
    BY DEF Open, RunsOf
  <2>. QED
    BY <1>1, <2>1 DEF OpInv
<1>5. PhaseInv' /\ OpenInv'
  BY DEF RunInv, PhaseInv, PhaseOf, OpenInv, EveryRunOwned, NoGhostRuns, Open, Running
<1>6. SlotInv'
  <2>1. \A b, n : Slots(b, n) => Slots(b, n)'
    BY DEF Slots
  <2>2. op'.row # None => Slots(op.auto, op.row.next)'
    BY DEF Slots
  <2>. QED
    BY <2>1, <2>2 DEF RunInv, SlotInv, SlotOnce, Unusable
<1>7. MarkerInv'
  BY DEF RunInv, MarkerInv, Running, Marks
<1>8. Apart'
  BY Holders DEF RunInv, Apart, Running
<1>9. ThreadInv'
  BY DEF RunInv, ThreadInv, TurnsKeepTheirThread, RollingOwned
<1>. QED
  BY <1>2, <1>3, <1>4, <1>5, <1>6, <1>7, <1>8, <1>9 DEF RunInv

LEMMA UpdateKeeps ==
  ASSUME RunInv, NEW a \in Autos, NEW draft \in Drafts, UpdateStarts(a, draft) PROVE RunInv'
<1>. DEFINE old == autos[a]
            marks == IF draft.mode # old.mode /\ old.thread # 0 THEN {old.thread} ELSE {}
            next == IF ~draft.enabled THEN 0
                    ELSE IF draft.reschedule \/ ~old.enabled \/ old.next = 0
                    THEN NextFire(now) ELSE old.next
            rev == old.rev + 1
            row == [old EXCEPT !.enabled = draft.enabled, !.mode = draft.mode, !.rev = rev,
                               !.next = next]
<1>1. /\ MayEdit /\ old.life = "stored" /\ a \notin Unusable
      /\ \A t \in marks : ~Held(t)
      /\ markers' = markers \cup Marks(marks, "prune")
      /\ op' = [stage |-> "body", auto |-> a, marks |-> marks, row |-> row]
      /\ UNCHANGED <<now, autos, runs, threads, task, chat, phase, todo>>
  BY DEF UpdateStarts, store, process
<1>2. old \in Definition /\ old.usable /\ KnownInv
  BY <1>1 DEF RunInv, KindsInv, Unusable
<1>3. next \in Nat /\ Slots(a, next)
  BY <1>2, LaterSlots DEF Definition
<1>4. draft.enabled \in BOOLEAN /\ draft.mode \in {"fresh", "rolling"} /\ rev \in Nat
  BY <1>2, AutomationsAssumption DEF Definition
<1>5. /\ \A t \in marks : Of(t, a)
      /\ marks \in SUBSET Nat
      /\ draft.mode # old.mode => old.thread \in {0} \cup marks
  BY <1>2 DEF KnownInv, Definition
<1>. HIDE DEF next, rev, marks, old
<1>6. /\ row \in Definition /\ row.life = "stored" /\ row.thread = old.thread
      /\ row.usable /\ row.next = next /\ row.mode = draft.mode
  BY <1>1, <1>2, <1>3, <1>4 DEF Definition
<1>. HIDE DEF row
<1>7. /\ op' \in OpSet /\ op'.stage = "body" /\ op'.auto = a /\ op'.marks = marks /\ op'.row = row
  BY <1>1, <1>5, <1>6 DEF OpSet
<1>8. row # None
  BY <1>6, AutomationsAssumption
<1>. QED
  BY <1>1, <1>2, <1>3, <1>5, <1>6, <1>7, <1>8, OpStarts DEF old

LEMMA DeleteKeeps == ASSUME RunInv, NEW a \in Autos, DeleteStarts(a) PROVE RunInv'
<1>. DEFINE marks == ({autos[a].thread} \cup {runs[r].thread : r \in RunsOf(a)}) \ {0}
<1>1. /\ MayEdit /\ autos[a].life = "stored" /\ Open \cap RunsOf(a) = {}
      /\ \A t \in marks : ~Held(t)
      /\ markers' = markers \cup Marks(marks, "prune")
      /\ op' = [stage |-> "body", auto |-> a, marks |-> marks, row |-> None]
      /\ UNCHANGED <<now, autos, runs, threads, task, chat, phase, todo>>
  BY DEF DeleteStarts, store, process
<1>2. /\ \A t \in marks : Of(t, a)
      /\ DOMAIN runs \subseteq Nat
  BY RowsKind DEF RunInv, KnownInv, RunsOf
<1>3. marks \in SUBSET Nat
  BY <1>2 DEF Of
<1>. HIDE DEF marks
<1>4. /\ op' \in OpSet /\ op'.stage = "body" /\ op'.auto = a /\ op'.marks = marks /\ op'.row = None
  BY <1>1, <1>3 DEF OpSet
<1>. QED
  BY <1>1, <1>2, <1>4, OpStarts

LEMMA OpReleasesKeeps == ASSUME RunInv, OpReleases PROVE RunInv'
<1>. DEFINE gone == Marks(op.marks, "prune")
<1>1. /\ op.stage = "committed" /\ markers' = markers \ gone /\ op' = NoOp
      /\ UNCHANGED <<now, autos, runs, threads, task, chat, phase, todo>>
  BY DEF OpReleases, world, store, process
<1>2. op' \in OpSet /\ op'.stage = "idle" /\ op'.marks = {}
  BY <1>1 DEF NoOp, OpSet
<1>3. KeptAll
  BY <1>1, StillKept DEF KeptAll
<1>4. RowsKept
  BY <1>1, SameRowsKept
<1>5. KindsInv'
  BY <1>1, <1>2 DEF RunInv, KindsInv
<1>6. KnownInv'
  BY <1>1, <1>2 DEF RunInv, KnownInv, KnownTask, Of
<1>7. OpInv' /\ PhaseInv' /\ OpenInv'
  BY <1>1, <1>2 DEF RunInv, OpInv, PhaseInv, PhaseOf, OpenInv, EveryRunOwned, NoGhostRuns, Open,
     Running
<1>8. SlotInv'
  BY <1>1, <1>2, <1>3, <1>4, KeptSlots DEF KeptAll, Kept
<1>9. MarkerInv'
  <2>1. /\ \A q \in Tasks : /\ [thread |-> task'[q].thread, kind |-> "automation"] \notin gone
                            /\ Marks(task'[q].marks, "prune") \cap gone = {}
        /\ Marks(op'.marks, "prune") \cap gone = {}
        /\ [thread |-> chat.thread, kind |-> "chat"] \notin gone
    <3>1. \A q \in Tasks : task[q].marks \cap op.marks = {}
      BY DEF RunInv, Apart
    <3>2. \A q \in Tasks : Marks(task'[q].marks, "prune") \cap gone = {}
      BY <1>1, <3>1 DEF Marks
    <3>3. Marks(op'.marks, "prune") = {}
      BY <1>2 DEF Marks
    <3>4. /\ \A q \in Tasks : [thread |-> task'[q].thread, kind |-> "automation"] \notin gone
          /\ [thread |-> chat.thread, kind |-> "chat"] \notin gone
      BY DEF Marks
    <3>. QED
      BY <3>2, <3>3, <3>4
  <2>. HIDE DEF gone
  <2>2. markers \ gone \subseteq markers'
    BY <1>1
  <2>. QED
    BY <1>1, <1>2, <1>3, <2>1, <2>2, KeptMarkers
<1>10. Apart' /\ ThreadInv'
  BY <1>1, <1>2, <1>3, KeptApart, KeptThreads DEF RollingOwned
<1>. QED
  BY <1>5, <1>6, <1>7, <1>8, <1>9, <1>10 DEF RunInv

\* What is left of an operation that has committed.
LEMMA OpDone ==
  ASSUME RunInv, op.stage = "body", op' = [op EXCEPT !.stage = "committed"], UNCHANGED phase
  PROVE  /\ op' \in OpSet /\ op'.stage = "committed" /\ op'.marks = op.marks /\ op'.auto = op.auto
         /\ OpInv'
<1>1. /\ op' \in OpSet /\ op'.stage = "committed" /\ op'.marks = op.marks /\ op'.auto = op.auto
  BY DEF RunInv, KindsInv, OpSet
<1>2. OpInv'
  BY <1>1 DEF RunInv, OpInv
<1>. QED
  BY <1>1, <1>2

LEMMA UpdateCommitsKeeps == ASSUME RunInv, OpCommits, op.row # None PROVE RunInv'
<1>. DEFINE a == op.auto
            row == op.row
<1>1. /\ op.stage = "body" /\ autos' = [autos EXCEPT ![a] = row]
      /\ op' = [op EXCEPT !.stage = "committed"]
      /\ UNCHANGED <<now, runs, threads, markers, task, chat, phase, todo>>
  BY DEF OpCommits, world, process
<1>2. /\ op' \in OpSet /\ op'.stage = "committed" /\ op'.marks = op.marks /\ op'.auto = a /\ OpInv'
  BY <1>1, OpDone
<1>3. /\ a \in Autos /\ row \in Definition /\ row.thread = autos[a].thread /\ row.life = "stored"
      /\ row.usable /\ autos[a].usable /\ autos[a].life = "stored" /\ Slots(a, row.next)
      /\ row.mode = autos[a].mode \/ row.thread \in {0} \cup op.marks
  <2>1. op \in OpSet
    BY DEF RunInv, KindsInv
  <2>2. row \in Definition
    BY <2>1 DEF OpSet
  <2>3. Slots(a, row.next)
    BY <1>1 DEF RunInv, SlotInv
  <2>. QED
    BY <1>1, <2>2, <2>3 DEF RunInv, OpInv
<1>. HIDE DEF a, row
<1>4. /\ autos' \in [Autos -> Definition] /\ autos'[a] = row
      /\ \A b \in Autos : b # a => autos'[b] = autos[b]
  BY <1>1, <1>3 DEF RunInv, KindsInv
<1>5. KeptAll
  BY <1>1, StillKept DEF KeptAll
<1>6. RowsKept /\ RowsStay
  BY <1>1, SameRowsKept
<1>7. KindsInv'
  BY <1>1, <1>2, <1>4 DEF RunInv, KindsInv
<1>8. KnownInv'
  <2>1. \A q \in Tasks : KnownTask(q)'
    BY <1>5, <1>6, KeptKnown
  <2>. QED
    BY <1>1, <1>2, <1>3, <1>4, <2>1 DEF RunInv, KnownInv, Of, a
<1>9. PhaseInv'
  BY <1>1 DEF RunInv, PhaseInv, PhaseOf
<1>10. OpenInv'
  <2>1. \A q \in Tasks : task'[q].pc \in Owning =>
           /\ autos'[task[q].auto].life = "stored" /\ runs'[task[q].run].status = runs[task[q].run].status
    BY SMTT(30), <1>1, <1>3, <1>4, HasRow DEF RunInv, OpenInv, NoGhostRuns, Owning, WithRow,
       Engaged, Points
  <2>. QED
    BY <1>1, <1>5, <1>6, <2>1, KeptOpen
<1>11. SlotInv'
  <2>1. \A b, n : Slots(b, n) => Slots(b, n)'
    BY <1>1 DEF Slots
  <2>2. Unusable' = Unusable
    BY <1>3, <1>4 DEF Unusable
  <2>3. SlotOnce'
    BY <1>1, <2>2 DEF RunInv, SlotInv, SlotOnce
  <2>. QED
    BY <1>1, <1>2, <1>3, <1>4, <2>1, <2>2, <2>3 DEF RunInv, SlotInv
<1>12. MarkerInv' /\ Apart'
  BY <1>1, <1>2, <1>5, GrownMarkers, KeptApart
<1>13. ThreadInv'
  <2>1. \A b \in Autos : autos'[b].thread = autos[b].thread
    BY <1>3, <1>4
  <2>2. chat.pc # "idle" => chat.thread \in DOMAIN runs /\ chat.thread \notin op.marks
    BY DEF RunInv, KnownInv, Apart
  <2>3. 0 \notin DOMAIN runs
    BY RowsKind DEF RunInv
  <2>4. chat.pc # "idle" /\ RollingOwned(chat.thread)' => RollingOwned(chat.thread)
    BY <1>1, <1>3, <1>4, <2>2, <2>3 DEF RollingOwned
  <2>5. TurnsKeepTheirThread'
    BY <1>1, <2>4 DEF RunInv, ThreadInv, TurnsKeepTheirThread, RollingOwned
  <2>. QED
    BY <1>1, <2>1, <2>5 DEF RunInv, ThreadInv
<1>. QED
  BY <1>2, <1>7, <1>8, <1>9, <1>10, <1>11, <1>12, <1>13 DEF RunInv

LEMMA DeleteCommitsKeeps == ASSUME RunInv, OpCommits, op.row = None PROVE RunInv'
<1>. DEFINE a == op.auto
            rs == RunsOf(a)
            row == [autos[a] EXCEPT !.life = "deleted"]
<1>1. /\ op.stage = "body" /\ autos' = [autos EXCEPT ![a] = row]
      /\ Gone(rs) /\ threads' = threads \ op.marks
      /\ op' = [op EXCEPT !.stage = "committed"]
      /\ UNCHANGED <<now, markers, task, chat, phase, todo>>
  BY DEF OpCommits, world, process
<1>2. /\ op' \in OpSet /\ op'.stage = "committed" /\ op'.marks = op.marks /\ op'.auto = a /\ OpInv'
  BY <1>1, OpDone
<1>3. /\ a \in Autos /\ Open \cap rs = {} /\ phase = "up" /\ autos[a] \in Definition
      /\ \A t \in op.marks : Of(t, a)
  BY <1>1 DEF RunInv, OpInv, KnownInv, KindsInv
<1>4. /\ row \in Definition /\ row.life = "deleted" /\ row.thread = autos[a].thread
      /\ row.next = autos[a].next /\ row.usable = autos[a].usable
  BY <1>3 DEF Definition
<1>4a. \A r \in rs : runs[r].status # "running"
  BY <1>3 DEF Open, RunsOf
<1>4b. \A r \in DOMAIN runs : runs[r].auto = a /\ runs[r].status = "running" => r \in rs
  BY DEF RunsOf
<1>. HIDE DEF a, row, rs
<1>5. /\ autos' \in [Autos -> Definition] /\ autos'[a] = row
      /\ \A b \in Autos : b # a => autos'[b] = autos[b]
  BY <1>1, <1>3, <1>4 DEF RunInv, KindsInv
<1>6. /\ runs' \in Seq(RowSet) /\ DOMAIN runs' = DOMAIN runs /\ RowsKept /\ RowsStay
      /\ \A r \in DOMAIN runs :
            /\ runs'[r].thread = runs[r].thread /\ runs'[r].auto = runs[r].auto
            /\ runs'[r].status = IF r \in rs THEN "gone" ELSE runs[r].status
  BY <1>1, RowsGone
<1>7. KeptAll
  BY <1>1, StillKept DEF KeptAll
<1>8. KindsInv'
  BY <1>1, <1>2, <1>5, <1>6 DEF RunInv, KindsInv
<1>9. KnownInv'
  <2>1. \A q \in Tasks : KnownTask(q)'
    BY <1>6, <1>7, KeptKnown
  <2>2. \A b \in Autos : autos'[b].thread = autos[b].thread
    BY <1>4, <1>5
  <2>. QED
    BY SMTT(30), <1>1, <1>2, <1>6, <2>1, <2>2 DEF RunInv, KnownInv, Of, a
<1>10. PhaseInv'
  BY <1>1 DEF RunInv, PhaseInv, PhaseOf
\* Whoever has a run has a definition that is not deleted.
<1>11. ASSUME NEW q \in Tasks, task[q].pc \in Owning
       PROVE  /\ task[q].auto \in Autos \ {a} /\ task[q].run \in DOMAIN runs \ rs
              /\ task[q].thread # 0 => Of(task[q].thread, task[q].auto)
  <2>1. task[q].pc \in WithRow
    BY <1>11 DEF Owning, WithRow, Engaged, Points
  <2>2. /\ task[q].run \in DOMAIN runs /\ runs[task[q].run].auto = task[q].auto
        /\ task[q].auto \in Autos
        /\ task[q].thread # 0 => Of(task[q].thread, task[q].auto)
    BY <2>1, HasRow
  <2>3. runs[task[q].run].status = "running"
    BY <1>3, <1>11 DEF RunInv, OpenInv
  <2>. QED
    BY <1>4a, <1>4b, <2>2, <2>3
<1>12. OpenInv'
  <2>1. \A q \in Tasks : task'[q].pc \in Owning =>
           /\ autos'[task[q].auto].life = "stored" /\ runs'[task[q].run].status = runs[task[q].run].status
    BY <1>1, <1>5, <1>6, <1>11 DEF RunInv, OpenInv, NoGhostRuns
  <2>. QED
    BY <1>1, <1>4a, <1>6, <1>7, <2>1, KeptOpen
<1>13. SlotInv'
  <2>1. \A b \in Autos : /\ autos'[b].next = autos[b].next /\ autos'[b].usable = autos[b].usable
                         /\ autos'[b].life = "unborn" => autos[b].life = "unborn"
    BY <1>4, <1>5
  <2>. QED
    BY <1>1, <1>2, <1>6, <1>7, <2>1, KeptSlots DEF KeptAll, Kept
<1>14. MarkerInv' /\ Apart'
  BY <1>1, <1>2, <1>7, GrownMarkers, KeptApart
<1>15. ThreadInv'
  <2>1. \A b \in Autos : autos'[b].thread = autos[b].thread
    BY <1>4, <1>5
  <2>2. \A t : RollingOwned(t)' => RollingOwned(t)
    BY <1>4, <1>5 DEF RollingOwned
  <2>3. chat.pc \in {"turn", "stopping"} => chat.thread \in threads'
    BY <1>1 DEF RunInv, Apart, ThreadInv, TurnsKeepTheirThread
  <2>4. \A q \in Tasks : Running(q)' => task'[q].thread \in threads'
    BY <1>1 DEF RunInv, Apart, ThreadInv, TurnsKeepTheirThread, Running
  <2>5. ASSUME NEW q \in Tasks, task'[q].pc \in WithThread PROVE task'[q].thread \in threads'
    <3>1. task[q].pc \in Owning /\ task[q].thread \in threads
      BY <1>1, <2>5 DEF WithThread, Owning, RunInv, ThreadInv
    <3>2. 0 \notin threads
      BY RowsKind DEF RunInv, KnownInv
    <3>3. task[q].thread \notin op.marks
      BY <1>3, <1>11, <3>1, <3>2 DEF Of
    <3>. QED
      BY <1>1, <3>1, <3>3
  <2>. QED
    BY <1>1, <1>6, <1>7, <2>1, <2>2, <2>3, <2>4, <2>5, LeftThreads
<1>. QED
  BY <1>2, <1>8, <1>9, <1>10, <1>12, <1>13, <1>14, <1>15 DEF RunInv

-----------------------------------------------------------------------------
(* The claims *)

LEMMA RowAppended ==
  ASSUME NEW s \in Seq(RowSet), NEW row \in RowSet, NEW n, n = s \o <<row>>
  PROVE  /\ n \in Seq(RowSet) /\ Len(n) = Len(s) + 1 /\ Len(n) \in DOMAIN n \ DOMAIN s
         /\ \A r \in DOMAIN s : r \in DOMAIN n /\ n[r] = s[r]
         /\ \A r \in DOMAIN n \ DOMAIN s : r = Len(n) /\ n[r] = row
<1>. HIDE DEF RowSet
<1>. DEFINE l == <<row>>
<1>1. l \in Seq(RowSet) /\ Len(l) = 1 /\ l[1] = row
  OBVIOUS
<1>. HIDE DEF l
<1>2. n = s \o l
  BY DEF l
<1>3. /\ n \in Seq(RowSet) /\ Len(n) = Len(s) + 1
      /\ \A i \in 1 .. Len(s) + 1 : n[i] = IF i <= Len(s) THEN s[i] ELSE l[i - Len(s)]
  BY <1>1, <1>2, ConcatProperties
<1>4. Len(s) \in Nat /\ DOMAIN s = 1 .. Len(s) /\ DOMAIN n = 1 .. Len(n)
  BY <1>3, LenProperties
<1>5. \A r \in DOMAIN s : r \in DOMAIN n /\ n[r] = s[r]
  BY <1>3, <1>4
<1>6. Len(n) \in DOMAIN n \ DOMAIN s /\ \A r \in DOMAIN n \ DOMAIN s : r = Len(n)
  BY <1>3, <1>4
<1>7. n[Len(n)] = row
  <2>1. Len(n) \in 1 .. Len(s) + 1 /\ ~(Len(n) <= Len(s)) /\ Len(n) - Len(s) = 1
    BY <1>3, <1>4
  <2>. QED
    BY <1>1, <1>3, <2>1
<1>. QED
  BY <1>3, <1>5, <1>6, <1>7

LEMMA RowIsRow ==
  ASSUME NEW a \in Autos, NEW trigger \in {"scheduled", "manual"}, NEW slot \in Nat,
         NEW status \in {"error", "missed", "running"}
  PROVE  /\ Row(a, trigger, slot, status) \in RowSet
         /\ Row(a, trigger, slot, status).auto = a /\ Row(a, trigger, slot, status).slot = slot
         /\ Row(a, trigger, slot, status).status = status /\ Row(a, trigger, slot, status).thread = 0
  BY DEF Row, RowSet, Terminal

\* The rows a claim adds: of one automation, for one slot, own running if there is one.
NewRows(a, slot, own) ==
    /\ runs' \in Seq(RowSet)
    /\ \A r \in DOMAIN runs : r \in DOMAIN runs' /\ runs'[r] = runs[r]
    /\ \A r \in DOMAIN runs' \ DOMAIN runs :
          /\ runs'[r].auto = a /\ runs'[r].slot = slot /\ runs'[r].thread = 0
          /\ runs'[r].status = "running" => r = own
    /\ a \notin Unusable => \A r, s \in DOMAIN runs' \ DOMAIN runs : r = s

\* The slot is used up, or none is used.
Consumes(a, slot, next) ==
    /\ slot \in Nat /\ next \in Nat /\ slot <= now
    /\ a \notin Unusable => \/ slot = 0 /\ next = autos[a].next
                            \/ slot = autos[a].next /\ slot # 0 /\ next > slot

LEMMA ClaimSlots ==
  ASSUME RunInv, NEW a \in Autos, NEW slot, NEW next, NEW own, NewRows(a, slot, own),
         Consumes(a, slot, next), autos' = [autos EXCEPT ![a].next = next], UNCHANGED now,
         op'.stage # "body", \A q \in Tasks : task'[q].pc = "claiming" => task'[q].moment <= now
  PROVE  /\ SlotInv' /\ autos' \in [Autos -> Definition]
         /\ \A b \in Autos : /\ autos'[b].life = autos[b].life /\ autos'[b].thread = autos[b].thread
                             /\ autos'[b].mode = autos[b].mode /\ autos'[b].usable = autos[b].usable
<1>1. /\ autos' \in [Autos -> Definition]
      /\ \A b \in Autos : /\ autos'[b].life = autos[b].life /\ autos'[b].thread = autos[b].thread
                          /\ autos'[b].mode = autos[b].mode /\ autos'[b].usable = autos[b].usable
                          /\ autos'[b].next = IF b = a THEN next ELSE autos[b].next
  BY ZenonT(40) DEF RunInv, KindsInv, Definition, Consumes
<1>2. Unusable' = Unusable
  BY <1>1 DEF Unusable
<1>3. /\ now \in Nat /\ \A b \in Autos : autos[b].next \in Nat
      /\ \A r \in DOMAIN runs : runs[r].slot \in Nat
  <2>1. \A r \in DOMAIN runs : runs[r].slot \in Nat
    BY RowsKind DEF RunInv, RowSet
  <2>2. now \in Nat
    BY AutomationsAssumption DEF RunInv, KindsInv
  <2>3. \A b \in Autos : autos[b].next \in Nat
    BY DEF RunInv, KindsInv, Definition
  <2>. QED
    BY <2>1, <2>2, <2>3
<1>4. ASSUME NEW b \in Autos \ Unusable PROVE Slots(b, autos[b].next)'
  <2>1. Slots(b, autos[b].next)
    BY DEF RunInv, SlotInv
  <2>2. CASE b # a
    BY <1>1, <2>1, <2>2 DEF Slots, NewRows
  <2>3. CASE b = a
    <3>1. \/ slot = 0 /\ next = autos[a].next
          \/ slot = autos[a].next /\ slot # 0 /\ next > slot
      BY <2>3 DEF Consumes
    <3>2. slot \in Nat /\ next \in Nat /\ slot <= now /\ autos'[b].next = next
      BY <1>1, <2>3 DEF Consumes
    <3>3. ASSUME NEW r \in DOMAIN runs', runs'[r].auto = b
          PROVE  runs'[r].slot <= now /\ (next # 0 => runs'[r].slot < next)
      <4>1. CASE r \in DOMAIN runs
        <5>1. /\ runs'[r].slot = runs[r].slot /\ runs[r].slot \in Nat /\ runs[r].slot <= now
              /\ autos[a].next # 0 => runs[r].slot < autos[a].next
          BY <1>3, <2>1, <2>3, <3>3, <4>1 DEF Slots, NewRows
        <5>. QED
          BY <1>3, <3>1, <3>2, <5>1
      <4>2. CASE r \notin DOMAIN runs
        <5>1. runs'[r].slot = slot
          BY <4>2 DEF NewRows
        <5>. QED
          BY <3>1, <3>2, <5>1
      <4>. QED
        BY <4>1, <4>2
    <3>. QED
      BY <3>2, <3>3 DEF Slots
  <2>. QED
    BY <2>2, <2>3
<1>5. SlotOnce'
  <2>1. ASSUME NEW r \in DOMAIN runs', NEW s \in DOMAIN runs', r # s,
               runs'[r].auto = runs'[s].auto, runs'[r].slot = runs'[s].slot, runs'[r].slot # 0,
               runs'[r].auto \notin Unusable
        PROVE  FALSE
    <3>1. CASE r \in DOMAIN runs /\ s \in DOMAIN runs
      BY <2>1, <3>1 DEF NewRows, RunInv, SlotInv, SlotOnce
    <3>2. CASE r \notin DOMAIN runs /\ s \notin DOMAIN runs
      BY <2>1, <3>2 DEF NewRows
    <3>3. ASSUME NEW n \in DOMAIN runs', NEW o \in DOMAIN runs, n \notin DOMAIN runs,
                 runs'[n].auto = runs'[o].auto, runs'[n].slot = runs'[o].slot, runs'[n].slot # 0,
                 runs'[n].auto \notin Unusable
          PROVE  FALSE
      <4>1. /\ runs'[n].auto = a /\ runs'[n].slot = slot /\ runs[o].auto = a /\ runs[o].slot = slot
            /\ a \in Autos \ Unusable /\ slot # 0
        BY <3>3 DEF NewRows
      <4>2. slot = autos[a].next
        BY <4>1 DEF Consumes
      <4>3. runs[o].slot < autos[a].next
        BY <4>1, <4>2 DEF RunInv, SlotInv, Slots
      <4>. QED
        BY <1>3, <4>1, <4>2, <4>3
    <3>. QED
      BY <2>1, <3>1, <3>2, <3>3
  <2>. QED
    BY <1>2, <2>1 DEF SlotOnce
<1>6. \A b \in Autos : autos'[b].life = "unborn" => autos'[b].usable
  BY <1>1 DEF RunInv, SlotInv
<1>. QED
  BY <1>1, <1>2, <1>4, <1>5, <1>6 DEF SlotInv

\* What has become of the task: it moved on, or has the row.
Passed(p, own) ==
    /\ own = 0 /\ task'[p].run = 0 /\ task'[p].drop = {}
    /\ task'[p].thread \in {0, task[p].thread}
    /\ task'[p].pc \notin Engaged
Took(p, a, own) ==
    /\ own \in DOMAIN runs' \ DOMAIN runs /\ runs'[own].status = "running"
    /\ task'[p].pc = "claimed" /\ task'[p].run = own /\ task'[p].auto = a
    /\ task'[p].thread = autos[a].thread /\ task'[p].drop = task[p].drop
    /\ autos[a].life = "stored"

LEMMA ClaimOpen ==
  ASSUME RunInv, ArbiterInv, NEW p \in Tasks, task[p].pc = "claiming", NEW a \in Autos, NEW slot, NEW own,
         NewRows(a, slot, own), Untouched(p), ~Running(p)', Passed(p, own) \/ Took(p, a, own),
         \A b \in Autos : autos'[b].life = autos[b].life,
         UNCHANGED <<phase, todo>>
  PROVE  OpenInv'
<1>1. phase \notin {"closing", "down", "boot", "manual"} /\ (own # 0 => phase # "closing")
  BY DEF RunInv, PhaseInv, PhaseOf, ArbiterInv, NobodyHome, Absent
<1>2. task[p].pc \notin Owning /\ "claimed" \in Owning /\ (Passed(p, own) => task'[p].pc \notin Owning)
  BY DEF Owning, Passed, Engaged, Points
<1>3. /\ \A r \in DOMAIN runs : r \in DOMAIN runs' /\ runs'[r] = runs[r]
      /\ Open' \subseteq Open \cup {own} /\ 0 \notin DOMAIN runs
  BY RowsKind DEF NewRows, Open, RunInv
<1>4. ASSUME NEW q \in Tasks \ {p}
      PROVE  /\ task'[q] = task[q] /\ task[q].run \in {0} \cup DOMAIN runs /\ KnownTask(q)
             /\ task[q].drop \subseteq DOMAIN runs
             /\ task[q].pc \in Owning => task[q].run \in DOMAIN runs /\ task[q].auto \in Autos
  BY HasRow DEF Untouched, RunInv, KnownInv, KnownTask, Owning, WithRow, Engaged, Points
<1>5. EveryRunOwned'
  <2>1. ASSUME NEW r \in Open'
        PROVE  \/ \E q \in Tasks : task'[q].run = r /\ task'[q].pc \in Owning
               \/ r \in todo' \/ phase' \in {"crashed", "manual"}
    <3>1. CASE r \in Open
      <4>1. \A q \in Tasks : task[q].pc \in Owning => q # p /\ task'[q] = task[q]
        BY <1>2 DEF Untouched
      <4>. QED
        BY <3>1, <4>1 DEF RunInv, OpenInv, EveryRunOwned
    <3>2. CASE r \notin Open
      <4>1. r = own /\ r \in DOMAIN runs'
        BY <1>3, <3>2 DEF Open
      <4>2. CASE Passed(p, own)
        BY <1>3, <3>2, <4>1, <4>2, RowsKind DEF Passed, NewRows, Open
      <4>3. CASE Took(p, a, own)
        BY <1>2, <4>1, <4>3 DEF Took
      <4>. QED
        BY <4>2, <4>3
    <3>. QED
      BY <3>1, <3>2
  <2>. QED
    BY <2>1 DEF EveryRunOwned
<1>6. NoGhostRuns'
  <2>1. ASSUME NEW q \in Tasks, task'[q].pc \in Owning PROVE autos'[task'[q].auto].life = "stored"
    <3>1. CASE q = p
      BY <1>2, <2>1, <3>1 DEF Took
    <3>2. CASE q # p
      BY <1>4, <2>1, <3>2 DEF RunInv, OpenInv, NoGhostRuns
    <3>. QED
      BY <3>1, <3>2
  <2>. QED
    BY <2>1 DEF NoGhostRuns
<1>7. ASSUME NEW q \in Tasks
      PROVE  /\ task'[q].pc \in Owning => runs'[task'[q].run].status \in {"running", "interrupted"}
             /\ task'[q].pc \in Owning /\ phase' # "closing" => runs'[task'[q].run].status = "running"
             /\ Running(q)' /\ task'[q].run # 0 =>
                    runs'[task'[q].run].status \in {"running", "interrupted", "gone"}
             /\ Running(q)' /\ task'[q].pc = "finish" => task'[q].status = "interrupted"
             /\ \A r \in task'[q].drop : runs'[r].status # "running"
  <2>1. CASE q = p
    <3>1. task'[p].pc \in Owning => runs'[task'[p].run].status = "running"
      BY <1>2 DEF Took
    <3>2. task[p].drop \subseteq DOMAIN runs /\ \A r \in task[p].drop : runs[r].status # "running"
      BY DEF RunInv, KnownInv, KnownTask, OpenInv
    <3>3. \A r \in task'[p].drop : runs'[r].status # "running"
      BY <1>3, <3>2 DEF Passed, Took
    <3>. QED
      BY <2>1, <3>1, <3>3
  <2>2. CASE q # p
    <3>1. /\ task'[q] = task[q] /\ (Running(q)' <=> Running(q))
          /\ task[q].run # 0 => runs'[task[q].run] = runs[task[q].run]
          /\ \A r \in task[q].drop : runs'[r] = runs[r]
      BY <1>3, <1>4, <2>2 DEF Running
    <3>2. task[q].pc \in Owning => task[q].run # 0
      BY <1>3, <1>4, <2>2
    <3>3. /\ task[q].pc \in Owning => runs[task[q].run].status \in {"running", "interrupted"}
          /\ task[q].pc \in Owning /\ phase # "closing" => runs[task[q].run].status = "running"
          /\ Running(q) /\ task[q].run # 0 =>
                 runs[task[q].run].status \in {"running", "interrupted", "gone"}
          /\ Running(q) /\ task[q].pc = "finish" => task[q].status = "interrupted"
          /\ \A r \in task[q].drop : runs[r].status # "running"
      BY DEF RunInv, OpenInv
    <3>. QED
      BY <3>1, <3>2, <3>3
  <2>. QED
    BY <2>1, <2>2
<1>8. ASSUME NEW n \in Tasks, NEW q \in Tasks, task'[n].run = task'[q].run, task'[n].run # 0, n # q
      PROVE  FALSE
  <2>1. \A m \in Tasks : task'[p].run # 0 => m = p \/ task'[m].run # task'[p].run
    BY <1>3, <1>4 DEF Passed, Took
  <2>2. CASE n # p /\ q # p
    BY <1>4, <1>8, <2>2 DEF RunInv, OpenInv
  <2>. QED
    BY <1>8, <2>1, <2>2
<1>. QED
  BY <1>1, <1>5, <1>6, <1>7, <1>8 DEF OpenInv

LEMMA ClaimKeeps ==
  ASSUME RunInv, ArbiterInv, NEW p \in Tasks, task[p].pc = "claiming", Unlocked,
         NEW a \in Autos, NEW slot, NEW next, NEW own, NewRows(a, slot, own), Consumes(a, slot, next),
         autos' = [autos EXCEPT ![a].next = next],
         UNCHANGED <<now, threads, markers, phase, todo, op, chat>>,
         task' \in [Tasks -> TaskSet], Untouched(p), task'[p].turn = task[p].turn \/ ~Running(p)',
         task'[p].marks = {}, PhaseInv', Passed(p, own) \/ Took(p, a, own)
  PROVE  RunInv'
<1>1. ~Running(p) /\ ~Running(p)'
  BY DEF ArbiterInv, NoneBeforeDrive, Early, Running
<1>2. /\ task'[p].pc \notin {"claiming", "commit"} \cup WithThread
      /\ Passed(p, own) => task'[p].pc \notin Engaged \cup Owning \cup Fresh \cup WithRow
      /\ "claimed" \in Engaged /\ "claimed" \in WithRow
  BY DEF Passed, Took, Engaged, Points, Owning, Fresh, WithThread, WithRow
<1>3. \A q \in Tasks : task'[q].pc = "claiming" => task'[q].moment <= now
  BY <1>2 DEF Untouched, RunInv, SlotInv
<1>4. /\ SlotInv' /\ autos' \in [Autos -> Definition]
      /\ \A b \in Autos : /\ autos'[b].life = autos[b].life /\ autos'[b].thread = autos[b].thread
                          /\ autos'[b].mode = autos[b].mode /\ autos'[b].usable = autos[b].usable
  BY <1>3, ClaimSlots DEF Unlocked
<1>5. /\ \A r \in DOMAIN runs : r \in DOMAIN runs' /\ runs'[r] = runs[r]
      /\ 0 \notin DOMAIN runs /\ 0 \notin DOMAIN runs' /\ RowsStay
  <2>1. runs' \in Seq(RowSet) /\ RowsStay
    BY DEF NewRows, RowsStay
  <2>2. DOMAIN runs' = 1 .. Len(runs') /\ Len(runs') \in Nat
    BY <2>1, LenProperties
  <2>. QED
    BY <2>1, <2>2, RowsKind DEF RunInv, NewRows
<1>6. KindsInv'
  BY <1>4 DEF RunInv, KindsInv, NewRows
<1>7. KnownInv'
  <2>1. \A q \in Tasks \ {p} : KnownTask(q)'
    BY <1>5, StillKept, KeptTaskKnown DEF Untouched
  <2>2. /\ autos[a].thread = 0 \/ Of(autos[a].thread, a)
        /\ task[p].drop \subseteq DOMAIN runs /\ task[p].thread \in {0} \cup DOMAIN runs
    BY DEF RunInv, KnownInv, KnownTask
  <2>3. KnownTask(p)'
    <3>1. CASE Passed(p, own)
      <4>1. task'[p].thread \in {0} \cup DOMAIN runs'
        BY <1>5, <2>2, <3>1 DEF Passed
      <4>. QED
        BY <1>2, <3>1, <4>1 DEF KnownTask, Passed
    <3>2. CASE Took(p, a, own)
      BY <1>2, <1>5, <2>2, <3>2 DEF KnownTask, Took, Of, NewRows
    <3>. QED
      BY <3>1, <3>2
  <2>4. \A q \in Tasks : KnownTask(q)'
    BY <2>1, <2>3
  <2>5. \A r \in DOMAIN runs' : runs'[r].thread # 0 => Of(runs[r].thread, runs[r].auto)'
    BY <1>5 DEF RunInv, KnownInv, NewRows, Of
  <2>6. /\ \A b \in Autos : autos'[b].thread # 0 => Of(autos[b].thread, b)'
        /\ \A t \in op'.marks : Of(t, op.auto)'
    BY <1>4, <1>5 DEF RunInv, KnownInv, Of
  <2>7. markers' \subseteq [thread : DOMAIN runs', kind : {"automation", "chat", "prune"}]
    BY <1>5 DEF RunInv, KnownInv
  <2>. QED
    BY <1>5, <2>4, <2>5, <2>6, <2>7 DEF RunInv, KnownInv
<1>8. OpInv'
  BY DEF RunInv, OpInv, Unlocked
<1>9. OpenInv'
  BY <1>1, <1>4, ClaimOpen
<1>10. \A q \in Tasks : /\ Running(q)' => Running(q) /\ task'[q] = task[q]
                        /\ task'[q].marks \subseteq task[q].marks
  BY <1>1 DEF Untouched, Running
<1>11. MarkerInv'
  BY <1>10 DEF RunInv, MarkerInv, Marks
<1>12. Apart'
  BY <1>10 DEF RunInv, Apart
<1>13. ThreadInv'
  <2>1. \A b \in Autos : autos'[b].thread \in {0} \cup DOMAIN runs
    BY <1>4 DEF RunInv, KnownInv, Of
  <2>2. \A r \in DOMAIN runs' : runs'[r].thread \in {0} \cup DOMAIN runs
    BY <1>5 DEF RunInv, KnownInv, NewRows, Of
  <2>3. chat.pc # "idle" => chat.thread \in DOMAIN runs
    BY DEF RunInv, KnownInv
  <2>4. ASSUME NEW q \in Tasks, task'[q].pc \in Fresh
        PROVE  /\ \A r \in DOMAIN runs' : runs'[r].thread # task'[q].run
               /\ \A b \in Autos : autos'[b].thread # task'[q].run
               /\ chat'.pc # "idle" => chat'.thread # task'[q].run
    <3>1. CASE q = p
      <4>1. task'[p].run \notin {0} \cup DOMAIN runs
        BY <1>2, <1>5, <2>4, <3>1 DEF Took
      <4>. QED
        BY <2>1, <2>2, <2>3, <3>1, <4>1
    <3>2. CASE q # p
      BY <2>4, <3>2 DEF ArbiterInv, BusyHoldsArbiter, Busy, Untouched, Fresh
    <3>. QED
      BY <3>1, <3>2
  <2>5. ASSUME NEW q \in Tasks
        PROVE  /\ task'[q].pc \in WithThread => task'[q].thread \in threads'
               /\ task'[q].pc = "adopt" => task'[q].thread = task'[q].run
    BY <1>2 DEF Untouched, RunInv, ThreadInv, WithThread
  <2>6. TurnsKeepTheirThread'
    <3>1. \A t : RollingOwned(t)' <=> RollingOwned(t)
      BY <1>4 DEF RollingOwned
    <3>2. \A q \in Tasks : task'[q].turn \in Live => task'[q].thread \in threads'
      BY <1>10 DEF RunInv, ThreadInv, TurnsKeepTheirThread, Running
    <3>. QED
      BY <3>1, <3>2 DEF RunInv, ThreadInv, TurnsKeepTheirThread
  <2>. QED
    BY <2>4, <2>5, <2>6 DEF ThreadInv, Fresh, WithThread
<1>. QED
  BY <1>4, <1>6, <1>7, <1>8, <1>9, <1>11, <1>12, <1>13 DEF RunInv

\* The slot a claim consumes, and the next.
LEMMA AdvanceConsumes ==
  ASSUME RunInv, NEW p \in Tasks, task[p].pc = "claiming", NEW a \in Autos, a = task[p].auto,
         DueAt(a, task[p].moment), NEW next,
         next = IF a \in Unusable THEN 0 ELSE NextFire(task[p].moment)
  PROVE  Consumes(a, autos[a].next, next)
<1>1. task[p].moment \in Nat /\ autos[a].next \in Nat /\ now \in Nat
  BY AutomationsAssumption DEF RunInv, KindsInv, TaskSet, Definition
<1>2. NextFire(task[p].moment) \in Nat /\ NextFire(task[p].moment) > task[p].moment
  BY <1>1, NextFireLater
<1>3. task[p].moment <= now
  BY DEF RunInv, SlotInv
<1>4. autos[a].next # 0 /\ autos[a].next <= task[p].moment
  BY DEF DueAt
<1>. QED
  BY <1>1, <1>2, <1>3, <1>4 DEF Consumes

LEMMA MovedOn ==
  ASSUME RunInv, NEW p \in Tasks, MoveOn(p), UNCHANGED phase, task[p].pc = "claiming"
  PROVE  /\ task' \in [Tasks -> TaskSet] /\ Untouched(p) /\ PhaseInv' /\ Passed(p, 0)
         /\ task'[p].marks = {} /\ (Running(p)' => Running(p))
<1>1. Resting(p)
  BY MoveOnRests DEF Owning
<1>2. /\ task' \in [Tasks -> TaskSet] /\ PhaseInv' /\ task'[p].marks = {} /\ KeptAll
  BY <1>1, RestKept
<1>3. PICK t \in TaskSet : task' = [task EXCEPT ![p] = t] /\ Rest(p, t)
  BY <1>1 DEF Resting
<1>4. task'[p] = t /\ Untouched(p)
  BY <1>3 DEF RunInv, KindsInv, Untouched
<1>5. task'[p].pc \in {"off", "next"}
  <2>1. task \in [Tasks -> TaskSet]
    BY DEF RunInv, KindsInv
  <2>2. Blank.pc = "off" /\ Blank \in TaskSet
    BY BlankKind DEF Blank
  <2>3. CASE End(p)
    <3>. DEFINE left == [Blank EXCEPT !.turn = task[p].turn, !.thread = task[p].thread]
    <3>1. left.pc = "off"
      BY <2>2 DEF TaskSet
    <3>2. task'[p] \in {left, Blank}
      BY <2>1, <2>3 DEF End
    <3>. QED
      BY <2>2, <3>1, <3>2
  <2>4. CASE task' = [task EXCEPT ![p] = [Blank EXCEPT !.pc = "next", !.due = task[p].due]]
    BY <2>1, <2>2, <2>4 DEF TaskSet
  <2>. QED
    BY <2>3, <2>4 DEF MoveOn
<1>6. Passed(p, 0)
  BY <1>3, <1>4, <1>5 DEF Passed, Rest, Engaged
<1>. QED
  BY <1>2, <1>4, <1>6 DEF KeptAll, Kept

LEMMA ClaimSkipsKeeps == ASSUME RunInv, ArbiterInv, NEW p \in Tasks, ClaimSkips(p) PROVE RunInv'
<1>. DEFINE a == task[p].auto
            slot == autos[a].next
            next == IF a \in Unusable THEN 0 ELSE NextFire(task[p].moment)
            status == IF a \in Unusable THEN "error" ELSE "missed"
            row == Row(a, "scheduled", slot, status)
<1>1. /\ task[p].pc = "claiming" /\ Unlocked /\ MoveOn(p) /\ DueAt(a, task[p].moment)
      /\ autos' = [autos EXCEPT ![a].next = next]
      /\ runs' = runs \o <<row>>
      /\ UNCHANGED <<now, threads, markers, phase, todo, op, chat>>
  BY DEF ClaimSkips, Declined, Advanced, Refusal, world, process, requests
<1>2. a \in Autos /\ autos[a] \in Definition /\ runs \in Seq(RowSet)
  <2>1. KnownTask(p)
    BY DEF RunInv, KnownInv
  <2>2. a \in Autos
    BY <1>1, <2>1 DEF KnownTask, Engaged, Points
  <2>. QED
    BY <2>2 DEF RunInv, KindsInv
<1>3. Consumes(a, slot, next)
  BY <1>1, <1>2, AdvanceConsumes
<1>4. slot \in Nat /\ status \in {"error", "missed"}
  BY <1>3 DEF Consumes
<1>. HIDE DEF status, slot, next, a
<1>5. row \in RowSet /\ row.auto = a /\ row.slot = slot /\ row.status = status /\ row.thread = 0
  BY <1>2, <1>4, RowIsRow
<1>. HIDE DEF row
<1>6. /\ runs' \in Seq(RowSet)
      /\ \A r \in DOMAIN runs : r \in DOMAIN runs' /\ runs'[r] = runs[r]
      /\ \A r \in DOMAIN runs' \ DOMAIN runs : r = Len(runs') /\ runs'[r] = row
  BY <1>1, <1>2, <1>5, RowAppended
<1>7. NewRows(a, slot, 0)
  BY <1>4, <1>5, <1>6 DEF NewRows
<1>8. /\ task' \in [Tasks -> TaskSet] /\ Untouched(p) /\ PhaseInv' /\ Passed(p, 0)
      /\ task'[p].marks = {} /\ (Running(p)' => Running(p))
  BY <1>1, MovedOn
<1>9. ~Running(p)'
  BY <1>1, <1>8 DEF ArbiterInv, NoneBeforeDrive, Early
<1>. QED
  BY <1>1, <1>2, <1>3, <1>7, <1>8, <1>9, ClaimKeeps

LEMMA ClaimTakesKeeps == ASSUME RunInv, ArbiterInv, NEW p \in Tasks, ClaimTakes(p) PROVE RunInv'
<1>. DEFINE u == task[p]
            a == u.auto
            trigger == IF p = "loop" THEN "scheduled" ELSE "manual"
            due == DueAt(a, u.moment)
            slot == IF due THEN autos[a].next ELSE 0
            next == IF due THEN (IF a \in Unusable THEN 0 ELSE NextFire(u.moment))
                    ELSE autos[a].next
            error == Row(a, trigger, slot, "error")
            last == Row(a, trigger, slot, "running")
            own == Len(runs')
            rolling == autos[a].mode = "rolling"
            t == [u EXCEPT !.pc = "claimed", !.run = own, !.rolling = rolling,
                           !.thread = autos[a].thread]
<1>1. /\ u.pc = "claiming" /\ Unlocked /\ ~Declined(p) /\ task' = [task EXCEPT ![p] = t]
      /\ UNCHANGED <<now, threads, markers, phase, todo, op, chat>>
  BY ZenonT(40) DEF ClaimTakes, world, process, requests
<1>2. /\ a \in Autos /\ autos \in [Autos -> Definition] /\ runs \in Seq(RowSet) /\ u \in TaskSet
      /\ KnownTask(p) /\ KindsInv
  <2>1. KnownTask(p)
    BY DEF RunInv, KnownInv
  <2>2. a \in Autos
    BY <1>1, <2>1 DEF KnownTask, Engaged, Points
  <2>. QED
    BY <2>1, <2>2 DEF RunInv, KindsInv
<1>3. autos' = [autos EXCEPT ![a].next = next]
  <2>1. CASE due
    BY <2>1 DEF ClaimTakes, Advanced
  <2>2. CASE ~due
    <3>1. UNCHANGED autos
      BY <2>2 DEF ClaimTakes
    <3>2. [autos[a] EXCEPT !.next = autos[a].next] = autos[a]
      BY <1>2 DEF Definition
    <3>. QED
      BY <1>2, <2>2, <3>1, <3>2
  <2>. QED
    BY <2>1, <2>2
<1>4. Consumes(a, slot, next)
  <2>1. CASE due
    BY <1>1, <1>2, <2>1, AdvanceConsumes
  <2>2. CASE ~due
    <3>1. autos[a].next \in Nat /\ now \in Nat
      BY <1>2, AutomationsAssumption DEF KindsInv, Definition
    <3>. QED
      BY <2>2, <3>1 DEF Consumes
  <2>. QED
    BY <2>1, <2>2
<1>5. \/ runs' = runs \o <<last>>
      \/ a \in Unusable /\ runs' = (runs \o <<error>>) \o <<last>>
  <2>1. CASE due /\ a \in Unusable
    BY <2>1 DEF ClaimTakes, Refusal
  <2>2. CASE ~(due /\ a \in Unusable)
    <3>1. runs' = (runs \o <<>>) \o <<last>>
      BY <2>2 DEF ClaimTakes, Refusal
    <3>2. runs \o <<>> = runs
      BY <1>2, ConcatEmptySeq
    <3>. QED
      BY <3>1, <3>2
  <2>. QED
    BY <2>1, <2>2
<1>6. slot \in Nat /\ trigger \in {"scheduled", "manual"}
  BY <1>4 DEF Consumes
<1>7. autos[a].life = "stored"
  BY <1>1 DEF Declined
<1>. HIDE DEF a, trigger, due, slot, next
<1>8. /\ error \in RowSet /\ error.auto = a /\ error.slot = slot /\ error.status = "error"
      /\ error.thread = 0
      /\ last \in RowSet /\ last.auto = a /\ last.slot = slot /\ last.status = "running"
      /\ last.thread = 0
  BY <1>2, <1>6, RowIsRow
<1>. HIDE DEF error, last
<1>9. NewRows(a, slot, own) /\ own \in DOMAIN runs' \ DOMAIN runs /\ runs'[own] = last
  <2>1. CASE runs' = runs \o <<last>>
    <3>1. /\ runs' \in Seq(RowSet) /\ own \in DOMAIN runs' \ DOMAIN runs
          /\ \A r \in DOMAIN runs : r \in DOMAIN runs' /\ runs'[r] = runs[r]
          /\ \A r \in DOMAIN runs' \ DOMAIN runs : r = own /\ runs'[r] = last
      BY <1>2, <1>8, <2>1, RowAppended
    <3>. QED
      BY <1>8, <3>1 DEF NewRows
  <2>2. CASE a \in Unusable /\ runs' = (runs \o <<error>>) \o <<last>>
    <3>. DEFINE s == runs \o <<error>>
    <3>1. /\ s \in Seq(RowSet)
          /\ \A r \in DOMAIN runs : r \in DOMAIN s /\ s[r] = runs[r]
          /\ \A r \in DOMAIN s \ DOMAIN runs : s[r] = error
      BY <1>2, <1>8, RowAppended
    <3>2. runs' = s \o <<last>>
      BY <2>2
    <3>. HIDE DEF s
    <3>3. /\ runs' \in Seq(RowSet) /\ own \in DOMAIN runs' \ DOMAIN s
          /\ \A r \in DOMAIN s : r \in DOMAIN runs' /\ runs'[r] = s[r]
          /\ \A r \in DOMAIN runs' \ DOMAIN s : r = own /\ runs'[r] = last
      BY <1>8, <3>1, <3>2, RowAppended
    <3>. QED
      BY <1>8, <2>2, <3>1, <3>3 DEF NewRows
  <2>. QED
    BY <1>5, <2>1, <2>2
<1>10. own \in Nat /\ autos[a].thread \in Nat /\ rolling \in BOOLEAN
  <2>1. runs' \in Seq(RowSet)
    BY <1>9 DEF NewRows
  <2>2. own \in Nat
    BY <2>1, LenProperties
  <2>. QED
    BY <1>2, <2>2 DEF Definition
<1>. HIDE DEF own, rolling
<1>11. /\ t \in TaskSet /\ t.pc = "claimed" /\ t.run = own /\ t.thread = autos[a].thread
       /\ t.auto = u.auto /\ t.drop = u.drop /\ t.marks = u.marks /\ t.turn = u.turn
  BY <1>2, <1>10 DEF TaskSet, Points, Owning
<1>. HIDE DEF t
<1>12. task' \in [Tasks -> TaskSet] /\ task'[p] = t /\ Untouched(p)
  BY <1>1, <1>2, <1>11, Becomes DEF Untouched
<1>13. Took(p, a, own)
  BY <1>7, <1>8, <1>9, <1>11, <1>12 DEF Took, a
<1>14. task'[p].marks = {}
  BY <1>1, <1>2, <1>11, <1>12 DEF KnownTask
<1>15. PhaseInv'
  <2>1. ASSUME NEW q \in Tasks PROVE PhaseOf(q, task[q])'
    <3>1. PhaseOf(q, task[q]) /\ PhaseOf(p, task[p])
      BY DEF RunInv, PhaseInv
    <3>2. q # p => task'[q] = task[q]
      BY <1>12 DEF Untouched
    <3>. QED
      BY <1>1, <1>11, <1>12, <3>1, <3>2 DEF PhaseOf
  <2>. QED
    BY <2>1 DEF PhaseInv
<1>16. task'[p].turn = task[p].turn
  BY <1>11, <1>12
<1>. QED
  BY <1>1, <1>2, <1>3, <1>4, <1>9, <1>12, <1>13, <1>14, <1>15, <1>16, ClaimKeeps

-----------------------------------------------------------------------------
(* Every step, and what follows *)

LEMMA InitRun == Init => RunInv
<1>. SUFFICES ASSUME Init PROVE RunInv
  OBVIOUS
<1>1. /\ now = 0 /\ runs = <<>> /\ threads = {} /\ markers = {} /\ op = NoOp /\ chat = NoChat
      /\ phase = "up" /\ todo = {}
      /\ task["loop"] = [Blank EXCEPT !.pc = "sleep"] /\ task["manual"] = Blank
  BY DEF Init
<1>2. /\ autos \in [Autos -> Definition]
      /\ \A a \in Autos : /\ autos[a].thread = 0
                          /\ autos[a].life = "unborn" => autos[a].usable
  <2>1. PICK foreign \in SUBSET Autos :
          autos = [a \in Autos |->
            IF a \in foreign
            THEN [life |-> "stored", enabled |-> TRUE, mode |-> "fresh",
                  rev |-> 1, next |-> 1, thread |-> 0, usable |-> FALSE]
            ELSE [life |-> "unborn", enabled |-> FALSE, mode |-> "fresh",
                  rev |-> 1, next |-> 0, thread |-> 0, usable |-> TRUE]]
    BY DEF Init
  <2>. QED
    BY <2>1 DEF Definition
<1>3. \A q \in Tasks : /\ task[q] \in TaskSet /\ task[q].pc \in {"off", "sleep"}
                       /\ task[q].run = 0 /\ task[q].thread = 0 /\ task[q].turn = "none"
                       /\ task[q].drop = {} /\ task[q].marks = {}
  <2>1. \A t \in {Blank, [Blank EXCEPT !.pc = "sleep"]} :
           /\ t \in TaskSet /\ t.pc \in {"off", "sleep"}
           /\ t.run = 0 /\ t.thread = 0 /\ t.turn = "none" /\ t.drop = {} /\ t.marks = {}
    <3>. DEFINE first == [Blank EXCEPT !.pc = "sleep"]
    <3>1. /\ Blank \in TaskSet /\ Blank.pc = "off" /\ Blank.run = 0 /\ Blank.thread = 0
          /\ Blank.turn = "none" /\ Blank.drop = {} /\ Blank.marks = {}
      BY BlankKind DEF Blank
    <3>2. /\ first \in TaskSet /\ first.pc = "sleep" /\ first.run = 0 /\ first.thread = 0
          /\ first.turn = "none" /\ first.drop = {} /\ first.marks = {}
      BY <3>1 DEF TaskSet, Points
    <3>. QED
      BY <3>1, <3>2
  <2>. QED
    BY <1>1, <2>1
<1>4. task \in [Tasks -> TaskSet]
  <2>1. task = [loop |-> [Blank EXCEPT !.pc = "sleep"], manual |-> Blank]
    BY DEF Init
  <2>2. DOMAIN task = Tasks /\ task = [q \in DOMAIN task |-> task[q]]
    BY <2>1
  <2>. QED
    BY <1>3, <2>2
<1>5. /\ op \in OpSet /\ op.stage = "idle" /\ op.marks = {}
      /\ chat \in ChatSet /\ chat.pc = "idle"
  BY <1>1 DEF NoOp, NoChat, OpSet, ChatSet
<1>6. DOMAIN runs = {} /\ runs \in Seq(RowSet) /\ Open = {}
  <2>1. runs \in Seq(RowSet)
    BY <1>1, EmptySeq
  <2>. QED
    BY <1>1, <2>1 DEF Open
<1>7. \A q \in Tasks : /\ ~Running(q)
                       /\ task[q].pc \notin Engaged \cup WithRow \cup Owning \cup Fresh \cup WithThread
  BY <1>3 DEF Running, Live, Engaged, WithRow, Owning, Points, Fresh, WithThread
<1>8. KindsInv
  BY <1>1, <1>2, <1>4, <1>5, <1>6, AutomationsAssumption DEF KindsInv, Phases
<1>9. KnownInv
  BY <1>1, <1>2, <1>3, <1>5, <1>6, <1>7 DEF KnownInv, KnownTask
<1>10. OpInv /\ PhaseInv /\ SlotInv
  <2>1. OpInv /\ PhaseInv
    BY <1>1, <1>3, <1>5 DEF OpInv, PhaseInv, PhaseOf
  <2>2. SlotInv
    BY <1>2, <1>3, <1>5, <1>6 DEF SlotInv, Slots, SlotOnce
  <2>. QED
    BY <2>1, <2>2
<1>11. OpenInv
  BY <1>1, <1>3, <1>6, <1>7 DEF OpenInv, EveryRunOwned, NoGhostRuns
<1>12. MarkerInv /\ Apart
  BY <1>3, <1>5, <1>7 DEF MarkerInv, Apart, Marks
<1>13. ThreadInv
  BY <1>3, <1>5, <1>7 DEF ThreadInv, TurnsKeepTheirThread, Running, Fresh, WithThread
<1>. QED
  BY <1>8, <1>9, <1>10, <1>11, <1>12, <1>13 DEF RunInv

LEMMA TaskStepsKeep ==
  ASSUME RunInv, ArbiterInv, RowsInv, NEW p \in Tasks,
         TaskSteps(p) \/ TurnEnds(p) \/ OwnerStops(p) \/ Deadline(p)
  PROVE  RunInv'
<1>1. CASE ClaimDeclines(p) \/ ClaimSkips(p) \/ ClaimTakes(p)
  BY <1>1, ClaimDeclinesRests, RestKeeps, ClaimSkipsKeeps, ClaimTakesKeeps
<1>2. CASE Begins(p) \/ Collects(p) \/ GraceEnds(p) \/ OwnerStops(p) \/ Deadline(p)
  BY <1>2, BeginsWalks, CollectsWalks, GraceEndsWalks, OwnerStopsWalks, DeadlineWalks, WalkKeeps
<1>3. CASE ResolveThread(p) \/ AdoptThread(p) \/ RecordThread(p)
  BY <1>3, ResolveWalks, WalkKeeps, ResolveKeeps, AdoptKeeps, RecordKeeps
<1>4. CASE Drive(p) \/ TurnEnds(p)
  BY <1>4, DriveWalks, WalkKeeps, DriveKeeps, TurnEndsKeeps
<1>5. CASE Finalize(p) \/ RecordEvent(p)
  BY <1>5, FinalizeWalks, WalkKeeps, FinalizeKeeps, RecordEventKeeps
<1>6. CASE PruneReads(p) \/ PruneTakesMarkers(p) \/ PruneCommits(p) \/ PruneReleases(p)
  BY <1>6, PruneReadsRests, PruneReadsWalks, RestKeeps, WalkKeeps, PruneTakesKeeps,
     PruneCommitsKeeps, PruneReleasesRests
<1>7. CASE CancelLands(p)
  BY <1>7, CancelLandsMoves, RestKeeps, WalkKeeps
<1>. QED
  BY <1>1, <1>2, <1>3, <1>4, <1>5, <1>6, <1>7 DEF TaskSteps

\* Every step keeps the invariant.
THEOREM RunInductive ==
  ASSUME RunInv, ArbiterInv, RowsInv, [Next]_vars PROVE RunInv'
<1>1. CASE TickStarts \/ TickScans \/ TickNext \/ HandOff \/ RequestCancelled
  BY <1>1, TickStartsWalks, TickScansWalks, TickNextRests, HandOffWalks, RequestCancelledWalks,
     WalkKeeps, RestKeeps
<1>2. CASE \E p \in Tasks : TaskSteps(p) \/ TurnEnds(p) \/ OwnerStops(p) \/ Deadline(p)
  BY <1>2, TaskStepsKeep
<1>3. ASSUME NEW a \in Autos, OwnerSteps(a) PROVE RunInv'
  <2>1. CASE StartNow(a)
    BY <2>1, StartNowRests, RestKeeps
  <2>2. CASE DeleteStarts(a)
    BY <2>2, DeleteKeeps
  <2>3. ASSUME NEW enabled \in BOOLEAN, SetEnabled(a, enabled) PROVE RunInv'
    BY <2>3, SetEnabledKeeps
  <2>4. ASSUME NEW draft \in Drafts, Create(a, draft) \/ UpdateStarts(a, draft) PROVE RunInv'
    BY <2>4, CreateKeeps, UpdateKeeps
  <2>. QED
    BY <1>3, <2>1, <2>2, <2>3, <2>4 DEF OwnerSteps
<1>4. CASE OpCommits \/ OpReleases
  BY <1>4, UpdateCommitsKeeps, DeleteCommitsKeeps, OpReleasesKeeps
<1>5. CASE (\E t \in DOMAIN runs : ChatReserves(t)) \/ ChatRevalidates \/ ChatEnds
  BY <1>5, ChatReservesKeeps, ChatRevalidatesKeeps, ChatEndsKeeps
<1>6. CASE ShutdownStarts \/ LoopCancelled \/ ManualCancelled \/ BackstopSweep
  BY <1>6, ShutdownKeeps, LoopCancelledKeeps, ManualCancelledKeeps, BackstopKeeps
<1>7. CASE (\E r \in todo : SweepRow(r)) \/ DatabaseCloses \/ Crash \/ Boot \/ LoopStarts
  BY <1>7, SweepRowKeeps, ProcessGoneKeeps, BootKeeps, LoopStartsKeeps
<1>8. CASE ClockTicks
  BY <1>8, ClockTicksKeeps
<1>9. CASE UNCHANGED vars
  BY <1>9, StutterKeeps DEF vars
<1>. QED
  BY <1>1, <1>2, <1>3, <1>4, <1>5, <1>6, <1>7, <1>8, <1>9 DEF Next

\* A run keeps what its claim gave it.
LEMMA RunInvImpliesKept == RunInv => RunKept
  BY DEF RunInv, OpenInv, SlotInv, ThreadInv, RunKept, HonestTerminals, Running

-----------------------------------------------------------------------------
(* The bounds, and the types *)

Limits == events \in 0 .. MaxEvents /\ arbiter \in Tasks \cup {"free"}

LEMMA InitLimits == Init => Limits
  BY AutomationsAssumption DEF Init, Limits

LEMMA LimitsInductive == ASSUME Limits, [Next]_vars PROVE Limits'
<1>1. Happens => events' \in 0 .. MaxEvents
  BY AutomationsAssumption DEF Limits, Happens
<1>2. CASE TickStarts \/ TickScans \/ TickNext \/ HandOff \/ RequestCancelled
  BY <1>2 DEF Limits, TickStarts, TickScans, TickNext, HandOff, RequestCancelled, Free, world
<1>3. ASSUME NEW p \in Tasks, TaskSteps(p) \/ TurnEnds(p) \/ OwnerStops(p) \/ Deadline(p)
      PROVE  Limits'
  <2>1. MoveOn(p) => UNCHANGED arbiter \/ arbiter' = "free"
    BY DEF MoveOn, Free
  <2>2. UNCHANGED events /\ (UNCHANGED arbiter \/ arbiter' = "free")
    <3>1. CASE ClaimDeclines(p) \/ ClaimSkips(p) \/ ClaimTakes(p)
      BY <2>1, <3>1 DEF ClaimDeclines, ClaimSkips, ClaimTakes, world
    <3>2. CASE Begins(p) \/ ResolveThread(p) \/ AdoptThread(p) \/ RecordThread(p) \/ Drive(p)
      BY <3>2 DEF Begins, ResolveThread, AdoptThread, RecordThread, Drive, world
    <3>3. CASE Collects(p) \/ GraceEnds(p) \/ TurnEnds(p) \/ OwnerStops(p) \/ Deadline(p)
      BY <3>3 DEF Collects, GraceEnds, TurnEnds, OwnerStops, Deadline, world
    <3>4. CASE Finalize(p) \/ RecordEvent(p) \/ PruneReads(p) \/ PruneTakesMarkers(p)
      BY <2>1, <3>4 DEF Finalize, RecordEvent, PruneReads, PruneTakesMarkers, world
    <3>5. CASE PruneCommits(p) \/ PruneReleases(p)
      BY <2>1, <3>5 DEF PruneCommits, PruneReleases, world
    <3>6. CASE CancelLands(p)
      BY <3>6 DEF CancelLands, Free, world
    <3>. QED
      BY <1>3, <3>1, <3>2, <3>3, <3>4, <3>5, <3>6 DEF TaskSteps
  <2>. QED
    BY <2>2 DEF Limits
<1>4. ASSUME NEW a \in Autos, OwnerSteps(a) PROVE Limits'
  <2>1. CASE StartNow(a) \/ DeleteStarts(a)
    BY <1>1, <2>1 DEF Limits, StartNow, DeleteStarts
  <2>2. ASSUME NEW enabled \in BOOLEAN, SetEnabled(a, enabled) PROVE Limits'
    BY <1>1, <2>2 DEF Limits, SetEnabled
  <2>3. ASSUME NEW draft \in Drafts, Create(a, draft) \/ UpdateStarts(a, draft) PROVE Limits'
    BY <1>1, <2>3 DEF Limits, Create, UpdateStarts, world
  <2>. QED
    BY <1>4, <2>1, <2>2, <2>3 DEF OwnerSteps
<1>5. CASE OpCommits \/ OpReleases \/ ChatRevalidates \/ ChatEnds
  BY <1>5 DEF Limits, OpCommits, OpReleases, ChatRevalidates, ChatEnds, world
<1>6. ASSUME NEW t, ChatReserves(t) PROVE Limits'
  BY <1>1, <1>6 DEF Limits, ChatReserves
<1>7. CASE ShutdownStarts \/ LoopCancelled \/ ManualCancelled \/ BackstopSweep
  BY <1>1, <1>7 DEF Limits, ShutdownStarts, LoopCancelled, ManualCancelled, BackstopSweep, world
<1>8. ASSUME NEW r, SweepRow(r) PROVE Limits'
  BY <1>8 DEF Limits, SweepRow, world
<1>9. CASE DatabaseCloses \/ Crash \/ Boot \/ LoopStarts \/ ClockTicks \/ UNCHANGED vars
  BY <1>1, <1>9 DEF Limits, DatabaseCloses, Crash, ProcessEnds, Boot, LoopStarts, ClockTicks, vars,
     world
<1>. QED
  BY <1>2, <1>3, <1>4, <1>5, <1>6, <1>7, <1>8, <1>9 DEF Next

LEMMA InvImpliesTypes == ASSUME RunInv, Limits PROVE TypeOK
<1>1. /\ now \in 0 .. MaxTime /\ autos \in [Autos -> Definition] /\ runs \in Seq(RowSet)
      /\ phase \in Phases /\ op \in OpSet /\ chat \in ChatSet /\ task \in [Tasks -> TaskSet]
  BY DEF RunInv, KindsInv
<1>2. /\ threads \subseteq DOMAIN runs /\ todo \subseteq DOMAIN runs
      /\ markers \subseteq [thread : DOMAIN runs, kind : {"automation", "chat", "prune"}]
      /\ op.marks \subseteq DOMAIN runs
  BY DEF RunInv, KnownInv, Of
<1>4. ASSUME NEW p \in Tasks
      PROVE  task[p] \in [pc : Points,
           due : SUBSET [auto : Autos, rev : Nat, slot : Nat],
           auto : Autos \cup {None}, rev : Nat, moment : Nat, run : {0} \cup DOMAIN runs,
           rolling : BOOLEAN, thread : Nat,
           turn : Live \cup {"none", "completed", "failed", "cancelled"},
           status : Terminal, drop : SUBSET DOMAIN runs,
           marks : SUBSET DOMAIN runs, cancelled : BOOLEAN]
  <2>1. task[p] \in TaskSet /\ KnownTask(p)
    BY <1>1 DEF RunInv, KnownInv
  <2>2. task[p].run \in {0} \cup DOMAIN runs
    BY <2>1 DEF KnownTask
  <2>3. task[p].drop \in SUBSET DOMAIN runs /\ task[p].marks \in SUBSET DOMAIN runs
    BY <2>1 DEF KnownTask
  <2>. QED
    BY <2>1, <2>2, <2>3 DEF TaskSet, Turns
<1>5. op.stage \in {"idle", "body", "committed"} /\ chat.pc \in {"idle", "reserved", "turn", "stopping"}
  BY <1>1 DEF OpSet, ChatSet
<1>6. task \in [Tasks -> [pc : Points,
           due : SUBSET [auto : Autos, rev : Nat, slot : Nat],
           auto : Autos \cup {None}, rev : Nat, moment : Nat, run : {0} \cup DOMAIN runs,
           rolling : BOOLEAN, thread : Nat,
           turn : Live \cup {"none", "completed", "failed", "cancelled"},
           status : Terminal, drop : SUBSET DOMAIN runs,
           marks : SUBSET DOMAIN runs, cancelled : BOOLEAN]]
  BY <1>1, <1>4
<1>. QED
  BY <1>1, <1>2, <1>5, <1>6 DEF TypeOK, Limits, RowSet, Phases

\* In every run of the automations what a claim gives a run it keeps.
THEOREM RunKeptAlways == Spec => []RunKept
<1>1. Init => RunInv /\ ArbiterInv /\ RowsInv
  BY InitRun, InitArbiter, InitRows
<1>2. RunInv /\ ArbiterInv /\ RowsInv /\ [Next]_vars => RunInv' /\ ArbiterInv' /\ RowsInv'
  BY RunInductive, ArbiterInductive, RowsInductive
<1>. QED
  BY <1>1, <1>2, RunInvImpliesKept, PTL DEF Spec

\* In every run of the automations each variable holds a value of its kind.
THEOREM TypesAlways == Spec => []TypeOK
<1>1. Init => RunInv /\ ArbiterInv /\ RowsInv /\ Limits
  BY InitRun, InitArbiter, InitRows, InitLimits
<1>2. RunInv /\ ArbiterInv /\ RowsInv /\ Limits /\ [Next]_vars =>
         RunInv' /\ ArbiterInv' /\ RowsInv' /\ Limits'
  BY RunInductive, ArbiterInductive, RowsInductive, LimitsInductive
<1>3. RunInv /\ Limits => TypeOK
  BY InvImpliesTypes
<1>. QED
  BY <1>1, <1>2, <1>3, PTL DEF Spec
==============================================================================
