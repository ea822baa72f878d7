-------------------------- MODULE AutomationsProofs --------------------------
(***************************************************************************)
(* Proofs about Automations: one automation turn at a time, and rows that  *)
(* close once, for every set of automations, schedule, retention bound and *)
(* number of events.                                                       *)
(*                                                                         *)
(* A task between its first and its last step holds the arbiter. A turn    *)
(* outlives that only when its task was cancelled, which happens when the  *)
(* process is already leaving; nobody starts anything then.                *)
(*                                                                         *)
(* Whoever comes first closes a run: the task that drove it, the sweep of  *)
(* a shutdown, or that of a boot. Nobody replaces its terminal status, and *)
(* it has one terminal event.                                              *)
(***************************************************************************)
EXTENDS Automations, TLAPS, SequenceTheorems

Busy(p) == task[p].pc \notin {"off", "sleep"}
Running(p) == task[p].turn \in Live

\* Where no turn has begun, and where its wait is over.
Early == {"scan", "next", "claiming", "claimed", "created", "resolve", "adopt", "record", "drive"}
Waiting == {"wait", "overdue"}
Leaving == {"joining", "manual", "closing"}
Absent == {"down", "crashed", "boot"}

Shape == /\ DOMAIN task = Tasks
         /\ \A p \in Tasks : {"pc", "turn", "cancelled"} \subseteq DOMAIN task[p]

BusyHoldsArbiter == \A p \in Tasks : Busy(p) => arbiter = p
NoneBeforeDrive == \A p \in Tasks : task[p].pc \in Early => ~Running(p)
GivenUpWhenLeaving == \A p \in Tasks :
    Running(p) /\ (task[p].cancelled \/ task[p].pc \notin Early \cup Waiting) => phase \in Leaving
LastOfAll == \A p \in Tasks : Running(p) /\ ~Busy(p) => \A q \in Tasks : ~Busy(q)
OneTurn == \A p, q \in Tasks : Running(p) /\ Running(q) => p = q
NobodyHome == phase \in Absent => \A p \in Tasks : task[p].pc = "off" /\ ~Running(p)

\* The strengthening of OneRunAtATime that every step preserves.
ArbiterInv ==
    /\ Shape /\ BusyHoldsArbiter /\ NoneBeforeDrive /\ GivenUpWhenLeaving
    /\ LastOfAll /\ OneTurn /\ NobodyHome

USE DEF Tasks

LEMMA InitArbiter == Init => ArbiterInv
  BY DEF Init, Blank, ArbiterInv, Shape, BusyHoldsArbiter, NoneBeforeDrive, GivenUpWhenLeaving,
         LastOfAll, OneTurn, NobodyHome, Busy, Running, Live, Early, Absent

LEMMA InvImpliesOne == ArbiterInv => OneRunAtATime
  BY DEF ArbiterInv, OneRunAtATime, OneTurn, GivenUpWhenLeaving, BusyHoldsArbiter, Busy, Running,
         Early, Waiting, Leaving

\* Nothing of it can be seen to change.
LEMMA StutterArbiter ==
  ASSUME ArbiterInv, UNCHANGED <<task, arbiter, phase>>
  PROVE  ArbiterInv'
  BY DEF ArbiterInv, Shape, BusyHoldsArbiter, NoneBeforeDrive, GivenUpWhenLeaving,
         LastOfAll, OneTurn, NobodyHome, Busy, Running

\* A task that goes from one point of its run to another, its turn as it was.
LEMMA GoArbiter ==
  ASSUME ArbiterInv, UNCHANGED <<arbiter, phase>>,
         NEW p \in Tasks, Busy(p),
         NEW pc, pc \notin {"off", "sleep"},
         Shape', task'[p].pc = pc, task'[p].cancelled = task[p].cancelled,
         task'[p].turn = task[p].turn,
         \A q \in Tasks \ {p} : task'[q] = task[q],
         pc \in Early => task[p].pc \in Early,
         pc \in Waiting => task[p].pc \in Early \cup Waiting,
         pc \notin Early \cup Waiting =>
            ~Running(p) \/ task[p].pc \notin Early \cup Waiting \/ task[p].cancelled
  PROVE  ArbiterInv'
  BY DEF ArbiterInv, BusyHoldsArbiter, NoneBeforeDrive, GivenUpWhenLeaving,
         LastOfAll, OneTurn, NobodyHome, Busy, Running, Early, Waiting

\* The task unwinds: it gives the arbiter back, and leaves a turn behind only
\* when the process is leaving.
LEMMA EndArbiter ==
  ASSUME ArbiterInv, UNCHANGED phase, NEW p \in Tasks, End(p),
         Free(p) \/ UNCHANGED arbiter,
         Running(p) => task[p].cancelled \/ task[p].pc \notin Early \cup Waiting
  PROVE  ArbiterInv'
<1>1. Shape' /\ task'[p].pc = "off" /\ (Running(p)' <=> Running(p)) /\ ~task'[p].cancelled
  BY DEF ArbiterInv, Shape, End, Blank, Running, Live
<1>2. \A q \in Tasks \ {p} : task'[q] = task[q]
  BY DEF ArbiterInv, Shape, End
<1>3. BusyHoldsArbiter' /\ NoneBeforeDrive' /\ GivenUpWhenLeaving'
  BY <1>1, <1>2 DEF ArbiterInv, BusyHoldsArbiter, NoneBeforeDrive, GivenUpWhenLeaving, Busy,
         Running, Free, Early, Waiting
<1>4. LastOfAll' /\ OneTurn' /\ NobodyHome'
  BY <1>1, <1>2 DEF ArbiterInv, BusyHoldsArbiter, LastOfAll, OneTurn, NobodyHome, Busy, Running
<1>. QED
  BY <1>1, <1>3, <1>4 DEF ArbiterInv

LEMMA MoveOnArbiter ==
  ASSUME ArbiterInv, UNCHANGED phase, NEW p \in Tasks, MoveOn(p),
         Busy(p), Running(p) => task[p].cancelled \/ task[p].pc \notin Early \cup Waiting
  PROVE  ArbiterInv'
<1>1. CASE p = "loop" /\ ~task[p].cancelled
  <2>0. /\ task' = [task EXCEPT ![p] = [Blank EXCEPT !.pc = "next", !.due = task[p].due]]
        /\ UNCHANGED arbiter
    BY <1>1 DEF MoveOn
  <2>1. /\ Shape' /\ task'[p].pc = "next" /\ ~Running(p)' /\ ~task'[p].cancelled
        /\ UNCHANGED arbiter /\ \A q \in Tasks \ {p} : task'[q] = task[q]
    BY <2>0 DEF ArbiterInv, Shape, Blank, Running, Live
  <2>2. BusyHoldsArbiter' /\ NoneBeforeDrive' /\ GivenUpWhenLeaving'
    BY <2>1 DEF ArbiterInv, BusyHoldsArbiter, NoneBeforeDrive, GivenUpWhenLeaving, Busy, Running
  <2>3. LastOfAll' /\ OneTurn' /\ NobodyHome'
    BY <2>1 DEF ArbiterInv, LastOfAll, OneTurn, NobodyHome, Busy, Running
  <2>. QED
    BY <2>1, <2>2, <2>3 DEF ArbiterInv
<1>2. CASE ~(p = "loop" /\ ~task[p].cancelled)
  BY <1>2, EndArbiter DEF MoveOn
<1>. QED
  BY <1>1, <1>2

-----------------------------------------------------------------------------
(* The entry points *)

LEMMA TickStartsArbiter == ASSUME ArbiterInv, TickStarts PROVE ArbiterInv'
<1>1. /\ Shape' /\ task'["loop"].pc = "scan" /\ task'["loop"].turn = task["loop"].turn
      /\ ~task'["loop"].cancelled /\ task'["manual"] = task["manual"]
  BY DEF TickStarts, Go, ArbiterInv, Shape
<1>2. /\ arbiter = "free" /\ arbiter' = "loop" /\ phase = "up" /\ phase' = "up"
      /\ ~Running("loop")
  BY DEF TickStarts, ArbiterInv, GivenUpWhenLeaving, Early, Waiting, Leaving, process
<1>. QED
  BY <1>1, <1>2 DEF ArbiterInv, BusyHoldsArbiter, NoneBeforeDrive, GivenUpWhenLeaving, LastOfAll,
         OneTurn, NobodyHome, Busy, Running, Early, Waiting, Leaving, Absent

LEMMA StartNowArbiter == ASSUME ArbiterInv, NEW a \in Autos, StartNow(a) PROVE ArbiterInv'
<1>1. /\ Shape' /\ task'["manual"].pc = "claiming" /\ ~Running("manual")'
      /\ ~task'["manual"].cancelled /\ task'["loop"] = task["loop"]
  BY DEF StartNow, Blank, Running, Live, ArbiterInv, Shape
<1>2. arbiter = "free" /\ arbiter' = "manual" /\ phase = "up" /\ phase' = "up"
  BY DEF StartNow, process
<1>. QED
  BY <1>1, <1>2 DEF ArbiterInv, BusyHoldsArbiter, NoneBeforeDrive, GivenUpWhenLeaving, LastOfAll,
         OneTurn, NobodyHome, Busy, Running, Early, Waiting, Leaving, Absent

LEMMA TickScansArbiter == ASSUME ArbiterInv, TickScans PROVE ArbiterInv'
<1>1. /\ Shape' /\ task'["loop"].pc = "next" /\ task'["loop"].turn = task["loop"].turn
      /\ task'["loop"].cancelled = task["loop"].cancelled
      /\ \A q \in Tasks \ {"loop"} : task'[q] = task[q]
  BY DEF TickScans, ArbiterInv, Shape
<1>2. Busy("loop") /\ UNCHANGED <<arbiter, phase>> /\ task["loop"].pc \in Early
  BY DEF TickScans, process, Busy, Early
<1>. QED
  BY <1>1, <1>2, GoArbiter DEF Early, Waiting

LEMMA TickNextArbiter == ASSUME ArbiterInv, TickNext PROVE ArbiterInv'
<1>1. phase' = phase /\ Busy("loop") /\ arbiter = "loop"
  BY DEF TickNext, process, Busy, ArbiterInv, BusyHoldsArbiter
<1>2. CASE /\ task' = [task EXCEPT !["loop"] = [Blank EXCEPT !.pc = "sleep"]]
           /\ Free("loop")
  <2>1. /\ Shape' /\ task'["loop"].pc = "sleep" /\ ~Running("loop")'
        /\ task'["manual"] = task["manual"]
    BY <1>2 DEF Blank, Running, Live, ArbiterInv, Shape
  <2>2. BusyHoldsArbiter' /\ NoneBeforeDrive' /\ GivenUpWhenLeaving'
    BY <1>1, <2>1 DEF ArbiterInv, BusyHoldsArbiter, NoneBeforeDrive, GivenUpWhenLeaving, Busy,
           Running, Early
  <2>3. LastOfAll' /\ OneTurn' /\ NobodyHome'
    BY <1>1, <2>1 DEF ArbiterInv, BusyHoldsArbiter, LastOfAll, OneTurn, NobodyHome, Busy, Running
  <2>. QED
    BY <2>1, <2>2, <2>3 DEF ArbiterInv
<1>3. ASSUME NEW d \in task["loop"].due, UNCHANGED arbiter,
             task' = [task EXCEPT !["loop"] =
                   [Blank EXCEPT !.pc = "claiming", !.due = task["loop"].due \ {d},
                                 !.auto = d.auto, !.rev = d.rev, !.moment = now]]
      PROVE  ArbiterInv'
  <2>1. /\ Shape' /\ task'["loop"].pc = "claiming" /\ ~Running("loop")'
        /\ task'["manual"] = task["manual"]
    BY <1>3 DEF Blank, Running, Live, ArbiterInv, Shape
  <2>2. BusyHoldsArbiter' /\ NoneBeforeDrive' /\ GivenUpWhenLeaving'
    BY <1>1, <1>3, <2>1 DEF ArbiterInv, BusyHoldsArbiter, NoneBeforeDrive, GivenUpWhenLeaving,
           Busy, Running
  <2>3. LastOfAll' /\ OneTurn' /\ NobodyHome'
    BY <1>1, <2>1 DEF ArbiterInv, LastOfAll, OneTurn, NobodyHome, Busy, Running
  <2>. QED
    BY <2>1, <2>2, <2>3 DEF ArbiterInv
<1>. QED
  BY <1>2, <1>3 DEF TickNext

LEMMA HandOffArbiter == ASSUME ArbiterInv, HandOff PROVE ArbiterInv'
<1>1. /\ Shape' /\ task'["manual"].pc = "created" /\ task'["manual"].turn = task["manual"].turn
      /\ task'["manual"].cancelled = task["manual"].cancelled
      /\ \A q \in Tasks \ {"manual"} : task'[q] = task[q]
  BY DEF HandOff, Go, ArbiterInv, Shape
<1>2. Busy("manual") /\ UNCHANGED <<arbiter, phase>> /\ task["manual"].pc \in Early
  BY DEF HandOff, process, Busy, Early
<1>. QED
  BY <1>1, <1>2, GoArbiter DEF Early, Waiting

LEMMA RequestCancelledArbiter == ASSUME ArbiterInv, RequestCancelled PROVE ArbiterInv'
<1>1. /\ Shape' /\ task'["manual"].pc = "claiming" /\ task["manual"].pc = "claiming"
      /\ task'["manual"].turn = task["manual"].turn
      /\ \A q \in Tasks \ {"manual"} : task'[q] = task[q]
      /\ UNCHANGED <<arbiter, phase>>
  BY DEF RequestCancelled, ArbiterInv, Shape, process
<1>. QED
  BY <1>1 DEF ArbiterInv, BusyHoldsArbiter, NoneBeforeDrive, GivenUpWhenLeaving, LastOfAll,
         OneTurn, NobodyHome, Busy, Running, Early, Waiting


-----------------------------------------------------------------------------
(* The steps of a claim and of a run *)

\* A step that ends the task's turn of work: it was never past its wait with a
\* turn, or it was cancelled.
LEMMA ClaimEndsArbiter ==
  ASSUME ArbiterInv, NEW p \in Tasks, task[p].pc = "claiming", MoveOn(p), UNCHANGED phase
  PROVE  ArbiterInv'
  BY MoveOnArbiter DEF ArbiterInv, NoneBeforeDrive, Busy, Early

LEMMA ClaimTakesArbiter == ASSUME ArbiterInv, NEW p \in Tasks, ClaimTakes(p) PROVE ArbiterInv'
<1>1. /\ Shape' /\ task'[p].pc = "claimed" /\ task'[p].turn = task[p].turn
      /\ task'[p].cancelled = task[p].cancelled
      /\ \A q \in Tasks \ {p} : task'[q] = task[q]
  BY DEF ClaimTakes, ArbiterInv, Shape
<1>2. Busy(p) /\ UNCHANGED <<arbiter, phase>> /\ task[p].pc \in Early
  BY DEF ClaimTakes, process, Busy, Early
<1>. QED
  BY <1>1, <1>2, GoArbiter DEF Early, Waiting

\* Whatever sends a task to its finish: it has no turn, or gave it up.
LEMMA ConcludeArbiter ==
  ASSUME ArbiterInv, NEW p \in Tasks, NEW status, Conclude(p, status), Busy(p),
         UNCHANGED <<arbiter, phase>>,
         ~Running(p) \/ task[p].pc \notin Early \cup Waiting \/ task[p].cancelled
  PROVE  ArbiterInv'
<1>1. /\ Shape' /\ task'[p].pc = "finish" /\ task'[p].turn = task[p].turn
      /\ task'[p].cancelled = task[p].cancelled
      /\ \A q \in Tasks \ {p} : task'[q] = task[q]
  BY DEF Conclude, ArbiterInv, Shape
<1>. QED
  BY <1>1, GoArbiter DEF Early, Waiting

\* A step from one point before the turn to another.
LEMMA EarlyStepArbiter ==
  ASSUME ArbiterInv, NEW p \in Tasks, NEW pc \in Early, Go(p, pc), task[p].pc \in Early,
         UNCHANGED <<arbiter, phase>>
  PROVE  ArbiterInv'
<1>1. /\ Shape' /\ task'[p].pc = pc /\ task'[p].turn = task[p].turn
      /\ task'[p].cancelled = task[p].cancelled
      /\ \A q \in Tasks \ {p} : task'[q] = task[q]
  BY DEF Go, ArbiterInv, Shape
<1>2. Busy(p) /\ pc \notin {"off", "sleep"}
  BY DEF Busy, Early
<1>. QED
  BY <1>1, <1>2, GoArbiter DEF Early, Waiting

\* A step from one point after the wait to another.
LEMMA LateStepArbiter ==
  ASSUME ArbiterInv, NEW p \in Tasks, NEW pc, Go(p, pc), Busy(p),
         pc \notin Early \cup Waiting \cup {"off", "sleep"},
         task[p].pc \notin Early \cup Waiting, UNCHANGED <<arbiter, phase>>
  PROVE  ArbiterInv'
<1>1. /\ Shape' /\ task'[p].pc = pc /\ task'[p].turn = task[p].turn
      /\ task'[p].cancelled = task[p].cancelled
      /\ \A q \in Tasks \ {p} : task'[q] = task[q]
  BY DEF Go, ArbiterInv, Shape
<1>. QED
  BY <1>1, GoArbiter

LEMMA BeginsArbiter == ASSUME ArbiterInv, NEW p \in Tasks, Begins(p) PROVE ArbiterInv'
<1>1. Busy(p) /\ task[p].pc \in Early /\ ~Running(p) /\ UNCHANGED <<arbiter, phase>>
  BY DEF Begins, process, Busy, Early, ArbiterInv, NoneBeforeDrive
<1>2. CASE Refused(p)
  BY <1>1, <1>2, ConcludeArbiter DEF Refused
<1>3. CASE Go(p, "resolve")
  BY <1>1, <1>3, EarlyStepArbiter DEF Early
<1>. QED
  BY <1>2, <1>3 DEF Begins

LEMMA ResolveArbiter == ASSUME ArbiterInv, NEW p \in Tasks, ResolveThread(p) PROVE ArbiterInv'
<1>1. Busy(p) /\ task[p].pc \in Early /\ UNCHANGED <<arbiter, phase>>
  BY DEF ResolveThread, process, Busy, Early
<1>2. CASE Go(p, "record")
  BY <1>1, <1>2, EarlyStepArbiter DEF Early
<1>3. ASSUME NEW pc \in {"adopt", "record"},
             task' = [task EXCEPT ![p].thread = task[p].run, ![p].pc = pc]
      PROVE  ArbiterInv'
  <2>1. /\ Shape' /\ task'[p].pc = pc /\ task'[p].turn = task[p].turn
        /\ task'[p].cancelled = task[p].cancelled
        /\ \A q \in Tasks \ {p} : task'[q] = task[q]
    BY <1>3 DEF ArbiterInv, Shape
  <2>. QED
    BY <1>1, <2>1, GoArbiter DEF Early, Waiting
<1>. QED
  BY <1>2, <1>3 DEF ResolveThread

LEMMA DriveArbiter == ASSUME ArbiterInv, NEW p \in Tasks, Drive(p) PROVE ArbiterInv'
<1>1. /\ Busy(p) /\ task[p].pc \in Early /\ ~Running(p) /\ ~task[p].cancelled
      /\ UNCHANGED <<arbiter, phase>>
  BY DEF Drive, process, Busy, Early, ArbiterInv, NoneBeforeDrive
<1>2. CASE Refused(p)
  BY <1>1, <1>2, ConcludeArbiter DEF Refused
<1>3. CASE task' = [task EXCEPT ![p].pc = "wait", ![p].turn = "live"]
  <2>1. /\ Shape' /\ task'[p].pc = "wait" /\ Busy(p)' /\ ~task'[p].cancelled
        /\ \A q \in Tasks \ {p} : task'[q] = task[q]
    BY <1>1, <1>3 DEF ArbiterInv, Shape, Busy
  <2>2. \A q \in Tasks \ {p} : ~Running(q)
    BY <1>1 DEF ArbiterInv, BusyHoldsArbiter, LastOfAll, Busy
  <2>3. BusyHoldsArbiter' /\ NoneBeforeDrive' /\ GivenUpWhenLeaving'
    BY <1>1, <2>1, <2>2 DEF ArbiterInv, BusyHoldsArbiter, NoneBeforeDrive, GivenUpWhenLeaving,
           Busy, Running, Early, Waiting
  <2>4. LastOfAll' /\ OneTurn' /\ NobodyHome'
    BY <1>1, <2>1, <2>2 DEF ArbiterInv, LastOfAll, OneTurn, NobodyHome, Busy, Running
  <2>. QED
    BY <2>1, <2>3, <2>4 DEF ArbiterInv
<1>. QED
  BY <1>2, <1>3 DEF Drive

\* The turn ends, or is asked to.
LEMMA TurnArbiter ==
  ASSUME ArbiterInv, NEW p \in Tasks, Running(p), NEW turn,
         task' = [task EXCEPT ![p].turn = turn], UNCHANGED <<arbiter, phase>>
  PROVE  ArbiterInv'
<1>1. /\ Shape' /\ \A q \in Tasks : task'[q].pc = task[q].pc /\ task'[q].cancelled = task[q].cancelled
      /\ \A q \in Tasks : Running(q)' => Running(q)
  BY DEF ArbiterInv, Shape, Running
<1>2. BusyHoldsArbiter' /\ NoneBeforeDrive' /\ GivenUpWhenLeaving'
  BY <1>1 DEF ArbiterInv, BusyHoldsArbiter, NoneBeforeDrive, GivenUpWhenLeaving, Busy
<1>3. LastOfAll' /\ OneTurn' /\ NobodyHome'
  BY <1>1 DEF ArbiterInv, LastOfAll, OneTurn, NobodyHome, Busy
<1>. QED
  BY <1>1, <1>2, <1>3 DEF ArbiterInv

LEMMA AdoptArbiter == ASSUME ArbiterInv, NEW p \in Tasks, AdoptThread(p) PROVE ArbiterInv'
  BY EarlyStepArbiter DEF AdoptThread, process, Early

LEMMA RecordArbiter == ASSUME ArbiterInv, NEW p \in Tasks, RecordThread(p) PROVE ArbiterInv'
  BY EarlyStepArbiter DEF RecordThread, process, Early

LEMMA TurnEndsArbiter == ASSUME ArbiterInv, NEW p \in Tasks, TurnEnds(p) PROVE ArbiterInv'
<1>1. Running(p) /\ UNCHANGED <<arbiter, phase>>
  BY DEF TurnEnds, Running, process
<1>2. PICK turn : task' = [task EXCEPT ![p].turn = turn]
  BY DEF TurnEnds
<1>. QED
  BY <1>1, <1>2, TurnArbiter

LEMMA OwnerStopsArbiter == ASSUME ArbiterInv, NEW p \in Tasks, OwnerStops(p) PROVE ArbiterInv'
<1>1. /\ Running(p) /\ UNCHANGED <<arbiter, phase>>
      /\ task' = [task EXCEPT ![p].turn = "stopping"]
  BY DEF OwnerStops, Running, Live, process
<1>. QED
  BY <1>1, TurnArbiter

\* The wait goes on past its deadline, or past a cancel, on a turn that was
\* asked to stop.
LEMMA StillWaitsArbiter ==
  ASSUME ArbiterInv, NEW p \in Tasks, task[p].pc \in Waiting, UNCHANGED <<arbiter, phase>>,
         NEW pc, pc = "overdue" \/ (pc = "grace" /\ task[p].cancelled),
         NEW turn, turn \in Live => Running(p),
         task' = [task EXCEPT ![p].pc = pc, ![p].turn = turn]
  PROVE  ArbiterInv'
<1>1. /\ Shape' /\ task'[p].pc = pc /\ Busy(p) /\ Busy(p)' /\ (Running(p)' => Running(p))
      /\ task'[p].cancelled = task[p].cancelled
      /\ \A q \in Tasks \ {p} : task'[q] = task[q]
  BY DEF ArbiterInv, Shape, Running, Busy, Waiting
<1>2. BusyHoldsArbiter' /\ NoneBeforeDrive' /\ GivenUpWhenLeaving'
  BY ZenonT(40), <1>1 DEF ArbiterInv, BusyHoldsArbiter, NoneBeforeDrive, GivenUpWhenLeaving, Busy,
     Running,
         Early, Waiting
<1>3. LastOfAll' /\ OneTurn' /\ NobodyHome'
  BY ZenonT(40), <1>1 DEF ArbiterInv, LastOfAll, OneTurn, NobodyHome, Busy, Running
<1>. QED
  BY <1>1, <1>2, <1>3 DEF ArbiterInv

LEMMA DeadlineArbiter == ASSUME ArbiterInv, NEW p \in Tasks, Deadline(p) PROVE ArbiterInv'
<1>1. /\ task[p].pc \in Waiting /\ Running(p) /\ UNCHANGED <<arbiter, phase>>
      /\ task' = [task EXCEPT ![p].pc = "overdue", ![p].turn = "stopping"]
  BY DEF Deadline, Running, Waiting, process, ArbiterInv, Shape
<1>. QED
  BY <1>1, StillWaitsArbiter

LEMMA CollectsArbiter == ASSUME ArbiterInv, NEW p \in Tasks, Collects(p) PROVE ArbiterInv'
<1>1. Busy(p) /\ ~Running(p) /\ UNCHANGED <<arbiter, phase>>
  BY DEF Collects, Busy, Running, process
<1>2. PICK status : Conclude(p, status)
  BY DEF Collects
<1>. QED
  BY <1>1, <1>2, ConcludeArbiter

LEMMA GraceEndsArbiter == ASSUME ArbiterInv, NEW p \in Tasks, GraceEnds(p) PROVE ArbiterInv'
<1>1. /\ Busy(p) /\ task[p].pc \notin Early \cup Waiting /\ UNCHANGED <<arbiter, phase>>
      /\ Conclude(p, "interrupted")
  BY DEF GraceEnds, Busy, Early, Waiting, process
<1>. QED
  BY <1>1, ConcludeArbiter

LEMMA FinalizeArbiter == ASSUME ArbiterInv, NEW p \in Tasks, Finalize(p) PROVE ArbiterInv'
<1>1. /\ Busy(p) /\ task[p].pc \notin Early \cup Waiting /\ UNCHANGED <<arbiter, phase>>
      /\ Go(p, "audit") \/ Go(p, "closed")
  BY DEF Finalize, Busy, Early, Waiting, process
<1>. QED
  BY <1>1, LateStepArbiter DEF Early, Waiting

LEMMA RecordEventArbiter == ASSUME ArbiterInv, NEW p \in Tasks, RecordEvent(p) PROVE ArbiterInv'
<1>1. /\ Busy(p) /\ task[p].pc \notin Early \cup Waiting /\ UNCHANGED <<arbiter, phase>>
      /\ Go(p, "closed")
  BY DEF RecordEvent, Busy, Early, Waiting, process
<1>. QED
  BY <1>1, LateStepArbiter DEF Early, Waiting

LEMMA PruneReadsArbiter == ASSUME ArbiterInv, NEW p \in Tasks, PruneReads(p) PROVE ArbiterInv'
<1>1. Busy(p) /\ task[p].pc \notin Early \cup Waiting /\ UNCHANGED phase
  BY DEF PruneReads, Busy, Early, Waiting, process
<1>2. CASE MoveOn(p)
  BY <1>1, <1>2, MoveOnArbiter
<1>3. ASSUME NEW drop, UNCHANGED arbiter,
             task' = [task EXCEPT ![p].pc = "prune", ![p].drop = drop]
      PROVE  ArbiterInv'
  <2>1. /\ Shape' /\ task'[p].pc = "prune" /\ task'[p].turn = task[p].turn
        /\ task'[p].cancelled = task[p].cancelled
        /\ \A q \in Tasks \ {p} : task'[q] = task[q]
    BY <1>3 DEF ArbiterInv, Shape
  <2>. QED
    BY <1>1, <1>3, <2>1, GoArbiter DEF Early, Waiting
<1>. QED
  BY <1>2, <1>3 DEF PruneReads

LEMMA PruneTakesArbiter == ASSUME ArbiterInv, NEW p \in Tasks, PruneTakesMarkers(p) PROVE ArbiterInv'
<1>1. Busy(p) /\ task[p].pc \notin Early \cup Waiting /\ UNCHANGED <<arbiter, phase>>
  BY DEF PruneTakesMarkers, Busy, Early, Waiting, process
<1>2. PICK drop, marks :
        task' = [task EXCEPT ![p].pc = "commit", ![p].drop = drop, ![p].marks = marks]
  BY DEF PruneTakesMarkers
<1>3. /\ Shape' /\ task'[p].pc = "commit" /\ task'[p].turn = task[p].turn
      /\ task'[p].cancelled = task[p].cancelled
      /\ \A q \in Tasks \ {p} : task'[q] = task[q]
  BY <1>2 DEF ArbiterInv, Shape
<1>. QED
  BY <1>1, <1>3, GoArbiter DEF Early, Waiting

LEMMA PruneCommitsArbiter == ASSUME ArbiterInv, NEW p \in Tasks, PruneCommits(p) PROVE ArbiterInv'
<1>1. /\ Busy(p) /\ task[p].pc \notin Early \cup Waiting /\ UNCHANGED <<arbiter, phase>>
      /\ Go(p, "committed")
  BY DEF PruneCommits, Busy, Early, Waiting, process
<1>. QED
  BY <1>1, LateStepArbiter DEF Early, Waiting

LEMMA PruneReleasesArbiter == ASSUME ArbiterInv, NEW p \in Tasks, PruneReleases(p) PROVE ArbiterInv'
<1>1. /\ Busy(p) /\ task[p].pc \notin Early \cup Waiting /\ UNCHANGED phase
      /\ MoveOn(p)
  BY DEF PruneReleases, Busy, Early, Waiting, process
<1>. QED
  BY <1>1, MoveOnArbiter

LEMMA CancelLandsArbiter == ASSUME ArbiterInv, NEW p \in Tasks, CancelLands(p) PROVE ArbiterInv'
<1>1. task[p].cancelled /\ UNCHANGED phase
  BY DEF CancelLands, process
<1>2. CASE End(p) /\ (Free(p) \/ UNCHANGED arbiter)
  BY <1>1, <1>2, EndArbiter
<1>3. CASE /\ task[p].pc \in {"claimed", "resolve", "adopt", "record", "drive"}
           /\ Conclude(p, "interrupted") /\ UNCHANGED arbiter
  BY <1>1, <1>3, ConcludeArbiter DEF Busy
<1>4. CASE /\ task[p].pc \in {"wait", "overdue"} /\ UNCHANGED arbiter
           /\ task' = [task EXCEPT ![p].pc = "grace", ![p].turn =
                 IF task[p].turn = "live" THEN "stopping" ELSE task[p].turn]
  <2>. DEFINE turn == IF task[p].turn = "live" THEN "stopping" ELSE task[p].turn
  <2>1. turn \in Live => Running(p)
    BY DEF Running, Live
  <2>2. /\ task' = [task EXCEPT ![p].pc = "grace", ![p].turn = turn]
        /\ task[p].pc \in Waiting
    BY <1>4 DEF Waiting
  <2>. HIDE DEF turn
  <2>. QED
    BY ZenonT(40), <1>1, <1>4, <2>1, <2>2, StillWaitsArbiter
<1>. QED
  BY <1>2, <1>3, <1>4 DEF CancelLands

-----------------------------------------------------------------------------
(* The process *)

LEMMA ShutdownArbiter == ASSUME ArbiterInv, ShutdownStarts PROVE ArbiterInv'
<1>1. /\ Shape' /\ phase = "up" /\ phase' = "drain" /\ UNCHANGED arbiter
      /\ \A q \in Tasks : /\ task'[q].pc = task[q].pc
                          /\ task'[q].cancelled = task[q].cancelled
                          /\ Running(q)' => Running(q)
  BY DEF ShutdownStarts, ArbiterInv, Shape, Running, Live
<1>2. BusyHoldsArbiter' /\ NoneBeforeDrive' /\ GivenUpWhenLeaving'
  BY <1>1 DEF ArbiterInv, BusyHoldsArbiter, NoneBeforeDrive, GivenUpWhenLeaving, Busy, Leaving
<1>3. LastOfAll' /\ OneTurn' /\ NobodyHome'
  BY <1>1 DEF ArbiterInv, LastOfAll, OneTurn, NobodyHome, Busy, Absent
<1>. QED
  BY <1>1, <1>2, <1>3 DEF ArbiterInv

\* The tasks are as they were but for a cancel, and the process is leaving.
LEMMA LeavingArbiter ==
  ASSUME ArbiterInv, UNCHANGED arbiter, phase' \in Leaving,
         UNCHANGED task \/ \E p \in Tasks : task' = Cancelled(p, task)
  PROVE  ArbiterInv'
<1>1. Shape' /\ \A q \in Tasks : task'[q].pc = task[q].pc /\ (Running(q)' <=> Running(q))
  BY DEF ArbiterInv, Shape, Running, Cancelled
<1>2. BusyHoldsArbiter' /\ NoneBeforeDrive' /\ GivenUpWhenLeaving'
  BY <1>1 DEF ArbiterInv, BusyHoldsArbiter, NoneBeforeDrive, GivenUpWhenLeaving, Busy
<1>3. LastOfAll' /\ OneTurn' /\ NobodyHome'
  BY <1>1 DEF ArbiterInv, LastOfAll, OneTurn, NobodyHome, Busy, Absent, Leaving
<1>. QED
  BY <1>1, <1>2, <1>3 DEF ArbiterInv

LEMMA LeavesArbiter ==
  ASSUME ArbiterInv, LoopCancelled \/ ManualCancelled \/ BackstopSweep PROVE ArbiterInv'
  BY LeavingArbiter DEF LoopCancelled, ManualCancelled, BackstopSweep, Leaving

LEMMA ProcessEndsArbiter == ASSUME NEW how, ProcessEnds(how) PROVE ArbiterInv'
  BY DEF ProcessEnds, Blank, ArbiterInv, Shape, BusyHoldsArbiter, NoneBeforeDrive,
         GivenUpWhenLeaving, LastOfAll, OneTurn, NobodyHome, Busy, Running, Live

LEMMA BootArbiter == ASSUME ArbiterInv, Boot PROVE ArbiterInv'
  BY DEF Boot, ArbiterInv, Shape, BusyHoldsArbiter, NoneBeforeDrive, GivenUpWhenLeaving,
         LastOfAll, OneTurn, NobodyHome, Busy, Running, Absent

LEMMA LoopStartsArbiter == ASSUME ArbiterInv, LoopStarts PROVE ArbiterInv'
<1>1. /\ Shape' /\ task'["loop"].pc = "sleep" /\ task'["manual"] = task["manual"]
      /\ UNCHANGED arbiter /\ phase = "boot" /\ phase' = "up"
      /\ \A q \in Tasks : ~Running(q)' /\ ~Busy(q)'
  BY DEF LoopStarts, Go, ArbiterInv, Shape, NobodyHome, Absent, Running, Busy
<1>. QED
  BY <1>1 DEF ArbiterInv, BusyHoldsArbiter, NoneBeforeDrive, GivenUpWhenLeaving,
         LastOfAll, OneTurn, NobodyHome, Busy, Absent, Early

\* The owner's edits, a chat, a sweep and the clock have nothing to do with it.
Elsewhere ==
    \/ \E a \in Autos :
          \/ DeleteStarts(a) \/ \E enabled \in BOOLEAN : SetEnabled(a, enabled)
          \/ \E draft \in Drafts : Create(a, draft) \/ UpdateStarts(a, draft)
    \/ OpCommits \/ OpReleases \/ \E t \in DOMAIN runs : ChatReserves(t)
    \/ ChatRevalidates \/ ChatEnds \/ (\E r \in todo : SweepRow(r)) \/ ClockTicks

LEMMA ElsewhereArbiter == ASSUME ArbiterInv, Elsewhere PROVE ArbiterInv'
<1>1. UNCHANGED <<task, arbiter, phase>>
  BY DEF Elsewhere, DeleteStarts, SetEnabled, Create, UpdateStarts, OpCommits, OpReleases,
         ChatReserves, ChatRevalidates, ChatEnds, SweepRow, ClockTicks, process
<1>. QED
  BY <1>1, StutterArbiter

LEMMA TaskStepsArbiter == ASSUME ArbiterInv, NEW p \in Tasks, TaskSteps(p) PROVE ArbiterInv'
<1>1. CASE ClaimDeclines(p) \/ ClaimSkips(p)
  BY <1>1, ClaimEndsArbiter DEF ClaimDeclines, ClaimSkips, process
<1>2. CASE ClaimTakes(p) \/ Begins(p) \/ ResolveThread(p) \/ AdoptThread(p) \/ RecordThread(p)
  BY <1>2, ClaimTakesArbiter, BeginsArbiter, ResolveArbiter, AdoptArbiter, RecordArbiter
<1>3. CASE Drive(p) \/ Collects(p) \/ GraceEnds(p) \/ Finalize(p) \/ RecordEvent(p)
  BY <1>3, DriveArbiter, CollectsArbiter, GraceEndsArbiter, FinalizeArbiter, RecordEventArbiter
<1>4. CASE PruneReads(p) \/ PruneTakesMarkers(p) \/ PruneCommits(p) \/ PruneReleases(p)
  BY <1>4, PruneReadsArbiter, PruneTakesArbiter, PruneCommitsArbiter, PruneReleasesArbiter
<1>5. CASE CancelLands(p)
  BY <1>5, CancelLandsArbiter
<1>. QED
  BY <1>1, <1>2, <1>3, <1>4, <1>5 DEF TaskSteps

\* Every step of the automations keeps the strengthened invariant.
THEOREM ArbiterInductive == ASSUME ArbiterInv, [Next]_vars PROVE ArbiterInv'
<1>1. CASE TickStarts \/ TickScans \/ TickNext \/ HandOff \/ RequestCancelled
  BY <1>1, TickStartsArbiter, TickScansArbiter, TickNextArbiter, HandOffArbiter,
     RequestCancelledArbiter
<1>2. ASSUME NEW p \in Tasks, TaskSteps(p) \/ TurnEnds(p) \/ OwnerStops(p) \/ Deadline(p)
      PROVE  ArbiterInv'
  BY <1>2, TaskStepsArbiter, TurnEndsArbiter, OwnerStopsArbiter, DeadlineArbiter
<1>3. ASSUME NEW a \in Autos, StartNow(a)
      PROVE  ArbiterInv'
  BY <1>3, StartNowArbiter
<1>4. CASE Elsewhere
  BY <1>4, ElsewhereArbiter
<1>5. CASE ShutdownStarts \/ LoopCancelled \/ ManualCancelled \/ BackstopSweep
  BY <1>5, ShutdownArbiter, LeavesArbiter
<1>6. CASE DatabaseCloses \/ Crash \/ Boot \/ LoopStarts
  BY <1>6, ProcessEndsArbiter, BootArbiter, LoopStartsArbiter DEF DatabaseCloses, Crash
<1>7. CASE UNCHANGED vars
  BY <1>7, StutterArbiter DEF vars
<1>. QED
  BY <1>1, <1>2, <1>3, <1>4, <1>5, <1>6, <1>7 DEF Next, OwnerSteps, Elsewhere

\* At every instant of every run at most one automation turn is live, and
\* while the server is up it is the turn of the task that has the arbiter.
THEOREM OneRunAlways == Spec => []OneRunAtATime
<1>1. Init => ArbiterInv
  BY InitArbiter
<1>2. ArbiterInv /\ [Next]_vars => ArbiterInv'
  BY ArbiterInductive
<1>3. ArbiterInv => OneRunAtATime
  BY InvImpliesOne
<1>. QED
  BY <1>1, <1>2, <1>3, PTL DEF Spec

-----------------------------------------------------------------------------
(* The rows *)

\* The rows are a sequence of records with these fields.
RowsShape == /\ Len(runs) \in Nat /\ runs = [r \in 1 .. Len(runs) |-> runs[r]]
             /\ \A r \in DOMAIN runs : {"status", "events"} \subseteq DOMAIN runs[r]

OneEvent == \A r \in DOMAIN runs :
    runs[r].events = 0 \/ (runs[r].events = 1 /\ runs[r].status # "running")

\* What a task closes its row with.
TaskEnds == \A p \in Tasks :
    /\ {"status", "run"} \subseteq DOMAIN task[p] /\ task[p].status # "running"
    /\ task[p].pc \in Waiting => task[p].turn \in Live \cup {"completed", "failed", "cancelled"}

\* Between the close of a row and its event nobody else has touched it.
AuditIsFirst == \A p \in Tasks :
    task[p].pc = "audit" /\ task[p].run \in DOMAIN runs =>
        runs[task[p].run].status # "running" /\ runs[task[p].run].events = 0

\* With ArbiterInv, the invariant ClosedOnce rests on.
RowsInv == RowsShape /\ OneEvent /\ TaskEnds /\ AuditIsFirst

\* What ClosedOnce says of one step.
RowsOnce == \A r \in DOMAIN runs :
    /\ runs[r].status \in Terminal => runs'[r].status \in {runs[r].status, "gone"}
    /\ runs'[r].events <= 1

LEMMA InitRows == Init => RowsInv
<1>. SUFFICES ASSUME Init PROVE RowsInv
  OBVIOUS
<1>1. runs = <<>> /\ task["loop"] = [Blank EXCEPT !.pc = "sleep"] /\ task["manual"] = Blank
  BY DEF Init
<1>2. RowsShape /\ OneEvent
  BY <1>1 DEF RowsShape, OneEvent
<1>3. \A t \in {Blank, [Blank EXCEPT !.pc = "sleep"]} :
         {"status", "run"} \subseteq DOMAIN t /\ t.status = "error" /\ t.pc \in {"off", "sleep"}
  BY DEF Blank
<1>4. \A p \in Tasks : /\ {"status", "run"} \subseteq DOMAIN task[p] /\ task[p].status = "error"
                       /\ task[p].pc \in {"off", "sleep"}
  BY <1>1, <1>3
<1>. QED
  BY <1>2, <1>4 DEF RowsInv, TaskEnds, AuditIsFirst, Waiting

-----------------------------------------------------------------------------
(* What a step may do to the rows, and what to the tasks *)

\* No task comes to the point between the close of its row and the event.
NoneAudits == \A p \in Tasks :
    task'[p].pc = "audit" => task[p].pc = "audit" /\ task'[p].run = task[p].run

\* Rows are as they were, or gone, or changed in their thread.
Touched(r) ==
    /\ DOMAIN runs'[r] = DOMAIN runs[r] /\ runs'[r].events = runs[r].events
    /\ runs'[r].status \in {runs[r].status, "gone"}

LEMMA SameRows ==
  ASSUME RowsInv, DOMAIN runs' = DOMAIN runs, runs' = [r \in DOMAIN runs |-> runs'[r]]
  PROVE  Len(runs') = Len(runs) /\ runs' = [r \in 1 .. Len(runs') |-> runs'[r]]
<1>. DEFINE S == {runs'[r] : r \in DOMAIN runs}
            n == Len(runs)
<1>1. n \in Nat /\ DOMAIN runs = 1 .. n
  BY DEF RowsInv, RowsShape
<1>2. runs' \in [1 .. n -> S]
  BY <1>1
<1>. HIDE DEF S, n
<1>3. runs' \in Seq(S)
  BY <1>1, <1>2, SeqDef
<1>4. Len(runs') \in Nat /\ DOMAIN runs' = 1 .. Len(runs')
  BY <1>3, LenProperties
<1>5. Len(runs') = n
  BY <1>1, <1>4
<1>. QED
  BY <1>1, <1>5 DEF n

\* One row is changed.
LEMMA RowChanged ==
  ASSUME RowsInv, NEW r, NEW row, runs' = [runs EXCEPT ![r] = row]
  PROVE  /\ DOMAIN runs' = DOMAIN runs /\ Len(runs') = Len(runs)
         /\ runs' = [n \in 1 .. Len(runs') |-> runs'[n]]
         /\ \A n \in DOMAIN runs : n # r => runs'[n] = runs[n]
         /\ r \in DOMAIN runs => runs'[r] = row
<1>1. /\ DOMAIN runs' = DOMAIN runs /\ runs' = [n \in DOMAIN runs |-> runs'[n]]
      /\ \A n \in DOMAIN runs : n # r => runs'[n] = runs[n]
      /\ r \in DOMAIN runs => runs'[r] = row
  OBVIOUS
<1>. QED
  BY <1>1, SameRows

LEMMA RowsTouched ==
  ASSUME RowsInv, TaskEnds', NoneAudits, Len(runs') = Len(runs),
         runs' = [r \in 1 .. Len(runs') |-> runs'[r]], \A r \in DOMAIN runs : Touched(r)
  PROVE  RowsInv' /\ RowsOnce
<1>1. DOMAIN runs' = DOMAIN runs
  BY DEF RowsInv, RowsShape
<1>2. RowsShape' /\ OneEvent'
  BY <1>1 DEF RowsInv, RowsShape, OneEvent, Touched
<1>3. AuditIsFirst'
  BY <1>1 DEF RowsInv, AuditIsFirst, NoneAudits, Touched
<1>4. RowsOnce
  BY DEF RowsInv, RowsOnce, OneEvent, Touched
<1>. QED
  BY <1>2, <1>3, <1>4 DEF RowsInv

LEMMA RowsSame ==
  ASSUME RowsInv, TaskEnds', NoneAudits, UNCHANGED runs
  PROVE  RowsInv' /\ RowsOnce
  BY RowsTouched DEF RowsInv, RowsShape, Touched


\* Rows of runs that are closed, or have no event yet, are added.
NewRow(row) == {"status", "events"} \subseteq DOMAIN row /\ row.events = 0

LEMMA RowsAdded ==
  ASSUME RowsInv, ArbiterInv, TaskEnds', NEW p \in Tasks, task[p].pc = "claiming",
         NoneAudits, NEW new, Len(new) \in Nat, new = [i \in 1 .. Len(new) |-> new[i]],
         \A i \in 1 .. Len(new) : NewRow(new[i]), runs' = runs \o new
  PROVE  RowsInv' /\ RowsOnce
<1>. DEFINE S == {runs[r] : r \in 1 .. Len(runs)} \cup {new[i] : i \in 1 .. Len(new)}
<1>1. runs \in Seq(S) /\ new \in Seq(S)
  <2>1. runs \in [1 .. Len(runs) -> S] /\ Len(runs) \in Nat
    BY DEF RowsInv, RowsShape
  <2>2. new \in [1 .. Len(new) -> S]
    OBVIOUS
  <2>. HIDE DEF S
  <2>3. ASSUME NEW n \in Nat, NEW s, s \in [1 .. n -> S] PROVE s \in Seq(S)
    BY <2>3, SeqDef
  <2>. QED
    BY <2>1, <2>2, <2>3
<1>. HIDE DEF S
<1>2. /\ runs' \in Seq(S) /\ Len(runs') = Len(runs) + Len(new)
      /\ \A i \in 1 .. Len(runs') :
            runs'[i] = IF i <= Len(runs) THEN runs[i] ELSE new[i - Len(runs)]
  BY <1>1, ConcatProperties
<1>2a. /\ Len(runs') \in Nat /\ runs' = [r \in 1 .. Len(runs') |-> runs'[r]]
       /\ DOMAIN runs = 1 .. Len(runs) /\ DOMAIN runs' = 1 .. Len(runs')
  BY <1>1, <1>2, LenProperties
<1>2b. \A r \in DOMAIN runs : r \in DOMAIN runs' /\ runs'[r] = runs[r]
  BY <1>1, <1>2, <1>2a
<1>2c. \A r \in DOMAIN runs' \ DOMAIN runs : NewRow(runs'[r])
  <2>1. ASSUME NEW r \in DOMAIN runs' \ DOMAIN runs PROVE NewRow(runs'[r])
    <3>1. r \in 1 .. Len(runs') /\ ~(r <= Len(runs)) /\ r - Len(runs) \in 1 .. Len(new)
      BY <1>1, <1>2, <1>2a, <2>1
    <3>. QED
      BY <1>2, <3>1
  <2>. QED
    BY <2>1
<1>3. RowsShape' /\ OneEvent'
  BY <1>2a, <1>2b, <1>2c DEF RowsInv, RowsShape, OneEvent, NewRow
<1>4. \A q \in Tasks : task'[q].pc # "audit"
  BY DEF ArbiterInv, BusyHoldsArbiter, Busy, NoneAudits
<1>5. RowsOnce
  BY <1>2b DEF RowsInv, RowsOnce, OneEvent
<1>. QED
  BY <1>3, <1>4, <1>5 DEF RowsInv, AuditIsFirst

-----------------------------------------------------------------------------
(* The tasks *)

\* One task goes on, to anywhere but the point before the event.
LEMMA TaskGoes ==
  ASSUME RowsInv, ArbiterInv, NEW p \in Tasks, NEW t, task' = [task EXCEPT ![p] = t],
         {"status", "run"} \subseteq DOMAIN t, t.status # "running", t.pc # "audit",
         t.pc \in Waiting => t.turn \in Live \cup {"completed", "failed", "cancelled"}
  PROVE  TaskEnds' /\ NoneAudits
<1>1. task'[p] = t /\ \A q \in Tasks \ {p} : task'[q] = task[q]
  BY DEF ArbiterInv, Shape
<1>. QED
  BY <1>1 DEF RowsInv, TaskEnds, NoneAudits

LEMMA TaskWalks ==
  ASSUME RowsInv, ArbiterInv, NEW p \in Tasks, NEW pc, pc \notin Waiting \cup {"audit"}, Go(p, pc)
  PROVE  TaskEnds' /\ NoneAudits
<1>. DEFINE t == [task[p] EXCEPT !.pc = pc]
<1>1. /\ task' = [task EXCEPT ![p] = t] /\ {"status", "run"} \subseteq DOMAIN t
      /\ t.status = task[p].status /\ t.pc = pc
  BY DEF Go, ArbiterInv, Shape, RowsInv, TaskEnds
<1>. HIDE DEF t
<1>. QED
  BY <1>1, TaskGoes DEF RowsInv, TaskEnds

LEMMA TaskConcludes ==
  ASSUME RowsInv, ArbiterInv, NEW p \in Tasks, NEW status, status # "running", Conclude(p, status)
  PROVE  TaskEnds' /\ NoneAudits
<1>. DEFINE t == [task[p] EXCEPT !.pc = "finish", !.status = status]
<1>1. /\ task' = [task EXCEPT ![p] = t] /\ {"status", "run"} \subseteq DOMAIN t
      /\ t.status = status /\ t.pc = "finish"
  BY DEF Conclude, ArbiterInv, Shape, RowsInv, TaskEnds
<1>. HIDE DEF t
<1>. QED
  BY <1>1, TaskGoes DEF Waiting

\* What a task leaves when it has nothing more to do.
LEMMA TaskRests ==
  ASSUME RowsInv, ArbiterInv, NEW p \in Tasks, NEW t, task' = [task EXCEPT ![p] = t],
         {"status", "run"} \subseteq DOMAIN t, t.status = "error",
         t.pc \in {"off", "sleep", "next", "claiming"}
  PROVE  TaskEnds' /\ NoneAudits
  BY TaskGoes DEF Waiting

LEMMA TaskUnwinds ==
  ASSUME RowsInv, ArbiterInv, NEW p \in Tasks, End(p) PROVE TaskEnds' /\ NoneAudits
<1>. DEFINE left == [Blank EXCEPT !.turn = task[p].turn, !.thread = task[p].thread]
<1>1. left.pc = "off" /\ left.status = "error" /\ {"status", "run"} \subseteq DOMAIN left
  BY DEF Blank
<1>2. Blank.pc = "off" /\ Blank.status = "error" /\ {"status", "run"} \subseteq DOMAIN Blank
  BY DEF Blank
<1>3. task' = [task EXCEPT ![p] = left] \/ task' = [task EXCEPT ![p] = Blank]
  BY DEF End, ArbiterInv, Shape
<1>. HIDE DEF left
<1>. QED
  BY <1>1, <1>2, <1>3, TaskRests

LEMMA TaskMovesOn ==
  ASSUME RowsInv, ArbiterInv, NEW p \in Tasks, MoveOn(p) PROVE TaskEnds' /\ NoneAudits
<1>. DEFINE t == [Blank EXCEPT !.pc = "next", !.due = task[p].due]
<1>1. t.pc = "next" /\ t.status = "error" /\ {"status", "run"} \subseteq DOMAIN t
  BY DEF Blank
<1>2. task' = [task EXCEPT ![p] = t] \/ End(p)
  BY DEF MoveOn
<1>. HIDE DEF t
<1>. QED
  BY <1>1, <1>2, TaskRests, TaskUnwinds

LEMMA TaskStill == ASSUME RowsInv, UNCHANGED task PROVE TaskEnds' /\ NoneAudits
  BY DEF RowsInv, TaskEnds, NoneAudits

\* Fields that matter to no row are changed.
LEMMA TasksAlike ==
  ASSUME RowsInv,
         \A p \in Tasks :
            /\ {"status", "run"} \subseteq DOMAIN task'[p]
            /\ task'[p].pc = task[p].pc /\ task'[p].run = task[p].run
            /\ task'[p].status = task[p].status
            /\ \/ task'[p].turn = task[p].turn
               \/ task'[p].turn \in Live \cup {"completed", "failed", "cancelled"}
  PROVE  TaskEnds' /\ NoneAudits
  BY DEF RowsInv, TaskEnds, NoneAudits

-----------------------------------------------------------------------------
(* The steps *)

LEMMA TickRows ==
  ASSUME RowsInv, ArbiterInv, TickStarts \/ TickScans \/ TickNext PROVE RowsInv' /\ RowsOnce
<1>1. UNCHANGED runs
  BY DEF TickStarts, TickScans, TickNext, store
<1>2. TaskEnds' /\ NoneAudits
  <2>1. CASE TickStarts
    BY <2>1, TaskWalks DEF TickStarts, Waiting
  <2>2. CASE TickScans
    <3>. DEFINE due == {[auto |-> a, rev |-> autos[a].rev, slot |-> autos[a].next] :
                           a \in {b \in Autos : Due(b)}}
                t == [task["loop"] EXCEPT !.pc = "next", !.due = due]
    <3>1. task' = [task EXCEPT !["loop"] = t]
      BY <2>2 DEF TickScans
    <3>. HIDE DEF due
    <3>2. t.pc = "next" /\ t.status = task["loop"].status /\ {"status", "run"} \subseteq DOMAIN t
      BY DEF ArbiterInv, Shape, RowsInv, TaskEnds
    <3>. HIDE DEF t
    <3>. QED
      BY <3>1, <3>2, TaskGoes DEF RowsInv, TaskEnds, Waiting
  <2>3. CASE TickNext
    <3>1. ASSUME task' = [task EXCEPT !["loop"] = [Blank EXCEPT !.pc = "sleep"]]
          PROVE  TaskEnds' /\ NoneAudits
      <4>. DEFINE t == [Blank EXCEPT !.pc = "sleep"]
      <4>1. t.pc = "sleep" /\ t.status = "error" /\ {"status", "run"} \subseteq DOMAIN t
        BY DEF Blank
      <4>2. task' = [task EXCEPT !["loop"] = t]
        BY <3>1
      <4>. HIDE DEF t
      <4>. QED
        BY <4>1, <4>2, TaskRests
    <3>2. ASSUME NEW d \in task["loop"].due,
                 task' = [task EXCEPT !["loop"] =
                   [Blank EXCEPT !.pc = "claiming", !.due = task["loop"].due \ {d},
                                 !.auto = d.auto, !.rev = d.rev, !.moment = now]]
          PROVE  TaskEnds' /\ NoneAudits
      <4>. DEFINE t == [Blank EXCEPT !.pc = "claiming", !.due = task["loop"].due \ {d},
                                     !.auto = d.auto, !.rev = d.rev, !.moment = now]
      <4>1. t.pc = "claiming" /\ t.status = "error" /\ {"status", "run"} \subseteq DOMAIN t
        BY DEF Blank
      <4>2. task' = [task EXCEPT !["loop"] = t]
        BY <3>2
      <4>. HIDE DEF t
      <4>. QED
        BY <4>1, <4>2, TaskRests
    <3>. QED
      BY <2>3, <3>1, <3>2 DEF TickNext
  <2>. QED
    BY <2>1, <2>2, <2>3
<1>. QED
  BY <1>1, <1>2, RowsSame

LEMMA StartNowRows ==
  ASSUME RowsInv, ArbiterInv, NEW a \in Autos, StartNow(a) PROVE RowsInv' /\ RowsOnce
<1>. DEFINE t == [Blank EXCEPT !.pc = "claiming", !.auto = a, !.moment = now]
<1>1. t.pc = "claiming" /\ t.status = "error" /\ {"status", "run"} \subseteq DOMAIN t
  BY DEF Blank
<1>2. task' = [task EXCEPT !["manual"] = t] /\ UNCHANGED runs
  BY DEF StartNow, store
<1>. HIDE DEF t
<1>. QED
  BY <1>1, <1>2, TaskRests, RowsSame

LEMMA HandOffRows == ASSUME RowsInv, ArbiterInv, HandOff PROVE RowsInv' /\ RowsOnce
  BY TaskWalks, RowsSame DEF HandOff, store, Waiting

LEMMA CancelRows ==
  ASSUME RowsInv, ArbiterInv, UNCHANGED runs, NEW p \in Tasks, NEW c,
         task' = [task EXCEPT ![p].cancelled = c]
  PROVE  RowsInv' /\ RowsOnce
<1>1. \A q \in Tasks : /\ {"status", "run"} \subseteq DOMAIN task'[q]
                       /\ task'[q].pc = task[q].pc /\ task'[q].run = task[q].run
                       /\ task'[q].status = task[q].status /\ task'[q].turn = task[q].turn
  BY DEF ArbiterInv, Shape, RowsInv, TaskEnds
<1>. QED
  BY <1>1, TasksAlike, RowsSame

LEMMA RowIsNew ==
  ASSUME NEW a, NEW trigger, NEW slot, NEW status PROVE NewRow(Row(a, trigger, slot, status))
  BY DEF NewRow, Row

LEMMA ClaimEndsRows ==
  ASSUME RowsInv, ArbiterInv, NEW p \in Tasks, ClaimDeclines(p) \/ ClaimSkips(p)
  PROVE  RowsInv' /\ RowsOnce
<1>1. task[p].pc = "claiming" /\ TaskEnds' /\ NoneAudits
  BY TaskMovesOn DEF ClaimDeclines, ClaimSkips
<1>2. CASE ClaimDeclines(p)
  BY <1>1, <1>2, RowsSame DEF ClaimDeclines, store
<1>3. CASE ClaimSkips(p)
  <2>. DEFINE a == task[p].auto
  <2>1. PICK row : NewRow(row) /\ runs' = runs \o <<row>>
    <3>1. runs' = runs \o <<Row(a, "scheduled", autos[a].next, "error")>>
            \/ runs' = runs \o <<Row(a, "scheduled", autos[a].next, "missed")>>
      BY <1>3 DEF ClaimSkips, Refusal
    <3>. HIDE DEF a
    <3>. QED
      BY <3>1, RowIsNew
  <2>. DEFINE new == <<row>>
  <2>2. /\ Len(new) \in Nat /\ new = [i \in 1 .. Len(new) |-> new[i]]
        /\ \A i \in 1 .. Len(new) : NewRow(new[i])
    BY <2>1
  <2>. HIDE DEF new
  <2>3. runs' = runs \o new
    BY <2>1 DEF new
  <2>. QED
    BY <1>1, <2>2, <2>3, RowsAdded
<1>. QED
  BY <1>2, <1>3

LEMMA ClaimTakesRows ==
  ASSUME RowsInv, ArbiterInv, NEW p \in Tasks, ClaimTakes(p) PROVE RowsInv' /\ RowsOnce
<1>1. task[p].pc = "claiming"
  BY DEF ClaimTakes
<1>2. TaskEnds' /\ NoneAudits
  <2>. DEFINE a == task[p].auto
              t == [task[p] EXCEPT !.pc = "claimed", !.run = Len(runs'),
                                   !.rolling = autos[a].mode = "rolling",
                                   !.thread = autos[a].thread]
  <2>1. task' = [task EXCEPT ![p] = t]
    BY DEF ClaimTakes
  <2>2. t.pc = "claimed" /\ t.status = task[p].status /\ {"status", "run"} \subseteq DOMAIN t
    BY DEF ArbiterInv, Shape, RowsInv, TaskEnds
  <2>. HIDE DEF t
  <2>. QED
    BY <2>1, <2>2, TaskGoes DEF RowsInv, TaskEnds, Waiting
<1>. DEFINE a == task[p].auto
            trigger == IF p = "loop" THEN "scheduled" ELSE "manual"
            due == DueAt(a, task[p].moment)
            slot == IF due THEN autos[a].next ELSE 0
            last == Row(a, trigger, slot, "running")
            first == Row(a, trigger, autos[a].next, "error")
            before == IF due THEN Refusal(a, trigger) ELSE <<>>
            new == before \o <<last>>
<1>3. runs' = (runs \o before) \o <<last>>
  BY DEF ClaimTakes
<1>4. before = <<>> \/ before = <<first>>
  BY DEF Refusal
<1>5. NewRow(last) /\ NewRow(first)
  BY RowIsNew
<1>. HIDE DEF a, trigger, due, slot, last, first, before
<1>6. runs' = runs \o new
  <2>. DEFINE S == {runs[r] : r \in 1 .. Len(runs)} \cup {first, last}
  <2>1. before \in Seq(S) /\ <<last>> \in Seq(S)
    <3>1. first \in S /\ last \in S
      OBVIOUS
    <3>. HIDE DEF S
    <3>2. <<first>> \in Seq(S) /\ <<last>> \in Seq(S)
      BY <3>1
    <3>3. << >> \in Seq(S)
      BY EmptySeq
    <3>. QED
      BY <1>4, <3>2, <3>3
  <2>2. runs \in Seq(S)
    <3>1. runs \in [1 .. Len(runs) -> S] /\ Len(runs) \in Nat
      BY DEF RowsInv, RowsShape
    <3>. HIDE DEF S
    <3>. QED
      BY <3>1, SeqDef
  <2>. HIDE DEF S
  <2>. QED
    BY <1>3, <2>1, <2>2, ConcatAssociative
<1>7. /\ Len(new) \in Nat /\ new = [i \in 1 .. Len(new) |-> new[i]]
      /\ \A i \in 1 .. Len(new) : NewRow(new[i])
  <2>1. CASE before = <<>>
    <3>1. new = <<last>>
      BY <2>1
    <3>. HIDE DEF new
    <3>. QED
      BY <1>5, <3>1
  <2>2. CASE before = <<first>>
    <3>. DEFINE S == {first, last}
                f == <<first>>
                l == <<last>>
    <3>1. f \in Seq(S) /\ l \in Seq(S) /\ Len(f) = 1 /\ Len(l) = 1 /\ f[1] = first /\ l[1] = last
      OBVIOUS
    <3>. HIDE DEF S, f, l
    <3>2. new = f \o l
      BY <2>2 DEF f, l
    <3>. HIDE DEF new
    <3>3. new \in Seq(S) /\ Len(new) = 2 /\ new[1] = first /\ new[2] = last
      BY <3>1, <3>2, ConcatProperties
    <3>4. new = [i \in 1 .. Len(new) |-> new[i]]
      BY <3>3, LenProperties
    <3>. QED
      BY <1>5, <3>3, <3>4
  <2>. QED
    BY <1>4, <2>1, <2>2
<1>. HIDE DEF new
<1>. QED
  BY <1>1, <1>2, <1>6, <1>7, RowsAdded

\* The steps of a run up to its close leave the rows alone.
LEMMA WalkRows ==
  ASSUME RowsInv, ArbiterInv, NEW p \in Tasks, Begins(p) \/ AdoptThread(p) \/ GraceEnds(p)
  PROVE  RowsInv' /\ RowsOnce
<1>1. UNCHANGED runs
  BY DEF Begins, AdoptThread, GraceEnds, store
<1>2. Conclude(p, "error") \/ Conclude(p, "interrupted") \/ Go(p, "resolve") \/ Go(p, "record")
  BY DEF Begins, Refused, AdoptThread, GraceEnds
<1>3. TaskEnds' /\ NoneAudits
  BY <1>2, TaskConcludes, TaskWalks DEF Waiting
<1>. QED
  BY <1>1, <1>3, RowsSame

LEMMA ResolveRows ==
  ASSUME RowsInv, ArbiterInv, NEW p \in Tasks, ResolveThread(p) PROVE RowsInv' /\ RowsOnce
<1>1. CASE Go(p, "record")
  BY <1>1, TaskWalks, RowsSame DEF ResolveThread, Waiting
<1>2. ASSUME NEW pc \in {"adopt", "record"},
             task' = [task EXCEPT ![p].thread = task[p].run, ![p].pc = pc]
      PROVE  TaskEnds' /\ NoneAudits
  <2>. DEFINE t == [task[p] EXCEPT !.thread = task[p].run, !.pc = pc]
  <2>1. /\ task' = [task EXCEPT ![p] = t] /\ t.pc = pc /\ t.status = task[p].status
        /\ {"status", "run"} \subseteq DOMAIN t
    BY <1>2 DEF ArbiterInv, Shape, RowsInv, TaskEnds
  <2>. HIDE DEF t
  <2>. QED
    BY <2>1, TaskGoes DEF RowsInv, TaskEnds, Waiting
<1>. QED
  BY <1>1, <1>2, RowsSame DEF ResolveThread

LEMMA RecordThreadRows ==
  ASSUME RowsInv, ArbiterInv, NEW p \in Tasks, RecordThread(p) PROVE RowsInv' /\ RowsOnce
<1>1. TaskEnds' /\ NoneAudits
  BY TaskWalks DEF RecordThread, Waiting
<1>2. runs' = [runs EXCEPT ![task[p].run].thread = task[p].thread]
  BY DEF RecordThread
<1>. DEFINE own == task[p].run
            row == [runs[own] EXCEPT !.thread = task[p].thread]
<1>3. runs' = [runs EXCEPT ![own] = row]
  BY <1>2
<1>4. own \in DOMAIN runs => /\ DOMAIN row = DOMAIN runs[own] /\ row.events = runs[own].events
                            /\ row.status = runs[own].status
  BY DEF RowsInv, RowsShape
<1>. HIDE DEF own, row
<1>5. /\ DOMAIN runs' = DOMAIN runs /\ Len(runs') = Len(runs)
      /\ runs' = [n \in 1 .. Len(runs') |-> runs'[n]]
      /\ \A n \in DOMAIN runs : n # own => runs'[n] = runs[n]
      /\ own \in DOMAIN runs => runs'[own] = row
  BY <1>3, RowChanged
<1>6. \A r \in DOMAIN runs : Touched(r)
  BY <1>4, <1>5 DEF Touched
<1>. QED
  BY <1>1, <1>5, <1>6, RowsTouched

\* The turn and the wait for it.
LEMMA TurnRows ==
  ASSUME RowsInv, ArbiterInv, NEW p \in Tasks,
         Drive(p) \/ TurnEnds(p) \/ OwnerStops(p) \/ Deadline(p) \/ Collects(p)
  PROVE  RowsInv' /\ RowsOnce
<1>1. UNCHANGED runs
  BY DEF Drive, TurnEnds, OwnerStops, Deadline, Collects, store
<1>2. ASSUME NEW pc \in {"wait", "overdue"}, NEW turn \in Live,
             task' = [task EXCEPT ![p].pc = pc, ![p].turn = turn]
      PROVE  TaskEnds' /\ NoneAudits
  <2>. DEFINE t == [task[p] EXCEPT !.pc = pc, !.turn = turn]
  <2>1. /\ task' = [task EXCEPT ![p] = t] /\ t.pc = pc /\ t.status = task[p].status
        /\ t.turn = turn /\ {"status", "run"} \subseteq DOMAIN t
    BY <1>2 DEF ArbiterInv, Shape, RowsInv, TaskEnds
  <2>. HIDE DEF t
  <2>. QED
    BY <2>1, TaskGoes DEF RowsInv, TaskEnds, Waiting
<1>3. ASSUME NEW turn \in Live \cup {"completed", "failed", "cancelled"},
             task' = [task EXCEPT ![p].turn = turn]
      PROVE  TaskEnds' /\ NoneAudits
  <2>1. \A q \in Tasks : /\ {"status", "run"} \subseteq DOMAIN task'[q]
                         /\ task'[q].pc = task[q].pc /\ task'[q].run = task[q].run
                         /\ task'[q].status = task[q].status
                         /\ task'[q].turn \in {task[q].turn, turn}
    BY <1>3 DEF ArbiterInv, Shape, RowsInv, TaskEnds
  <2>. QED
    BY <2>1, TasksAlike
<1>4. CASE Drive(p)
  <2>1. CASE Refused(p)
    BY <1>1, <2>1, TaskConcludes, RowsSame DEF Refused
  <2>2. CASE task' = [task EXCEPT ![p].pc = "wait", ![p].turn = "live"]
    BY <1>1, <1>2, <2>2, RowsSame DEF Live
  <2>. QED
    BY <1>4, <2>1, <2>2 DEF Drive
<1>5. CASE TurnEnds(p)
  BY <1>1, <1>3, <1>5, RowsSame DEF TurnEnds
<1>6. CASE OwnerStops(p)
  BY <1>1, <1>3, <1>6, RowsSame DEF OwnerStops, Live
<1>7. CASE Deadline(p)
  <2>1. task' = [task EXCEPT ![p].pc = "overdue", ![p].turn = "stopping"]
    BY <1>7 DEF Deadline, ArbiterInv, Shape
  <2>. QED
    BY <1>1, <1>2, <2>1, RowsSame DEF Live
<1>8. CASE Collects(p)
  <2>1. PICK status \in {"timed_out", "ok", "interrupted", "error"} : Conclude(p, status)
    BY <1>8 DEF Collects, RowsInv, TaskEnds, Waiting
  <2>. QED
    BY <1>1, <2>1, TaskConcludes, RowsSame
<1>. QED
  BY <1>4, <1>5, <1>6, <1>7, <1>8

\* The task closes its row, if nobody has.
LEMMA FinalizeRows ==
  ASSUME RowsInv, ArbiterInv, NEW p \in Tasks, Finalize(p) PROVE RowsInv' /\ RowsOnce
<1>. DEFINE r == task[p].run
<1>1. CASE runs[r].status # "running"
  BY <1>1, TaskWalks, RowsSame DEF Finalize, Waiting
<1>2. CASE runs[r].status = "running"
  <2>1. runs' = [runs EXCEPT ![r].status = task[p].status] /\ Go(p, "audit") /\ task[p].pc = "finish"
    BY <1>2 DEF Finalize, Closed
  <2>2. /\ task'[p].pc = "audit" /\ task'[p].run = r /\ task'[p].status = task[p].status
        /\ {"status", "run"} \subseteq DOMAIN task'[p]
        /\ \A q \in Tasks \ {p} : task'[q] = task[q]
    BY <2>1 DEF Go, ArbiterInv, Shape, RowsInv, TaskEnds
  <2>3. \A q \in Tasks \ {p} : task[q].pc # "audit"
    BY <2>1 DEF ArbiterInv, BusyHoldsArbiter, Busy
  <2>4. /\ DOMAIN runs' = DOMAIN runs /\ Len(runs') = Len(runs)
        /\ runs' = [n \in 1 .. Len(runs') |-> runs'[n]]
        /\ \A n \in DOMAIN runs : /\ DOMAIN runs'[n] = DOMAIN runs[n]
                                  /\ runs'[n].events = runs[n].events
                                  /\ n # r => runs'[n] = runs[n]
        /\ r \in DOMAIN runs => runs'[r].status = task[p].status
    <3>. DEFINE row == [runs[r] EXCEPT !.status = task[p].status]
    <3>1. r \in DOMAIN runs => /\ DOMAIN row = DOMAIN runs[r] /\ row.events = runs[r].events
                              /\ row.status = task[p].status
      BY DEF RowsInv, RowsShape
    <3>2. runs' = [runs EXCEPT ![r] = row]
      BY <2>1
    <3>. HIDE DEF row
    <3>. QED
      BY <3>1, <3>2, RowChanged
  <2>5. TaskEnds'
    BY <2>2 DEF RowsInv, TaskEnds, Waiting
  <2>6. task[p].status # "running"
    BY DEF RowsInv, TaskEnds
  <2>7. RowsShape' /\ OneEvent'
    BY <1>2, <2>4, <2>6 DEF RowsInv, RowsShape, OneEvent
  <2>8. AuditIsFirst'
    BY <1>2, <2>2, <2>3, <2>4, <2>6 DEF RowsInv, AuditIsFirst, OneEvent
  <2>9. RowsOnce
    BY <1>2, <2>4 DEF RowsInv, RowsOnce, OneEvent, Terminal
  <2>. QED
    BY <2>5, <2>7, <2>8, <2>9 DEF RowsInv
<1>. QED
  BY <1>1, <1>2

\* ... and records the event of that close.
LEMMA RecordEventRows ==
  ASSUME RowsInv, ArbiterInv, NEW p \in Tasks, RecordEvent(p) PROVE RowsInv' /\ RowsOnce
<1>. DEFINE r == task[p].run
<1>1. task[p].pc = "audit" /\ runs' = [runs EXCEPT ![r].events = @ + 1] /\ Go(p, "closed")
  BY DEF RecordEvent
<1>2. TaskEnds' /\ NoneAudits /\ task'[p].pc = "closed"
  <2>1. TaskEnds' /\ NoneAudits
    BY <1>1, TaskWalks DEF Waiting
  <2>2. task'[p].pc = "closed"
    BY <1>1 DEF Go, ArbiterInv, Shape
  <2>. QED
    BY <2>1, <2>2
<1>3. \A q \in Tasks : task'[q].pc # "audit"
  BY <1>1, <1>2 DEF NoneAudits, ArbiterInv, BusyHoldsArbiter, Busy
<1>4. /\ DOMAIN runs' = DOMAIN runs /\ Len(runs') = Len(runs)
      /\ runs' = [n \in 1 .. Len(runs') |-> runs'[n]]
      /\ \A n \in DOMAIN runs : /\ DOMAIN runs'[n] = DOMAIN runs[n]
                                /\ runs'[n].status = runs[n].status
                                /\ n # r => runs'[n] = runs[n]
      /\ r \in DOMAIN runs => runs'[r].events = runs[r].events + 1
  <2>. DEFINE row == [runs[r] EXCEPT !.events = @ + 1]
  <2>1. r \in DOMAIN runs => /\ DOMAIN row = DOMAIN runs[r] /\ row.status = runs[r].status
                            /\ row.events = runs[r].events + 1
    BY DEF RowsInv, RowsShape
  <2>2. runs' = [runs EXCEPT ![r] = row]
    BY <1>1
  <2>. HIDE DEF row
  <2>. QED
    BY <2>1, <2>2, RowChanged
<1>5. r \in DOMAIN runs => runs[r].status # "running" /\ runs[r].events = 0
  BY <1>1 DEF RowsInv, AuditIsFirst
<1>6. RowsShape' /\ OneEvent'
  BY <1>4, <1>5 DEF RowsInv, RowsShape, OneEvent
<1>7. RowsOnce
  BY <1>4, <1>5 DEF RowsInv, RowsOnce, OneEvent
<1>. QED
  BY <1>2, <1>3, <1>6, <1>7 DEF RowsInv, AuditIsFirst

\* Rows that are deleted are gone; the others stay.
LEMMA GoneRows ==
  ASSUME RowsInv, TaskEnds', NoneAudits, NEW rs, Gone(rs) PROVE RowsInv' /\ RowsOnce
<1>1. /\ DOMAIN runs' = DOMAIN runs /\ runs' = [r \in DOMAIN runs |-> runs'[r]]
      /\ \A r \in DOMAIN runs :
            runs'[r] = IF r \in rs THEN [runs[r] EXCEPT !.status = "gone"] ELSE runs[r]
  BY DEF Gone
<1>2. ASSUME NEW r \in DOMAIN runs PROVE Touched(r)
  <2>1. CASE r \in rs
    <3>. DEFINE row == [runs[r] EXCEPT !.status = "gone"]
    <3>1. DOMAIN row = DOMAIN runs[r] /\ row.events = runs[r].events /\ row.status = "gone"
      BY DEF RowsInv, RowsShape
    <3>2. runs'[r] = row
      BY <1>1, <2>1
    <3>. HIDE DEF row
    <3>. QED
      BY <3>1, <3>2 DEF Touched
  <2>2. CASE r \notin rs
    BY <1>1, <2>2 DEF Touched
  <2>. QED
    BY <2>1, <2>2
<1>. QED
  BY <1>1, <1>2, SameRows, RowsTouched

LEMMA PruneRows ==
  ASSUME RowsInv, ArbiterInv, NEW p \in Tasks,
         PruneReads(p) \/ PruneTakesMarkers(p) \/ PruneCommits(p) \/ PruneReleases(p)
  PROVE  RowsInv' /\ RowsOnce
<1>1. CASE PruneReads(p)
  <2>. DEFINE a == task[p].auto
              t == [task[p] EXCEPT !.pc = "prune", !.drop = Excess(a)]
  <2>1. UNCHANGED runs /\ (MoveOn(p) \/ task' = [task EXCEPT ![p] = t])
    BY <1>1 DEF PruneReads, store
  <2>2. t.pc = "prune" /\ t.status = task[p].status /\ {"status", "run"} \subseteq DOMAIN t
    BY DEF ArbiterInv, Shape, RowsInv, TaskEnds
  <2>3. task[p].status # "running"
    BY DEF RowsInv, TaskEnds
  <2>. HIDE DEF t
  <2>4. CASE MoveOn(p)
    BY <2>1, <2>4, TaskMovesOn, RowsSame
  <2>5. CASE task' = [task EXCEPT ![p] = t]
    <3>1. TaskEnds' /\ NoneAudits
      BY <2>2, <2>3, <2>5, TaskGoes DEF Waiting
    <3>. QED
      BY <2>1, <3>1, RowsSame
  <2>. QED
    BY <2>1, <2>4, <2>5
<1>2. CASE PruneTakesMarkers(p)
  <2>0. PICK drop, marks :
           task' = [task EXCEPT ![p].pc = "commit", ![p].drop = drop, ![p].marks = marks]
    BY <1>2 DEF PruneTakesMarkers
  <2>. DEFINE t == [task[p] EXCEPT !.pc = "commit", !.drop = drop, !.marks = marks]
  <2>1. UNCHANGED runs /\ task' = [task EXCEPT ![p] = t]
    BY <1>2, <2>0 DEF PruneTakesMarkers, store
  <2>2. t.pc = "commit" /\ t.status = task[p].status /\ {"status", "run"} \subseteq DOMAIN t
    BY DEF ArbiterInv, Shape, RowsInv, TaskEnds
  <2>3. task[p].status # "running"
    BY DEF RowsInv, TaskEnds
  <2>. HIDE DEF t
  <2>4. TaskEnds' /\ NoneAudits
    BY <2>1, <2>2, <2>3, TaskGoes DEF Waiting
  <2>. QED
    BY <2>1, <2>4, RowsSame
<1>3. CASE PruneCommits(p)
  <2>1. TaskEnds' /\ NoneAudits
    BY <1>3, TaskWalks DEF PruneCommits, Waiting
  <2>. QED
    BY <1>3, <2>1, GoneRows DEF PruneCommits
<1>4. CASE PruneReleases(p)
  BY <1>4, TaskMovesOn, RowsSame DEF PruneReleases, store
<1>. QED
  BY <1>1, <1>2, <1>3, <1>4

LEMMA CancelLandsRows ==
  ASSUME RowsInv, ArbiterInv, NEW p \in Tasks, CancelLands(p) PROVE RowsInv' /\ RowsOnce
<1>1. UNCHANGED runs
  BY DEF CancelLands, store
<1>2. CASE End(p)
  BY <1>1, <1>2, TaskUnwinds, RowsSame
<1>3. CASE Conclude(p, "interrupted")
  BY <1>1, <1>3, TaskConcludes, RowsSame
<1>4. ASSUME NEW turn, task' = [task EXCEPT ![p].pc = "grace", ![p].turn = turn]
      PROVE  RowsInv' /\ RowsOnce
  <2>. DEFINE t == [task[p] EXCEPT !.pc = "grace", !.turn = turn]
  <2>1. task' = [task EXCEPT ![p] = t]
    BY <1>4
  <2>2. t.pc = "grace" /\ t.status = task[p].status /\ {"status", "run"} \subseteq DOMAIN t
    BY DEF ArbiterInv, Shape, RowsInv, TaskEnds
  <2>3. task[p].status # "running"
    BY DEF RowsInv, TaskEnds
  <2>. HIDE DEF t
  <2>4. TaskEnds' /\ NoneAudits
    BY <2>1, <2>2, <2>3, TaskGoes DEF Waiting
  <2>. QED
    BY <1>1, <2>4, RowsSame
<1>. QED
  BY <1>2, <1>3, <1>4 DEF CancelLands

\* A sweep closes a row with its event, if nobody has closed it.
LEMMA SweepRows ==
  ASSUME RowsInv, NEW r \in todo, SweepRow(r) PROVE RowsInv' /\ RowsOnce
<1>. DEFINE row == IF runs[r].status = "running"
                   THEN [runs[r] EXCEPT !.status = "interrupted",
                                           !.events = runs[r].events + 1]
                   ELSE runs[r]
<1>1. runs' = [runs EXCEPT ![r] = row] /\ UNCHANGED task
  BY DEF SweepRow
<1>2. CASE runs[r].status # "running"
  <2>1. \A n \in DOMAIN runs : runs'[n] = runs[n]
    BY <1>1, <1>2
  <2>. HIDE DEF row
  <2>2. \A n \in DOMAIN runs : Touched(n)
    BY <2>1 DEF Touched
  <2>. QED
    BY <1>1, <2>2, RowChanged, TaskStill, RowsTouched
<1>3. CASE runs[r].status = "running"
  <2>1. r \in DOMAIN runs => /\ DOMAIN row = DOMAIN runs[r] /\ row.status = "interrupted"
                            /\ row.events = runs[r].events + 1
    BY <1>3 DEF RowsInv, RowsShape
  <2>. HIDE DEF row
  <2>2. /\ DOMAIN runs' = DOMAIN runs /\ Len(runs') = Len(runs)
        /\ runs' = [n \in 1 .. Len(runs') |-> runs'[n]]
        /\ \A n \in DOMAIN runs : n # r => runs'[n] = runs[n]
        /\ r \in DOMAIN runs => runs'[r] = row
    BY <1>1, RowChanged
  <2>3. r \in DOMAIN runs => runs[r].events = 0
    BY <1>3 DEF RowsInv, OneEvent
  <2>4. RowsShape' /\ OneEvent'
    BY <2>1, <2>2, <2>3 DEF RowsInv, RowsShape, OneEvent
  <2>5. TaskEnds'
    BY <1>1, TaskStill
  <2>6. AuditIsFirst'
    BY <1>1, <1>3, <2>2 DEF RowsInv, AuditIsFirst
  <2>7. RowsOnce
    BY <1>3, <2>1, <2>2, <2>3 DEF RowsInv, RowsOnce, OneEvent, Terminal
  <2>. QED
    BY <2>4, <2>5, <2>6, <2>7 DEF RowsInv
<1>. QED
  BY <1>2, <1>3

LEMMA OpCommitsRows == ASSUME RowsInv, OpCommits PROVE RowsInv' /\ RowsOnce
<1>1. UNCHANGED task /\ (UNCHANGED runs \/ Gone(RunsOf(op.auto)))
  BY DEF OpCommits
<1>. QED
  BY <1>1, TaskStill, RowsSame, GoneRows

\* The steps that touch neither a row nor a task.
Aside ==
    \/ \E a \in Autos :
          \/ DeleteStarts(a) \/ \E enabled \in BOOLEAN : SetEnabled(a, enabled)
          \/ \E draft \in Drafts : Create(a, draft) \/ UpdateStarts(a, draft)
    \/ OpReleases \/ \E t \in DOMAIN runs : ChatReserves(t)
    \/ ChatRevalidates \/ ChatEnds \/ ClockTicks \/ BackstopSweep \/ Boot

LEMMA AsideRows == ASSUME RowsInv, Aside \/ UNCHANGED vars PROVE RowsInv' /\ RowsOnce
<1>1. UNCHANGED <<task, runs>>
  BY DEF Aside, DeleteStarts, SetEnabled, Create, UpdateStarts, OpReleases, ChatReserves,
         ChatRevalidates, ChatEnds, ClockTicks, BackstopSweep, Boot, store, vars
<1>. QED
  BY <1>1, TaskStill, RowsSame

\* The process goes down, and comes back.
LEMMA ShutdownRows ==
  ASSUME RowsInv, ArbiterInv, ShutdownStarts PROVE RowsInv' /\ RowsOnce
<1>1. UNCHANGED runs
  BY DEF ShutdownStarts, store
<1>2. ASSUME NEW p \in Tasks
      PROVE  /\ {"status", "run"} \subseteq DOMAIN task'[p]
             /\ task'[p].pc = task[p].pc /\ task'[p].run = task[p].run
             /\ task'[p].status = task[p].status
             /\ task'[p].turn \in {task[p].turn, "stopping"}
  BY DEF ShutdownStarts, ArbiterInv, Shape, RowsInv, TaskEnds
<1>. QED
  BY <1>1, <1>2, TasksAlike, RowsSame DEF Live

LEMMA LeavesRows ==
  ASSUME RowsInv, ArbiterInv, LoopCancelled \/ ManualCancelled PROVE RowsInv' /\ RowsOnce
<1>1. /\ UNCHANGED runs
      /\ \E p \in Tasks, c \in BOOLEAN : task' = [task EXCEPT ![p].cancelled = c]
  BY DEF LoopCancelled, ManualCancelled, Cancelled, store
<1>. QED
  BY <1>1, CancelRows

LEMMA ProcessEndsRows ==
  ASSUME RowsInv, ArbiterInv, DatabaseCloses \/ Crash PROVE RowsInv' /\ RowsOnce
<1>1. UNCHANGED runs /\ task' = [p \in Tasks |-> Blank]
  BY DEF DatabaseCloses, Crash, ProcessEnds, store
<1>2. Blank.pc = "off" /\ Blank.status = "error" /\ {"status", "run"} \subseteq DOMAIN Blank
  BY DEF Blank
<1>3. TaskEnds' /\ NoneAudits
  BY <1>1, <1>2 DEF TaskEnds, NoneAudits, Waiting
<1>. QED
  BY <1>1, <1>3, RowsSame

LEMMA LoopStartsRows == ASSUME RowsInv, ArbiterInv, LoopStarts PROVE RowsInv' /\ RowsOnce
  BY TaskWalks, RowsSame DEF LoopStarts, store, Waiting

LEMMA TaskStepsRows ==
  ASSUME RowsInv, ArbiterInv, NEW p \in Tasks, TaskSteps(p) PROVE RowsInv' /\ RowsOnce
<1>1. CASE ClaimDeclines(p) \/ ClaimSkips(p) \/ ClaimTakes(p)
  BY <1>1, ClaimEndsRows, ClaimTakesRows
<1>2. CASE Begins(p) \/ ResolveThread(p) \/ AdoptThread(p) \/ RecordThread(p) \/ GraceEnds(p)
  BY <1>2, WalkRows, ResolveRows, RecordThreadRows
<1>3. CASE Drive(p) \/ Collects(p)
  BY <1>3, TurnRows
<1>4. CASE Finalize(p) \/ RecordEvent(p)
  BY <1>4, FinalizeRows, RecordEventRows
<1>5. CASE PruneReads(p) \/ PruneTakesMarkers(p) \/ PruneCommits(p) \/ PruneReleases(p)
  BY <1>5, PruneRows
<1>6. CASE CancelLands(p)
  BY <1>6, CancelLandsRows
<1>. QED
  BY <1>1, <1>2, <1>3, <1>4, <1>5, <1>6 DEF TaskSteps

\* Every step keeps the invariant of the rows, and closes none a second time.
THEOREM RowsInductive ==
  ASSUME RowsInv, ArbiterInv, [Next]_vars PROVE RowsInv' /\ RowsOnce
<1>1. CASE TickStarts \/ TickScans \/ TickNext \/ HandOff
  BY <1>1, TickRows, HandOffRows
<1>2. CASE RequestCancelled
  <2>1. UNCHANGED runs /\ task' = [task EXCEPT !["manual"].cancelled = TRUE]
    BY <1>2 DEF RequestCancelled, store
  <2>. QED
    BY <2>1, CancelRows
<1>3. ASSUME NEW p \in Tasks, TaskSteps(p) \/ TurnEnds(p) \/ OwnerStops(p) \/ Deadline(p)
      PROVE  RowsInv' /\ RowsOnce
  BY <1>3, TaskStepsRows, TurnRows
<1>4. ASSUME NEW a \in Autos, StartNow(a) PROVE RowsInv' /\ RowsOnce
  BY <1>4, StartNowRows
<1>5. CASE Aside \/ UNCHANGED vars
  BY <1>5, AsideRows
<1>6. CASE OpCommits \/ \E r \in todo : SweepRow(r)
  BY <1>6, OpCommitsRows, SweepRows
<1>7. CASE ShutdownStarts \/ LoopCancelled \/ ManualCancelled \/ DatabaseCloses \/ Crash \/ LoopStarts
  BY <1>7, ShutdownRows, LeavesRows, ProcessEndsRows, LoopStartsRows
<1>. QED
  BY <1>1, <1>2, <1>3, <1>4, <1>5, <1>6, <1>7 DEF Next, OwnerSteps, Aside

\* In every run of the automations a terminal status, once written, is never
\* replaced, and no run has a second terminal event: the finalizers of the tasks
\* and the sweeps of the shutdowns and the boots share the rows safely.
THEOREM ClosedOnceAlways == Spec => ClosedOnce
<1>1. Init => RowsInv /\ ArbiterInv
  BY InitRows, InitArbiter
<1>2. RowsInv /\ ArbiterInv /\ [Next]_vars => RowsInv' /\ ArbiterInv' /\ [RowsOnce]_vars
  BY RowsInductive, ArbiterInductive
<1>. QED
  BY <1>1, <1>2, PTL DEF Spec, ClosedOnce, RowsOnce
==============================================================================
