------------------------ MODULE SteeredThreadProofs ------------------------
(***************************************************************************)
(* What holds of one conversation for every bound and every set of         *)
(* entries: one turn per thread, and the promises made to a steer.         *)
(*                                                                         *)
(* Part one.  The registry stays well typed, and the marker names a handle *)
(* exactly while code stands behind that handle (MarkerExact).             *)
(*                                                                         *)
(* MarkerExact is not inductive by itself: a reservation or a chain puts   *)
(* code behind a freshly minted handle, so the handles not minted yet must *)
(* be known to be unused.  RegistryInv adds that, and the typing.          *)
(*                                                                         *)
(* Part two.  A steer takes effect once or is taken back (EachSteerOnce),  *)
(* in the order of the 202s (FirstInFirstOut), and what was taken back     *)
(* stays back (StaysTakenBack).                                            *)
(*                                                                         *)
(* None of them is inductive.  SteerInv adds where the entries are: what a *)
(* turn may hold at each of its points (HandInv), that nobody holds what   *)
(* was taken back (WhereInv), that queue and hands stand in the order of   *)
(* acceptance (LineInv), that what is queued or about to be written may    *)
(* follow what has taken effect (ReadyInv), that what leaves the queue is  *)
(* booked (BooksInv), and that a completed turn leaves no queue (IdleInv). *)
(* The actions of a turn are first reduced to thirteen moves, by what they *)
(* do to the queue, to what took effect and to what the turn has in hand.  *)
(***************************************************************************)
EXTENDS SteeredThread, FiniteSetTheorems, SequenceTheorems, TLAPS

HandleSet == [kind : Kinds, pc : LivePoints \cup {"unused", "over"},
              terminal : Statuses, cancelling : BOOLEAN]

\* No handle runs before it is minted.
MintedInOrder == \A t \in TurnIds : t >= nextTurn => turn[t].pc = "unused"

RegistryInv == RegistryTypeOK /\ MintedInOrder /\ MarkerExact

-----------------------------------------------------------------------------
\* What the ways of touching the registry do to the invariant.

\* Handles keep their control point, or move from one live point to another.
LEMMA MoveKeeps ==
    ASSUME RegistryInv, turn' \in [TurnIds -> HandleSet],
           \A t \in TurnIds :
               turn'[t].pc = turn[t].pc \/ {turn[t].pc, turn'[t].pc} \subseteq LivePoints,
           UNCHANGED <<marker, nextTurn, completed>>
    PROVE  RegistryInv'
<1>1. RegistryTypeOK'
  BY DEF RegistryInv, RegistryTypeOK, HandleSet
<1>2. \A t \in TurnIds : Live(t)' <=> Live(t)
  BY DEF Live
<1>3. MarkerExact'
  BY <1>2 DEF RegistryInv, MarkerExact
<1>4. "unused" \notin LivePoints
  BY DEF LivePoints, SyncPoints, TaskPoints, BodyPoints, DrainPoints
<1>5. MintedInOrder'
  BY <1>4 DEF RegistryInv, MintedInOrder
<1>. QED
  BY <1>1, <1>3, <1>5 DEF RegistryInv

\* One live handle's fields change, at a live point.
LEMMA MarkKeeps ==
    ASSUME RegistryInv, NEW t \in TurnIds, Live(t),
           NEW p \in LivePoints, NEW s \in Statuses, NEW c \in BOOLEAN,
           turn' = Mark(t, p, s, c), UNCHANGED <<marker, nextTurn, completed>>
    PROVE  RegistryInv'
<1>1. turn \in [TurnIds -> HandleSet]
  BY DEF RegistryInv, RegistryTypeOK, HandleSet
<1>2. [kind |-> turn[t].kind, pc |-> p, terminal |-> s, cancelling |-> c] \in HandleSet
  BY <1>1 DEF HandleSet
<1>3. turn' \in [TurnIds -> HandleSet]
  BY <1>1, <1>2 DEF Mark
<1>4. \A u \in TurnIds : turn'[u].pc = turn[u].pc \/ {turn[u].pc, turn'[u].pc} \subseteq LivePoints
  BY <1>1 DEF Mark, Live
<1>. QED
  BY <1>3, <1>4, MoveKeeps

\* One live handle moves on, its outcome unchanged.
LEMMA GotoKeeps ==
    ASSUME RegistryInv, NEW t \in TurnIds, Live(t), NEW p \in LivePoints, Goto(t, p),
           UNCHANGED <<marker, nextTurn, completed>>
    PROVE  RegistryInv'
<1>1. turn[t] \in HandleSet
  BY DEF RegistryInv, RegistryTypeOK, HandleSet
<1>2. turn[t].terminal \in Statuses /\ turn[t].cancelling \in BOOLEAN
  BY <1>1 DEF HandleSet
<1>. QED
  BY <1>2, MarkKeeps DEF Goto

\* The one cancel, of a task that runs; a handle that is none is left alone.
LEMMA LatchKeeps ==
    ASSUME RegistryInv, NEW t, turn' = Latched(t),
           UNCHANGED <<marker, nextTurn, completed>>
    PROVE  RegistryInv'
<1>1. turn \in [TurnIds -> HandleSet]
  BY DEF RegistryInv, RegistryTypeOK, HandleSet
<1>2. CASE turn' = turn
  BY <1>1, <1>2, MoveKeeps
<1>3. CASE turn' # turn /\ t \in TurnIds
  <2>1. At(t, TaskPoints) /\ turn' = Mark(t, turn[t].pc, turn[t].terminal, TRUE)
    BY <1>3 DEF Latched
  <2>2. turn[t].pc \in LivePoints /\ Live(t)
    BY <2>1 DEF At, Live, LivePoints
  <2>3. turn[t].terminal \in Statuses
    BY <1>1, <1>3 DEF HandleSet
  <2>. QED
    BY <1>3, <2>1, <2>2, <2>3, MarkKeeps
<1>4. t \notin TurnIds => turn' = turn
  BY <1>1 DEF Latched, Mark
<1>. QED
  BY <1>2, <1>3, <1>4

\* reserve puts the next handle behind a marker nobody holds.
LEMMA ReserveKeeps ==
    ASSUME RegistryInv, NEW k \in Kinds, NEW p \in LivePoints, NEW w, Reserve(k, p, w)
    PROVE  RegistryInv'
<1>1. turn \in [TurnIds -> HandleSet] /\ nextTurn \in TurnIds /\ nextTurn \in Nat
  BY DEF RegistryInv, RegistryTypeOK, HandleSet, Reserve, TurnIds
<1>2. Handle(k, p) \in HandleSet /\ Handle(k, p).pc = p
  BY DEF Handle, HandleSet, Statuses
<1>3. turn' = [turn EXCEPT ![nextTurn] = Handle(k, p)] /\ nextTurn' = nextTurn + 1
      /\ marker = NoTurn /\ marker' = nextTurn /\ completed' = completed
  BY DEF Reserve
<1>4. RegistryTypeOK'
  BY <1>1, <1>2, <1>3, BoundsAssumption DEF RegistryInv, RegistryTypeOK, HandleSet, TurnIds
<1>5. MintedInOrder'
  BY <1>1, <1>2, <1>3 DEF RegistryInv, MintedInOrder, TurnIds
<1>6. \A u \in TurnIds : ~Live(u) /\ u # NoTurn
  BY <1>3 DEF RegistryInv, MarkerExact, TurnIds, NoTurn
<1>7. MarkerExact'
  BY <1>1, <1>2, <1>3, <1>6 DEF MarkerExact, Live
<1>. QED
  BY <1>4, <1>5, <1>7 DEF RegistryInv

\* A live handle ends and frees the marker it holds.
LEMMA ReleaseKeeps ==
    ASSUME RegistryInv, NEW t \in TurnIds, Live(t),
           turn' = [turn EXCEPT ![t] = Handle("chat", "over")],
           marker' = Released(t), nextTurn' = nextTurn, completed' \in BOOLEAN
    PROVE  RegistryInv'
<1>1. turn \in [TurnIds -> HandleSet] /\ nextTurn \in Nat
  BY DEF RegistryInv, RegistryTypeOK, HandleSet
<1>2. Handle("chat", "over") \in HandleSet /\ Handle("chat", "over").pc = "over"
  BY DEF Handle, HandleSet, Statuses, Kinds
<1>3. marker = t /\ marker' = NoTurn
  BY DEF RegistryInv, MarkerExact, Released
<1>4. RegistryTypeOK'
  BY <1>1, <1>2, <1>3 DEF RegistryInv, RegistryTypeOK, HandleSet
<1>5. "over" \notin LivePoints /\ "unused" \notin LivePoints
  BY DEF LivePoints, SyncPoints, TaskPoints, BodyPoints, DrainPoints
<1>6. MintedInOrder'
  BY <1>1, <1>2, <1>5 DEF RegistryInv, MintedInOrder, Live
<1>7. MarkerExact'
  BY <1>1, <1>2, <1>3, <1>5 DEF RegistryInv, MarkerExact, Live, TurnIds, NoTurn
<1>. QED
  BY <1>4, <1>6, <1>7 DEF RegistryInv

\* A handle whose work never started, or broke off, lets go of the marker.
LEMMA AbandonKeeps ==
    ASSUME RegistryInv, NEW t \in TurnIds, Live(t), NEW s, Abandon(t, s)
    PROVE  RegistryInv'
  BY ReleaseKeeps DEF Abandon

\* The end of a turn hands the marker to a body in one step, or frees it.
LEMMA EndTurnKeeps ==
    ASSUME RegistryInv, NEW t \in TurnIds, Live(t), NEW s, EndTurn(t, s)
    PROVE  RegistryInv'
<1>1. CASE MaySpawnDrainB(s, queue) /\ Released(t) = NoTurn
  <2>1. turn \in [TurnIds -> HandleSet] /\ nextTurn \in TurnIds /\ nextTurn \in Nat
    BY <1>1 DEF RegistryInv, RegistryTypeOK, HandleSet, EndTurn, TurnIds
  <2>2. "over" \notin LivePoints /\ "unused" \notin LivePoints /\ "body_new" \in LivePoints
    BY DEF LivePoints, SyncPoints, TaskPoints, BodyPoints, DrainPoints
  <2>3. /\ Handle("chat", "over") \in HandleSet /\ Handle("chat", "over").pc = "over"
        /\ Handle("chat", "body_new") \in HandleSet /\ Handle("chat", "body_new").pc = "body_new"
    BY <2>2 DEF Handle, HandleSet, Statuses, Kinds
  <2>4. /\ turn' = [[turn EXCEPT ![t] = Handle("chat", "over")]
                      EXCEPT ![nextTurn] = Handle("chat", "body_new")]
        /\ nextTurn' = nextTurn + 1 /\ marker' = nextTurn /\ completed' = completed
    BY <1>1 DEF EndTurn
  <2>5. nextTurn # t /\ turn[nextTurn].pc = "unused"
    BY <2>1, <2>2 DEF RegistryInv, MintedInOrder, Live
  <2>6. /\ turn' \in [TurnIds -> HandleSet]
        /\ turn'[t].pc = "over" /\ turn'[nextTurn].pc = "body_new"
        /\ \A u \in TurnIds \ {t, nextTurn} : turn'[u] = turn[u]
    BY <2>1, <2>3, <2>4, <2>5
  <2>7. RegistryTypeOK'
    BY <2>1, <2>4, <2>6, BoundsAssumption DEF RegistryInv, RegistryTypeOK, HandleSet, TurnIds
  <2>8. t < nextTurn
    BY <2>1, <2>2 DEF RegistryInv, MintedInOrder, Live, TurnIds
  <2>9. MintedInOrder'
    BY <2>1, <2>4, <2>6, <2>8 DEF RegistryInv, MintedInOrder, TurnIds
  <2>10. \A u \in TurnIds : Live(u) <=> u = t
    BY DEF RegistryInv, MarkerExact
  <2>11. MarkerExact'
    BY <2>1, <2>2, <2>4, <2>5, <2>6, <2>10 DEF MarkerExact, Live
  <2>. QED
    BY <2>7, <2>9, <2>11 DEF RegistryInv
<1>2. CASE ~(MaySpawnDrainB(s, queue) /\ Released(t) = NoTurn)
  BY <1>2, ReleaseKeeps DEF EndTurn
<1>. QED
  BY <1>1, <1>2

\* Steps that leave the registry alone.
LEMMA StandingStillKeeps ==
    ASSUME RegistryInv, UNCHANGED registry
    PROVE  RegistryInv'
<1>1. turn \in [TurnIds -> HandleSet]
  BY DEF RegistryInv, RegistryTypeOK, HandleSet
<1>. QED
  BY <1>1, MoveKeeps DEF registry
-----------------------------------------------------------------------------
\* The points the steps name are all live; the two others are not.
LEMMA LivePointsNamed ==
    /\ {"handler", "done", "spawned", "prelude", "top", "drain", "claim", "txn", "exec", "model",
        "cancel_close", "error_close", "sync_start", "sync_run", "body_new", "body", "body_exec"}
           = LivePoints
    /\ \A t \in TurnIds, points \in SUBSET LivePoints : At(t, points) => Live(t)
  BY DEF LivePoints, SyncPoints, TaskPoints, BodyPoints, DrainPoints, At, Live

\* The chat handler between its reservation and its answer.
LEMMA HandlerKeeps ==
    ASSUME RegistryInv, NEW t \in TurnIds, HandlerStep(t)
    PROVE  RegistryInv'
<1>1. CASE HandOff(t)
  BY <1>1, GotoKeeps, LivePointsNamed DEF HandOff
<1>2. CASE Refuse(t)
  BY <1>2, AbandonKeeps, LivePointsNamed DEF Refuse
<1>3. CASE SyncExec(t)
  BY <1>3, GotoKeeps, LivePointsNamed DEF SyncExec
<1>4. CASE SyncEnd(t)
  <2>1. completed' \in BOOLEAN
    BY <1>4 DEF SyncEnd, RegistryInv, RegistryTypeOK
  <2>. QED
    BY <1>4, <2>1, ReleaseKeeps, LivePointsNamed DEF SyncEnd
<1>. QED
  BY <1>1, <1>2, <1>3, <1>4 DEF HandlerStep

\* The turn task: prelude, drain, model iterations, closing.
LEMMA DrainKeeps ==
    ASSUME RegistryInv, NEW t \in TurnIds, DrainStep(t)
    PROVE  RegistryInv'
<1>. DEFINE simple == Start(t) \/ Persist(t) \/ Peek(t) \/ ClaimFiles(t) \/ OpenTransaction(t)
                      \/ CommitTransaction(t) \/ ExecDone(t) \/ CallModel(t)
                      \/ NextIteration(t) \/ Raise(t)
<1>1. CASE simple
  <2>1. /\ Live(t)
        /\ \E p \in LivePoints : Goto(t, p)
        /\ UNCHANGED <<marker, nextTurn, completed>>
    BY <1>1, LivePointsNamed DEF Start, Persist, Peek, ClaimFiles, OpenTransaction,
       CommitTransaction, ExecDone, CallModel, NextIteration, Raise, Runs
  <2>. QED
    BY <2>1, GotoKeeps
<1>2. CASE RunExec(t)
  BY <1>2, GotoKeeps, LivePointsNamed DEF RunExec, Runs, DrainExec
<1>3. CASE Conclude(t)
  <2>1. {"completed", "suspended", "capped", "error"} \subseteq Statuses /\ "done" \in LivePoints
    BY LivePointsNamed DEF Statuses
  <2>2. turn[t].cancelling \in BOOLEAN
    BY DEF RegistryInv, RegistryTypeOK
  <2>. QED
    BY <1>3, <2>1, <2>2, MarkKeeps, LivePointsNamed DEF Conclude, Runs
<1>4. CASE CancelLands(t)
  BY <1>4, GotoKeeps, LivePointsNamed DEF CancelLands
<1>5. CASE Close(t)
  <2>1. {"cancelled", "error"} \subseteq Statuses /\ "done" \in LivePoints
    BY LivePointsNamed DEF Statuses
  <2>2. turn[t].cancelling \in BOOLEAN
    BY DEF RegistryInv, RegistryTypeOK
  <2>. QED
    BY <1>5, <2>1, <2>2, MarkKeeps, LivePointsNamed DEF Close
<1>6. CASE Cleanup(t)
  BY <1>6, EndTurnKeeps, LivePointsNamed DEF Cleanup
<1>7. CASE ResumeEndsEarly(t)
  <2>1. {"suspended", "error"} \subseteq Statuses /\ "done" \in LivePoints
    BY LivePointsNamed DEF Statuses
  <2>2. turn[t].cancelling \in BOOLEAN
    BY DEF RegistryInv, RegistryTypeOK
  <2>. QED
    BY <1>7, <2>1, <2>2, MarkKeeps, LivePointsNamed DEF ResumeEndsEarly, Runs
<1>. QED
  BY <1>1, <1>2, <1>3, <1>4, <1>5, <1>6, <1>7 DEF DrainStep

\* The generator a streaming reply drives itself.
LEMMA BodyKeeps ==
    ASSUME RegistryInv, NEW t \in TurnIds, BodyStep(t)
    PROVE  RegistryInv'
<1>1. CASE BodyStart(t)
  BY <1>1, AbandonKeeps, GotoKeeps, LivePointsNamed DEF BodyStart, Runs
<1>2. CASE BodyExec(t)
  BY <1>2, GotoKeeps, LivePointsNamed DEF BodyExec, Runs, DrainExec
<1>3. CASE BodyExecDone(t)
  BY <1>3, GotoKeeps, LivePointsNamed DEF BodyExecDone, Runs
<1>4. CASE BodyAllExec(t)
  BY <1>4, EndTurnKeeps, LivePointsNamed DEF BodyAllExec, Runs
<1>5. CASE BodySeed(t)
  BY <1>5, GotoKeeps, LivePointsNamed DEF BodySeed, Runs
<1>6. CASE BodySeedFails(t)
  BY <1>6, AbandonKeeps, LivePointsNamed DEF BodySeedFails, Runs
<1>7. CASE BodyStaleHead(t)
  BY <1>7, AbandonKeeps, LivePointsNamed DEF BodyStaleHead, Runs
<1>8. CASE BodyRaise(t)
  BY <1>8, AbandonKeeps, LivePointsNamed DEF BodyRaise, Runs
<1>9. CASE BodyCancelled(t)
  BY <1>9, AbandonKeeps, LivePointsNamed DEF BodyCancelled, BodyPoints
<1>. QED
  BY <1>1, <1>2, <1>3, <1>4, <1>5, <1>6, <1>7, <1>8, <1>9 DEF BodyStep

\* The owner's requests, each up to its first await.
LEMMA OwnerKeeps ==
    ASSUME RegistryInv, OwnerStep
    PROVE  RegistryInv'
<1>1. /\ "handler" \in LivePoints /\ "sync_start" \in LivePoints /\ "sync_run" \in LivePoints
      /\ {"chat", "resume", "exec", "edit"} \subseteq Kinds
  BY LivePointsNamed DEF Kinds
<1>2. ASSUME NEW m \in Messages, Chat(m) PROVE RegistryInv'
  BY <1>1, <1>2, ReserveKeeps, StandingStillKeeps DEF Chat, Enqueue, ChatStart
<1>3. ASSUME NEW x \in Execs, Exec(x) PROVE RegistryInv'
  BY <1>1, <1>3, ReserveKeeps, StandingStillKeeps DEF Exec, Enqueue, ExecStart
<1>4. CASE Resume
  BY <1>1, <1>4, ReserveKeeps DEF Resume
<1>5. CASE Regenerate
  BY <1>1, <1>5, ReserveKeeps DEF Regenerate
<1>6. CASE Edit
  BY <1>1, <1>6, ReserveKeeps DEF Edit
<1>7. ASSUME NEW scope \in 0 .. nextTurn - 1, Stop(scope) PROVE RegistryInv'
  <2>1. turn' = turn \/ turn' = Latched(marker)
    BY <1>7 DEF Stop, StopRefused, StopHarvests
  <2>2. UNCHANGED <<marker, nextTurn, completed>>
    BY <1>7 DEF Stop
  <2>. QED
    BY <2>1, <2>2, LatchKeeps, StandingStillKeeps DEF registry
<1>8. ASSUME NEW e \in Entries, DeleteSteer(e) PROVE RegistryInv'
  BY <1>8, StandingStillKeeps DEF DeleteSteer
<1>9. CASE CloseGate
  BY <1>9, StandingStillKeeps DEF CloseGate
<1>. QED
  BY <1>2, <1>3, <1>4, <1>5, <1>6, <1>7, <1>8, <1>9 DEF OwnerStep

\* Every step of the thread keeps the registry's invariant.
THEOREM RegistryInductive == RegistryInv /\ [Next]_vars => RegistryInv'
<1>. SUFFICES ASSUME RegistryInv, [Next]_vars PROVE RegistryInv'
  OBVIOUS
<1>1. CASE OwnerStep
  BY <1>1, OwnerKeeps
<1>2. ASSUME NEW t \in TurnIds, TurnStep(t) PROVE RegistryInv'
  BY <1>2, HandlerKeeps, DrainKeeps, BodyKeeps DEF TurnStep
<1>3. ASSUME NEW i \in StopIds, StopCancels(i) PROVE RegistryInv'
  BY <1>3, LatchKeeps, StandingStillKeeps DEF StopCancels, registry
<1>4. CASE ReceiptExpires
  BY <1>4, StandingStillKeeps DEF ReceiptExpires
<1>5. CASE Shutdown
  BY <1>5, LatchKeeps, StandingStillKeeps DEF Shutdown, registry
<1>6. CASE UNCHANGED vars
  BY <1>6, StandingStillKeeps DEF vars
<1>. QED
  BY <1>1, <1>2, <1>3, <1>4, <1>5, <1>6 DEF Next

\* A process starts with no handle and a free marker.
LEMMA RegistryInitial == Init => RegistryInv
<1>. SUFFICES ASSUME Init PROVE RegistryInv
  OBVIOUS
<1>1. /\ Handle("chat", "unused") \in HandleSet
      /\ Handle("chat", "unused").pc = "unused"
  BY DEF Handle, HandleSet, Statuses, Kinds
<1>2. RegistryTypeOK
  <2>1. turn \in [TurnIds -> HandleSet]
    BY <1>1 DEF Init
  <2>2. nextTurn \in 1 .. MaxTurns + 1
    BY BoundsAssumption DEF Init, BoundsAssumption
  <2>3. marker \in TurnIds \cup {NoTurn} /\ completed \in BOOLEAN
    BY DEF Init
  <2>. QED
    BY <2>1, <2>2, <2>3 DEF RegistryTypeOK, HandleSet
<1>3. \A t \in TurnIds : turn[t].pc = "unused" /\ t # NoTurn
  BY <1>1 DEF Init, TurnIds, NoTurn
<1>4. "unused" \notin LivePoints
  BY LivePointsNamed
<1>. QED
  BY <1>2, <1>3, <1>4 DEF RegistryInv, MintedInOrder, MarkerExact, Live, Init

\* For every bound, the registry keeps its types: the marker names a minted handle or none,
\* and every handle has a known kind, control point and status (turns.py TurnHandle).
THEOREM RegistryTypeCorrect == Spec => []RegistryTypeOK
<1>1. RegistryInv => RegistryTypeOK
  BY DEF RegistryInv
<1>. QED
  BY <1>1, RegistryInitial, RegistryInductive, PTL DEF Spec

\* For every bound, the marker names a handle exactly while code stands behind it: two turns
\* of one thread never overlap and no marker outlives its turn (turns.py reserve / release,
\* _spawn_drain_task's done-callback, _drain_b_body's finally).
THEOREM MarkerIsExact == Spec => []MarkerExact
<1>1. RegistryInv => MarkerExact
  BY DEF RegistryInv
<1>. QED
  BY <1>1, RegistryInitial, RegistryInductive, PTL DEF Spec


-----------------------------------------------------------------------------
(***************************************************************************)
(* Part two: the promises to a steer.                                      *)
(***************************************************************************)

-----------------------------------------------------------------------------
\* Sequences: what Only, Without, Leading and Beyond return.

UpTo(K, i) == {j \in K : j <= i}

\* The places of a finite set of positions number it without gaps, in its order.
LEMMA Ranked ==
    ASSUME NEW n \in Nat, NEW K \in SUBSET (1 .. n)
    PROVE  /\ Cardinality(K) \in Nat
           /\ \A i \in K : Cardinality(UpTo(K, i)) \in 1 .. Cardinality(K)
           /\ \A i, j \in K : i < j => Cardinality(UpTo(K, i)) < Cardinality(UpTo(K, j))
           /\ \A k \in 1 .. Cardinality(K) : \E i \in K : Cardinality(UpTo(K, i)) = k
<1>. DEFINE c == Cardinality(K)
            rank == [i \in K |-> Cardinality(UpTo(K, i))]
<1>0. \A i \in K : i \in Nat
  OBVIOUS
<1>1. IsFiniteSet(K) /\ c \in Nat
  <2>1. IsFiniteSet(1 .. n)
    BY FS_Interval
  <2>2. IsFiniteSet(K)
    BY <2>1, FS_Subset
  <2>. QED
    BY <2>2, FS_CardinalityType
<1>2. ASSUME NEW i \in K PROVE Cardinality(UpTo(K, i)) \in 1 .. c
  <2>1. UpTo(K, i) \in SUBSET K /\ i \in UpTo(K, i)
    BY DEF UpTo
  <2>2. IsFiniteSet(UpTo(K, i)) /\ Cardinality(UpTo(K, i)) \in Nat /\ Cardinality(UpTo(K, i)) <= c
    BY <1>1, <2>1, FS_Subset, FS_CardinalityType
  <2>3. Cardinality(UpTo(K, i)) # 0
    BY <2>1, <2>2, FS_EmptySet
  <2>. QED
    BY <1>1, <2>2, <2>3
<1>3. ASSUME NEW i \in K, NEW j \in K, i < j
      PROVE  Cardinality(UpTo(K, i)) < Cardinality(UpTo(K, j))
  <2>1. /\ \A k \in UpTo(K, i) : k \in UpTo(K, j)
        /\ UpTo(K, j) \in SUBSET K
        /\ j \in UpTo(K, j) /\ j \notin UpTo(K, i)
    <3>1. i \in Nat /\ j \in Nat
      BY <1>0
    <3>2. \A k \in UpTo(K, i) : k \in UpTo(K, j)
      BY <1>0, <1>3, <3>1 DEF UpTo
    <3>3. UpTo(K, j) \in SUBSET K
      BY DEF UpTo
    <3>4. j \in UpTo(K, j) /\ j \notin UpTo(K, i)
      BY <1>3, <3>1 DEF UpTo
    <3>. QED
      BY <3>2, <3>3, <3>4
  <2>2. UpTo(K, i) \in SUBSET UpTo(K, j) /\ IsFiniteSet(UpTo(K, i)) /\ IsFiniteSet(UpTo(K, j))
    BY <1>1, <2>1, FS_Subset
  <2>3. Cardinality(UpTo(K, i)) <= Cardinality(UpTo(K, j))
        /\ Cardinality(UpTo(K, i)) # Cardinality(UpTo(K, j))
    BY <2>1, <2>2, FS_Subset
  <2>. QED
    BY <1>2, <2>3
<1>4. rank \in [K -> 1 .. c] /\ \A i, j \in K : rank[i] = rank[j] => i = j
  <2>1. \A i, j \in K : i # j => rank[i] # rank[j]
    BY <1>2, <1>3
  <2>. QED
    BY <1>2, <2>1
<1>. HIDE DEF rank
<1>5. rank \in Surjection(K, 1 .. c)
  <2>1. rank \in Injection(K, 1 .. c)
    BY <1>4 DEF Injection, IsInjective
  <2>2. IsFiniteSet(1 .. c) /\ Cardinality(1 .. c) = c
    BY <1>1, FS_Interval
  <2>. QED
    BY <2>1, <2>2, FS_Injection
<1>6. \A k \in 1 .. c : \E i \in K : Cardinality(UpTo(K, i)) = k
  BY <1>5 DEF Surjection, rank
<1>. QED
  BY <1>1, <1>2, <1>3, <1>6

\* Where the kept entries of a sequence stand in it.
KeepsPlaces(r, s, S, g) ==
    /\ g \in [1 .. Len(r) -> 1 .. Len(s)]
    /\ \A k, l \in 1 .. Len(r) : k < l => g[k] < g[l]
    /\ \A k \in 1 .. Len(r) : r[k] = s[g[k]] /\ s[g[k]] \in S
    /\ \A i \in 1 .. Len(s) : s[i] \in S => \E k \in 1 .. Len(r) : g[k] = i

\* Only keeps the entries of s that lie in S, in their order.
LEMMA OnlyKeeps ==
    ASSUME NEW T, NEW s \in Seq(T), NEW S
    PROVE  Only(s, S) \in Seq(T) /\ \E g : KeepsPlaces(Only(s, S), s, S, g)
<1>. DEFINE K == {i \in 1 .. Len(s) : s[i] \in S}
            n == Cardinality(K)
            place(k) == CHOOSE i \in K : Cardinality({j \in K : j <= i}) = k
            r == [k \in 1 .. n |-> s[place(k)]]
            g == [k \in 1 .. n |-> place(k)]
<1>1. Len(s) \in Nat /\ DOMAIN s = 1 .. Len(s) /\ \A i \in 1 .. Len(s) : s[i] \in T
  OBVIOUS
<1>2. Only(s, S) = r
  BY <1>1 DEF Only
<1>3. K \in SUBSET (1 .. Len(s)) /\ \A i \in K : i \in Nat
  OBVIOUS
<1>. HIDE DEF K
<1>4. /\ n \in Nat
      /\ \A i, j \in K : i < j => Cardinality(UpTo(K, i)) < Cardinality(UpTo(K, j))
      /\ \A i \in K : Cardinality(UpTo(K, i)) \in 1 .. n
      /\ \A k \in 1 .. n : \E i \in K : Cardinality(UpTo(K, i)) = k
  BY <1>1, <1>3, Ranked
<1>5. \A k \in 1 .. n : place(k) \in K /\ Cardinality(UpTo(K, place(k))) = k
  BY <1>4 DEF UpTo
<1>. HIDE DEF place
<1>6. \A k, l \in 1 .. n : k < l => place(k) < place(l)
  <2>. SUFFICES ASSUME NEW k \in 1 .. n, NEW l \in 1 .. n, k < l PROVE place(k) < place(l)
    OBVIOUS
  <2>1. /\ place(k) \in K /\ Cardinality(UpTo(K, place(k))) = k
        /\ place(l) \in K /\ Cardinality(UpTo(K, place(l))) = l
    BY <1>5
  <2>2. place(k) \in Nat /\ place(l) \in Nat
    BY <2>1, <1>1, <1>3
  <2>3. ~(place(l) < place(k)) /\ place(l) # place(k)
    BY <1>4, <2>1
  <2>. QED
    BY <2>2, <2>3
<1>7. \A i \in K : \E k \in 1 .. n : place(k) = i
  <2>. SUFFICES ASSUME NEW i \in K PROVE \E k \in 1 .. n : place(k) = i
    OBVIOUS
  <2>. DEFINE k == Cardinality(UpTo(K, i))
  <2>1. k \in 1 .. n /\ i \in Nat
    BY <1>1, <1>3, <1>4
  <2>2. place(k) \in K /\ Cardinality(UpTo(K, place(k))) = k /\ place(k) \in Nat
    BY <1>5, <2>1, <1>3
  <2>3. ~(place(k) < i) /\ ~(i < place(k))
    BY <1>4, <2>2
  <2>. QED
    BY <2>1, <2>2, <2>3
<1>8. r \in Seq(T) /\ Len(r) = n
  <2>1. \A k \in 1 .. n : s[place(k)] \in T
    BY <1>1, <1>3, <1>5
  <2>. QED
    BY <1>4, <2>1, SeqDef
<1>9. KeepsPlaces(r, s, S, g)
  <2>. USE DEF KeepsPlaces
  <2>1. g \in [1 .. Len(r) -> 1 .. Len(s)]
    BY <1>3, <1>5, <1>8
  <2>2. \A k, l \in 1 .. Len(r) : k < l => g[k] < g[l]
    BY <1>6, <1>8
  <2>3. \A k \in 1 .. Len(r) : r[k] = s[g[k]] /\ s[g[k]] \in S
    BY <1>5, <1>8 DEF K
  <2>4. \A i \in 1 .. Len(s) : s[i] \in S => \E k \in 1 .. Len(r) : g[k] = i
    BY <1>7, <1>8 DEF K
  <2>. QED
    BY <2>1, <2>2, <2>3, <2>4
<1>. QED
  BY <1>2, <1>8, <1>9

\* The entries of what Only and Without return.
LEMMA OnlyEntries ==
    ASSUME NEW T, NEW s \in Seq(T), NEW S
    PROVE  /\ Only(s, S) \in Seq(T) /\ ToSet(Only(s, S)) = ToSet(s) \cap S
           /\ Without(s, S) \in Seq(T) /\ ToSet(Without(s, S)) = ToSet(s) \ S
<1>1. ASSUME NEW U PROVE Only(s, U) \in Seq(T) /\ ToSet(Only(s, U)) = ToSet(s) \cap U
  <2>1. PICK g : KeepsPlaces(Only(s, U), s, U, g)
    BY OnlyKeeps
  <2>2. Only(s, U) \in Seq(T)
    BY OnlyKeeps
  <2>3. DOMAIN s = 1 .. Len(s) /\ DOMAIN Only(s, U) = 1 .. Len(Only(s, U))
    BY <2>2
  <2>. DEFINE r == Only(s, U)
  <2>4. ASSUME NEW e \in ToSet(r) PROVE e \in ToSet(s) \cap U
    BY <2>1, <2>3, <2>4 DEF KeepsPlaces, ToSet
  <2>5. ASSUME NEW e \in ToSet(s) \cap U PROVE e \in ToSet(r)
    <3>1. PICK i \in 1 .. Len(s) : s[i] = e /\ s[i] \in U
      BY <2>3, <2>5 DEF ToSet
    <3>2. PICK k \in 1 .. Len(r) : g[k] = i
      BY <2>1, <3>1 DEF KeepsPlaces
    <3>. QED
      BY <2>1, <2>3, <3>1, <3>2 DEF KeepsPlaces, ToSet
  <2>. QED
    BY <2>2, <2>4, <2>5
<1>2. Without(s, S) = Only(s, ToSet(s) \ S)
  BY DEF Without
<1>3. ToSet(s) \cap (ToSet(s) \ S) = ToSet(s) \ S
  OBVIOUS
<1>. QED
  BY <1>1, <1>2, <1>3

\* The leading entries of a sequence: a prefix in S that cannot be longer.
LEMMA LeadingIsPrefix ==
    ASSUME NEW T, NEW s \in Seq(T), NEW S
    PROVE  \E n \in 0 .. Len(s) :
               /\ Leading(s, S) = SubSeq(s, 1, n)
               /\ \A i \in 1 .. n : s[i] \in S
               /\ n = Len(s) \/ s[n + 1] \notin S
<1>. DEFINE P(k) == (\A i \in 1 .. k : s[i] \in S) /\ (k = Len(s) \/ s[k + 1] \notin S)
            L == Len(s) + 1
            K == {k \in 1 .. L : \A i \in 1 .. k - 1 : s[i] \in S}
            n == Cardinality(K)
<1>1. Len(s) \in Nat /\ L \in Nat
  OBVIOUS
<1>2. 1 \in K /\ K \in SUBSET (1 .. L)
  BY <1>1
<1>3. \E m \in K : \A k \in K : k <= m
  <2>. HIDE DEF K, L
  <2>1. /\ n \in Nat
        /\ \A i, j \in K : i < j => Cardinality(UpTo(K, i)) < Cardinality(UpTo(K, j))
        /\ \A i \in K : Cardinality(UpTo(K, i)) \in 1 .. n
        /\ \A k \in 1 .. n : \E i \in K : Cardinality(UpTo(K, i)) = k
    BY <1>1, <1>2, Ranked
  <2>2. n \in 1 .. n
    BY <1>2, <2>1
  <2>3. PICK m \in K : Cardinality(UpTo(K, m)) = n
    BY <2>1, <2>2
  <2>4. \A k \in K : k \in Nat /\ ~(m < k) /\ m \in Nat
    BY <1>1, <1>2, <2>1, <2>3
  <2>. QED
    BY <2>4
<1>4. PICK m \in K : \A k \in K : k <= m
  BY <1>3
<1>5. m - 1 \in 0 .. Len(s) /\ P(m - 1)
  <2>1. m - 1 \in 0 .. Len(s) /\ \A i \in 1 .. m - 1 : s[i] \in S
    BY <1>1
  <2>2. ASSUME m - 1 # Len(s), s[(m - 1) + 1] \in S PROVE FALSE
    <3>1. m \in 1 .. Len(s) /\ m + 1 \in 1 .. L
      BY <1>1, <2>1, <2>2
    <3>2. \A i \in 1 .. (m + 1) - 1 : s[i] \in S
      BY <1>1, <2>1, <2>2, <3>1
    <3>3. m + 1 \in K
      BY <3>1, <3>2
    <3>. HIDE DEF K
    <3>. QED
      BY <1>1, <1>4, <3>1, <3>3
  <2>. QED
    BY <2>1, <2>2
<1>. DEFINE c == CHOOSE k \in 0 .. Len(s) : P(k)
<1>6. c \in 0 .. Len(s) /\ P(c)
  BY <1>5
<1>7. Leading(s, S) = SubSeq(s, 1, c)
  BY DEF Leading
<1>. QED
  BY <1>6, <1>7
\* A sequence is its leading entries in S and what follows them.
LEMMA RunAndRest ==
    ASSUME NEW T, NEW s \in Seq(T), NEW S
    PROVE  /\ Leading(s, S) \in Seq(T) /\ Beyond(s, Leading(s, S)) \in Seq(T)
           /\ \E n \in 0 .. Len(s) :
                  /\ Len(Leading(s, S)) = n /\ Len(Beyond(s, Leading(s, S))) = Len(s) - n
                  /\ \A i \in 1 .. n : Leading(s, S)[i] = s[i] /\ s[i] \in S
                  /\ \A i \in 1 .. Len(s) - n : Beyond(s, Leading(s, S))[i] = s[n + i]
                  /\ n = Len(s) \/ s[n + 1] \notin S
<1>1. PICK n \in 0 .. Len(s) :
          /\ Leading(s, S) = SubSeq(s, 1, n)
          /\ \A i \in 1 .. n : s[i] \in S
          /\ n = Len(s) \/ s[n + 1] \notin S
  BY LeadingIsPrefix
<1>2. Len(s) \in Nat /\ n \in Nat /\ \A i \in 1 .. Len(s) : s[i] \in T
  OBVIOUS
<1>3. /\ Leading(s, S) \in Seq(T) /\ Len(Leading(s, S)) = n
      /\ \A i \in 1 .. n : Leading(s, S)[i] = s[i]
  BY <1>1, <1>2, SubSeqProperties
<1>4. Beyond(s, Leading(s, S)) = SubSeq(s, n + 1, Len(s))
  BY <1>3 DEF Beyond
<1>5. /\ SubSeq(s, n + 1, Len(s)) \in Seq(T) /\ Len(SubSeq(s, n + 1, Len(s))) = Len(s) - n
      /\ \A i \in 1 .. Len(s) - n : SubSeq(s, n + 1, Len(s))[i] = s[n + i]
  <2>1. \A i \in n + 1 .. Len(s) : s[i] \in T
    BY <1>2
  <2>. QED
    BY <1>2, <2>1, SubSeqProperties
<1>6. /\ Beyond(s, Leading(s, S)) \in Seq(T) /\ Len(Beyond(s, Leading(s, S))) = Len(s) - n
      /\ \A i \in 1 .. Len(s) - n : Beyond(s, Leading(s, S))[i] = s[n + i]
  BY <1>4, <1>5
<1>7. \A i \in 1 .. n : Leading(s, S)[i] = s[i] /\ s[i] \in S
  BY <1>1, <1>3
<1>. QED
  BY <1>1, <1>3, <1>6, <1>7

\* The entries of the two parts.
LEMMA RunAndRestEntries ==
    ASSUME NEW T, NEW s \in Seq(T), NEW S
    PROVE  /\ ToSet(Leading(s, S)) \subseteq S
           /\ ToSet(s) = ToSet(Leading(s, S)) \cup ToSet(Beyond(s, Leading(s, S)))
<1>. DEFINE r == Leading(s, S)
            b == Beyond(s, r)
<1>1. PICK n \in 0 .. Len(s) :
          /\ Len(r) = n /\ Len(b) = Len(s) - n
          /\ \A i \in 1 .. n : r[i] = s[i] /\ s[i] \in S
          /\ \A i \in 1 .. Len(s) - n : b[i] = s[n + i]
  BY RunAndRest
<1>2. r \in Seq(T) /\ b \in Seq(T) /\ Len(s) \in Nat
  BY RunAndRest
<1>. HIDE DEF r, b
<1>3. DOMAIN s = 1 .. Len(s) /\ DOMAIN r = 1 .. n /\ DOMAIN b = 1 .. Len(s) - n
  BY <1>1, <1>2
<1>4. ToSet(r) \subseteq S /\ ToSet(r) \subseteq ToSet(s)
  BY <1>1, <1>2, <1>3 DEF ToSet
<1>5. ToSet(b) \subseteq ToSet(s)
  <2>1. \A i \in 1 .. Len(s) - n : n + i \in 1 .. Len(s)
    BY <1>2
  <2>2. \A i \in DOMAIN b : n + i \in DOMAIN s /\ b[i] = s[n + i]
    BY <1>1, <1>3, <2>1
  <2>. QED
    BY ZenonT(30), <2>2 DEF ToSet
<1>6. ASSUME NEW i \in 1 .. Len(s) PROVE s[i] \in ToSet(r) \cup ToSet(b)
  <2>1. CASE i <= n
    BY <1>1, <1>3, <2>1 DEF ToSet
  <2>2. CASE n < i
    <3>1. i - n \in 1 .. Len(s) - n /\ n + (i - n) = i
      BY <1>2, <2>2
    <3>. QED
      BY <1>1, <1>3, <3>1 DEF ToSet
  <2>. QED
    BY <1>2, <2>1, <2>2
<1>7. ToSet(s) \subseteq ToSet(r) \cup ToSet(b)
  BY <1>3, <1>6 DEF ToSet
<1>. QED
  BY <1>4, <1>5, <1>7 DEF r, b

-----------------------------------------------------------------------------
\* What a turn has in hand at each of its points.
WorkSet == [seed : Seq(Entries), todo : Seq(Entries), batch : Seq(Entries), calls : 0 .. MaxIter]
SeedPoints == {"handler", "spawned", "prelude", "cancel_close", "error_close", "done"}
                  \cup SyncPoints
BatchPoints == {"txn", "cancel_close", "error_close"} \cup BodyPoints
Uncalled == LivePoints \ {"model", "cancel_close", "error_close", "done"}
Pending == {"handler", "sync_start", "spawned", "prelude"}

WorkInv ==
    /\ work \in [TurnIds -> WorkSet]
    /\ queue \in Seq(Entries) /\ applied \in Seq(Entries) /\ accepted \in Seq(Entries)

\* A seed is one entry not written yet; a batch is the run of an open transaction or the
\* head a body is about to seed; what is no live turn's is put down.
Hand(t) ==
    /\ ~Live(t) => work[t] = Idle
    /\ Len(work[t].seed) <= 1
    /\ work[t].seed # <<>> => At(t, SeedPoints)
    /\ ToSet(work[t].seed) \subseteq IF At(t, SyncPoints) THEN Execs ELSE Messages
    /\ work[t].batch # <<>> => At(t, BatchPoints)
    /\ ToSet(work[t].batch) \subseteq Messages
    /\ At(t, BodyPoints) => Len(work[t].batch) <= 1
    /\ At(t, {"txn"}) => ToSet(work[t].batch) \subseteq ToSet(Leading(work[t].todo, Messages))
    /\ At(t, SyncPoints) => turn[t].kind \in {"exec", "edit"}
    /\ At(t, Uncalled) => work[t].calls < MaxIter
HandInv == \A t \in TurnIds : Hand(t)

\* The leading messages of what a turn peeked, and how a step leaves its handle and hands.
Run(t) == Leading(work[t].todo, Messages)
Onward(t, p) ==
    /\ turn'[t].pc = p /\ turn'[t].kind = turn[t].kind /\ turn'[t].cancelling = turn[t].cancelling
Holding(t, s, d, b, c) ==
    work'[t] = [seed |-> s, todo |-> d, batch |-> b, calls |-> c]
StillHolding(t) == work'[t] = work[t]

\* The ways a turn moves on, by what they do to the queue, to what took effect and to
\* what the turn has in hand.
Walks(t) ==
    /\ \/ At(t, {"handler"}) /\ Onward(t, "spawned")
       \/ At(t, {"spawned"}) /\ Onward(t, "prelude")
       \/ At(t, {"spawned"}) /\ Onward(t, "done")
       \/ At(t, {"drain"}) /\ Onward(t, "claim")
       \/ At(t, {"exec"}) /\ Onward(t, "drain")
       \/ At(t, {"model"}) /\ Onward(t, "top") /\ work[t].calls < MaxIter
       \/ At(t, {"body_exec"}) /\ Onward(t, "body")
    /\ StillHolding(t) /\ UNCHANGED <<queue, applied>>
Breaks(t) ==
    /\ At(t, {"prelude", "top", "drain", "claim", "txn", "exec", "model"})
    /\ Onward(t, "error_close") \/ Onward(t, "cancel_close")
    /\ StillHolding(t) /\ UNCHANGED <<queue, applied>>
SeedLands(t) ==
    /\ \/ At(t, {"sync_start"}) /\ Onward(t, "sync_run")
       \/ At(t, {"prelude"}) /\ (Onward(t, "error_close") \/ Onward(t, "cancel_close"))
    /\ applied' = applied \o work[t].seed
    /\ StillHolding(t) /\ UNCHANGED queue
BatchLands(t) ==
    /\ At(t, {"txn"}) /\ turn[t].cancelling /\ Onward(t, "cancel_close")
    /\ applied' = applied \o work[t].batch
    /\ StillHolding(t) /\ UNCHANGED queue
Persists(t) ==
    /\ At(t, {"prelude"}) /\ Onward(t, "top")
    /\ applied' = applied \o work[t].seed
    /\ Holding(t, <<>>, work[t].todo, work[t].batch, work[t].calls)
    /\ UNCHANGED queue
Peeks(t) ==
    /\ At(t, {"top"}) /\ Onward(t, "drain") /\ ~turn[t].cancelling
    /\ Holding(t, work[t].seed, queue, work[t].batch, work[t].calls)
    /\ UNCHANGED <<queue, applied>>
Opens(t) ==
    /\ At(t, {"claim"}) /\ Onward(t, "txn") /\ ~turn[t].cancelling
    /\ Holding(t, work[t].seed, work[t].todo, Batch(t), work[t].calls)
    /\ UNCHANGED <<queue, applied>>
Commits(t) ==
    /\ At(t, {"txn"}) /\ Onward(t, "drain")
    /\ applied' = applied \o work[t].batch
    /\ queue' = Without(queue, ToSet(Run(t)))
    /\ Holding(t, work[t].seed, Beyond(work[t].todo, Run(t)), <<>>, work[t].calls)
Drains(t) ==
    /\ work[t].todo # <<>> /\ Head(work[t].todo) \in Execs
    /\ queue' = Without(queue, {Head(work[t].todo)})
    /\ Holding(t, work[t].seed, Tail(work[t].todo), work[t].batch, work[t].calls)
    /\ \/ At(t, {"drain"}) /\ Onward(t, "exec")
       \/ At(t, {"drain"}) /\ Onward(t, "drain")
       \/ At(t, {"body"}) /\ Onward(t, "body_exec")
       \/ At(t, {"body"}) /\ Onward(t, "body")
    /\ \/ UNCHANGED applied
       \/ Head(work[t].todo) \in ToSet(queue) /\ applied' = Append(applied, Head(work[t].todo))
Calls(t) ==
    /\ At(t, {"drain"}) /\ Onward(t, "model") /\ work[t].todo = <<>>
    /\ Holding(t, work[t].seed, work[t].todo, work[t].batch, work[t].calls + 1)
    /\ UNCHANGED <<queue, applied>>
Takes(t) ==
    /\ At(t, {"body_new"}) /\ Onward(t, "body") /\ ~turn[t].cancelling
    /\ Holding(t, work[t].seed, Leading(queue, Execs),
               First(Beyond(queue, Leading(queue, Execs))), work[t].calls)
    /\ UNCHANGED <<queue, applied>>
Seeds(t) ==
    /\ At(t, {"body"}) /\ Onward(t, "spawned")
    /\ work[t].todo = <<>> /\ work[t].batch # <<>> /\ Head(work[t].batch) \in ToSet(queue)
    /\ queue' = Without(queue, ToSet(work[t].batch))
    /\ Holding(t, work[t].batch, work[t].todo, <<>>, work[t].calls)
    /\ UNCHANGED applied
EndPoints == {"handler", "sync_start", "sync_run", "prelude", "model", "cancel_close",
              "error_close", "done", "body_new", "body", "body_exec"}
Ends(t) ==
    /\ At(t, EndPoints)
    /\ \/ turn'[t].pc = "over"
       \/ At(t, {"prelude", "model", "cancel_close", "error_close"}) /\ turn'[t].pc = "done"
    /\ work'[t] = Idle
    /\ UNCHANGED applied
    /\ \/ UNCHANGED queue
       \/ /\ At(t, {"body"}) /\ work[t].todo = <<>>
          /\ work[t].batch # <<>> /\ Head(work[t].batch) \in ToSet(queue)
          /\ queue' = Requeued(work[t].batch)

Moves(t) ==
    \/ Walks(t) \/ Breaks(t) \/ SeedLands(t) \/ BatchLands(t) \/ Persists(t) \/ Peeks(t)
    \/ Opens(t) \/ Commits(t) \/ Drains(t) \/ Calls(t) \/ Takes(t) \/ Seeds(t) \/ Ends(t)

\* The others rest: nobody else has anything in hand, and only the end of a turn
\* puts a body behind a fresh handle, which is not done when the process shuts down.
OthersRest(t) ==
    \A u \in TurnIds \ {t} :
        /\ ~Live(u) /\ work[u] = Idle /\ work'[u] = Idle
        /\ \/ turn'[u] = turn[u]
           \/ turn'[u] = Handle("chat", "body_new") /\ ~shuttingDown

\* The points of each kind, by name.
LEMMA Points ==
    /\ SyncPoints = {"sync_start", "sync_run"} /\ BodyPoints = {"body_new", "body", "body_exec"}
    /\ SeedPoints = {"handler", "spawned", "prelude", "cancel_close", "error_close", "done",
                     "sync_start", "sync_run"}
    /\ BatchPoints = {"txn", "cancel_close", "error_close", "body_new", "body", "body_exec"}
    /\ LivePoints = {"handler", "done", "spawned", "prelude", "top", "drain", "claim", "txn",
           "exec", "model", "cancel_close", "error_close", "sync_start", "sync_run", "body_new",
           "body", "body_exec"}
  BY DEF SyncPoints, BodyPoints, SeedPoints, BatchPoints, LivePoints, TaskPoints, DrainPoints

\* Every step of a turn is one of these moves, and leaves the owner's side alone.
LEMMA StepMoves ==
    ASSUME RegistryInv, WorkInv, HandInv, NEW t \in TurnIds, TurnStep(t)
    PROVE  /\ Live(t) /\ Moves(t) /\ UNCHANGED <<owner, harvest, environment>>
           /\ work' = [work EXCEPT ![t] = work'[t]]
<1>1. work \in [TurnIds -> WorkSet] /\ turn \in [TurnIds -> HandleSet] /\ Live(t)
  BY DEF WorkInv, RegistryInv, RegistryTypeOK, HandleSet, TurnStep
<1>2. work[t] \in WorkSet /\ turn[t] \in HandleSet
  BY <1>1
<1>3. applied \o <<>> = applied /\ <<>> \o <<>> = <<>>
      /\ work[t].batch \o <<>> = work[t].batch /\ <<>> \o work[t].batch = work[t].batch
      /\ work[t].seed \o <<>> = work[t].seed /\ <<>> \o work[t].seed = work[t].seed
  BY <1>2, ConcatEmptySeq, EmptySeq DEF WorkInv, WorkSet
<1>7. UNCHANGED work => work' = [work EXCEPT ![t] = work'[t]]
  BY <1>1
<1>4. \A p : Goto(t, p) => Onward(t, p)
  BY <1>1 DEF Goto, Mark, Onward
<1>5. PutDown(t) => work'[t] = Idle /\ UNCHANGED applied /\ work' = [work EXCEPT ![t] = work'[t]]
  BY <1>1 DEF PutDown
<1>6. /\ work[t].seed # <<>> => At(t, SeedPoints)
      /\ work[t].batch # <<>> => At(t, BatchPoints)
  BY DEF HandInv, Hand
<1>. SUFFICES Moves(t) /\ UNCHANGED <<owner, harvest, environment>>
              /\ work' = [work EXCEPT ![t] = work'[t]]
  BY <1>1
<1>10. CASE HandOff(t)
  BY <1>1, <1>4, <1>7, <1>10 DEF HandOff, Moves, effects, Walks, StillHolding
<1>11. CASE Refuse(t)
  <2>1. turn'[t].pc = "over"
    BY <1>1, <1>11 DEF Refuse, Abandon, Handle
  <2>. QED
    BY <1>5, <1>11, <2>1 DEF Refuse, Moves, effects, Ends, EndPoints, At
<1>12. CASE SyncExec(t)
  BY <1>4, <1>7, <1>12 DEF SyncExec, Moves, effects, SeedLands, StillHolding
<1>13. CASE SyncEnd(t)
  <2>1. turn'[t].pc = "over"
    BY <1>1, <1>13 DEF SyncEnd, Handle
  <2>. QED
    BY <1>5, <1>13, <2>1 DEF SyncEnd, Moves, effects, Ends, EndPoints, At
<1>14. CASE Start(t)
  BY <1>4, <1>7, <1>14 DEF Start, Runs, Moves, effects, Walks, StillHolding
<1>15. CASE Persist(t)
  BY <1>1, <1>2, <1>4, <1>7, <1>15 DEF Persist, Runs, Moves, effects, Persists, Holding, WorkSet
<1>16. CASE Peek(t)
  BY <1>1, <1>2, <1>4, <1>7, <1>16 DEF Peek, Runs, Moves, effects, Peeks, Holding, WorkSet
<1>17. CASE ClaimFiles(t)
  BY <1>4, <1>7, <1>17 DEF ClaimFiles, Runs, Moves, effects, Walks, StillHolding
<1>18. CASE OpenTransaction(t)
  BY <1>1, <1>2, <1>4, <1>7, <1>18 DEF OpenTransaction, Runs, Moves, effects, Opens, Holding,
     WorkSet
<1>19. CASE CommitTransaction(t)
  BY <1>1, <1>2, <1>4, <1>7, <1>19 DEF CommitTransaction, Runs, Moves, effects, Commits, Holding,
     Run, WorkSet
<1>20. ASSUME NEW p, NEW q, DrainExec(t, p, q),
              \/ p = "exec" /\ q = "drain" /\ At(t, {"drain"})
              \/ p = "body_exec" /\ q = "body" /\ At(t, {"body"})
       PROVE  Moves(t) /\ UNCHANGED <<owner, harvest, environment>>
              /\ work' = [work EXCEPT ![t] = work'[t]]
  <2>1. \/ At(t, {"drain"}) /\ Onward(t, "exec")
        \/ At(t, {"drain"}) /\ Onward(t, "drain")
        \/ At(t, {"body"}) /\ Onward(t, "body_exec")
        \/ At(t, {"body"}) /\ Onward(t, "body")
    BY <1>4, <1>7, <1>20 DEF DrainExec
  <2>. QED
    BY <1>1, <1>2, <1>20, <2>1 DEF DrainExec, Moves, effects, Drains, Holding, WorkSet
<1>21. CASE RunExec(t)
  BY <1>20, <1>21 DEF RunExec, Runs
<1>22. CASE ExecDone(t)
  BY <1>4, <1>7, <1>22 DEF ExecDone, Runs, Moves, effects, Walks, StillHolding
<1>23. CASE CallModel(t)
  BY <1>1, <1>2, <1>4, <1>7, <1>23 DEF CallModel, Runs, Moves, effects, Calls, Holding, WorkSet
<1>24. CASE NextIteration(t)
  BY <1>4, <1>7, <1>24 DEF NextIteration, Runs, Moves, effects, Walks, StillHolding
<1>25. CASE Conclude(t)
  <2>1. turn'[t].pc = "done"
    BY <1>1, <1>25 DEF Conclude, Mark
  <2>. QED
    BY <1>5, <1>25, <2>1 DEF Conclude, Runs, Moves, effects, Ends, EndPoints, At
<1>26. CASE ResumeEndsEarly(t)
  <2>1. turn'[t].pc = "done"
    BY <1>1, <1>26 DEF ResumeEndsEarly, Mark
  <2>. QED
    BY <1>5, <1>26, <2>1 DEF ResumeEndsEarly, Runs, Moves, effects, Ends, EndPoints, At
<1>27. CASE Raise(t)
  <2>1. applied' = applied \/ (At(t, {"prelude"}) /\ applied' = applied \o work[t].seed)
    <3>1. At(t, {"prelude"}) \/ work[t].seed = <<>>
      BY <1>6, <1>27, Points DEF Raise, Runs, At
    <3>2. work[t].seed = <<>> => applied \o work[t].seed = applied
      BY <1>3
    <3>3. applied' = applied \/ applied' = applied \o work[t].seed
      BY <1>27 DEF Raise
    <3>. QED
      BY <3>1, <3>2, <3>3
  <2>. QED
    BY <1>4, <1>7, <1>27, <2>1 DEF Raise, Runs, Moves, effects, Breaks, SeedLands, StillHolding, At
<1>28. CASE CancelLands(t)
  <2>1. CASE At(t, {"spawned"})
    BY <1>4, <1>7, <1>28, <2>1 DEF CancelLands, Moves, effects, Walks, StillHolding, At
  <2>2. CASE At(t, {"prelude"})
    <3>1. work[t].batch = <<>>
      BY <1>6, <2>2, Points DEF At
    <3>2. applied \o work[t].seed \o work[t].batch = applied \o work[t].seed
      BY <3>1, <1>2, ConcatProperties, ConcatEmptySeq DEF WorkInv, WorkSet
    <3>. QED
      BY <1>4, <1>7, <1>28, <2>2, <3>2 DEF CancelLands, Moves, effects, SeedLands, Breaks,
         StillHolding, At
  <2>3. CASE At(t, {"txn"})
    <3>1. work[t].seed = <<>>
      BY <1>6, <2>3, Points DEF At
    <3>2. applied \o work[t].seed \o work[t].batch = applied \o work[t].batch
      BY <3>1, <1>3
    <3>. QED
      BY <1>4, <1>7, <1>28, <2>3, <3>2 DEF CancelLands, Moves, effects, BatchLands, Breaks,
         StillHolding, At
  <2>4. CASE At(t, {"top", "drain", "claim", "exec", "model"})
    <3>1. work[t].seed = <<>> /\ work[t].batch = <<>>
      BY <1>6, <2>4, Points DEF At
    <3>2. applied \o work[t].seed \o work[t].batch = applied
      BY <3>1, <1>3
    <3>. QED
      BY <1>4, <1>7, <1>28, <2>4, <3>2 DEF CancelLands, Moves, effects, Breaks, StillHolding, At
  <2>. QED
    BY <1>28, <2>1, <2>2, <2>3, <2>4 DEF CancelLands, At
<1>29. CASE Close(t)
  <2>1. turn'[t].pc = "done"
    BY <1>1, <1>29 DEF Close, Mark
  <2>. QED
    BY <1>5, <1>29, <2>1 DEF Close, Moves, effects, Ends, EndPoints, At
<1>30. ASSUME NEW s, EndTurn(t, s) PROVE turn'[t].pc = "over"
  <2>1. nextTurn \in TurnIds => nextTurn # t
    BY LivePointsNamed DEF RegistryInv, MintedInOrder, TurnStep, Live, TurnIds
  <2>. QED
    BY <1>1, <1>30, <2>1 DEF EndTurn, Handle
<1>31. CASE Cleanup(t)
  BY <1>5, <1>31, <1>30 DEF Cleanup, Moves, effects, Ends, EndPoints, At
<1>32. ASSUME NEW s, Abandon(t, s) PROVE turn'[t].pc = "over"
  BY <1>1, <1>32 DEF Abandon, Handle
<1>33. CASE BodyStart(t)
  <2>1. CASE shuttingDown \/ queue = <<>>
    BY <1>5, <1>32, <1>33, <2>1, Points DEF BodyStart, Runs, Moves, effects, Ends, EndPoints, At
  <2>2. CASE ~(shuttingDown \/ queue = <<>>)
    BY <1>1, <1>2, <1>4, <1>7, <1>33, <2>2 DEF BodyStart, Runs, Moves, effects, Takes, Holding,
       WorkSet
  <2>. QED
    BY <2>1, <2>2
<1>34. CASE BodyExec(t)
  BY <1>20, <1>34 DEF BodyExec, Runs
<1>35. CASE BodyExecDone(t)
  BY <1>4, <1>7, <1>35 DEF BodyExecDone, Runs, Moves, effects, Walks, StillHolding
<1>36. CASE BodyAllExec(t)
  BY <1>5, <1>30, <1>36, Points DEF BodyAllExec, Runs, Moves, effects, Ends, EndPoints, At
<1>37. CASE BodySeed(t)
  BY <1>1, <1>2, <1>4, <1>7, <1>37 DEF BodySeed, Runs, Moves, effects, Seeds, Holding, WorkSet
<1>38. CASE BodySeedFails(t)
  BY <1>5, <1>32, <1>38, Points DEF BodySeedFails, Runs, Moves, effects, Ends, EndPoints, At
<1>39. CASE BodyStaleHead(t)
  BY <1>5, <1>32, <1>39, Points DEF BodyStaleHead, Runs, Moves, effects, Ends, EndPoints, At
<1>40. CASE BodyRaise(t)
  BY <1>5, <1>32, <1>40, Points DEF BodyRaise, Runs, Moves, effects, Ends, EndPoints, At
<1>41. CASE BodyCancelled(t)
  BY <1>5, <1>32, <1>41, Points DEF BodyCancelled, Moves, effects, Ends, EndPoints, At
<1>. QED
  BY <1>1, <1>10, <1>11, <1>12, <1>13, <1>14, <1>15, <1>16, <1>17, <1>18, <1>19, <1>21, <1>22,
     <1>23, <1>24, <1>25, <1>26, <1>27, <1>28, <1>29, <1>31, <1>33, <1>34, <1>35, <1>36, <1>37,
     <1>38, <1>39, <1>40, <1>41 DEF TurnStep, HandlerStep, DrainStep, BodyStep

\* What one step of a turn does to the handles of the others.
LEMMA OtherHandles ==
    ASSUME RegistryInv, NEW t \in TurnIds, TurnStep(t), NEW u \in TurnIds, u # t
    PROVE  /\ ~Live(u)
           /\ turn'[u] = turn[u] \/ (turn'[u] = Handle("chat", "body_new") /\ ~shuttingDown)
<1>1. turn \in [TurnIds -> HandleSet] /\ Live(t) /\ ~Live(u)
  BY DEF RegistryInv, RegistryTypeOK, HandleSet, TurnStep, MarkerExact
<1>. SUFFICES turn'[u] = turn[u] \/ (turn'[u] = Handle("chat", "body_new") /\ ~shuttingDown)
  BY <1>1
<1>2. ASSUME NEW p, Goto(t, p) PROVE turn'[u] = turn[u]
  BY <1>1, <1>2 DEF Goto, Mark
<1>3. ASSUME NEW s, Abandon(t, s) PROVE turn'[u] = turn[u]
  BY <1>1, <1>3 DEF Abandon
<1>4. ASSUME NEW p, NEW s, NEW c, turn' = Mark(t, p, s, c) PROVE turn'[u] = turn[u]
  BY <1>1, <1>4 DEF Mark
<1>5. ASSUME NEW s, EndTurn(t, s)
      PROVE  turn'[u] = turn[u] \/ (turn'[u] = Handle("chat", "body_new") /\ ~shuttingDown)
  BY <1>1, <1>5 DEF EndTurn, MaySpawnDrainB
<1>6. CASE HandlerStep(t)
  BY <1>1, <1>2, <1>3, <1>6 DEF HandlerStep, HandOff, Refuse, SyncExec, SyncEnd
<1>7. CASE DrainStep(t)
  <2>1. CASE Conclude(t) \/ ResumeEndsEarly(t) \/ Close(t)
    BY <1>4, <2>1 DEF Conclude, ResumeEndsEarly, Close
  <2>2. CASE Cleanup(t)
    BY <1>5, <2>2 DEF Cleanup
  <2>3. CASE \/ Start(t) \/ Persist(t) \/ Peek(t)
             \/ ClaimFiles(t) \/ OpenTransaction(t) \/ CommitTransaction(t)
    BY <1>2, <2>3 DEF Start, Persist, Peek, ClaimFiles, OpenTransaction, CommitTransaction
  <2>4. CASE RunExec(t) \/ ExecDone(t) \/ CallModel(t) \/ NextIteration(t)
    BY <1>2, <2>4 DEF RunExec, DrainExec, ExecDone, CallModel, NextIteration
  <2>5. CASE Raise(t) \/ CancelLands(t)
    BY <1>2, <2>5 DEF Raise, CancelLands
  <2>. QED
    BY <1>7, <2>1, <2>2, <2>3, <2>4, <2>5 DEF DrainStep
<1>8. CASE BodyStep(t)
  <2>1. CASE BodyStart(t)
    BY <1>2, <1>3, <2>1 DEF BodyStart
  <2>2. CASE BodyAllExec(t)
    BY <1>5, <2>2 DEF BodyAllExec
  <2>3. CASE BodyExec(t) \/ BodyExecDone(t) \/ BodySeed(t)
    BY <1>2, <2>3 DEF BodyExec, DrainExec, BodyExecDone, BodySeed
  <2>4. CASE BodySeedFails(t) \/ BodyStaleHead(t) \/ BodyRaise(t) \/ BodyCancelled(t)
    BY <1>3, <2>4 DEF BodySeedFails, BodyStaleHead, BodyRaise, BodyCancelled
  <2>. QED
    BY <1>8, <2>1, <2>2, <2>3, <2>4 DEF BodyStep
<1>. QED
  BY <1>6, <1>7, <1>8 DEF TurnStep

\* A turn's step leaves the others with nothing in hand.
LEMMA StepLeavesOthers ==
    ASSUME RegistryInv, WorkInv, HandInv, NEW t \in TurnIds, TurnStep(t)
    PROVE  OthersRest(t)
<1>1. \A u \in TurnIds \ {t} :
          /\ ~Live(u)
          /\ turn'[u] = turn[u] \/ (turn'[u] = Handle("chat", "body_new") /\ ~shuttingDown)
  BY OtherHandles
<1>2. \A u \in TurnIds \ {t} : work'[u] = work[u]
  <2>1. work' = [work EXCEPT ![t] = work'[t]] /\ work \in [TurnIds -> WorkSet]
    BY StepMoves DEF WorkInv
  <2>. QED
    BY <2>1
<1>. QED
  BY <1>1, <1>2 DEF OthersRest, HandInv, Hand

\* The steps that are no turn's, by what they do to the queue and to the owner's books.
Starts ==
    \E k \in Kinds, p \in LivePoints, s \in Seq(Entries) :
        /\ Reserve(k, p, [Idle EXCEPT !.seed = s]) /\ ~shuttingDown
        /\ UNCHANGED <<queue, effects, accepted, unsent, handed, stop, nextStop, environment>>
        /\ receipt' \in {receipt, NoReceipt}
        /\ \/ /\ s = <<>> /\ UNCHANGED used
              /\ p = "handler" \/ (p = "sync_run" /\ k = "edit")
           \/ \E e \in Entries \ used :
                  /\ s = <<e>> /\ used' = used \cup {e}
                  /\ \/ p = "handler" /\ k = "chat" /\ e \in Messages
                     \/ p = "sync_start" /\ k = "exec" /\ e \in Execs
Enqueues == ~shuttingDown /\ \E e \in Entries \ used : Enqueue(e)
Rests ==
    /\ UNCHANGED <<registry, work, queue, effects, owner, handed, stop, nextStop, shuttingDown>>
    /\ receipt' \in {receipt, NoReceipt} /\ gateOpen' \in {gateOpen, FALSE}

\* A step that is no turn's starts a turn, queues a steer, takes steers back, latches or rests.
LEMMA OtherSteps ==
    ASSUME WorkInv, [Next]_vars
    PROVE  \/ \E t \in TurnIds : TurnStep(t)
           \/ Starts \/ Enqueues \/ Rests
           \/ \E scope \in 0 .. nextTurn - 1 : Stop(scope)
           \/ \E e \in Entries : DeleteSteer(e)
           \/ \E i \in StopIds : StopCancels(i)
           \/ Shutdown
<1>1. \A e \in Entries : <<e>> \in Seq(Entries)
  OBVIOUS
<1>2. "handler" \in LivePoints /\ "sync_start" \in LivePoints /\ "sync_run" \in LivePoints
      /\ {"chat", "resume", "exec", "edit"} \subseteq Kinds /\ <<>> \in Seq(Entries)
      /\ [Idle EXCEPT !.seed = <<>>] = Idle
  BY LivePointsNamed, EmptySeq DEF Kinds, Idle
<1>3. ASSUME NEW m \in Messages, Chat(m) PROVE Starts \/ Enqueues
  <2>1. m \in Entries \ used /\ ~shuttingDown
    BY <1>3 DEF Chat, Entries, OwnerMayAct
  <2>2. CASE Enqueue(m)
    BY <2>1, <2>2 DEF Enqueues
  <2>3. CASE ChatStart(m)
    BY <1>1, <1>2, <2>1, <2>3 DEF ChatStart, ForgetReceipt, Starts
  <2>. QED
    BY <1>3, <2>2, <2>3 DEF Chat
<1>4. ASSUME NEW x \in Execs, Exec(x) PROVE Starts \/ Enqueues
  <2>1. x \in Entries \ used /\ ~shuttingDown
    BY <1>4 DEF Exec, Entries, OwnerMayAct
  <2>2. CASE Enqueue(x)
    BY <2>1, <2>2 DEF Enqueues
  <2>3. CASE ExecStart(x)
    BY <1>1, <1>2, <2>1, <2>3 DEF ExecStart, ForgetReceipt, Starts
  <2>. QED
    BY <1>4, <2>2, <2>3 DEF Exec
<1>5. CASE Resume
  BY <1>2, <1>5 DEF Resume, Starts, OwnerMayStart, OwnerMayAct, owner, harvest
<1>6. CASE Regenerate
  BY <1>2, <1>6 DEF Regenerate, Starts, OwnerMayStart, OwnerMayAct, owner, ForgetReceipt
<1>7. CASE Edit
  BY <1>2, <1>7 DEF Edit, Starts, OwnerMayStart, OwnerMayAct, owner, harvest
<1>8. CASE CloseGate \/ ReceiptExpires \/ UNCHANGED vars
  BY <1>8 DEF CloseGate, ReceiptExpires, vars, Rests, harvest, environment, ForgetReceipt
<1>. QED
  BY <1>3, <1>4, <1>5, <1>6, <1>7, <1>8 DEF Next, OwnerStep

\* Stop and Shutdown only latch: no handle moves and none changes hands.
Latches(u) ==
    turn'[u].pc = turn[u].pc /\ turn'[u].kind = turn[u].kind

\* The steps of a Stop and of a shutdown latch at most.
LEMMA StopLatches ==
    ASSUME RegistryInv, WorkInv, NEW u \in TurnIds,
           \/ Shutdown
           \/ \E scope \in 0 .. nextTurn - 1 : Stop(scope)
           \/ \E i \in StopIds : StopCancels(i)
    PROVE  Latches(u)
<1>1. turn \in [TurnIds -> HandleSet]
  BY DEF RegistryInv, RegistryTypeOK, HandleSet
<1>2. ASSUME NEW t, turn' = Latched(t) PROVE Latches(u)
  BY <1>1, <1>2 DEF Latched, Mark, Latches
<1>3. turn' = turn => Latches(u)
  BY DEF Latches
<1>4. turn' = turn \/ \E t : turn' = Latched(t)
  BY DEF Shutdown, Stop, StopRefused, StopHarvests, StopCancels
<1>. QED
  BY <1>2, <1>3, <1>4

\* A handle that was not live and is not put to work keeps its hands empty.
LEMMA IdleHands ==
    ASSUME NEW t \in TurnIds, work'[t] = Idle, turn'[t].pc \notin SyncPoints
    PROVE  Hand(t)'
<1>2. /\ work'[t].seed = <<>> /\ work'[t].batch = <<>> /\ work'[t].calls = 0
      /\ Len(work'[t].seed) = 0 /\ Len(work'[t].batch) = 0
  BY DEF Idle
<1>3. ToSet(work'[t].seed) = {} /\ ToSet(work'[t].batch) = {}
  BY <1>2 DEF ToSet
<1>. QED
  BY <1>2, <1>3, LivePointsNamed, Points, BoundsAssumption DEF Hand, At, Live, Uncalled

\* Sequences of entries: those a step builds from those it has.
LEMMA StepSequences ==
    ASSUME WorkInv, NEW t \in TurnIds
    PROVE  /\ \A S : Without(queue, S) \in Seq(Entries)
           /\ Leading(queue, Execs) \in Seq(Entries)
           /\ First(Beyond(queue, Leading(queue, Execs))) \in Seq(Entries)
           /\ Batch(t) \in Seq(Entries) /\ Run(t) \in Seq(Entries)
           /\ Beyond(work[t].todo, Run(t)) \in Seq(Entries)
           /\ work[t] \in WorkSet
<1>1. queue \in Seq(Entries) /\ work[t] \in WorkSet /\ work[t].todo \in Seq(Entries)
  BY DEF WorkInv, WorkSet
<1>2. Run(t) \in Seq(Entries) /\ Beyond(work[t].todo, Run(t)) \in Seq(Entries)
  BY <1>1, RunAndRest DEF Run
<1>3. Only(Run(t), ToSet(queue)) \in Seq(Entries)
  BY <1>2, OnlyEntries
<1>4. Batch(t) \in Seq(Entries)
  BY <1>3, OnlyEntries DEF Batch, Run
<1>5. /\ Leading(queue, Execs) \in Seq(Entries)
      /\ Beyond(queue, Leading(queue, Execs)) \in Seq(Entries)
  BY <1>1, RunAndRest
<1>6. First(Beyond(queue, Leading(queue, Execs))) \in Seq(Entries)
  BY <1>5, EmptySeq, HeadTailProperties DEF First
<1>. QED
  BY <1>1, <1>2, <1>4, <1>5, <1>6, OnlyEntries

\* What a step of a turn has in hand stays of its types.
LEMMA TurnKeepsWork ==
    ASSUME RegistryInv, WorkInv, HandInv, NEW t \in TurnIds, TurnStep(t)
    PROVE  WorkInv'
<1>1. Moves(t) /\ UNCHANGED owner /\ work' = [work EXCEPT ![t] = work'[t]] /\ Hand(t)
  BY StepMoves DEF HandInv
<1>2. /\ queue \in Seq(Entries) /\ applied \in Seq(Entries) /\ accepted \in Seq(Entries)
      /\ work \in [TurnIds -> WorkSet]
      /\ \A S : Without(queue, S) \in Seq(Entries)
      /\ Batch(t) \in Seq(Entries) /\ Run(t) \in Seq(Entries)
      /\ Beyond(work[t].todo, Run(t)) \in Seq(Entries)
      /\ Leading(queue, Execs) \in Seq(Entries)
      /\ First(Beyond(queue, Leading(queue, Execs))) \in Seq(Entries)
  BY StepSequences DEF WorkInv
<1>3. /\ work[t].seed \in Seq(Entries) /\ work[t].todo \in Seq(Entries)
      /\ work[t].batch \in Seq(Entries) /\ work[t].calls \in 0 .. MaxIter
      /\ work[t].todo # <<>> =>
            Tail(work[t].todo) \in Seq(Entries) /\ Head(work[t].todo) \in Entries
  BY <1>2, HeadTailProperties DEF WorkSet
<1>4. <<>> \in Seq(Entries) /\ 0 \in 0 .. MaxIter /\ Idle \in WorkSet
  BY EmptySeq, BoundsAssumption DEF Idle, WorkSet
<1>5. accepted' \in Seq(Entries)
  BY <1>1, <1>2 DEF owner
<1>6. queue' \in Seq(Entries)
  <2>1. Requeued(work[t].batch) \in Seq(Entries)
    BY <1>2, <1>3, ConcatProperties DEF Requeued
  <2>. QED
    BY <1>1, <1>2, <2>1 DEF Moves, Walks, Breaks, SeedLands, BatchLands, Persists, Peeks,
       Opens, Commits, Drains, Calls, Takes, Seeds, Ends
<1>7. applied' \in Seq(Entries)
  <2>1. applied \o work[t].seed \in Seq(Entries) /\ applied \o work[t].batch \in Seq(Entries)
    BY <1>2, <1>3, ConcatProperties
  <2>2. work[t].todo # <<>> => Append(applied, Head(work[t].todo)) \in Seq(Entries)
    BY <1>2, <1>3, AppendProperties
  <2>. QED
    BY <1>1, <1>2, <2>1, <2>2 DEF Moves, Walks, Breaks, SeedLands, BatchLands, Persists, Peeks,
       Opens, Commits, Drains, Calls, Takes, Seeds, Ends
<1>8. work'[t] \in WorkSet
  <2>1. CASE Walks(t) \/ Breaks(t) \/ SeedLands(t) \/ BatchLands(t) \/ Ends(t)
    BY <1>2, <1>4, <2>1 DEF Walks, Breaks, SeedLands, BatchLands, Ends, StillHolding
  <2>2. CASE Calls(t)
    <3>1. work[t].calls < MaxIter
      BY <1>1, <2>2, LivePointsNamed DEF Hand, Calls, At, Uncalled
    <3>2. work[t].calls + 1 \in 0 .. MaxIter
      BY <1>3, <3>1, BoundsAssumption
    <3>. QED
      BY <1>3, <2>2, <3>2 DEF Calls, Holding, WorkSet
  <2>3. ASSUME NEW s \in Seq(Entries), NEW d \in Seq(Entries), NEW b \in Seq(Entries),
               Holding(t, s, d, b, work[t].calls)
        PROVE  work'[t] \in WorkSet
    BY <1>3, <2>3 DEF Holding, WorkSet
  <2>4. CASE Persists(t) \/ Peeks(t) \/ Opens(t) \/ Takes(t)
    BY <1>2, <1>3, <1>4, <2>3, <2>4 DEF Persists, Peeks, Opens, Takes
  <2>5. CASE Commits(t) \/ Drains(t) \/ Seeds(t)
    BY <1>2, <1>3, <1>4, <2>3, <2>5 DEF Commits, Drains, Seeds
  <2>. QED
    BY <1>1, <2>1, <2>2, <2>4, <2>5 DEF Moves
<1>9. work' \in [TurnIds -> WorkSet]
  BY <1>1, <1>2, <1>8
<1>. QED
  BY <1>5, <1>6, <1>7, <1>9 DEF WorkInv
\* The head a body fixes: the first message behind the leading commands, if there is one.
LEMMA FirstOfRest ==
    ASSUME WorkInv
    PROVE  LET b == First(Beyond(queue, Leading(queue, Execs)))
           IN  Len(b) <= 1 /\ ToSet(b) \subseteq Messages /\ ToSet(b) \subseteq ToSet(queue)
<1>. DEFINE r == Beyond(queue, Leading(queue, Execs))
            b == First(r)
<1>. SUFFICES Len(b) <= 1 /\ ToSet(b) \subseteq Messages /\ ToSet(b) \subseteq ToSet(queue)
  OBVIOUS
<1>1. /\ r \in Seq(Entries) /\ queue \in Seq(Entries)
      /\ ToSet(r) \subseteq ToSet(queue)
  BY RunAndRest, RunAndRestEntries DEF WorkInv
<1>2. PICK n \in 0 .. Len(queue) :
          /\ Len(r) = Len(queue) - n
          /\ \A i \in 1 .. Len(queue) - n : r[i] = queue[n + i]
          /\ n = Len(queue) \/ queue[n + 1] \notin Execs
  BY <1>1, RunAndRest
<1>. HIDE DEF r
<1>3. CASE r = <<>>
  <2>1. b = <<>> /\ Len(b) = 0
    BY <1>3 DEF First
  <2>. QED
    BY <2>1 DEF ToSet
<1>4. CASE r # <<>>
  <2>1. Len(r) \in Nat /\ Len(r) # 0 /\ Len(queue) \in Nat
    BY <1>1, <1>4, EmptySeq
  <2>2. 1 \in 1 .. Len(queue) - n /\ n # Len(queue)
    BY <1>2, <2>1
  <2>3. Head(r) = r[1] /\ r[1] \notin Execs /\ r[1] \in Entries /\ r[1] \in ToSet(r)
    BY <1>1, <1>2, <1>4, <2>1, <2>2 DEF ToSet
  <2>4. b = <<Head(r)>> /\ Len(b) = 1 /\ ToSet(b) = {Head(r)}
    BY <1>4 DEF First, ToSet
  <2>. QED
    BY <1>1, <2>3, <2>4 DEF Entries
<1>. QED
  BY <1>3, <1>4

\* A batch is the part of the run that is still queued and still says something.
LEMMA BatchIsQueued ==
    ASSUME WorkInv, NEW t \in TurnIds
    PROVE  /\ ToSet(Batch(t))
                  = (ToSet(Run(t)) \cap ToSet(queue)) \ {m \in Textless : files[m] = "refused"}
           /\ ToSet(Run(t)) \subseteq Messages
           /\ ToSet(work[t].todo) = ToSet(Run(t)) \cup ToSet(Beyond(work[t].todo, Run(t)))
<1>1. work[t].todo \in Seq(Entries) /\ Run(t) \in Seq(Entries)
  BY StepSequences DEF WorkInv, WorkSet
<1>2. /\ Only(Run(t), ToSet(queue)) \in Seq(Entries)
      /\ ToSet(Only(Run(t), ToSet(queue))) = ToSet(Run(t)) \cap ToSet(queue)
  BY <1>1, OnlyEntries
<1>3. ToSet(Batch(t)) = ToSet(Only(Run(t), ToSet(queue))) \ {m \in Textless : files[m] = "refused"}
  BY <1>2, OnlyEntries DEF Batch, Run
<1>. QED
  BY <1>1, <1>2, <1>3, RunAndRestEntries DEF Run

\* Every step of a turn keeps what each point may hold.
LEMMA TurnKeepsHand ==
    ASSUME RegistryInv, WorkInv, HandInv, NEW t \in TurnIds, TurnStep(t)
    PROVE  HandInv'
<1>1. Moves(t) /\ Live(t) /\ Hand(t) /\ OthersRest(t) /\ work[t] \in WorkSet
  BY StepMoves, StepLeavesOthers, StepSequences DEF HandInv
<1>2. \A u \in TurnIds \ {t} : Hand(u)'
  <2>. SUFFICES ASSUME NEW u \in TurnIds \ {t} PROVE Hand(u)'
    OBVIOUS
  <2>1. work'[u] = Idle /\ turn'[u].pc \notin SyncPoints
    BY <1>1, Points DEF OthersRest, Handle, Live
  <2>. QED
    BY <2>1, IdleHands
<1>3. Hand(t)'
  <2>1. CASE Ends(t)
    BY <2>1, IdleHands, Points DEF Ends
  <2>2. CASE ~Ends(t)
    <3>. DEFINE w == work[t]
    <3>1. Live(t)'
      BY <1>1, <2>2, LivePointsNamed DEF Moves, Walks, Breaks, SeedLands, BatchLands, Persists,
         Peeks,
         Opens, Commits, Drains, Calls, Takes, Seeds, Onward, Live
    <3>2. CASE Walks(t)
      BY <1>1, <3>1, <3>2, Points DEF Hand, Walks, At, Onward, StillHolding, Uncalled
    <3>3. CASE Breaks(t)
      BY <1>1, <3>1, <3>3, Points DEF Hand, Breaks, At, Onward, StillHolding, Uncalled
    <3>4. CASE SeedLands(t)
      BY <1>1, <3>1, <3>4, Points DEF Hand, SeedLands, At, Onward, StillHolding, Uncalled
    <3>5. CASE BatchLands(t)
      BY <1>1, <3>1, <3>5, Points DEF Hand, BatchLands, At, Onward, StillHolding, Uncalled
    <3>6. ToSet(<<>>) = {} /\ Len(<<>>) = 0
      BY DEF ToSet
    <3>7. CASE Persists(t)
      BY <1>1, <3>1, <3>6, <3>7, Points DEF Hand, Persists, At, Onward, Holding, Uncalled
    <3>8. CASE Peeks(t)
      BY <1>1, <3>1, <3>8, Points DEF Hand, Peeks, At, Onward, Holding, Uncalled
    <3>9. CASE Opens(t)
      <4>1. /\ ToSet(Batch(t)) \subseteq ToSet(Leading(w.todo, Messages))
            /\ ToSet(Batch(t)) \subseteq Messages
        BY BatchIsQueued DEF Run
      <4>. QED
        BY <1>1, <3>1, <3>9, <4>1, Points DEF Hand, Opens, At, Onward, Holding, Uncalled
    <3>10. CASE Commits(t)
      BY <1>1, <3>1, <3>6, <3>10, Points DEF Hand, Commits, At, Onward, Holding, Uncalled
    <3>11. CASE Drains(t)
      BY <1>1, <3>1, <3>11, Points DEF Hand, Drains, At, Onward, Holding, Uncalled
    <3>12. CASE Calls(t)
      BY <1>1, <3>1, <3>12, Points DEF Hand, Calls, At, Onward, Holding, Uncalled
    <3>13. CASE Takes(t)
      BY <1>1, <3>1, <3>13, Points, FirstOfRest DEF Hand, Takes, At, Onward, Holding, Uncalled
    <3>14. CASE Seeds(t)
      BY <1>1, <3>1, <3>6, <3>14, Points DEF Hand, Seeds, At, Onward, Holding, Uncalled
    <3>. QED
      BY <1>1, <2>2, <3>2, <3>3, <3>4, <3>5, <3>7, <3>8, <3>9, <3>10, <3>11, <3>12, <3>13, <3>14
      DEF Moves
  <2>. QED
    BY <2>1, <2>2
<1>. QED
  BY <1>2, <1>3 DEF HandInv

\* The steps that are no turn's keep it too.
LEMMA OthersKeepHand ==
    ASSUME RegistryInv, WorkInv, HandInv, [Next]_vars, \A t \in TurnIds : ~TurnStep(t)
    PROVE  WorkInv' /\ HandInv'
<1>1. CASE Starts
  <2>1. PICK k \in Kinds, p \in LivePoints, s \in Seq(Entries) :
            /\ Reserve(k, p, [Idle EXCEPT !.seed = s])
            /\ UNCHANGED <<queue, effects, accepted>>
            /\ \/ /\ s = <<>>
                  /\ p = "handler" \/ (p = "sync_run" /\ k = "edit")
               \/ \E e \in Entries : /\ s = <<e>>
                                     /\ \/ p = "handler" /\ k = "chat" /\ e \in Messages
                                        \/ p = "sync_start" /\ k = "exec" /\ e \in Execs
    BY <1>1 DEF Starts
  <2>2. PICK n \in TurnIds :
        /\ work' = [work EXCEPT ![n] = [Idle EXCEPT !.seed = s]]
        /\ turn' = [turn EXCEPT ![n] = Handle(k, p)]
        /\ work \in [TurnIds -> WorkSet] /\ turn \in [TurnIds -> HandleSet]
    BY <2>1 DEF Reserve, WorkInv, RegistryInv, RegistryTypeOK, HandleSet
  <2>3. [Idle EXCEPT !.seed = s] = [seed |-> s, todo |-> <<>>, batch |-> <<>>, calls |-> 0]
    BY DEF Idle
  <2>4. work'[n] = [seed |-> s, todo |-> <<>>, batch |-> <<>>, calls |-> 0]
        /\ work'[n] \in WorkSet
    <3>1. work'[n] = [seed |-> s, todo |-> <<>>, batch |-> <<>>, calls |-> 0]
      BY <2>2, <2>3
    <3>2. <<>> \in Seq(Entries) /\ 0 \in 0 .. MaxIter /\ s \in Seq(Entries)
      BY EmptySeq, BoundsAssumption
    <3>. QED
      BY <3>1, <3>2 DEF WorkSet
  <2>5. WorkInv'
    BY <2>1, <2>2, <2>4 DEF WorkInv, effects
  <2>6. ToSet(<<>>) = {} /\ Len(<<>>) = 0
    BY DEF ToSet
  <2>7. Len(s) <= 1 /\ ToSet(s) \subseteq IF p \in SyncPoints THEN Execs ELSE Messages
    <3>1. CASE s = <<>>
      BY <2>6, <3>1
    <3>2. ASSUME NEW e \in Entries, s = <<e>>, p = "handler", e \in Messages PROVE <2>7!1 /\ <2>7!2
      BY <3>2, Points DEF ToSet
    <3>3. ASSUME NEW e \in Entries, s = <<e>>, p = "sync_start", e \in Execs PROVE <2>7!1 /\ <2>7!2
      BY <3>3, Points DEF ToSet
    <3>. QED
      BY <2>1, <3>1, <3>2, <3>3
  <2>8. turn'[n].pc = p /\ turn'[n].kind = k
    BY <2>2 DEF Handle
  <2>9. Hand(n)'
    <3>1. /\ work'[n].seed = s /\ work'[n].batch = <<>>
          /\ work'[n].calls = 0
      BY <2>4
    <3>2. p \in {"handler", "sync_run", "sync_start"} /\ (s # <<>> => p # "sync_run")
          /\ (p # "handler" => k \in {"edit", "exec"})
      BY <2>1
    <3>. QED
      BY <2>6, <2>7, <2>8, <3>1, <3>2, Points, BoundsAssumption DEF Hand, At, Uncalled, Live
  <2>10. \A u \in TurnIds \ {n} : Hand(u)'
    BY <2>2 DEF HandInv, Hand, At, Live
  <2>11. HandInv'
    BY <2>2, <2>9, <2>10 DEF HandInv
  <2>. QED
    BY <2>5, <2>11
<1>2. CASE Enqueues
  <2>1. PICK e \in Entries : Enqueue(e)
    BY <1>2 DEF Enqueues
  <2>2. WorkInv'
    BY <2>1, AppendProperties DEF WorkInv, Enqueue, effects
  <2>3. HandInv'
    BY <2>1 DEF HandInv, Hand, At, Live, Enqueue, registry
  <2>. QED
    BY <2>2, <2>3
<1>3. CASE Rests
  BY <1>3 DEF Rests, WorkInv, HandInv, Hand, At, Live, registry, effects, owner
<1>4. CASE \E e \in Entries : DeleteSteer(e)
  <2>1. PICK e \in Entries : DeleteSteer(e)
    BY <1>4
  <2>2. WorkInv'
    BY <2>1, OnlyEntries DEF WorkInv, DeleteSteer, effects
  <2>3. HandInv'
    BY <2>1 DEF HandInv, Hand, At, Live, DeleteSteer, registry
  <2>. QED
    BY <2>2, <2>3
<1>5. CASE \/ Shutdown
           \/ \E scope \in 0 .. nextTurn - 1 : Stop(scope)
           \/ \E i \in StopIds : StopCancels(i)
  <2>1. UNCHANGED <<work, applied, accepted>> /\ (queue' = queue \/ queue' = <<>>)
    BY <1>5 DEF Shutdown, Stop, StopRefused, StopHarvests, StopCancels, effects, owner
  <2>2. \A u \in TurnIds : Latches(u)
    BY <1>5, StopLatches
  <2>3. WorkInv'
    BY <2>1, EmptySeq DEF WorkInv
  <2>4. HandInv'
    BY <2>1, <2>2 DEF HandInv, Hand, At, Live, Latches
  <2>. QED
    BY <2>3, <2>4
<1>. QED
  BY <1>1, <1>2, <1>3, <1>4, <1>5, OtherSteps

\* The entries of the sequences the steps build.
LEMMA JoinedEntries ==
    ASSUME NEW T, NEW r \in Seq(T), NEW s \in Seq(T)
    PROVE  ToSet(r \o s) = ToSet(r) \cup ToSet(s)
<1>1. /\ r \o s \in Seq(T) /\ Len(r \o s) = Len(r) + Len(s) /\ Len(r) \in Nat /\ Len(s) \in Nat
      /\ \A i \in 1 .. Len(r) + Len(s) : (r \o s)[i] = IF i <= Len(r) THEN r[i] ELSE s[i - Len(r)]
  BY ConcatProperties
<1>2. DOMAIN r = 1 .. Len(r) /\ DOMAIN s = 1 .. Len(s) /\ DOMAIN (r \o s) = 1 .. Len(r) + Len(s)
  BY <1>1
<1>3. ASSUME NEW i \in 1 .. Len(r) PROVE r[i] \in ToSet(r \o s)
  <2>1. i \in 1 .. Len(r) + Len(s) /\ (r \o s)[i] = r[i]
    BY <1>1
  <2>. QED
    BY <1>2, <2>1 DEF ToSet
<1>4. ASSUME NEW i \in 1 .. Len(s) PROVE s[i] \in ToSet(r \o s)
  <2>1. /\ Len(r) + i \in 1 .. Len(r) + Len(s) /\ ~(Len(r) + i <= Len(r))
        /\ (Len(r) + i) - Len(r) = i
    BY <1>1
  <2>2. (r \o s)[Len(r) + i] = s[i]
    BY <1>1, <2>1
  <2>. QED
    BY <1>2, <2>1, <2>2 DEF ToSet
<1>5. ASSUME NEW i \in 1 .. Len(r) + Len(s) PROVE (r \o s)[i] \in ToSet(r) \cup ToSet(s)
  <2>1. CASE i <= Len(r)
    BY <1>1, <1>2, <2>1 DEF ToSet
  <2>2. CASE ~(i <= Len(r))
    <3>1. i - Len(r) \in 1 .. Len(s) /\ (r \o s)[i] = s[i - Len(r)]
      BY <1>1, <2>2
    <3>. QED
      BY <1>2, <3>1 DEF ToSet
  <2>. QED
    BY <2>1, <2>2
<1>. QED
  BY <1>2, <1>3, <1>4, <1>5 DEF ToSet

\* A sequence that is not empty holds its head and its tail.
LEMMA HeadAndRest ==
    ASSUME NEW T, NEW s \in Seq(T), s # <<>>
    PROVE  /\ Head(s) \in T /\ Tail(s) \in Seq(T) /\ Head(s) \in ToSet(s)
           /\ Head(s) = s[1] /\ Len(s) \in Nat \ {0}
           /\ Len(Tail(s)) = Len(s) - 1 /\ \A i \in 1 .. Len(s) - 1 : Tail(s)[i] = s[i + 1]
           /\ ToSet(s) = {Head(s)} \cup ToSet(Tail(s))
           /\ Len(s) <= 1 => s = <<Head(s)>> /\ ToSet(s) = {Head(s)}
<1>1. /\ Head(s) \in T /\ Tail(s) \in Seq(T) /\ Len(s) \in Nat \ {0} /\ Head(s) = s[1]
      /\ Len(Tail(s)) = Len(s) - 1 /\ \A i \in 1 .. Len(s) - 1 : Tail(s)[i] = s[i + 1]
  BY EmptySeq, HeadTailProperties
<1>2. DOMAIN s = 1 .. Len(s) /\ DOMAIN Tail(s) = 1 .. Len(s) - 1
  BY <1>1
<1>3. Head(s) \in ToSet(s)
  BY <1>1, <1>2 DEF ToSet
<1>4. ToSet(Tail(s)) \subseteq ToSet(s)
  BY <1>1, <1>2 DEF ToSet
<1>5. ASSUME NEW i \in 1 .. Len(s) PROVE s[i] \in {Head(s)} \cup ToSet(Tail(s))
  <2>1. CASE i = 1
    BY <1>1, <2>1
  <2>2. CASE i # 1
    <3>1. i - 1 \in 1 .. Len(s) - 1 /\ (i - 1) + 1 = i
      BY <1>1, <2>2
    <3>. QED
      BY <1>1, <1>2, <3>1 DEF ToSet
  <2>. QED
    BY <2>1, <2>2
<1>6. ToSet(s) = {Head(s)} \cup ToSet(Tail(s))
  BY <1>2, <1>3, <1>4, <1>5 DEF ToSet
<1>7. ASSUME Len(s) <= 1 PROVE s = <<Head(s)>> /\ ToSet(s) = {Head(s)}
  <2>1. Len(s) = 1
    BY <1>1, <1>7
  <2>2. s = <<Head(s)>>
    BY <1>1, <2>1
  <2>. QED
    BY <1>1, <1>2, <2>1, <2>2 DEF ToSet
<1>. QED
  BY <1>1, <1>3, <1>6, <1>7

\* Appending is joining a sequence of one.
LEMMA AppendedEntries ==
    ASSUME NEW T, NEW s \in Seq(T), NEW e \in T
    PROVE  /\ Append(s, e) = s \o <<e>> /\ Append(s, e) \in Seq(T)
           /\ Len(Append(s, e)) = Len(s) + 1 /\ Append(s, e)[Len(s) + 1] = e
           /\ \A i \in 1 .. Len(s) : Append(s, e)[i] = s[i]
           /\ ToSet(Append(s, e)) = ToSet(s) \cup {e}
<1>1. /\ Append(s, e) \in Seq(T) /\ Len(Append(s, e)) = Len(s) + 1 /\ Append(s, e)[Len(s) + 1] = e
      /\ \A i \in 1 .. Len(s) : Append(s, e)[i] = s[i]
  BY AppendProperties
<1>2. Append(s, e) = s \o <<e>>
  BY AppendIsConcat
<1>3. <<e>> \in Seq(T) /\ ToSet(<<e>>) = {e}
  BY DEF ToSet
<1>4. ToSet(s \o <<e>>) = ToSet(s) \cup ToSet(<<e>>)
  BY ZenonT(30), <1>3, JoinedEntries
<1>. QED
  BY <1>1, <1>2, <1>3, <1>4

\* Appending an entry adds it to the entries held.
LEMMA AppendedSet ==
    \A s \in Seq(Entries), e \in Entries : ToSet(Append(s, e)) = ToSet(s) \cup {e}
<1>. SUFFICES ASSUME NEW s \in Seq(Entries), NEW e \in Entries
              PROVE  ToSet(Append(s, e)) = ToSet(s) \cup {e}
  OBVIOUS
<1>1. <<e>> \in Seq(Entries) /\ ToSet(<<e>>) = {e}
  BY DEF ToSet
<1>2. ToSet(s \o <<e>>) = ToSet(s) \cup ToSet(<<e>>)
  BY ZenonT(30), <1>1, JoinedEntries
<1>3. Append(s, e) = s \o <<e>>
  BY AppendIsConcat
<1>. QED
  BY <1>1, <1>2, <1>3

\* What a step of a turn does to the entries the queue, the log and its hands hold.
LEMMA StepEntries ==
    ASSUME RegistryInv, WorkInv, HandInv, NEW t \in TurnIds, TurnStep(t)
    PROVE  /\ ToSet(queue') \subseteq ToSet(queue)
           /\ ToSet(applied) \subseteq ToSet(applied')
           /\ \A e \in ToSet(applied') :
                  \/ e \in ToSet(applied) \cup ToSet(work[t].seed)
                  \/ e \in ToSet(work[t].todo) \cap ToSet(queue)
                  \/ e \in ToSet(work[t].batch) /\ At(t, {"txn"})
           /\ \/ ToSet(work'[t].seed) \subseteq ToSet(work[t].seed)
              \/ ToSet(work'[t].seed) \subseteq ToSet(queue) \ ToSet(queue')
           /\ ToSet(work'[t].todo) \subseteq ToSet(work[t].todo) \cup ToSet(queue)
           /\ ToSet(work'[t].batch) \subseteq ToSet(work[t].batch) \cup ToSet(queue)
<1>1. Moves(t) /\ Hand(t)
  BY StepMoves DEF HandInv
<1>2. /\ queue \in Seq(Entries) /\ applied \in Seq(Entries) /\ work[t] \in WorkSet
      /\ Run(t) \in Seq(Entries) /\ work[t].seed \in Seq(Entries)
      /\ work[t].todo \in Seq(Entries) /\ work[t].batch \in Seq(Entries)
  BY StepSequences DEF WorkInv, WorkSet
<1>3. \A S : ToSet(Without(queue, S)) = ToSet(queue) \ S
  BY <1>2, OnlyEntries
<1>4. /\ ToSet(applied \o work[t].seed) = ToSet(applied) \cup ToSet(work[t].seed)
      /\ ToSet(applied \o work[t].batch) = ToSet(applied) \cup ToSet(work[t].batch)
  BY <1>2, JoinedEntries
<1>5. work[t].todo # <<>> =>
          /\ Head(work[t].todo) \in ToSet(work[t].todo)
          /\ ToSet(Tail(work[t].todo)) \subseteq ToSet(work[t].todo)
          /\ ToSet(Append(applied, Head(work[t].todo))) = ToSet(applied) \cup {Head(work[t].todo)}
  <2>. SUFFICES ASSUME work[t].todo # <<>>
                PROVE  /\ Head(work[t].todo) \in ToSet(work[t].todo)
                       /\ ToSet(Tail(work[t].todo)) \subseteq ToSet(work[t].todo)
                       /\ ToSet(Append(applied, Head(work[t].todo)))
                              = ToSet(applied) \cup {Head(work[t].todo)}
    OBVIOUS
  <2>1. /\ Head(work[t].todo) \in Entries /\ Head(work[t].todo) \in ToSet(work[t].todo)
        /\ ToSet(work[t].todo) = {Head(work[t].todo)} \cup ToSet(Tail(work[t].todo))
    BY <1>2, HeadAndRest
  <2>2. ASSUME NEW e \in Entries PROVE ToSet(Append(applied, e)) = ToSet(applied) \cup {e}
    BY <1>2, AppendedSet
  <2>. QED
    BY <2>1, <2>2
<1>6. ToSet(<<>>) = {}
  BY DEF ToSet
<1>7. /\ ToSet(Batch(t)) \subseteq ToSet(queue)
      /\ ToSet(Beyond(work[t].todo, Run(t))) \subseteq ToSet(work[t].todo)
  BY BatchIsQueued
<1>8. /\ ToSet(Leading(queue, Execs)) \subseteq ToSet(queue)
      /\ ToSet(First(Beyond(queue, Leading(queue, Execs)))) \subseteq ToSet(queue)
  BY <1>2, RunAndRestEntries, FirstOfRest
<1>9. At(t, BodyPoints) /\ work[t].batch # <<>> => ToSet(work[t].batch) = {Head(work[t].batch)}
  BY <1>1, <1>2, HeadAndRest DEF Hand
<1>10. CASE Walks(t) \/ Breaks(t) \/ Calls(t)
  BY <1>2, <1>10 DEF Walks, Breaks, Calls, StillHolding, Holding
<1>11. CASE SeedLands(t) \/ BatchLands(t)
  BY <1>2, <1>4, <1>11 DEF SeedLands, BatchLands, StillHolding
<1>12. CASE Persists(t)
  BY <1>2, <1>4, <1>6, <1>12 DEF Persists, Holding
<1>13. CASE Peeks(t) \/ Opens(t) \/ Takes(t)
  BY <1>2, <1>7, <1>8, <1>13 DEF Peeks, Opens, Takes, Holding
<1>14. CASE Commits(t)
  BY <1>2, <1>3, <1>4, <1>6, <1>7, <1>14 DEF Commits, Holding
<1>15. CASE Drains(t)
  <2>1. /\ Head(work[t].todo) \in ToSet(work[t].todo)
        /\ ToSet(Tail(work[t].todo)) \subseteq ToSet(work[t].todo)
        /\ ToSet(Append(applied, Head(work[t].todo))) = ToSet(applied) \cup {Head(work[t].todo)}
    BY <1>5, <1>15 DEF Drains
  <2>2. /\ work'[t].seed = work[t].seed /\ work'[t].todo = Tail(work[t].todo)
        /\ work'[t].batch = work[t].batch
    BY <1>15 DEF Drains, Holding
  <2>3. ToSet(queue') \subseteq ToSet(queue)
    BY <1>3, <1>15 DEF Drains
  <2>4. applied' = applied \/ (Head(work[t].todo) \in ToSet(queue)
                                /\ applied' = Append(applied, Head(work[t].todo)))
    BY <1>15 DEF Drains
  <2>. QED
    BY <2>1, <2>2, <2>3, <2>4
<1>16. CASE Seeds(t)
  <2>1. ToSet(work[t].batch) \subseteq ToSet(queue)
    BY <1>9, <1>16, Points DEF Seeds, At
  <2>. QED
    BY <1>2, <1>3, <1>6, <1>16, <2>1 DEF Seeds, Holding
<1>17. CASE Ends(t)
  <2>1. work'[t].seed = <<>> /\ work'[t].todo = <<>> /\ work'[t].batch = <<>> /\ applied' = applied
    BY <1>17 DEF Ends, Idle
  <2>2. ToSet(queue') \subseteq ToSet(queue)
    <3>1. CASE UNCHANGED queue
      BY <3>1
    <3>2. CASE /\ At(t, {"body"}) /\ work[t].batch # <<>> /\ Head(work[t].batch) \in ToSet(queue)
               /\ queue' = Requeued(work[t].batch)
      <4>1. /\ ToSet(work[t].batch) \subseteq ToSet(queue)
            /\ Without(queue, ToSet(work[t].batch)) \in Seq(Entries)
        BY <1>2, <1>9, <3>2, Points, OnlyEntries DEF At
      <4>2. ToSet(queue') = ToSet(work[t].batch) \cup ToSet(Without(queue, ToSet(work[t].batch)))
        BY <1>2, <3>2, <4>1, JoinedEntries DEF Requeued
      <4>. QED
        BY <1>3, <4>1, <4>2
    <3>. QED
      BY <1>17, <3>1, <3>2 DEF Ends
  <2>. QED
    BY <1>6, <2>1, <2>2
<1>. QED
  BY <1>1, <1>10, <1>11, <1>12, <1>13, <1>14, <1>15, <1>16, <1>17 DEF Moves

-----------------------------------------------------------------------------
\* Where the entries are: nobody holds what was taken back, and only what was accepted
\* is queued or drained.
Back == unsent \cup handed
Where(t) ==
    /\ ToSet(work[t].seed) \subseteq used
    /\ ToSet(work[t].seed) \cap (ToSet(queue) \cup Back) = {}
    /\ ToSet(work[t].todo) \cup ToSet(work[t].batch) \subseteq ToSet(accepted)
WhereInv ==
    /\ ToSet(queue) \cup ToSet(applied) \cup Back \cup ToSet(accepted) \subseteq used
    /\ ToSet(queue) \subseteq ToSet(accepted)
    /\ ToSet(queue) \cap Back = {}
    /\ \A t \in TurnIds : Where(t)

\* Every step of a turn keeps the entries in their places, and runs no command taken back.
LEMMA TurnKeepsWhere ==
    ASSUME RegistryInv, WorkInv, HandInv, WhereInv, NEW t \in TurnIds, TurnStep(t)
    PROVE  WhereInv' /\ (UnsentNeverRuns => UnsentNeverRuns')
<1>1. /\ Hand(t) /\ OthersRest(t) /\ Where(t)
      /\ UNCHANGED <<accepted, used, unsent, handed>>
  BY StepMoves, StepLeavesOthers DEF HandInv, WhereInv, owner, harvest
<1>2. /\ ToSet(queue') \subseteq ToSet(queue)
      /\ \A e \in ToSet(applied') :
             \/ e \in ToSet(applied) \cup ToSet(work[t].seed)
             \/ e \in ToSet(work[t].todo) \cap ToSet(queue)
             \/ e \in ToSet(work[t].batch)
      /\ \/ ToSet(work'[t].seed) \subseteq ToSet(work[t].seed)
         \/ ToSet(work'[t].seed) \subseteq ToSet(queue) \ ToSet(queue')
      /\ ToSet(work'[t].todo) \subseteq ToSet(work[t].todo) \cup ToSet(queue)
      /\ ToSet(work'[t].batch) \subseteq ToSet(work[t].batch) \cup ToSet(queue)
  BY StepEntries
<1>3. Where(t)'
  BY <1>1, <1>2 DEF Where, WhereInv, Back
<1>4. ASSUME NEW u \in TurnIds \ {t} PROVE Where(u)'
  <2>1. ToSet(<<>>) = {} /\ work'[u] = Idle
    BY <1>1 DEF ToSet, OthersRest
  <2>. QED
    BY <2>1 DEF Where, Idle
<1>5. ToSet(applied') \subseteq used
  BY <1>1, <1>2 DEF Where, WhereInv
<1>6. WhereInv'
  BY <1>1, <1>2, <1>3, <1>4, <1>5 DEF WhereInv, Back
<1>7. ASSUME UnsentNeverRuns PROVE UnsentNeverRuns'
  BY <1>1, <1>2, <1>7, BoundsAssumption DEF UnsentNeverRuns, Where, WhereInv, Back, Hand
<1>. QED
  BY <1>6, <1>7

\* The harvest of a Stop and a DELETE, as they meet the queue: what leaves it is taken back.
TakesBack ==
    /\ UNCHANGED <<work, applied, accepted, used, files, dropped, lost>>
    /\ ~shuttingDown /\ UNCHANGED shuttingDown
    /\ queue' \in Seq(Entries)
    /\ ToSet(queue') \subseteq ToSet(queue)
    /\ unsent' \cup handed' = unsent \cup handed \cup (ToSet(queue) \ ToSet(queue'))
    /\ \/ queue' = queue \/ queue' = <<>>
       \/ \E e : queue' = Without(queue, {e}) /\ UNCHANGED <<registry, harvest>>

\* A Stop's harvest and a DELETE take back exactly what they take off the queue.
LEMMA StopTakesBack ==
    ASSUME WorkInv,
           \/ \E scope \in 0 .. nextTurn - 1 : Stop(scope)
           \/ \E e \in Entries : DeleteSteer(e)
    PROVE  TakesBack
<1>1. queue \in Seq(Entries) /\ <<>> \in Seq(Entries) /\ ToSet(<<>>) = {}
  BY EmptySeq DEF WorkInv, ToSet
<1>2. ASSUME NEW e \in Entries, DeleteSteer(e) PROVE TakesBack
  <2>1. ToSet(queue') = ToSet(queue) \ {e} /\ queue' \in Seq(Entries)
    BY <1>1, <1>2, OnlyEntries DEF DeleteSteer
  <2>. QED
    BY <1>2, <2>1 DEF DeleteSteer, TakesBack, effects, harvest, environment, OwnerMayAct
<1>3. ASSUME NEW scope, Stop(scope) PROVE TakesBack
  <2>1. CASE StopRefused(nextStop, scope)
    BY <1>1, <1>3, <2>1 DEF Stop, StopRefused, TakesBack, effects, owner, environment, OwnerMayAct
  <2>2. CASE StopHarvests(nextStop, scope)
    BY <1>1, <1>3, <2>2 DEF Stop, StopHarvests, TakesBack, effects, owner, environment, OwnerMayAct
  <2>. QED
    BY <1>3, <2>1, <2>2 DEF Stop
<1>. QED
  BY <1>2, <1>3

\* The steps that are no turn's keep the entries in their places.
LEMMA OthersKeepWhere ==
    ASSUME RegistryInv, WorkInv, HandInv, WhereInv, [Next]_vars, \A t \in TurnIds : ~TurnStep(t)
    PROVE  WhereInv'
<1>0. ToSet(<<>>) = {} /\ \A e : ToSet(<<e>>) = {e}
  BY DEF ToSet
<1>1. CASE Starts
  <2>1. PICK k \in Kinds, p \in LivePoints, s \in Seq(Entries) :
            /\ Reserve(k, p, [Idle EXCEPT !.seed = s])
            /\ UNCHANGED <<queue, applied, accepted, unsent, handed>>
            /\ \/ s = <<>> /\ UNCHANGED used
               \/ \E e \in Entries \ used : s = <<e>> /\ used' = used \cup {e}
    BY <1>1 DEF Starts, effects
  <2>2. PICK n \in TurnIds : work' = [work EXCEPT ![n] = [Idle EXCEPT !.seed = s]]
    BY <2>1 DEF Reserve
  <2>3. work'[n].seed = s /\ work'[n].todo = <<>> /\ work'[n].batch = <<>>
    BY <2>2 DEF WorkInv, Idle
  <2>4. \A u \in TurnIds \ {n} : work'[u] = work[u]
    BY <2>2 DEF WorkInv
  <2>5. used \subseteq used' /\ ToSet(s) \subseteq used' /\ ToSet(s) \cap used = {}
    BY <1>0, <2>1
  <2>6. Where(n)'
    BY <1>0, <2>1, <2>3, <2>5 DEF Where, WhereInv, Back
  <2>7. \A u \in TurnIds \ {n} : Where(u)'
    BY <2>1, <2>4, <2>5 DEF Where, WhereInv, Back
  <2>. QED
    BY <2>1, <2>5, <2>6, <2>7 DEF WhereInv, Back
<1>2. CASE Enqueues
  <2>1. PICK e \in Entries \ used : Enqueue(e)
    BY <1>2 DEF Enqueues
  <2>0. \A s \in Seq(Entries) : ToSet(Append(s, e)) = ToSet(s) \cup {e}
    BY AppendedSet
  <2>2. /\ ToSet(queue') = ToSet(queue) \cup {e} /\ ToSet(accepted') = ToSet(accepted) \cup {e}
        /\ used' = used \cup {e} /\ UNCHANGED <<work, applied, unsent, handed>>
    BY <2>0, <2>1 DEF Enqueue, WorkInv, effects, harvest
  <2>3. \A u \in TurnIds : Where(u)'
    BY <2>2 DEF Where, WhereInv, Back
  <2>. QED
    BY <2>2, <2>3 DEF WhereInv, Back
<1>3. CASE Rests
  BY <1>3 DEF Rests, WhereInv, Where, Back, effects, owner
<1>4. CASE TakesBack
  BY <1>4 DEF TakesBack, WhereInv, Where, Back
<1>5. CASE Shutdown \/ \E i \in StopIds : StopCancels(i)
  BY <1>5 DEF Shutdown, StopCancels, WhereInv, Where, Back, effects, owner, harvest
<1>. QED
  BY <1>1, <1>2, <1>3, <1>4, <1>5, OtherSteps, StopTakesBack

-----------------------------------------------------------------------------
\* The line: the order in which steers were accepted, and who stands where in it.
Ord(e) == CHOOSE i \in DOMAIN accepted : accepted[i] = e
AcceptedOnce == \A i, j \in DOMAIN accepted : accepted[i] = accepted[j] => i = j
Sorted(s) == \A i, j \in DOMAIN s : i < j => Ord(s[i]) < Ord(s[j])
Before(A, B) == \A a \in A, b \in B : Ord(a) < Ord(b)

\* An accepted entry has a place in the order of the 202s.
LEMMA OrdIsPlace ==
    ASSUME WorkInv, NEW e \in ToSet(accepted)
    PROVE  Ord(e) \in 1 .. Len(accepted) /\ Ord(e) \in Nat /\ accepted[Ord(e)] = e
<1>1. DOMAIN accepted = 1 .. Len(accepted) /\ Len(accepted) \in Nat
  BY DEF WorkInv
<1>2. \E i \in DOMAIN accepted : accepted[i] = e
  BY DEF ToSet
<1>3. Ord(e) \in DOMAIN accepted /\ accepted[Ord(e)] = e
  BY <1>2 DEF Ord
<1>. QED
  BY <1>1, <1>3

\* What the steps take out of a sorted sequence is sorted, and keeps its place.
LEMMA SortedOnly ==
    ASSUME NEW s \in Seq(Entries), Sorted(s), NEW S
    PROVE  Sorted(Only(s, S)) /\ Sorted(Without(s, S))
<1>1. ASSUME NEW U PROVE Sorted(Only(s, U))
  <2>. DEFINE r == Only(s, U)
  <2>1. PICK g : KeepsPlaces(r, s, U, g)
    BY OnlyKeeps
  <2>2. r \in Seq(Entries)
    BY OnlyKeeps
  <2>. HIDE DEF r
  <2>3. DOMAIN s = 1 .. Len(s) /\ DOMAIN r = 1 .. Len(r)
    BY <2>2
  <2>4. ASSUME NEW i \in 1 .. Len(r), NEW j \in 1 .. Len(r), i < j
        PROVE  Ord(r[i]) < Ord(r[j])
    <3>1. g[i] \in 1 .. Len(s) /\ g[j] \in 1 .. Len(s) /\ g[i] < g[j]
          /\ r[i] = s[g[i]] /\ r[j] = s[g[j]]
      BY <2>1, <2>4 DEF KeepsPlaces
    <3>. QED
      BY <2>3, <3>1 DEF Sorted
  <2>5. Sorted(r)
    BY <2>3, <2>4 DEF Sorted
  <2>. QED
    BY <2>5 DEF r
<1>. QED
  BY <1>1 DEF Without

\* The two parts of a sorted sequence are sorted, and stand one before the other.
LEMMA SortedRun ==
    ASSUME NEW s \in Seq(Entries), Sorted(s), NEW S
    PROVE  /\ Sorted(Leading(s, S)) /\ Sorted(Beyond(s, Leading(s, S)))
           /\ Before(ToSet(Leading(s, S)), ToSet(Beyond(s, Leading(s, S))))
<1>. DEFINE r == Leading(s, S)
            b == Beyond(s, r)
<1>. SUFFICES Sorted(r) /\ Sorted(b) /\ Before(ToSet(r), ToSet(b))
  OBVIOUS
<1>1. PICK n \in 0 .. Len(s) :
          /\ Len(r) = n /\ Len(b) = Len(s) - n
          /\ \A i \in 1 .. n : r[i] = s[i] /\ s[i] \in S
          /\ \A i \in 1 .. Len(s) - n : b[i] = s[n + i]
  BY RunAndRest
<1>2. r \in Seq(Entries) /\ b \in Seq(Entries) /\ Len(s) \in Nat /\ DOMAIN s = 1 .. Len(s)
  BY RunAndRest
<1>. HIDE DEF r, b
<1>3. DOMAIN r = 1 .. n /\ DOMAIN b = 1 .. Len(s) - n
  BY <1>1, <1>2
<1>4. Sorted(r)
  BY <1>1, <1>2, <1>3 DEF Sorted
<1>5. \A i \in 1 .. Len(s) - n : n + i \in 1 .. Len(s)
  BY <1>2
<1>6. ASSUME NEW i \in 1 .. Len(s) - n, NEW j \in 1 .. Len(s) - n, i < j
      PROVE  Ord(b[i]) < Ord(b[j])
  <2>1. n + i < n + j /\ b[i] = s[n + i] /\ b[j] = s[n + j]
    BY <1>1, <1>2, <1>6
  <2>. QED
    BY <1>2, <1>5, <2>1 DEF Sorted
<1>7. ASSUME NEW i \in 1 .. n, NEW j \in 1 .. Len(s) - n PROVE Ord(r[i]) < Ord(b[j])
  <2>1. i \in 1 .. Len(s) /\ i < n + j /\ r[i] = s[i] /\ b[j] = s[n + j]
    BY <1>1, <1>2
  <2>. QED
    BY <1>2, <1>5, <2>1 DEF Sorted
<1>8. Sorted(b)
  BY <1>3, <1>6 DEF Sorted
<1>9. Before(ToSet(r), ToSet(b))
  BY <1>3, <1>7 DEF Before, ToSet
<1>. QED
  BY <1>4, <1>8, <1>9

\* The tail of a sorted sequence is sorted and stands behind its head.
LEMMA SortedTail ==
    ASSUME NEW s \in Seq(Entries), Sorted(s), s # <<>>
    PROVE  Sorted(Tail(s)) /\ Before({Head(s)}, ToSet(Tail(s)))
<1>1. /\ Tail(s) \in Seq(Entries) /\ Head(s) = s[1] /\ Len(s) \in Nat \ {0}
      /\ Len(Tail(s)) = Len(s) - 1 /\ \A i \in 1 .. Len(s) - 1 : Tail(s)[i] = s[i + 1]
  BY HeadAndRest
<1>2. DOMAIN s = 1 .. Len(s) /\ DOMAIN Tail(s) = 1 .. Len(s) - 1
  BY <1>1
<1>3. \A i \in 1 .. Len(s) - 1 : i + 1 \in 1 .. Len(s) /\ 1 < i + 1 /\ 1 \in 1 .. Len(s)
  BY <1>1
<1>4. \A i \in 1 .. Len(s) - 1 : Ord(s[1]) < Ord(Tail(s)[i])
  BY <1>1, <1>2, <1>3 DEF Sorted
<1>5. ASSUME NEW i \in 1 .. Len(s) - 1, NEW j \in 1 .. Len(s) - 1, i < j
      PROVE  Ord(Tail(s)[i]) < Ord(Tail(s)[j])
  <2>1. i + 1 < j + 1
    BY <1>5
  <2>. QED
    BY <1>1, <1>2, <1>3, <2>1 DEF Sorted
<1>6. Before({Head(s)}, ToSet(Tail(s)))
  BY <1>1, <1>2, <1>4 DEF Before, ToSet
<1>. QED
  BY <1>2, <1>5, <1>6 DEF Sorted

\* A sequence of at most one entry is sorted.
LEMMA SortedShort ==
    ASSUME NEW s \in Seq(Entries), Len(s) <= 1
    PROVE  Sorted(s)
<1>1. DOMAIN s = 1 .. Len(s) /\ Len(s) \in Nat
  OBVIOUS
<1>2. \A i, j \in DOMAIN s : ~(i < j)
  BY <1>1
<1>. QED
  BY <1>2 DEF Sorted

\* Two sorted sequences that stand one before the other join to a sorted one.
LEMMA SortedJoin ==
    ASSUME NEW r \in Seq(Entries), NEW s \in Seq(Entries), Sorted(r), Sorted(s),
           Before(ToSet(r), ToSet(s))
    PROVE  Sorted(r \o s)
<1>1. /\ r \o s \in Seq(Entries) /\ Len(r \o s) = Len(r) + Len(s)
      /\ Len(r) \in Nat /\ Len(s) \in Nat
      /\ \A i \in 1 .. Len(r) + Len(s) : (r \o s)[i] = IF i <= Len(r) THEN r[i] ELSE s[i - Len(r)]
  BY ConcatProperties
<1>. DEFINE q == r \o s
<1>2. DOMAIN r = 1 .. Len(r) /\ DOMAIN s = 1 .. Len(s) /\ DOMAIN q = 1 .. Len(r) + Len(s)
  BY <1>1
<1>3. ASSUME NEW i \in 1 .. Len(r) + Len(s), NEW j \in 1 .. Len(r) + Len(s), i < j
      PROVE  Ord(q[i]) < Ord(q[j])
  <2>1. CASE j <= Len(r)
    <3>1. i \in 1 .. Len(r) /\ j \in 1 .. Len(r) /\ q[i] = r[i] /\ q[j] = r[j]
      BY <1>1, <1>3, <2>1
    <3>. QED
      BY <1>2, <1>3, <3>1 DEF Sorted
  <2>2. CASE i <= Len(r) /\ ~(j <= Len(r))
    <3>1. /\ i \in 1 .. Len(r) /\ j - Len(r) \in 1 .. Len(s)
          /\ q[i] = r[i] /\ q[j] = s[j - Len(r)]
      BY <1>1, <2>2
    <3>2. q[i] \in ToSet(r) /\ q[j] \in ToSet(s)
      BY <1>2, <3>1 DEF ToSet
    <3>. QED
      BY <3>2 DEF Before
  <2>3. CASE ~(i <= Len(r))
    <3>1. /\ i - Len(r) \in 1 .. Len(s) /\ j - Len(r) \in 1 .. Len(s)
          /\ i - Len(r) < j - Len(r)
          /\ q[i] = s[i - Len(r)] /\ q[j] = s[j - Len(r)]
      BY <1>1, <1>3, <2>3
    <3>. QED
      BY <1>2, <3>1 DEF Sorted
  <2>. QED
    BY <2>1, <2>2, <2>3
<1>. HIDE DEF q
<1>4. Sorted(q)
  BY <1>2, <1>3 DEF Sorted
<1>. QED
  BY <1>4 DEF q

-----------------------------------------------------------------------------
\* The line in a turn's hands: peeked steers stand before those that came later, a body's
\* head before all it did not peek, a seed before the whole queue.  A latched turn of a
\* scoped Stop finds nothing it peeked still queued.
Line(t) ==
    /\ Sorted(work[t].todo) /\ Sorted(work[t].batch)
    /\ Before(ToSet(work[t].todo), ToSet(queue) \ ToSet(work[t].todo))
    /\ At(t, BodyPoints) =>
           \A b \in ToSet(work[t].batch), q \in ToSet(queue) \ ToSet(work[t].todo) :
               q = b \/ Ord(b) < Ord(q)
    /\ Before(ToSet(work[t].seed) \cap ToSet(accepted), ToSet(queue))
    /\ At(t, {"txn"}) =>
           ToSet(queue) \cap ToSet(Run(t)) \subseteq ToSet(work[t].batch) \cup Textless
    /\ turn[t].cancelling /\ ~LegacyStop /\ ~shuttingDown =>
           ToSet(queue) \cap ToSet(work[t].todo) = {}
LineInv == AcceptedOnce /\ Sorted(queue) /\ \A t \in TurnIds : Line(t)

\* Empty hands are in line.
LEMMA EmptyLine ==
    ASSUME NEW t \in TurnIds, work'[t] = Idle, turn'[t].pc # "txn"
    PROVE  Line(t)'
<1>1. ToSet(<<>>) = {} /\ work'[t].todo = <<>> /\ work'[t].batch = <<>> /\ work'[t].seed = <<>>
  BY DEF ToSet, Idle
<1>2. DOMAIN work'[t].todo = {} /\ DOMAIN work'[t].batch = {}
  BY <1>1
<1>3. Sorted(work[t].todo)' /\ Sorted(work[t].batch)'
  BY <1>2 DEF Sorted
<1>. QED
  BY <1>1, <1>3 DEF Line, Before, At

\* The queue keeps its order through every step of a turn.
LEMMA TurnKeepsQueueSorted ==
    ASSUME RegistryInv, WorkInv, HandInv, WhereInv, LineInv, NEW t \in TurnIds, TurnStep(t)
    PROVE  /\ AcceptedOnce' /\ Sorted(queue)' /\ Sorted(queue')
           /\ \A e : Ord(e)' = Ord(e)
<1>1. Moves(t) /\ accepted' = accepted /\ Line(t) /\ Hand(t) /\ Where(t) /\ Sorted(queue)
  BY StepMoves DEF LineInv, HandInv, WhereInv, owner
<1>2. queue \in Seq(Entries) /\ work[t].batch \in Seq(Entries) /\ queue' \in Seq(Entries)
  BY StepSequences, TurnKeepsWork DEF WorkInv, WorkSet
<1>3. AcceptedOnce' /\ \A e : Ord(e)' = Ord(e)
  BY <1>1 DEF AcceptedOnce, LineInv, Ord
<1>4. \A S : Sorted(Without(queue, S))
  BY <1>1, <1>2, SortedOnly
<1>5. Sorted(queue')
  <2>1. CASE ~Ends(t)
    BY <1>1, <1>4, <2>1 DEF Moves, Walks, Breaks, SeedLands, BatchLands, Persists, Peeks,
       Opens, Commits, Drains, Calls, Takes, Seeds
  <2>2. CASE Ends(t) /\ UNCHANGED queue
    BY <1>1, <2>2
  <2>3. CASE /\ At(t, {"body"}) /\ work[t].todo = <<>> /\ work[t].batch # <<>>
             /\ queue' = Requeued(work[t].batch)
    <3>. DEFINE b == work[t].batch
                rest == Without(queue, ToSet(b))
    <3>1. b \in Seq(Entries) /\ Len(b) <= 1 /\ ToSet(b) = {Head(b)} /\ ToSet(work[t].todo) = {}
      <4>1. Len(b) <= 1 /\ ToSet(<<>>) = {}
        BY <1>1, <2>3, Points DEF Hand, At, ToSet
      <4>. QED
        BY <1>2, <2>3, <4>1, HeadAndRest
    <3>2. rest \in Seq(Entries) /\ ToSet(rest) = ToSet(queue) \ {Head(b)} /\ Sorted(rest)
      BY <1>2, <1>4, <3>1, OnlyEntries
    <3>3. Before(ToSet(b), ToSet(rest))
      <4>1. At(t, BodyPoints)
        BY <2>3, Points DEF At
      <4>. QED
        BY <1>1, <3>1, <3>2, <4>1 DEF Line, Before
    <3>4. Sorted(b)
      BY <3>1, SortedShort
    <3>. QED
      BY <2>3, <3>1, <3>2, <3>3, <3>4, SortedJoin DEF Requeued
  <2>. QED
    BY <2>1, <2>2, <2>3 DEF Ends
<1>6. Sorted(queue)'
  BY <1>2, <1>3, <1>5 DEF Sorted
<1>. QED
  BY <1>3, <1>5, <1>6

\* What a turn comes to hold keeps its place in the line.
LEMMA TurnSorts ==
    ASSUME RegistryInv, WorkInv, HandInv, WhereInv, LineInv, NEW t \in TurnIds, TurnStep(t)
    PROVE  Sorted(work'[t].todo) /\ Sorted(work'[t].batch)
<1>1. Moves(t) /\ Line(t) /\ Sorted(queue)
  BY StepMoves DEF LineInv
<1>2. /\ queue \in Seq(Entries) /\ work[t] \in WorkSet /\ Run(t) \in Seq(Entries)
      /\ work[t].todo \in Seq(Entries) /\ <<>> \in Seq(Entries) /\ Len(<<>>) = 0
  BY StepSequences, EmptySeq DEF WorkInv, WorkSet
<1>3. Sorted(work[t].todo) /\ Sorted(work[t].batch) /\ Sorted(<<>>)
  <2>1. Sorted(<<>>)
    <3>1. DOMAIN <<>> = {}
      OBVIOUS
    <3>. QED
      BY <3>1 DEF Sorted
  <2>. QED
    BY <1>1, <2>1 DEF Line
<1>4. Sorted(Batch(t))
  <2>1. Sorted(Run(t))
    BY <1>2, <1>3, SortedRun DEF Run
  <2>2. Only(Run(t), ToSet(queue)) \in Seq(Entries) /\ Sorted(Only(Run(t), ToSet(queue)))
    BY <1>2, <2>1, OnlyEntries, SortedOnly
  <2>. QED
    BY <2>2, SortedOnly DEF Batch, Run
<1>5. Sorted(Beyond(work[t].todo, Run(t)))
  BY <1>2, <1>3, SortedRun DEF Run
<1>6. work[t].todo # <<>> => Sorted(Tail(work[t].todo))
  BY <1>2, <1>3, SortedTail
<1>7. Sorted(Leading(queue, Execs))
  BY <1>1, <1>2, SortedRun
<1>8. Sorted(First(Beyond(queue, Leading(queue, Execs))))
  <2>. DEFINE b == First(Beyond(queue, Leading(queue, Execs)))
  <2>1. b \in Seq(Entries) /\ Len(b) <= 1
    BY StepSequences, FirstOfRest
  <2>. QED
    BY <2>1, SortedShort
<1>9. CASE Walks(t) \/ Breaks(t) \/ SeedLands(t) \/ BatchLands(t) \/ Calls(t) \/ Persists(t)
  BY <1>3, <1>9 DEF Walks, Breaks, SeedLands, BatchLands, Calls, Persists, StillHolding, Holding
<1>10. CASE Peeks(t) \/ Opens(t) \/ Takes(t)
  BY <1>1, <1>3, <1>4, <1>7, <1>8, <1>10 DEF Peeks, Opens, Takes, Holding
<1>11. CASE Commits(t) \/ Seeds(t)
  BY <1>3, <1>5, <1>11 DEF Commits, Seeds, Holding
<1>13. CASE Drains(t)
  <2>1. work'[t].todo = Tail(work[t].todo) /\ work'[t].batch = work[t].batch
        /\ work[t].todo # <<>>
    BY <1>13 DEF Drains, Holding
  <2>. QED
    BY <1>3, <1>6, <2>1
<1>12. CASE Ends(t)
  BY <1>3, <1>12 DEF Ends, Idle
<1>. QED
  BY <1>1, <1>9, <1>10, <1>11, <1>12, <1>13 DEF Moves

\* What the sequences a step takes apart hold, in the line's order.
LEMMA Parted ==
    ASSUME WorkInv, LineInv, NEW t \in TurnIds
    PROVE  /\ \A S : ToSet(Without(queue, S)) = ToSet(queue) \ S
           /\ ToSet(work[t].todo) = ToSet(Run(t)) \cup ToSet(Beyond(work[t].todo, Run(t)))
           /\ Before(ToSet(Run(t)), ToSet(Beyond(work[t].todo, Run(t))))
           /\ work[t].todo # <<>> =>
                  /\ ToSet(work[t].todo) = {Head(work[t].todo)} \cup ToSet(Tail(work[t].todo))
                  /\ Before({Head(work[t].todo)}, ToSet(Tail(work[t].todo)))
           /\ work[t].batch # <<>> =>
                  /\ Head(work[t].batch) \in ToSet(work[t].batch)
                  /\ Len(work[t].batch) <= 1 => ToSet(work[t].batch) = {Head(work[t].batch)}
<1>1. /\ queue \in Seq(Entries) /\ work[t].todo \in Seq(Entries)
      /\ work[t].batch \in Seq(Entries) /\ Sorted(work[t].todo)
  BY DEF WorkInv, WorkSet, LineInv, Line
<1>2. \A S : ToSet(Without(queue, S)) = ToSet(queue) \ S
  BY <1>1, OnlyEntries
<1>3. /\ ToSet(work[t].todo) = ToSet(Run(t)) \cup ToSet(Beyond(work[t].todo, Run(t)))
      /\ Before(ToSet(Run(t)), ToSet(Beyond(work[t].todo, Run(t))))
  BY <1>1, RunAndRestEntries, SortedRun DEF Run
<1>4. work[t].todo # <<>> =>
          /\ ToSet(work[t].todo) = {Head(work[t].todo)} \cup ToSet(Tail(work[t].todo))
          /\ Before({Head(work[t].todo)}, ToSet(Tail(work[t].todo)))
  BY <1>1, HeadAndRest, SortedTail
<1>5. work[t].batch # <<>> =>
          /\ Head(work[t].batch) \in ToSet(work[t].batch)
          /\ Len(work[t].batch) <= 1 => ToSet(work[t].batch) = {Head(work[t].batch)}
  BY <1>1, HeadAndRest
<1>. QED
  BY <1>2, <1>3, <1>4, <1>5

\* The order of the queue behind what a turn holds.
LineRest(t) ==
    /\ Before(ToSet(work[t].todo), ToSet(queue) \ ToSet(work[t].todo))
    /\ At(t, BodyPoints) =>
           \A b \in ToSet(work[t].batch), q \in ToSet(queue) \ ToSet(work[t].todo) :
               q = b \/ Ord(b) < Ord(q)
    /\ Before(ToSet(work[t].seed) \cap ToSet(accepted), ToSet(queue))
    /\ At(t, {"txn"}) =>
           ToSet(queue) \cap ToSet(Run(t)) \subseteq ToSet(work[t].batch) \cup Textless
    /\ turn[t].cancelling /\ ~LegacyStop /\ ~shuttingDown =>
           ToSet(queue) \cap ToSet(work[t].todo) = {}

\* Every step of a turn keeps the queue in order behind what the turn holds.
LEMMA TurnKeepsRest ==
    ASSUME RegistryInv, WorkInv, HandInv, WhereInv, LineInv, NEW t \in TurnIds, TurnStep(t)
    PROVE  LineRest(t)'
<1>1. /\ Moves(t) /\ LineRest(t) /\ Hand(t) /\ Where(t) /\ Sorted(queue)
      /\ accepted' = accepted /\ (LegacyStop' <=> LegacyStop) /\ shuttingDown' = shuttingDown
  BY StepMoves DEF LineInv, Line, LineRest, HandInv, WhereInv, owner, harvest, environment,
     LegacyStop
<1>2. /\ \A e : Ord(e)' = Ord(e)
      /\ \A S : ToSet(Without(queue, S)) = ToSet(queue) \ S
      /\ ToSet(<<>>) = {}
  <2>1. ToSet(<<>>) = {}
    BY DEF ToSet
  <2>2. \A e : Ord(e)' = Ord(e)
    BY TurnKeepsQueueSorted
  <2>. QED
    BY <2>1, <2>2, Parted
<1>3. CASE Walks(t) \/ Breaks(t) \/ SeedLands(t) \/ BatchLands(t)
  <2>1. /\ work'[t] = work[t] /\ queue' = queue /\ turn'[t].pc # "txn"
        /\ turn'[t].cancelling = turn[t].cancelling
        /\ At(t, BodyPoints)' => At(t, BodyPoints)
    BY <1>3, Points DEF Walks, Breaks, SeedLands, BatchLands, StillHolding, Onward, At
  <2>. QED
    BY <1>1, <1>2, <2>1 DEF LineRest, Before, At
<1>4. CASE Calls(t) \/ Persists(t)
  <2>1. /\ work'[t].todo = work[t].todo /\ queue' = queue
        /\ work'[t].seed = work[t].seed \/ work'[t].seed = <<>>
        /\ turn'[t].pc \in {"model", "top"} /\ turn'[t].cancelling = turn[t].cancelling
    BY <1>4 DEF Calls, Persists, Holding, Onward
  <2>. QED
    BY <1>1, <1>2, <2>1, Points DEF LineRest, Before, At
<1>5. CASE Peeks(t)
  <2>1. /\ work'[t].todo = queue /\ work'[t].seed = work[t].seed /\ queue' = queue
        /\ turn'[t].pc = "drain" /\ ~turn'[t].cancelling
    BY <1>5 DEF Peeks, Holding, Onward
  <2>. QED
    BY <1>1, <1>2, <2>1, Points DEF LineRest, Before, At
<1>6. CASE Opens(t)
  <2>1. /\ work'[t].todo = work[t].todo /\ work'[t].batch = Batch(t)
        /\ work'[t].seed = work[t].seed /\ queue' = queue
        /\ turn'[t].pc = "txn" /\ ~turn'[t].cancelling
    BY <1>6 DEF Opens, Holding, Onward
  <2>2. ToSet(queue) \cap ToSet(Run(t)) \subseteq ToSet(Batch(t)) \cup Textless
    BY BatchIsQueued
  <2>3. Run(t)' = Run(t)
    BY <2>1 DEF Run
  <2>. QED
    BY <1>1, <1>2, <2>1, <2>2, <2>3, Points DEF LineRest, Before, At
<1>7. CASE Commits(t)
  <2>1. /\ work'[t].todo = Beyond(work[t].todo, Run(t)) /\ work'[t].batch = <<>>
        /\ work'[t].seed = work[t].seed /\ ToSet(queue') = ToSet(queue) \ ToSet(Run(t))
        /\ turn'[t].pc = "drain" /\ turn'[t].cancelling = turn[t].cancelling
    BY <1>2, <1>7 DEF Commits, Holding, Onward
  <2>2. ToSet(work[t].todo) = ToSet(Run(t)) \cup ToSet(Beyond(work[t].todo, Run(t)))
    BY Parted
  <2>. QED
    BY <1>1, <1>2, <2>1, <2>2, Points DEF LineRest, Before, At
<1>8. CASE Drains(t)
  <2>1. /\ work'[t].todo = Tail(work[t].todo) /\ work'[t].batch = work[t].batch
        /\ work'[t].seed = work[t].seed /\ ToSet(queue') = ToSet(queue) \ {Head(work[t].todo)}
        /\ turn'[t].pc # "txn" /\ turn'[t].cancelling = turn[t].cancelling
        /\ At(t, BodyPoints)' => At(t, BodyPoints)
    BY <1>2, <1>8, Points DEF Drains, Holding, Onward, At
  <2>2. ToSet(work[t].todo) = {Head(work[t].todo)} \cup ToSet(Tail(work[t].todo))
    BY <1>8, Parted DEF Drains
  <2>. QED
    BY <1>1, <1>2, <2>1, <2>2 DEF LineRest, Before, At
<1>9. CASE Takes(t)
  <2>. DEFINE l == Leading(queue, Execs)
              b == Beyond(queue, l)
  <2>1. /\ work'[t].todo = l /\ work'[t].batch = First(b)
        /\ work'[t].seed = work[t].seed /\ queue' = queue
        /\ turn'[t].pc = "body" /\ ~turn'[t].cancelling
    BY <1>9 DEF Takes, Holding, Onward
  <2>2. /\ queue \in Seq(Entries) /\ b \in Seq(Entries) /\ Sorted(b)
        /\ ToSet(queue) = ToSet(l) \cup ToSet(b) /\ Before(ToSet(l), ToSet(b))
    BY <1>1, RunAndRest, RunAndRestEntries, SortedRun DEF WorkInv
  <2>. HIDE DEF l, b
  <2>3. \A e \in ToSet(First(b)), q \in ToSet(b) : q = e \/ Ord(e) < Ord(q)
    <3>1. CASE b = <<>>
      BY <1>2, <3>1 DEF First
    <3>2. CASE b # <<>>
      <4>1. ToSet(First(b)) = {Head(b)}
        BY <3>2 DEF First, ToSet
      <4>2. ToSet(b) = {Head(b)} \cup ToSet(Tail(b)) /\ Before({Head(b)}, ToSet(Tail(b)))
        BY <2>2, <3>2, HeadAndRest, SortedTail
      <4>. QED
        BY <4>1, <4>2 DEF Before
    <3>. QED
      BY <3>1, <3>2
  <2>. QED
    BY <1>1, <1>2, <2>1, <2>2, <2>3 DEF LineRest, Before, At
<1>10. CASE Seeds(t)
  <2>1. /\ work'[t].todo = <<>> /\ work'[t].batch = <<>> /\ work[t].todo = <<>>
        /\ work'[t].seed = work[t].batch /\ ToSet(queue') = ToSet(queue) \ ToSet(work[t].batch)
        /\ turn'[t].pc = "spawned" /\ At(t, BodyPoints)
    BY <1>2, <1>10, Points DEF Seeds, Holding, Onward, At
  <2>. QED
    BY <1>1, <1>2, <2>1, Points DEF LineRest, Before, At
<1>11. CASE Ends(t)
  <2>1. /\ work'[t].todo = <<>> /\ work'[t].batch = <<>> /\ work'[t].seed = <<>>
        /\ turn'[t].pc \in {"over", "done"}
    BY <1>11 DEF Ends, Idle
  <2>. QED
    BY <1>2, <2>1, Points DEF LineRest, Before, At
<1>. QED
  BY <1>1, <1>3, <1>4, <1>5, <1>6, <1>7, <1>8, <1>9, <1>10, <1>11 DEF Moves

\* Every step of a turn keeps the line.
LEMMA TurnKeepsLine ==
    ASSUME RegistryInv, WorkInv, HandInv, WhereInv, LineInv, NEW t \in TurnIds, TurnStep(t)
    PROVE  LineInv'
<1>1. OthersRest(t) /\ AcceptedOnce' /\ Sorted(queue)' /\ \A e : Ord(e)' = Ord(e)
  BY StepLeavesOthers, TurnKeepsQueueSorted
<1>2. Line(t)'
  <2>1. Sorted(work[t].todo)' /\ Sorted(work[t].batch)'
    BY <1>1, TurnSorts DEF Sorted
  <2>. QED
    BY <2>1, TurnKeepsRest DEF Line, LineRest
<1>3. ASSUME NEW u \in TurnIds \ {t} PROVE Line(u)'
  <2>1. work'[u] = Idle /\ turn'[u].pc # "txn"
    BY <1>1, LivePointsNamed DEF OthersRest, Live, Handle
  <2>. QED
    BY <2>1, EmptyLine
<1>. QED
  BY <1>1, <1>2, <1>3 DEF LineInv

-----------------------------------------------------------------------------
\* The books: files, notices, what was lost, and the Stop requests.
FilesSet == [Attached -> {"staged", "claimed", "refused"}]
StopSet == [StopIds -> [pc : {"idle", "reading", "scoped", "unscoped"}, found : 0 .. MaxTurns]]
StopsInv ==
    /\ stop \in StopSet /\ nextStop \in 1 .. MaxStops + 1
    /\ \A i \in StopIds : i >= nextStop => stop[i].pc = "idle"
BooksInv ==
    /\ files \in FilesSet
    /\ dropped \subseteq Entries /\ lost \subseteq Entries
    /\ unsent \subseteq Entries /\ handed \subseteq Entries /\ used \subseteq Entries
    /\ receipt.held \in BOOLEAN /\ receipt.entries \in Seq(Entries)
    /\ gateOpen \in BOOLEAN /\ shuttingDown \in BOOLEAN

\* The entries of a sequence over T lie in T.
LEMMA EntriesOf ==
    ASSUME NEW T, NEW s \in Seq(T)
    PROVE  ToSet(s) \subseteq T
  BY DEF ToSet

\* A turn's step books what leaves the queue or its hands.
Booked(t) ==
    /\ files' \in FilesSet
    /\ dropped \subseteq dropped' /\ dropped' \subseteq dropped \cup ToSet(queue)
    /\ lost \subseteq lost' /\ lost' \subseteq lost \cup ToSet(work[t].seed)
    /\ ToSet(queue)
           \subseteq ToSet(queue') \cup ToSet(applied') \cup dropped' \cup ToSet(work'[t].seed)
    /\ ToSet(work[t].seed) \subseteq ToSet(work'[t].seed) \cup ToSet(applied') \cup lost'

\* Every step of a turn keeps these books.
LEMMA StepBooks ==
    ASSUME RegistryInv, WorkInv, HandInv, WhereInv, BooksInv, NEW t \in TurnIds, TurnStep(t)
    PROVE  Booked(t)
<1>1. /\ work \in [TurnIds -> WorkSet] /\ work[t] \in WorkSet /\ Hand(t) /\ files \in FilesSet
      /\ queue \in Seq(Entries) /\ applied \in Seq(Entries) /\ work[t].batch \in Seq(Entries)
      /\ ToSet(applied) \subseteq ToSet(applied')
  BY StepSequences, StepEntries DEF WorkInv, HandInv, BooksInv, WorkSet
<1>2. /\ ToSet(<<>>) = {} /\ \A A, F : Claimed(A, F) \in FilesSet
      /\ \A S : ToSet(Without(queue, S)) = ToSet(queue) \ S
  <2>1. ToSet(<<>>) = {}
    BY DEF ToSet
  <2>2. \A A, F : Claimed(A, F) \in FilesSet
    BY <1>1 DEF Claimed, FilesSet
  <2>3. \A S : ToSet(Without(queue, S)) = ToSet(queue) \ S
    BY <1>1, OnlyEntries
  <2>. QED
    BY <2>1, <2>2, <2>3
<1>3. ASSUME PutDown(t), ToSet(queue) \subseteq ToSet(queue') PROVE Booked(t)
  BY <1>1, <1>2, <1>3 DEF PutDown, Booked, Idle
<1>4. ASSUME UNCHANGED <<work, queue, dropped, lost>>,
             files' = files \/ \E A, F : files' = Claimed(A, F)
      PROVE  Booked(t)
  BY <1>1, <1>2, <1>4 DEF Booked
<1>5. ASSUME NEW p, NEW q, DrainExec(t, p, q) PROVE Booked(t)
  <2>. DEFINE x == Head(work[t].todo)
  <2>1. /\ work'[t].seed = work[t].seed /\ ToSet(queue') = ToSet(queue) \ {x}
        /\ UNCHANGED <<files, lost>>
    BY <1>1, <1>2, <1>5 DEF DrainExec
  <2>2. x \in Entries
    BY <1>5 DEF DrainExec, Entries
  <2>3. ToSet(Append(applied, x)) = ToSet(applied) \cup {x}
    BY <1>1, <2>2, AppendedSet
  <2>4. \/ dropped' = dropped \cup ({x} \cap ToSet(queue))
        \/ applied' = Append(applied, x) /\ UNCHANGED dropped
        \/ x \notin ToSet(queue) /\ UNCHANGED dropped
    BY <1>5 DEF DrainExec
  <2>. HIDE DEF x
  <2>5. dropped' = dropped \/ dropped' = dropped \cup ({x} \cap ToSet(queue))
    BY <2>4
  <2>6. x \in ToSet(queue) => x \in dropped' \cup ToSet(applied')
    BY <2>3, <2>4
  <2>. QED
    BY <1>1, <2>1, <2>5, <2>6 DEF Booked
<1>6. CASE HandlerStep(t)
  <2>1. CASE HandOff(t) \/ SyncExec(t)
    BY <1>4, <2>1 DEF HandOff, SyncExec
  <2>2. CASE Refuse(t) \/ SyncEnd(t)
    BY <1>3, <2>2 DEF Refuse, SyncEnd
  <2>. QED
    BY <1>6, <2>1, <2>2 DEF HandlerStep
<1>7. CASE DrainStep(t)
  <2>1. CASE Start(t) \/ ClaimFiles(t) \/ ExecDone(t) \/ NextIteration(t)
             \/ Raise(t) \/ CancelLands(t)
    <3>1. UNCHANGED <<work, queue, dropped, lost>>
      BY <2>1 DEF Start, ClaimFiles, ExecDone, NextIteration, Raise, CancelLands, effects
    <3>2. files' = files \/ \E A, F : files' = Claimed(A, F)
      BY <2>1 DEF Start, ClaimFiles, ExecDone, NextIteration, Raise, CancelLands, effects
    <3>. QED
      BY <1>4, <3>1, <3>2
  <2>2. CASE Persist(t)
    <3>1. /\ ToSet(applied') = ToSet(applied) \cup ToSet(work[t].seed)
          /\ UNCHANGED <<queue, files, dropped, lost>>
      BY <1>1, <2>2, JoinedEntries DEF Persist, WorkSet
    <3>. QED
      BY <1>1, <3>1 DEF Booked
  <2>3. CASE Peek(t) \/ OpenTransaction(t) \/ CallModel(t)
    <3>1. work'[t].seed = work[t].seed /\ UNCHANGED <<queue, files, dropped, lost>>
      <4>1. CASE Peek(t)
        BY <1>1, <4>1 DEF Peek, effects, WorkSet
      <4>2. CASE OpenTransaction(t)
        BY <1>1, <4>2 DEF OpenTransaction, effects, WorkSet
      <4>3. CASE CallModel(t)
        BY <1>1, <4>3 DEF CallModel, effects, WorkSet
      <4>. QED
        BY <2>3, <4>1, <4>2, <4>3
    <3>. QED
      BY <1>1, <3>1 DEF Booked
  <2>4. CASE CommitTransaction(t)
    <3>. DEFINE run == ToSet(Leading(work[t].todo, Messages))
                b == ToSet(work[t].batch)
    <3>1. /\ work'[t].seed = work[t].seed /\ UNCHANGED <<files, lost>>
          /\ ToSet(queue') = ToSet(queue) \ run
          /\ dropped' = dropped \cup ((run \cap ToSet(queue)) \ b)
      BY <1>1, <1>2, <2>4 DEF CommitTransaction
    <3>2. ToSet(applied') = ToSet(applied) \cup b
      BY <1>1, <2>4, JoinedEntries DEF CommitTransaction
    <3>. HIDE DEF run, b
    <3>. QED
      BY <1>1, <3>1, <3>2 DEF Booked
  <2>5. CASE Conclude(t) \/ ResumeEndsEarly(t) \/ Close(t) \/ Cleanup(t)
    BY <1>3, <2>5 DEF Conclude, ResumeEndsEarly, Close, Cleanup
  <2>6. CASE RunExec(t)
    BY <1>5, <2>6 DEF RunExec
  <2>. QED
    BY <1>7, <2>1, <2>2, <2>3, <2>4, <2>5, <2>6 DEF DrainStep
<1>8. CASE BodyStep(t)
  <2>1. CASE BodyStart(t)
    <3>1. CASE shuttingDown \/ queue = <<>>
      BY <1>3, <2>1, <3>1 DEF BodyStart
    <3>2. CASE ~(shuttingDown \/ queue = <<>>)
      <4>1. work'[t].seed = work[t].seed /\ UNCHANGED <<queue, files, dropped, lost>>
        BY <1>1, <2>1, <3>2 DEF BodyStart, effects, WorkSet
      <4>. QED
        BY <1>1, <4>1 DEF Booked
    <3>. QED
      BY <3>1, <3>2
  <2>2. CASE BodyAllExec(t) \/ BodyStaleHead(t) \/ BodyRaise(t) \/ BodyCancelled(t)
    BY <1>3, <2>2 DEF BodyAllExec, BodyStaleHead, BodyRaise, BodyCancelled
  <2>3. CASE BodyExec(t)
    BY <1>5, <2>3 DEF BodyExec
  <2>4. CASE BodyExecDone(t)
    BY <1>1, <1>4, <2>4 DEF BodyExecDone, effects
  <2>5. CASE BodySeed(t)
    <3>1. /\ work'[t].seed = work[t].batch /\ UNCHANGED <<files, dropped, lost>>
          /\ ToSet(queue') = ToSet(queue) \ ToSet(work[t].batch)
      BY <1>1, <1>2, <2>5 DEF BodySeed, effects
    <3>2. work[t].seed = <<>>
      BY <1>1, <2>5, Points DEF BodySeed, Runs, Hand, At
    <3>. QED
      BY <1>1, <1>2, <3>1, <3>2 DEF Booked
  <2>6. CASE BodySeedFails(t)
    <3>1. /\ Without(queue, ToSet(work[t].batch)) \in Seq(Entries)
          /\ ToSet(Without(queue, ToSet(work[t].batch))) = ToSet(queue) \ ToSet(work[t].batch)
      BY <1>1, OnlyEntries
    <3>2. ToSet(queue') = ToSet(work[t].batch) \cup ToSet(Without(queue, ToSet(work[t].batch)))
      BY <1>1, <2>6, <3>1, JoinedEntries DEF BodySeedFails, Requeued
    <3>. QED
      BY <1>3, <2>6, <3>1, <3>2 DEF BodySeedFails
  <2>. QED
    BY <1>8, <2>1, <2>2, <2>3, <2>4, <2>5, <2>6 DEF BodyStep
<1>. QED
  BY <1>6, <1>7, <1>8 DEF TurnStep

\* A turn's step keeps the books, and loses track of nothing but a seed.
LEMMA TurnKeepsBooks ==
    ASSUME RegistryInv, WorkInv, HandInv, WhereInv, BooksInv, StopsInv,
           NEW t \in TurnIds, TurnStep(t)
    PROVE  /\ BooksInv' /\ StopsInv' /\ LegacyStop' = LegacyStop
           /\ LostOnlyAsSeed => LostOnlyAsSeed'
<1>1. /\ Booked(t) /\ UNCHANGED <<accepted, used, unsent, handed, receipt, stop, nextStop>>
      /\ UNCHANGED environment /\ ToSet(applied) \subseteq ToSet(applied')
      /\ OthersRest(t) /\ HandInv' /\ Live(t)
      /\ ToSet(queue) \subseteq Entries /\ ToSet(work[t].seed) \subseteq Entries
  BY StepBooks, StepMoves, StepEntries, StepLeavesOthers, TurnKeepsHand, EntriesOf, StepSequences
     DEF owner, harvest, WorkInv, WorkSet
<1>2. BooksInv' /\ StopsInv' /\ LegacyStop' = LegacyStop
  BY <1>1 DEF BooksInv, StopsInv, LegacyStop, Booked, environment
<1>3. ASSUME LostOnlyAsSeed PROVE LostOnlyAsSeed'
  <2>. SUFFICES ASSUME NEW e \in ToSet(accepted), e \notin lost' PROVE Traced(e)'
    BY <1>1 DEF LostOnlyAsSeed
  <2>1. Traced(e)
    BY <1>1, <1>3 DEF LostOnlyAsSeed, Booked
  <2>2. ASSUME e \in ToSet(work'[t].seed) PROVE Traced(e)'
    <3>1. Live(t)'
      <4>1. ~Live(t)' => work'[t] = Idle
        BY <1>1 DEF HandInv, Hand
      <4>2. ToSet(Idle.seed) = {}
        BY DEF Idle, ToSet
      <4>. QED
        BY <2>2, <4>1, <4>2
    <3>. QED
      BY <2>2, <3>1 DEF Traced, InHand
  <2>3. CASE e \in ToSet(queue)
    BY <1>1, <2>2, <2>3 DEF Booked, Traced
  <2>4. CASE InHand(e)
    <3>1. e \in ToSet(work[t].seed)
      BY <1>1, <2>4 DEF InHand, OthersRest
    <3>. QED
      BY <1>1, <2>2, <3>1 DEF Booked, Traced
  <2>5. CASE e \in ToSet(applied) \cup dropped \cup unsent \cup handed
    BY <1>1, <2>5 DEF Booked, Traced
  <2>. QED
    BY <2>1, <2>3, <2>4, <2>5 DEF Traced
<1>. QED
  BY <1>2, <1>3

\* So do the steps that are no turn's.
LEMMA StopsKept ==
    ASSUME RegistryInv, StopsInv, WorkInv, [Next]_vars, \A t \in TurnIds : ~TurnStep(t)
    PROVE  StopsInv' /\ (LegacyStop => LegacyStop')
<1>1. ASSUME NEW i \in StopIds,
             NEW r \in [pc : {"reading", "scoped", "unscoped"}, found : 0 .. MaxTurns],
             stop' = [stop EXCEPT ![i] = r],
             stop[i].pc = "idle" \/ r.pc = "unscoped",
             \/ nextStop' = nextStop /\ stop[i].pc # "idle"
             \/ i = nextStop /\ nextStop' = nextStop + 1
      PROVE  StopsInv' /\ (LegacyStop => LegacyStop')
  <2>1. stop'[i] = r /\ \A j \in StopIds \ {i} : stop'[j] = stop[j]
    BY <1>1 DEF StopsInv, StopSet
  <2>2. nextStop \in Nat /\ MaxStops \in Nat /\ nextStop' \in 1 .. MaxStops + 1
        /\ nextStop <= nextStop' /\ \A j \in StopIds : j \in Nat
    BY <1>1, BoundsAssumption DEF StopsInv, StopIds
  <2>3. stop' \in StopSet
    BY <1>1 DEF StopsInv, StopSet
  <2>4. \A j \in StopIds : j >= nextStop' => stop'[j].pc = "idle"
    <3>. SUFFICES ASSUME NEW j \in StopIds, j >= nextStop' PROVE stop'[j].pc = "idle"
      OBVIOUS
    <3>1. j # i
      <4>1. CASE nextStop' = nextStop /\ stop[i].pc # "idle"
        BY <4>1 DEF StopsInv
      <4>2. CASE i = nextStop /\ nextStop' = nextStop + 1
        BY <2>2, <4>2
      <4>. QED
        BY <1>1, <4>1, <4>2
    <3>2. j >= nextStop
      BY <2>2
    <3>. QED
      BY <2>1, <3>1, <3>2 DEF StopsInv
  <2>5. ASSUME LegacyStop PROVE LegacyStop'
    <3>1. PICK j \in StopIds : stop[j].pc \in {"reading", "unscoped"}
      BY <2>5 DEF LegacyStop
    <3>2. stop'[j].pc \in {"reading", "unscoped"}
      BY <1>1, <2>1, <3>1
    <3>. QED
      BY <3>2 DEF LegacyStop
  <2>. QED
    BY <2>2, <2>3, <2>4, <2>5 DEF StopsInv
<1>2. UNCHANGED <<stop, nextStop>> => StopsInv' /\ (LegacyStop => LegacyStop')
  BY DEF StopsInv, LegacyStop
<1>3. \A s : Answered(s) \in [pc : {"reading", "scoped", "unscoped"}, found : 0 .. MaxTurns]
  BY BoundsAssumption DEF Answered, NoTurn
<1>4. ASSUME NEW scope, Stop(scope) PROVE StopsInv' /\ (LegacyStop => LegacyStop')
  <2>1. /\ nextStop \in StopIds /\ nextStop' = nextStop + 1 /\ stop[nextStop].pc = "idle"
    BY <1>4, BoundsAssumption DEF Stop, StopsInv, StopIds
  <2>2. PICK i \in StopIds : i = nextStop
    BY <2>1
  <2>3. [pc |-> "reading", found |-> marker]
            \in [pc : {"reading", "scoped", "unscoped"}, found : 0 .. MaxTurns]
    BY BoundsAssumption DEF RegistryInv, RegistryTypeOK, TurnIds, NoTurn
  <2>4. \E r \in [pc : {"reading", "scoped", "unscoped"}, found : 0 .. MaxTurns] :
            stop' = [stop EXCEPT ![i] = r]
    BY <1>3, <1>4, <2>2, <2>3 DEF Stop, StopRefused, StopHarvests
  <2>. QED
    BY <1>1, <2>1, <2>2, <2>4
<1>5. ASSUME NEW i \in StopIds, StopCancels(i) PROVE StopsInv' /\ (LegacyStop => LegacyStop')
  <2>1. stop[i].pc = "reading" /\ nextStop' = nextStop
        /\ stop' = [stop EXCEPT ![i] = Answered(NoTurn)] /\ Answered(NoTurn).pc = "unscoped"
    BY <1>5 DEF StopCancels, Answered
  <2>. QED
    BY <1>1, <1>3, <2>1
<1>6. Starts \/ Enqueues \/ Rests => UNCHANGED <<stop, nextStop>>
  BY DEF Starts, Enqueues, Enqueue, Rests, harvest
<1>7. (\E e \in Entries : DeleteSteer(e)) \/ Shutdown => UNCHANGED <<stop, nextStop>>
  BY DEF DeleteSteer, Shutdown, harvest
<1>. QED
  BY <1>2, <1>4, <1>5, <1>6, <1>7, OtherSteps

\* The steps that are no turn's keep the books in their types.
LEMMA OthersKeepBooks ==
    ASSUME RegistryInv, WorkInv, BooksInv, [Next]_vars, \A t \in TurnIds : ~TurnStep(t)
    PROVE  BooksInv'
<1>0. ToSet(queue) \subseteq Entries /\ queue \in Seq(Entries) /\ <<>> \in Seq(Entries)
  BY EntriesOf, EmptySeq DEF WorkInv
<1>1. ASSUME receipt' \in {receipt, NoReceipt}
      PROVE  receipt'.held \in BOOLEAN /\ receipt'.entries \in Seq(Entries)
  <2>1. CASE receipt' = receipt
    BY <2>1 DEF BooksInv
  <2>2. CASE receipt' = NoReceipt
    <3>1. NoReceipt.held = FALSE /\ NoReceipt.entries = <<>>
      BY DEF NoReceipt
    <3>. QED
      BY <1>0, <2>2, <3>1
  <2>. QED
    BY <1>1, <2>1, <2>2
<1>2. CASE Starts
  <2>1. /\ used' = used \/ \E e \in Entries : used' = used \cup {e}
        /\ UNCHANGED <<effects, unsent, handed, environment>> /\ receipt' \in {receipt, NoReceipt}
    BY <1>2 DEF Starts
  <2>. QED
    BY <1>1, <2>1 DEF BooksInv, effects, environment
<1>3. CASE Enqueues
  BY <1>3 DEF Enqueues, Enqueue, BooksInv, effects, harvest, environment
<1>4. CASE Rests
  BY <1>1, <1>4 DEF Rests, BooksInv, effects, owner
<1>5. CASE \E e \in Entries : DeleteSteer(e)
  BY <1>5 DEF DeleteSteer, BooksInv, effects, harvest, environment
<1>6. CASE Shutdown \/ \E i \in StopIds : StopCancels(i)
  BY <1>6 DEF Shutdown, StopCancels, BooksInv, effects, owner, harvest, environment
<1>7. ASSUME NEW scope, Stop(scope) PROVE BooksInv'
  <2>1. /\ handed' = handed \/ handed' = handed \cup ToSet(queue)
        /\ receipt' = receipt \/ receipt' = [held |-> TRUE, entries |-> queue]
        /\ UNCHANGED <<effects, owner, environment>>
    BY <1>7 DEF Stop, StopRefused, StopHarvests, RecordOrReplay
  <2>2. receipt'.held \in BOOLEAN /\ receipt'.entries \in Seq(Entries)
    <3>1. CASE receipt' = receipt
      BY <3>1 DEF BooksInv
    <3>2. CASE receipt' = [held |-> TRUE, entries |-> queue]
      <4>1. receipt'.held = TRUE /\ receipt'.entries = queue
        BY <3>2
      <4>. QED
        BY <1>0, <4>1
    <3>. QED
      BY <2>1, <3>1, <3>2
  <2>. QED
    BY <1>0, <2>1, <2>2 DEF BooksInv, effects, owner, environment
<1>. QED
  BY <1>2, <1>3, <1>4, <1>5, <1>6, <1>7, OtherSteps

\* The steps that are no turn's lose track of no steer but a seed.
LEMMA OthersLoseNothing ==
    ASSUME RegistryInv, WorkInv, HandInv, LostOnlyAsSeed,
           [Next]_vars, \A t \in TurnIds : ~TurnStep(t)
    PROVE  LostOnlyAsSeed'
<1>1. CASE Starts
  <2>1. PICK k \in Kinds, p \in LivePoints, s \in Seq(Entries) :
            /\ Reserve(k, p, [Idle EXCEPT !.seed = s])
            /\ UNCHANGED <<queue, effects, accepted, unsent, handed>>
    BY <1>1 DEF Starts
  <2>2. \A u \in TurnIds : ~Live(u)
    BY <2>1, LivePointsNamed DEF Reserve, RegistryInv, MarkerExact, TurnIds, NoTurn
  <2>. QED
    BY <2>1, <2>2 DEF LostOnlyAsSeed, Traced, InHand, effects
<1>2. CASE Enqueues
  <2>1. PICK e \in Entries : Enqueue(e)
    BY <1>2 DEF Enqueues
  <2>2. /\ ToSet(queue') = ToSet(queue) \cup {e} /\ ToSet(accepted') = ToSet(accepted) \cup {e}
        /\ UNCHANGED <<turn, work, effects, unsent, handed>>
    BY <2>1, AppendedSet DEF Enqueue, WorkInv, registry, harvest
  <2>. QED
    BY <2>2 DEF LostOnlyAsSeed, Traced, InHand, Live, effects
<1>3. CASE Rests
  BY <1>3 DEF Rests, LostOnlyAsSeed, Traced, InHand, Live, registry, effects, owner
<1>4. ASSUME UNCHANGED <<work, applied, accepted, dropped, lost>>,
             unsent' \cup handed' = unsent \cup handed \cup (ToSet(queue) \ ToSet(queue')),
             \A u \in TurnIds : turn'[u].pc = turn[u].pc
      PROVE  LostOnlyAsSeed'
  BY <1>4 DEF LostOnlyAsSeed, Traced, InHand, Live
<1>5. CASE \/ \E scope \in 0 .. nextTurn - 1 : Stop(scope)
           \/ \E e \in Entries : DeleteSteer(e)
  <2>1. \A u \in TurnIds : turn'[u].pc = turn[u].pc
    BY <1>5, StopLatches DEF Latches, DeleteSteer, registry
  <2>. QED
    BY <1>4, <1>5, <2>1, StopTakesBack DEF TakesBack
<1>6. CASE Shutdown \/ \E i \in StopIds : StopCancels(i)
  <2>1. \A u \in TurnIds : turn'[u].pc = turn[u].pc
    BY <1>6, StopLatches DEF Latches
  <2>2. UNCHANGED <<work, applied, accepted, dropped, lost, queue, unsent, handed>>
    BY <1>6 DEF Shutdown, StopCancels, effects, owner, harvest
  <2>. QED
    BY <1>4, <2>1, <2>2
<1>. QED
  BY <1>1, <1>2, <1>3, <1>5, <1>6, OtherSteps

-----------------------------------------------------------------------------
\* A steer accepted now stands behind all the others.
LEMMA OrdGrows ==
    ASSUME WorkInv, AcceptedOnce, NEW e \in Entries, e \notin ToSet(accepted),
           accepted' = Append(accepted, e)
    PROVE  /\ AcceptedOnce'
           /\ \A x \in ToSet(accepted) : Ord(x)' = Ord(x) /\ Ord(x) < Ord(e)'
<1>. DEFINE n == Len(accepted)
<1>1. /\ accepted \in Seq(Entries) /\ n \in Nat /\ DOMAIN accepted = 1 .. n
      /\ DOMAIN accepted' = 1 .. n + 1 /\ accepted'[n + 1] = e
      /\ \A i \in 1 .. n : accepted'[i] = accepted[i]
  BY AppendedEntries DEF WorkInv
<1>2. \A i \in 1 .. n : accepted[i] # e
  BY <1>1 DEF ToSet
<1>. HIDE DEF n
<1>3. ASSUME NEW i \in 1 .. n + 1, NEW j \in 1 .. n + 1, accepted'[i] = accepted'[j] PROVE i = j
  <2>1. CASE i \in 1 .. n /\ j \in 1 .. n
    BY <1>1, <1>3, <2>1 DEF AcceptedOnce
  <2>2. CASE ~(i \in 1 .. n /\ j \in 1 .. n)
    <3>1. i = n + 1 \/ j = n + 1
      BY <1>1, <2>2
    <3>. QED
      BY <1>1, <1>2, <1>3, <3>1
  <2>. QED
    BY <2>1, <2>2
<1>4. AcceptedOnce'
  BY <1>1, <1>3 DEF AcceptedOnce
<1>5. ASSUME NEW x, NEW i \in 1 .. n + 1, accepted'[i] = x PROVE Ord(x)' = i
  <2>. DEFINE c == CHOOSE j \in DOMAIN accepted' : accepted'[j] = x
  <2>1. c \in 1 .. n + 1 /\ accepted'[c] = x
    <3>1. \E j \in DOMAIN accepted' : accepted'[j] = x
      BY <1>1, <1>5
    <3>. QED
      BY <1>1, <3>1
  <2>2. Ord(x)' = c
    BY DEF Ord
  <2>. HIDE DEF c
  <2>. QED
    BY <1>3, <1>5, <2>1, <2>2
<1>6. ASSUME NEW x \in ToSet(accepted) PROVE Ord(x)' = Ord(x) /\ Ord(x) < Ord(e)'
  <2>1. Ord(x) \in 1 .. n /\ accepted[Ord(x)] = x
    BY OrdIsPlace DEF n
  <2>2. PICK i \in 1 .. n : i = Ord(x)
    BY <2>1
  <2>3. i \in 1 .. n + 1 /\ n + 1 \in 1 .. n + 1 /\ i < n + 1
    BY <1>1
  <2>4. Ord(x)' = i
    BY <1>1, <1>5, <2>1, <2>2, <2>3
  <2>5. Ord(e)' = n + 1
    BY <1>1, <1>5, <2>3
  <2>. QED
    BY <1>1, <2>2, <2>3, <2>4, <2>5
<1>. QED
  BY <1>4, <1>6

\* The line stands when the queue only shrinks, hands rest, and a latch either finds no
\* queue or comes with a Stop without a turn id.
LEMMA LineShrinks ==
    ASSUME WorkInv, LineInv, UNCHANGED <<work, accepted>>,
           Sorted(queue'), ToSet(queue') \subseteq ToSet(queue),
           \A u \in TurnIds : turn'[u].pc = turn[u].pc,
           \/ queue' = <<>> \/ LegacyStop' \/ shuttingDown'
           \/ turn' = turn /\ (LegacyStop => LegacyStop') /\ (shuttingDown => shuttingDown')
    PROVE  LineInv'
<1>1. \A e : Ord(e)' = Ord(e)
  BY DEF Ord
<1>2. AcceptedOnce' /\ Sorted(queue)'
  BY <1>1 DEF LineInv, AcceptedOnce, Sorted
<1>3. ASSUME NEW u \in TurnIds PROVE Line(u)'
  <2>1. Line(u) /\ work' = work /\ accepted' = accepted
    BY DEF LineInv
  <2>2. Sorted(work[u].todo)' /\ Sorted(work[u].batch)'
    BY <1>1, <2>1 DEF Line, Sorted
  <2>3. LineRest(u)'
    <3>1. Run(u)' = Run(u)
      BY <2>1 DEF Run
    <3>2. turn'[u].cancelling /\ ~LegacyStop' /\ ~shuttingDown' =>
              ToSet(queue') \cap ToSet(work[u].todo) = {}
      <4>1. CASE queue' = <<>>
        BY <4>1 DEF ToSet
      <4>2. CASE queue' # <<>>
        BY <2>1, <4>2 DEF Line
      <4>. QED
        BY <4>1, <4>2
    <3>. QED
      BY <1>1, <2>1, <3>1, <3>2 DEF Line, LineRest, Before, At
  <2>. QED
    BY <2>2, <2>3 DEF Line, LineRest
<1>. QED
  BY <1>2, <1>3 DEF LineInv

\* A turn that starts holds at most a message nobody queued.
LEMMA StartKeepsLine ==
    ASSUME RegistryInv, WorkInv, WhereInv, LineInv, Starts
    PROVE  LineInv'
<1>1. PICK k \in Kinds, p \in LivePoints, s \in Seq(Entries) :
          /\ Reserve(k, p, [Idle EXCEPT !.seed = s])
          /\ UNCHANGED <<queue, accepted, stop, shuttingDown>>
          /\ s = <<>> \/ \E e \in Entries \ used : s = <<e>>
          /\ p \in {"handler", "sync_run", "sync_start"}
  BY DEF Starts, environment
<1>2. PICK n \in TurnIds :
          /\ work' = [work EXCEPT ![n] = [Idle EXCEPT !.seed = s]]
          /\ turn' = [turn EXCEPT ![n] = Handle(k, p)]
          /\ work \in [TurnIds -> WorkSet] /\ turn \in [TurnIds -> HandleSet]
  BY <1>1 DEF Reserve, WorkInv, RegistryInv, RegistryTypeOK, HandleSet
<1>3. /\ work'[n].seed = s /\ work'[n].todo = <<>> /\ work'[n].batch = <<>>
      /\ turn'[n].pc = p /\ ~turn'[n].cancelling
  BY <1>2 DEF Idle, Handle
<1>4. \A u \in TurnIds \ {n} : work'[u] = work[u] /\ turn'[u] = turn[u]
  BY <1>2
<1>5. /\ \A e : Ord(e)' = Ord(e)
      /\ LegacyStop' = LegacyStop
  BY <1>1 DEF Ord, LegacyStop
<1>6. AcceptedOnce' /\ Sorted(queue)'
  BY <1>1, <1>5 DEF LineInv, AcceptedOnce, Sorted
<1>7. Line(n)'
  <2>1. ToSet(<<>>) = {} /\ DOMAIN <<>> = {} /\ \A e : ToSet(<<e>>) = {e}
    BY DEF ToSet
  <2>2. Sorted(work[n].todo)' /\ Sorted(work[n].batch)'
    BY <1>3, <2>1 DEF Sorted
  <2>3. ToSet(s) \cap ToSet(accepted) = {}
    BY <1>1, <2>1 DEF WhereInv
  <2>. QED
    BY <1>1, <1>3, <2>1, <2>2, <2>3, Points DEF Line, Before, At
<1>8. ASSUME NEW u \in TurnIds \ {n} PROVE Line(u)'
  <2>1. Line(u) /\ work'[u] = work[u] /\ turn'[u] = turn[u]
    BY <1>4 DEF LineInv
  <2>2. Run(u)' = Run(u)
    BY <2>1 DEF Run
  <2>3. Sorted(work[u].todo)' /\ Sorted(work[u].batch)'
    BY <1>5, <2>1 DEF Line, Sorted
  <2>. QED
    BY <1>1, <1>5, <2>1, <2>2, <2>3 DEF Line, Before, At
<1>. QED
  BY <1>6, <1>7, <1>8 DEF LineInv

\* A steer that queues stands behind all that was accepted before it.
LEMMA EnqueueKeepsLine ==
    ASSUME RegistryInv, WorkInv, HandInv, WhereInv, LineInv, Enqueues
    PROVE  LineInv'
<1>1. PICK e \in Entries \ used : Enqueue(e)
  BY DEF Enqueues
<1>2. /\ queue' = Append(queue, e) /\ accepted' = Append(accepted, e)
      /\ UNCHANGED <<turn, work, stop, shuttingDown>>
      /\ e \notin ToSet(accepted) /\ queue \in Seq(Entries)
  BY <1>1 DEF Enqueue, registry, harvest, environment, WhereInv, WorkInv
<1>3. /\ AcceptedOnce'
      /\ \A x \in ToSet(accepted) : Ord(x)' = Ord(x) /\ Ord(x) < Ord(e)'
  BY <1>2, OrdGrows DEF LineInv
<1>4. /\ ToSet(queue') = ToSet(queue) \cup {e} /\ ToSet(accepted') = ToSet(accepted) \cup {e}
  BY <1>2, AppendedSet DEF WorkInv
<1>5. Sorted(queue)'
  <2>. DEFINE n == Len(queue)
  <2>1. /\ DOMAIN queue = 1 .. n /\ n \in Nat /\ DOMAIN queue' = 1 .. n + 1 /\ queue'[n + 1] = e
        /\ \A i \in 1 .. n : queue'[i] = queue[i]
    BY <1>2, AppendedEntries
  <2>. HIDE DEF n
  <2>2. \A i \in 1 .. n : queue[i] \in ToSet(accepted)
    BY <2>1 DEF WhereInv, ToSet
  <2>3. ASSUME NEW i \in 1 .. n + 1, NEW j \in 1 .. n + 1, i < j,
               NEW x, x = queue'[i], NEW y, y = queue'[j]
        PROVE  Ord(x)' < Ord(y)'
    <3>1. i \in 1 .. n /\ x \in ToSet(accepted) /\ x = queue[i]
      BY <2>1, <2>2, <2>3
    <3>2. CASE j = n + 1
      BY <1>3, <2>1, <2>3, <3>1, <3>2
    <3>3. CASE j # n + 1
      <4>1. j \in 1 .. n /\ y \in ToSet(accepted) /\ y = queue[j]
        BY <2>1, <2>2, <2>3, <3>3
      <4>2. Ord(x) < Ord(y)
        BY <2>1, <2>3, <3>1, <4>1 DEF LineInv, Sorted
      <4>. QED
        BY <1>3, <3>1, <4>1, <4>2
    <3>. QED
      BY <3>2, <3>3
  <2>4. \A i, j \in DOMAIN queue' : i < j => Ord(queue[i])' < Ord(queue[j])'
    BY <2>1, <2>3
  <2>. QED
    BY <2>4 DEF Sorted
<1>6. LegacyStop' = LegacyStop
  BY <1>2 DEF LegacyStop
<1>7. ASSUME NEW u \in TurnIds PROVE Line(u)'
  <2>1. /\ Line(u) /\ work'[u] = work[u] /\ turn'[u] = turn[u]
        /\ ToSet(work[u].todo) \cup ToSet(work[u].batch) \subseteq ToSet(accepted)
        /\ ToSet(work[u].seed) \subseteq used /\ ToSet(queue) \subseteq ToSet(accepted)
    BY <1>2 DEF LineInv, WhereInv, Where
  <2>2. Run(u)' = Run(u) /\ ToSet(Run(u)) \subseteq ToSet(accepted)
    BY <2>1, BatchIsQueued DEF Run
  <2>3. Sorted(work[u].todo)' /\ Sorted(work[u].batch)'
    <3>1. /\ \A i \in DOMAIN work[u].todo : work[u].todo[i] \in ToSet(work[u].todo)
          /\ \A i \in DOMAIN work[u].batch : work[u].batch[i] \in ToSet(work[u].batch)
      BY DEF ToSet
    <3>2. \A i \in DOMAIN work[u].todo : Ord(work[u].todo[i])' = Ord(work[u].todo[i])
      BY <1>3, <2>1, <3>1
    <3>3. \A i \in DOMAIN work[u].batch : Ord(work[u].batch[i])' = Ord(work[u].batch[i])
      BY <1>3, <2>1, <3>1
    <3>. QED
      BY <2>1, <3>2, <3>3 DEF Line, Sorted
  <2>. QED
    BY <1>1, <1>2, <1>3, <1>4, <1>6, <2>1, <2>2, <2>3 DEF Line, Before, At
<1>. QED
  BY <1>3, <1>5, <1>7 DEF LineInv

\* The steps that are no turn's keep the line.
LEMMA OthersKeepLine ==
    ASSUME RegistryInv, WorkInv, HandInv, WhereInv, StopsInv, LineInv,
           [Next]_vars, \A t \in TurnIds : ~TurnStep(t)
    PROVE  LineInv'
<1>0. queue \in Seq(Entries) /\ Sorted(queue) /\ Sorted(<<>>)
  <2>1. DOMAIN <<>> = {}
    OBVIOUS
  <2>. QED
    BY <2>1 DEF WorkInv, LineInv, Sorted
<1>1. CASE Rests
  <2>1. UNCHANGED <<work, accepted, queue, turn, shuttingDown>> /\ LegacyStop' = LegacyStop
    BY <1>1 DEF Rests, registry, owner, LegacyStop
  <2>. QED
    BY <1>0, <2>1, LineShrinks
<1>2. ASSUME NEW e \in Entries, DeleteSteer(e) PROVE LineInv'
  <2>1. /\ UNCHANGED <<work, accepted, turn, shuttingDown>> /\ LegacyStop' = LegacyStop
        /\ queue' = Without(queue, {e})
    BY <1>2 DEF DeleteSteer, registry, harvest, environment, LegacyStop
  <2>2. Sorted(queue') /\ ToSet(queue') \subseteq ToSet(queue)
    BY <1>0, <2>1, SortedOnly, OnlyEntries
  <2>. QED
    BY <2>1, <2>2, LineShrinks
<1>3. ASSUME NEW scope \in 0 .. nextTurn - 1, Stop(scope) PROVE LineInv'
  <2>1. UNCHANGED <<work, accepted, shuttingDown>> /\ (LegacyStop => LegacyStop')
    BY <1>3, StopsKept DEF Stop, owner, environment
  <2>2. \A u \in TurnIds : turn'[u].pc = turn[u].pc
    BY <1>3, StopLatches DEF Latches
  <2>3. CASE StopRefused(nextStop, scope)
    BY <1>0, <2>1, <2>2, <2>3, LineShrinks DEF StopRefused
  <2>4. CASE StopHarvests(nextStop, scope)
    <3>1. queue' = <<>> /\ ToSet(<<>>) = {}
      BY <2>4 DEF StopHarvests, ToSet
    <3>. QED
      BY <1>0, <2>1, <2>2, <3>1, LineShrinks
  <2>. QED
    BY <1>3, <2>3, <2>4 DEF Stop
<1>4. ASSUME NEW i \in StopIds, StopCancels(i) PROVE LineInv'
  <2>1. UNCHANGED <<work, accepted, queue>> /\ LegacyStop
    BY <1>4 DEF StopCancels, owner, LegacyStop
  <2>2. LegacyStop' /\ \A u \in TurnIds : turn'[u].pc = turn[u].pc
    BY <1>4, <2>1, StopsKept, StopLatches DEF Latches
  <2>. QED
    BY <1>0, <2>1, <2>2, LineShrinks
<1>5. CASE Shutdown
  <2>1. UNCHANGED <<work, accepted, queue>> /\ shuttingDown'
    BY <1>5 DEF Shutdown, owner
  <2>2. \A u \in TurnIds : turn'[u].pc = turn[u].pc
    BY <1>5, StopLatches DEF Latches
  <2>. QED
    BY <1>0, <2>1, <2>2, LineShrinks
<1>. QED
  BY <1>1, <1>2, <1>3, <1>4, <1>5, OtherSteps, StartKeepsLine, EnqueueKeepsLine

-----------------------------------------------------------------------------
\* What may still take effect after what has.
Closing == shuttingDown /\ \A t \in TurnIds : Live(t) => At(t, {"cancel_close", "done"})
Repeat(e, i) == LegacyStop /\ (e \in Textless \/ \E k \in 1 .. i - 1 : applied[k] = e)
MayFollow(e, i) ==
    /\ applied[i] = e => e \in Messages /\ LegacyStop
    /\ {applied[i], e} \subseteq ToSet(accepted) => Ord(applied[i]) <= Ord(e) \/ Repeat(e, i)
Ready(e) == \A i \in DOMAIN applied : MayFollow(e, i)
InOrder == \A i, j \in DOMAIN applied : i < j => MayFollow(applied[j], i)
ReadyHand(t) ==
    /\ At(t, Pending) => \A e \in ToSet(work[t].seed) : Ready(e)
    /\ At(t, {"txn"}) => \A e \in ToSet(work[t].batch) : Ready(e)
ReadyInv ==
    /\ InOrder
    /\ Closing \/ \A e \in ToSet(queue) : Ready(e)
    /\ \A t \in TurnIds : ReadyHand(t)

\* What may follow b, landing after what has taken effect.
Behind(e, b) ==
    \A k \in DOMAIN b :
        /\ b[k] = e => e \in Messages /\ LegacyStop
        /\ {b[k], e} \subseteq ToSet(accepted) =>
               \/ Ord(b[k]) <= Ord(e)
               \/ LegacyStop /\ (e \in Textless \/ \E l \in 1 .. k - 1 : b[l] = e)

\* When a sequence whose entries were ready lands, all has still taken effect in order, and
\* what was ready and stands behind it is ready.
LEMMA Lands ==
    ASSUME WorkInv, InOrder, accepted' = accepted, LegacyStop' = LegacyStop,
           NEW b \in Seq(Entries), applied' = applied \o b,
           \A e \in ToSet(b) : Ready(e),
           \A k, l \in DOMAIN b : k < l =>
               /\ b[k] # b[l]
               /\ {b[k], b[l]} \subseteq ToSet(accepted) => Ord(b[k]) <= Ord(b[l])
    PROVE  /\ InOrder'
           /\ \A e : Ready(e) /\ Behind(e, b) => Ready(e)'
<1>0. PICK n \in Nat, m \in Nat : n = Len(applied) /\ m = Len(b)
  BY DEF WorkInv
<1>1. /\ n \in Nat /\ m \in Nat /\ DOMAIN applied = 1 .. n /\ DOMAIN b = 1 .. m
      /\ DOMAIN applied' = 1 .. n + m
      /\ \A i \in 1 .. n : applied'[i] = applied[i]
      /\ \A k \in 1 .. m : applied'[n + k] = b[k]
  <2>1. /\ applied \in Seq(Entries) /\ n \in Nat /\ m \in Nat
        /\ applied' \in Seq(Entries) /\ Len(applied') = n + m
        /\ \A i \in 1 .. n + m : applied'[i] = IF i <= n THEN applied[i] ELSE b[i - n]
    BY <1>0, ConcatProperties DEF WorkInv
  <2>2. ASSUME NEW k \in 1 .. m PROVE applied'[n + k] = b[k]
    <3>1. n + k \in 1 .. n + m /\ ~(n + k <= n) /\ (n + k) - n = k
      BY <2>1
    <3>. QED
      BY <2>1, <3>1
  <2>. QED
    BY <1>0, <2>1, <2>2
<1>2. \A e : Ord(e)' = Ord(e)
  BY DEF Ord
<1>3. ASSUME NEW e, NEW i \in 1 .. n, MayFollow(e, i) PROVE MayFollow(e, i)'
  <2>1. \A k \in 1 .. i - 1 : k \in 1 .. n
    BY <1>1
  <2>2. Repeat(e, i) => Repeat(e, i)'
    BY <1>1, <2>1 DEF Repeat
  <2>. QED
    BY <1>1, <1>2, <1>3, <2>2 DEF MayFollow
<1>4. ASSUME NEW e, Behind(e, b), NEW k \in 1 .. m PROVE MayFollow(e, n + k)'
  <2>1. \A l \in 1 .. k - 1 : l \in 1 .. m /\ n + l \in 1 .. (n + k) - 1
    BY <1>1
  <2>2. LegacyStop /\ (e \in Textless \/ \E l \in 1 .. k - 1 : b[l] = e) => Repeat(e, n + k)'
    BY <1>1, <2>1 DEF Repeat
  <2>3. applied'[n + k] = b[k]
    BY <1>1
  <2>. QED
    BY <1>1, <1>2, <1>4, <2>2, <2>3 DEF MayFollow, Behind
<1>5. \A i \in 1 .. n + m : i \in 1 .. n \/ \E k \in 1 .. m : i = n + k
  <2>. SUFFICES ASSUME NEW i \in 1 .. n + m, i \notin 1 .. n PROVE \E k \in 1 .. m : i = n + k
    OBVIOUS
  <2>1. i - n \in 1 .. m /\ i = n + (i - n)
    BY <1>1
  <2>. QED
    BY <2>1
<1>6. ASSUME NEW e, Ready(e), Behind(e, b) PROVE Ready(e)'
  <2>1. \A i \in 1 .. n : MayFollow(e, i)'
    BY <1>1, <1>3, <1>6 DEF Ready
  <2>2. \A k \in 1 .. m : MayFollow(e, n + k)'
    BY <1>4, <1>6
  <2>3. \A i \in 1 .. n + m : MayFollow(e, i)'
    BY <1>5, <2>1, <2>2
  <2>. QED
    BY <1>1, <2>3 DEF Ready
<1>7. ASSUME NEW i \in 1 .. n + m, NEW j \in 1 .. n + m, i < j, NEW e, e = applied'[j]
      PROVE  MayFollow(e, i)'
  <2>1. CASE j \in 1 .. n
    <3>1. i \in 1 .. n /\ e = applied[j]
      BY <1>1, <1>7, <2>1
    <3>2. MayFollow(e, i)
      BY <1>1, <1>7, <2>1, <3>1 DEF InOrder
    <3>. QED
      BY <1>3, <3>1, <3>2
  <2>2. ASSUME NEW l \in 1 .. m, j = n + l PROVE MayFollow(e, i)'
    <3>1. e = b[l] /\ e \in ToSet(b)
      BY <1>1, <1>7, <2>2 DEF ToSet
    <3>2. CASE i \in 1 .. n
      <4>1. MayFollow(e, i)
        BY <1>1, <3>1, <3>2 DEF Ready
      <4>. QED
        BY <1>3, <3>2, <4>1
    <3>3. ASSUME NEW k \in 1 .. m, i = n + k PROVE MayFollow(e, i)'
      <4>1. k < l
        BY <1>1, <1>7, <2>2, <3>3
      <4>2. b[k] # b[l] /\ ({b[k], b[l]} \subseteq ToSet(accepted) => Ord(b[k]) <= Ord(b[l]))
        BY <1>1, <4>1
      <4>3. applied'[i] = b[k]
        BY <1>1, <3>3
      <4>. QED
        BY <1>2, <3>1, <4>2, <4>3 DEF MayFollow
    <3>. QED
      BY <1>5, <3>2, <3>3
  <2>. QED
    BY <1>5, <2>1, <2>2
<1>8. \A i, j \in DOMAIN applied' : i < j => MayFollow(applied[j], i)'
  <2>1. \A i, j \in 1 .. n + m : \A e : i < j /\ e = applied'[j] => MayFollow(e, i)'
    BY <1>7
  <2>2. ASSUME NEW i \in DOMAIN applied', NEW j \in DOMAIN applied', i < j
        PROVE  MayFollow(applied[j], i)'
    <3>1. PICK e : e = applied'[j]
      OBVIOUS
    <3>2. MayFollow(e, i)'
      BY <1>1, <2>1, <2>2, <3>1
    <3>. QED
      BY <3>1, <3>2 DEF MayFollow, Repeat
  <2>. QED
    BY <2>2
<1>. QED
  BY <1>6, <1>8 DEF InOrder

\* A step after which nothing more has taken effect.
LEMMA Waits ==
    ASSUME accepted' = accepted, applied' = applied, LegacyStop => LegacyStop'
    PROVE  (InOrder => InOrder') /\ \A e : Ready(e) => Ready(e)'
<1>1. \A e : Ord(e)' = Ord(e)
  BY DEF Ord
<1>2. \A e, i : MayFollow(e, i) => MayFollow(e, i)'
  BY <1>1 DEF MayFollow, Repeat
<1>3. \A i, j : MayFollow(applied[j], i) => MayFollow(applied[j], i)'
  BY <1>1 DEF MayFollow, Repeat
<1>. QED
  BY <1>2, <1>3 DEF InOrder, Ready

\* A sorted run, or a single entry, lands behind itself.
LEMMA RunLands ==
    ASSUME WorkInv, NEW b \in Seq(Entries),
           Len(b) <= 1 \/ (Sorted(b) /\ ToSet(b) \subseteq ToSet(accepted))
    PROVE  \A k, l \in DOMAIN b : k < l =>
               /\ b[k] # b[l]
               /\ {b[k], b[l]} \subseteq ToSet(accepted) => Ord(b[k]) <= Ord(b[l])
<1>1. DOMAIN b = 1 .. Len(b) /\ Len(b) \in Nat
  OBVIOUS
<1>2. CASE Len(b) <= 1
  BY <1>1, <1>2
<1>3. CASE Sorted(b) /\ ToSet(b) \subseteq ToSet(accepted)
  <2>. SUFFICES ASSUME NEW k \in DOMAIN b, NEW l \in DOMAIN b, k < l
                PROVE  b[k] # b[l] /\ Ord(b[k]) <= Ord(b[l])
    OBVIOUS
  <2>1. b[k] \in ToSet(accepted) /\ b[l] \in ToSet(accepted) /\ Ord(b[k]) < Ord(b[l])
    BY <1>3 DEF Sorted, ToSet
  <2>2. Ord(b[k]) \in Nat /\ Ord(b[l]) \in Nat
    BY <2>1, OrdIsPlace
  <2>. QED
    BY <2>1, <2>2
<1>. QED
  BY <1>2, <1>3

\* Who stands behind a run in the line may follow it.
LEMMA StandsBehind ==
    ASSUME WorkInv, NEW b \in Seq(Entries), NEW e, e \notin ToSet(b),
           Before(ToSet(b) \cap ToSet(accepted), {e} \cap ToSet(accepted))
    PROVE  Behind(e, b)
<1>1. ASSUME NEW k \in DOMAIN b
      PROVE  /\ b[k] # e
             /\ {b[k], e} \subseteq ToSet(accepted) => Ord(b[k]) <= Ord(e)
  <2>1. b[k] \in ToSet(b)
    BY DEF ToSet
  <2>2. ASSUME {b[k], e} \subseteq ToSet(accepted) PROVE Ord(b[k]) <= Ord(e)
    <3>1. Ord(b[k]) < Ord(e) /\ Ord(b[k]) \in Nat /\ Ord(e) \in Nat
      BY <2>1, <2>2, OrdIsPlace DEF Before
    <3>. QED
      BY <3>1
  <2>. QED
    BY <2>1, <2>2
<1>. QED
  BY <1>1, Zenon DEF Behind

\* What the landing of a turn's seed, of its batch or of the command it claims leaves ready.
LEMMA SeedIsFollowed ==
    ASSUME WorkInv, HandInv, WhereInv, LineInv, ReadyInv, NEW t \in TurnIds, At(t, Pending),
           accepted' = accepted, LegacyStop' = LegacyStop, applied' = applied \o work[t].seed
    PROVE  InOrder' /\ \A q \in ToSet(queue) : Ready(q) => Ready(q)'
<1>1. PICK b \in Seq(Entries) : b = work[t].seed
  BY DEF WorkInv, WorkSet
<1>2. /\ Len(b) <= 1 /\ ToSet(b) \cap ToSet(queue) = {}
      /\ Before(ToSet(b) \cap ToSet(accepted), ToSet(queue)) /\ \A e \in ToSet(b) : Ready(e)
  BY <1>1 DEF HandInv, Hand, WhereInv, Where, LineInv, Line, ReadyInv, ReadyHand
<1>3. \A q \in ToSet(queue) : Behind(q, b)
  BY <1>2, StandsBehind DEF Before
<1>4. /\ InOrder'
      /\ \A e : Ready(e) /\ Behind(e, b) => Ready(e)'
  BY <1>1, <1>2, RunLands, Lands DEF ReadyInv
<1>. QED
  BY <1>3, <1>4

\* What stays queued may follow the batch that lands.
LEMMA BatchIsFollowed ==
    ASSUME WorkInv, HandInv, WhereInv, LineInv, ReadyInv, NEW t \in TurnIds, At(t, {"txn"}),
           accepted' = accepted, LegacyStop' = LegacyStop, applied' = applied \o work[t].batch
    PROVE  /\ InOrder'
           /\ \A q \in ToSet(queue) : q \notin ToSet(Run(t)) /\ Ready(q) => Ready(q)'
           /\ turn[t].cancelling /\ ~shuttingDown =>
                  \A q \in ToSet(queue) : Ready(q) => Ready(q)'
<1>1. PICK b \in Seq(Entries) : b = work[t].batch
  BY DEF WorkInv, WorkSet
<1>2. /\ ToSet(b) \subseteq ToSet(accepted) /\ Sorted(b) /\ ToSet(b) \subseteq ToSet(Run(t))
      /\ \A e \in ToSet(b) : Ready(e)
      /\ ToSet(b) \subseteq Messages /\ ToSet(queue) \subseteq ToSet(accepted)
  BY <1>1 DEF HandInv, Hand, WhereInv, Where, LineInv, Line, ReadyInv, ReadyHand, Run
<1>3. /\ Before(ToSet(work[t].todo), ToSet(queue) \ ToSet(work[t].todo))
      /\ ToSet(queue) \cap ToSet(Run(t)) \subseteq ToSet(b) \cup Textless
      /\ turn[t].cancelling /\ ~LegacyStop /\ ~shuttingDown =>
             ToSet(queue) \cap ToSet(work[t].todo) = {}
  BY <1>1 DEF LineInv, Line
<1>4. /\ ToSet(work[t].todo) = ToSet(Run(t)) \cup ToSet(Beyond(work[t].todo, Run(t)))
      /\ Before(ToSet(Run(t)), ToSet(Beyond(work[t].todo, Run(t))))
  BY Parted
<1>5. /\ InOrder'
      /\ \A e : Ready(e) /\ Behind(e, b) => Ready(e)'
  BY <1>1, <1>2, RunLands, Lands DEF ReadyInv
<1>6. ASSUME NEW q \in ToSet(queue), q \notin ToSet(Run(t)) PROVE Behind(q, b)
  <2>1. Before(ToSet(b), {q}) /\ q \notin ToSet(b)
    BY <1>2, <1>3, <1>4, <1>6 DEF Before
  <2>. QED
    BY <2>1, StandsBehind DEF Before
<1>7. ASSUME turn[t].cancelling, ~shuttingDown, NEW q \in ToSet(queue), q \in ToSet(Run(t))
      PROVE  Behind(q, b)
  <2>1. LegacyStop
    BY <1>3, <1>4, <1>7
  <2>2. CASE q \in Textless
    <3>1. q \in Messages
      BY <2>2, BoundsAssumption
    <3>. QED
      BY <2>1, <2>2, <3>1 DEF Behind
  <2>3. CASE q \in ToSet(b)
    <3>1. PICK l \in DOMAIN b : b[l] = q
      BY <2>3 DEF ToSet
    <3>2. DOMAIN b = 1 .. Len(b) /\ Len(b) \in Nat
      OBVIOUS
    <3>3. ASSUME NEW k \in DOMAIN b, ~(Ord(b[k]) <= Ord(q)) PROVE \E j \in 1 .. k - 1 : b[j] = q
      <4>1. b[k] \in ToSet(b)
        BY DEF ToSet
      <4>2. Ord(b[k]) \in Nat /\ Ord(q) \in Nat
        BY <1>2, <4>1, OrdIsPlace
      <4>3. ~(k < l) /\ k # l
        BY <1>2, <3>1, <3>3, <4>2 DEF Sorted
      <4>4. l \in 1 .. k - 1
        BY <3>2, <4>3
      <4>. QED
        BY <3>1, <4>4
    <3>4. q \in Messages
      BY <1>2, <2>3
    <3>5. \A k \in DOMAIN b : Ord(b[k]) <= Ord(q) \/ \E j \in 1 .. k - 1 : b[j] = q
      BY <3>3
    <3>. QED
      BY <2>1, <3>4, <3>5, Zenon DEF Behind
  <2>. QED
    BY <1>3, <1>7, <2>2, <2>3
<1>. QED
  BY <1>5, <1>6, <1>7

\* What stays queued may follow the command a turn claims.
LEMMA CommandIsFollowed ==
    ASSUME WorkInv, LineInv, WhereInv, ReadyInv, NEW t \in TurnIds, work[t].todo # <<>>,
           accepted' = accepted, LegacyStop' = LegacyStop,
           Ready(Head(work[t].todo)), applied' = Append(applied, Head(work[t].todo))
    PROVE  /\ InOrder'
           /\ \A q \in ToSet(queue) \ {Head(work[t].todo)} : Ready(q) => Ready(q)'
<1>1. PICK x \in Entries : x = Head(work[t].todo)
  BY HeadAndRest DEF WorkInv, WorkSet
<1>2. /\ applied' = applied \o <<x>> /\ <<x>> \in Seq(Entries) /\ Len(<<x>>) = 1
      /\ ToSet(<<x>>) = {x}
  BY <1>1, AppendIsConcat DEF WorkInv, ToSet
<1>3. ASSUME NEW q \in ToSet(queue) \ {x} PROVE Before({x}, {q})
  <2>1. /\ ToSet(work[t].todo) = {x} \cup ToSet(Tail(work[t].todo))
        /\ Before({x}, ToSet(Tail(work[t].todo)))
    BY <1>1, Parted
  <2>2. Before(ToSet(work[t].todo), ToSet(queue) \ ToSet(work[t].todo))
    BY DEF LineInv, Line
  <2>. QED
    BY <1>3, <2>1, <2>2 DEF Before
<1>4. \A q \in ToSet(queue) \ {x} : Behind(q, <<x>>)
  <2>. SUFFICES ASSUME NEW q \in ToSet(queue) \ {x} PROVE Behind(q, <<x>>)
    OBVIOUS
  <2>1. Before(ToSet(<<x>>) \cap ToSet(accepted), {q} \cap ToSet(accepted)) /\ q \notin ToSet(<<x>>)
    BY <1>2, <1>3 DEF Before
  <2>. QED
    BY <1>2, <2>1, StandsBehind
<1>5. \A e \in ToSet(<<x>>) : Ready(e)
  BY <1>1, <1>2
<1>6. PICK b \in Seq(Entries) : b = <<x>>
  BY <1>2
<1>8. \A k, l \in DOMAIN b : ~(k < l)
  BY <1>2, <1>6
<1>9. \A e \in ToSet(b) : Ready(e)
  BY <1>5, <1>6
<1>10. applied' = applied \o b
  BY <1>2, <1>6
<1>7. /\ InOrder'
      /\ \A e : Ready(e) /\ Behind(e, b) => Ready(e)'
  BY <1>8, <1>9, <1>10, Lands DEF ReadyInv
<1>. QED
  BY <1>1, <1>4, <1>6, <1>7

\* After a turn's step nobody else is about to write.
LEMMA OthersDoNotWrite ==
    ASSUME NEW t \in TurnIds, OthersRest(t), NEW u \in TurnIds \ {t}
    PROVE  ReadyHand(u)' /\ (shuttingDown => ~Live(u)')
<1>1. ~Live(u) /\ (turn'[u] = turn[u] \/ (turn'[u] = Handle("chat", "body_new") /\ ~shuttingDown))
  BY DEF OthersRest
<1>2. turn'[u].pc \notin Pending \cup {"txn"} /\ (shuttingDown => turn'[u].pc \notin LivePoints)
  BY <1>1, Points DEF Live, Handle, Pending
<1>. QED
  BY <1>2 DEF ReadyHand, At, Live

\* Every step of a turn lands only what may follow, and leaves what may follow.
LEMMA TurnKeepsReady ==
    ASSUME RegistryInv, WorkInv, HandInv, WhereInv, StopsInv, BooksInv, LineInv, ReadyInv,
           NEW t \in TurnIds, TurnStep(t)
    PROVE  ReadyInv'
<1>1. /\ Moves(t) /\ Live(t) /\ Hand(t) /\ OthersRest(t) /\ ReadyHand(t) /\ InOrder
      /\ accepted' = accepted /\ shuttingDown' = shuttingDown /\ LegacyStop' = LegacyStop
      /\ ToSet(queue') \subseteq ToSet(queue)
      /\ \A S : ToSet(Without(queue, S)) = ToSet(queue) \ S
  BY StepMoves, StepLeavesOthers, StepEntries, TurnKeepsBooks, Parted
     DEF HandInv, ReadyInv, owner, environment
<1>2. /\ \A u \in TurnIds \ {t} : ReadyHand(u)'
      /\ shuttingDown => \A u \in TurnIds \ {t} : ~Live(u)'
  BY <1>1, OthersDoNotWrite
<1>3. CASE Closing
  <2>1. At(t, {"cancel_close", "done"})
    BY <1>1, <1>3 DEF Closing
  <2>2. Ends(t)
    BY <1>1, <2>1 DEF Moves, Walks, Breaks, SeedLands, BatchLands, Persists, Peeks, Opens,
       Commits, Drains, Calls, Takes, Seeds, At
  <2>3. turn'[t].pc \in {"over", "done"} /\ applied' = applied
    BY <2>2 DEF Ends
  <2>4. Closing' /\ ReadyHand(t)'
    BY <1>1, <1>2, <1>3, <2>3, Points DEF Closing, ReadyHand, Pending, At, Live
  <2>5. InOrder'
    BY <1>1, <2>3, Waits
  <2>. QED
    BY <1>2, <2>4, <2>5 DEF ReadyInv
<1>4. CASE ~Closing
  <2>1. \A q \in ToSet(queue) : Ready(q)
    BY <1>4 DEF ReadyInv
  <2>2. ASSUME InOrder', \A q \in ToSet(queue') : Ready(q)', ReadyHand(t)' PROVE ReadyInv'
    BY <1>2, <2>2 DEF ReadyInv
  <2>3. ASSUME applied' = applied, ReadyHand(t)' PROVE ReadyInv'
    BY <1>1, <2>1, <2>2, <2>3, Waits
  <2>4. applied' = applied => \A e : Ready(e) => Ready(e)'
    BY <1>1, Waits
  <2>5. turn'[t].pc \notin Pending \cup {"txn"} => ReadyHand(t)'
    BY DEF ReadyHand, At
  <2>6. CASE Walks(t) \/ Breaks(t)
    <3>1. /\ work'[t] = work[t] /\ applied' = applied /\ turn'[t].pc # "txn"
          /\ turn'[t].pc \in Pending => At(t, Pending)
      BY <2>6 DEF Walks, Breaks, StillHolding, Onward, At, Pending
    <3>2. ReadyHand(t)'
      BY <1>1, <2>4, <3>1 DEF ReadyHand, At
    <3>. QED
      BY <2>3, <3>1, <3>2
  <2>7. CASE Peeks(t) \/ Calls(t) \/ Takes(t) \/ Ends(t)
    <3>1. applied' = applied /\ turn'[t].pc \notin Pending \cup {"txn"}
      BY <2>7 DEF Peeks, Calls, Takes, Ends, Onward, Pending
    <3>. QED
      BY <2>3, <2>5, <3>1
  <2>8. CASE Opens(t)
    <3>1. work'[t].batch = Batch(t) /\ applied' = applied /\ turn'[t].pc = "txn"
      BY <2>8 DEF Opens, Holding, Onward
    <3>2. ToSet(Batch(t)) \subseteq ToSet(queue)
      BY BatchIsQueued
    <3>3. ReadyHand(t)'
      BY <2>1, <2>4, <3>1, <3>2 DEF ReadyHand, At, Pending
    <3>. QED
      BY <2>3, <3>1, <3>3
  <2>9. CASE Seeds(t)
    <3>1. /\ work'[t].seed = work[t].batch /\ applied' = applied /\ turn'[t].pc = "spawned"
          /\ At(t, BodyPoints) /\ Head(work[t].batch) \in ToSet(queue) /\ work[t].batch # <<>>
      BY <2>9, Points DEF Seeds, Holding, Onward, At
    <3>2. ToSet(work[t].batch) \subseteq ToSet(queue)
      BY <1>1, <3>1, Parted DEF Hand
    <3>3. ReadyHand(t)'
      BY <2>1, <2>4, <3>1, <3>2 DEF ReadyHand, At
    <3>. QED
      BY <2>3, <3>1, <3>3
  <2>10. CASE SeedLands(t) \/ Persists(t)
    <3>1. /\ At(t, Pending) /\ applied' = applied \o work[t].seed
          /\ turn'[t].pc \notin Pending \cup {"txn"} /\ queue' = queue
      BY <2>10 DEF SeedLands, Persists, Onward, At, Pending
    <3>2. InOrder' /\ \A q \in ToSet(queue) : Ready(q) => Ready(q)'
      BY <1>1, <3>1, SeedIsFollowed
    <3>. QED
      BY <2>1, <2>2, <2>5, <3>1, <3>2
  <2>11. CASE BatchLands(t)
    <3>1. /\ At(t, {"txn"}) /\ turn[t].cancelling /\ applied' = applied \o work[t].batch
          /\ turn'[t].pc = "cancel_close" /\ queue' = queue
      BY <2>11 DEF BatchLands, Onward
    <3>2. /\ InOrder'
          /\ ~shuttingDown => \A q \in ToSet(queue) : Ready(q) => Ready(q)'
      BY <1>1, <3>1, BatchIsFollowed
    <3>3. ReadyHand(t)'
      BY <2>5, <3>1 DEF Pending
    <3>4. CASE ~shuttingDown
      BY <2>1, <2>2, <3>1, <3>2, <3>3, <3>4
    <3>5. CASE shuttingDown
      <4>1. Closing'
        BY <1>1, <1>2, <3>1, <3>5 DEF Closing, At
      <4>. QED
        BY <1>2, <3>2, <3>3, <4>1 DEF ReadyInv
    <3>. QED
      BY <3>4, <3>5
  <2>12. CASE Commits(t)
    <3>1. /\ At(t, {"txn"}) /\ applied' = applied \o work[t].batch
          /\ turn'[t].pc = "drain" /\ ToSet(queue') = ToSet(queue) \ ToSet(Run(t))
      BY <1>1, <2>12 DEF Commits, Onward
    <3>2. /\ InOrder'
          /\ \A q \in ToSet(queue) : q \notin ToSet(Run(t)) /\ Ready(q) => Ready(q)'
      BY <1>1, <3>1, BatchIsFollowed
    <3>. QED
      BY <2>1, <2>2, <2>5, <3>1, <3>2 DEF Pending
  <2>13. CASE Drains(t)
    <3>. DEFINE x == Head(work[t].todo)
    <3>1. /\ work[t].todo # <<>> /\ ToSet(queue') = ToSet(queue) \ {x}
          /\ turn'[t].pc \notin Pending \cup {"txn"}
          /\ applied' = applied \/ (x \in ToSet(queue) /\ applied' = Append(applied, x))
      BY <1>1, <2>13 DEF Drains, Onward, Pending
    <3>2. CASE applied' = applied
      BY <2>3, <2>5, <3>1, <3>2
    <3>3. CASE x \in ToSet(queue) /\ applied' = Append(applied, x)
      <4>1. /\ InOrder'
            /\ \A q \in ToSet(queue) \ {x} : Ready(q) => Ready(q)'
        BY <1>1, <2>1, <3>1, <3>3, CommandIsFollowed
      <4>. QED
        BY <2>1, <2>2, <2>5, <3>1, <4>1
    <3>. QED
      BY <3>1, <3>2, <3>3
  <2>. QED
    BY <1>1, <2>6, <2>7, <2>8, <2>9, <2>10, <2>11, <2>12, <2>13 DEF Moves
<1>. QED
  BY <1>3, <1>4

\* The steps that are no turn's keep what is ready ready.
LEMMA OthersKeepReady ==
    ASSUME RegistryInv, WorkInv, HandInv, WhereInv, StopsInv, BooksInv, LineInv, ReadyInv,
           [Next]_vars, \A t \in TurnIds : ~TurnStep(t)
    PROVE  ReadyInv' /\ (UnsentNeverRuns => UnsentNeverRuns')
<1>1. CASE Starts
  <2>1. PICK k \in Kinds, p \in LivePoints, s \in Seq(Entries) :
            /\ Reserve(k, p, [Idle EXCEPT !.seed = s]) /\ ~shuttingDown
            /\ UNCHANGED <<queue, applied, accepted, unsent, handed, stop, shuttingDown>>
            /\ s = <<>> \/ \E e \in Entries \ used : s = <<e>>
            /\ p # "txn"
    BY <1>1 DEF Starts, effects, environment
  <2>2. PICK n \in TurnIds :
            /\ work' = [work EXCEPT ![n] = [Idle EXCEPT !.seed = s]]
            /\ turn' = [turn EXCEPT ![n] = Handle(k, p)]
            /\ work \in [TurnIds -> WorkSet] /\ turn \in [TurnIds -> HandleSet]
    BY <2>1 DEF Reserve, WorkInv, RegistryInv, RegistryTypeOK, HandleSet
  <2>3. work'[n].seed = s /\ turn'[n].pc = p
    BY <2>2 DEF Idle, Handle
  <2>4. \A u \in TurnIds \ {n} : work'[u] = work[u] /\ turn'[u] = turn[u]
    BY <2>2
  <2>5. InOrder' /\ \A e : Ready(e) => Ready(e)'
    BY <2>1, Waits DEF ReadyInv, LegacyStop
  <2>6. \A e \in ToSet(s) : Ready(e)
    <3>1. ToSet(<<>>) = {} /\ \A e : ToSet(<<e>>) = {e}
      BY DEF ToSet
    <3>2. ASSUME NEW e, e \notin used PROVE Ready(e)
      <4>1. \A i \in DOMAIN applied : applied[i] # e
        BY <3>2 DEF WhereInv, ToSet
      <4>2. e \notin ToSet(accepted)
        BY <3>2 DEF WhereInv
      <4>. QED
        BY <4>1, <4>2 DEF Ready, MayFollow
    <3>. QED
      BY <2>1, <3>1, <3>2
  <2>7. ReadyHand(n)'
    BY <2>1, <2>3, <2>5, <2>6 DEF ReadyHand, At
  <2>8. \A u \in TurnIds \ {n} : ReadyHand(u)'
    BY <2>4, <2>5 DEF ReadyInv, ReadyHand, At
  <2>9. \A q \in ToSet(queue') : Ready(q)'
    BY <2>1, <2>5 DEF ReadyInv, Closing
  <2>. QED
    BY <2>1, <2>5, <2>7, <2>8, <2>9 DEF ReadyInv, UnsentNeverRuns
<1>2. CASE Enqueues
  <2>1. PICK e \in Entries \ used : Enqueue(e)
    BY <1>2 DEF Enqueues
  <2>2. /\ queue' = Append(queue, e) /\ accepted' = Append(accepted, e)
        /\ UNCHANGED <<turn, work, applied, stop, shuttingDown, unsent, handed>>
        /\ e \notin ToSet(accepted) /\ e \notin used /\ ~shuttingDown
    BY <1>2, <2>1 DEF Enqueue, Enqueues, registry, effects, harvest, environment, WhereInv
  <2>3. \A x \in ToSet(accepted) : Ord(x)' = Ord(x) /\ Ord(x) < Ord(e)'
    BY <2>2, OrdGrows DEF LineInv
  <2>4. /\ ToSet(queue') = ToSet(queue) \cup {e} /\ ToSet(accepted') = ToSet(accepted) \cup {e}
        /\ LegacyStop' = LegacyStop
    BY <2>2, AppendedSet DEF WorkInv, LegacyStop
  <2>5. \A i \in DOMAIN applied : applied[i] # e
    BY <2>2 DEF WhereInv, ToSet
  <2>6. ASSUME NEW x, x # e, NEW i \in DOMAIN applied, MayFollow(x, i) PROVE MayFollow(x, i)'
    <3>1. Repeat(x, i)' = Repeat(x, i)
      BY <2>2, <2>4 DEF Repeat
    <3>. QED
      BY <2>2, <2>3, <2>4, <2>5, <2>6, <3>1 DEF MayFollow
  <2>7. ASSUME NEW i \in DOMAIN applied PROVE MayFollow(e, i)'
    <3>1. ASSUME applied[i] \in ToSet(accepted) PROVE Ord(applied[i])' <= Ord(e)'
      <4>1. PICK x : x = applied[i]
        OBVIOUS
      <4>2. Ord(x) \in Nat /\ Ord(x)' = Ord(x) /\ Ord(x) < Ord(e)'
        BY <2>3, <3>1, <4>1, OrdIsPlace
      <4>3. Ord(e)' \in Nat
        <5>1. Len(accepted') \in Nat /\ DOMAIN accepted' = 1 .. Len(accepted')
          BY <2>2, AppendedEntries DEF WorkInv
        <5>2. \E j \in DOMAIN accepted' : accepted'[j] = e
          BY <2>4 DEF ToSet
        <5>3. Ord(e)' \in DOMAIN accepted'
          BY <5>2 DEF Ord
        <5>. QED
          BY <5>1, <5>3
      <4>4. Ord(applied[i])' = Ord(x)'
        BY <2>2, <4>1 DEF Ord
      <4>. QED
        BY <4>2, <4>3, <4>4
    <3>. QED
      BY <2>2, <2>4, <2>5, <3>1 DEF MayFollow
  <2>8. Ready(e)' /\ \A x : x # e /\ Ready(x) => Ready(x)'
    BY <2>2, <2>6, <2>7 DEF Ready
  <2>9. InOrder'
    <3>. SUFFICES ASSUME NEW i \in DOMAIN applied, NEW j \in DOMAIN applied, i < j
                  PROVE  MayFollow(applied[j], i)'
      BY <2>2 DEF InOrder
    <3>1. PICK x : x = applied[j]
      OBVIOUS
    <3>2. MayFollow(x, i)'
      BY <2>5, <2>6, <3>1 DEF ReadyInv, InOrder
    <3>. QED
      BY <2>2, <3>1, <3>2 DEF MayFollow, Repeat
  <2>10. \A q \in ToSet(queue') : Ready(q)'
    BY <2>2, <2>4, <2>8 DEF ReadyInv, Closing
  <2>11. ASSUME NEW u \in TurnIds PROVE ReadyHand(u)'
    <3>1. e \notin ToSet(work[u].seed) /\ e \notin ToSet(work[u].batch) /\ ReadyHand(u)
      BY <2>2 DEF WhereInv, Where, ReadyInv
    <3>. QED
      BY <2>2, <2>8, <3>1 DEF ReadyHand, At
  <2>. QED
    BY <2>2, <2>9, <2>10, <2>11 DEF ReadyInv, UnsentNeverRuns
<1>3. ASSUME UNCHANGED <<work, applied, accepted>>, ToSet(queue') \subseteq ToSet(queue),
             LegacyStop => LegacyStop', shuttingDown => shuttingDown',
             \A u \in TurnIds : turn'[u].pc = turn[u].pc
      PROVE  ReadyInv'
  <2>1. InOrder' /\ \A e : Ready(e) => Ready(e)'
    BY <1>3, Waits DEF ReadyInv
  <2>2. Closing => Closing'
    BY <1>3 DEF Closing, Live, At
  <2>. QED
    BY <1>3, <2>1, <2>2 DEF ReadyInv, ReadyHand, At
<1>4. CASE Rests
  <2>1. ReadyInv'
    BY <1>3, <1>4 DEF Rests, registry, effects, owner, LegacyStop
  <2>. QED
    BY <1>4, <2>1 DEF Rests, UnsentNeverRuns, effects, owner
<1>5. CASE \/ \E scope \in 0 .. nextTurn - 1 : Stop(scope)
           \/ \E e \in Entries : DeleteSteer(e)
  <2>1. \A u \in TurnIds : turn'[u].pc = turn[u].pc
    BY <1>5, StopLatches DEF Latches, DeleteSteer, registry
  <2>2. TakesBack
    BY <1>5, StopTakesBack
  <2>3. LegacyStop => LegacyStop'
    BY StopsKept
  <2>4. ReadyInv'
    BY <1>3, <2>1, <2>2, <2>3 DEF TakesBack
  <2>5. ASSUME UnsentNeverRuns PROVE UnsentNeverRuns'
    <3>1. ASSUME NEW e \in ToSet(queue) \cap Execs PROVE e \notin ToSet(applied)
      <4>1. Ready(e) /\ e \notin Messages
        BY <2>2, BoundsAssumption DEF ReadyInv, Closing, TakesBack
      <4>. QED
        BY <4>1 DEF Ready, MayFollow, ToSet
    <3>. QED
      BY <2>2, <2>5, <3>1 DEF TakesBack, UnsentNeverRuns
  <2>. QED
    BY <2>4, <2>5
<1>6. CASE Shutdown \/ \E i \in StopIds : StopCancels(i)
  <2>1. \A u \in TurnIds : turn'[u].pc = turn[u].pc
    BY <1>6, StopLatches DEF Latches
  <2>2. /\ UNCHANGED <<work, applied, accepted, queue, unsent, handed>>
        /\ shuttingDown => shuttingDown'
    BY <1>6 DEF Shutdown, StopCancels, effects, owner, harvest, environment
  <2>3. LegacyStop => LegacyStop'
    BY StopsKept
  <2>4. ReadyInv'
    BY <1>3, <2>1, <2>2, <2>3
  <2>. QED
    BY <2>2, <2>4 DEF UnsentNeverRuns
<1>. QED
  BY <1>1, <1>2, <1>4, <1>5, <1>6, OtherSteps

-----------------------------------------------------------------------------
\* An idle thread, or one held by an endpoint alone, has no queue behind a completed turn.
IdleInv ==
    completed /\ queue # <<>> /\ (marker = NoTurn \/ At(marker, SyncPoints)) => shuttingDown

\* A turn that completes chains, or leaves no queue.
LEMMA TurnKeepsIdle ==
    ASSUME RegistryInv, WorkInv, HandInv, IdleInv, NEW t \in TurnIds, TurnStep(t)
    PROVE  IdleInv'
<1>1. /\ turn \in [TurnIds -> HandleSet] /\ marker = t /\ t # NoTurn
      /\ shuttingDown' = shuttingDown
      /\ \A n \in TurnIds : n # NoTurn
  BY StepMoves
     DEF RegistryInv, RegistryTypeOK, HandleSet, MarkerExact, TurnIds, NoTurn, environment
<1>2. SyncPoints = {"sync_start", "sync_run"}
  BY Points
<1>3. ASSUME marker' = marker, turn'[t].pc \notin SyncPoints PROVE IdleInv'
  BY <1>1, <1>3 DEF IdleInv, At
<1>4. ASSUME marker' = marker, NEW p, Goto(t, p), p \notin SyncPoints PROVE IdleInv'
  <2>1. turn'[t].pc = p
    BY <1>1, <1>4 DEF Goto, Mark
  <2>. QED
    BY <1>3, <1>4, <2>1
<1>5. ASSUME NEW s, s # "completed", Abandon(t, s) PROVE IdleInv'
  BY <1>5 DEF Abandon, IdleInv
<1>6. ASSUME NEW s, EndTurn(t, s), queue' = queue PROVE IdleInv'
  <2>1. Released(t) = NoTurn
    BY <1>1 DEF Released
  <2>2. CASE MaySpawnDrainB(s, queue)
    <3>1. marker' = nextTurn /\ nextTurn \in TurnIds
          /\ turn' = [[turn EXCEPT ![t] = Handle("chat", "over")]
                          EXCEPT ![nextTurn] = Handle("chat", "body_new")]
      BY <1>6, <2>1, <2>2 DEF EndTurn
    <3>2. PICK n \in TurnIds : n = nextTurn
      BY <3>1
    <3>3. turn'[n].pc = "body_new" /\ marker' = n /\ n # NoTurn
      BY <1>1, <3>1, <3>2 DEF Handle
    <3>. QED
      BY <1>2, <3>3 DEF IdleInv, At
  <2>3. CASE ~MaySpawnDrainB(s, queue)
    BY <1>1, <1>6, <2>1, <2>3 DEF EndTurn, MaySpawnDrainB, IdleInv
  <2>. QED
    BY <2>2, <2>3
<1>7. ASSUME NEW p, NEW s, NEW c, turn' = Mark(t, p, s, c), p \notin SyncPoints, marker' = marker
      PROVE  IdleInv'
  <2>1. turn'[t].pc = p
    BY <1>1, <1>7 DEF Mark
  <2>. QED
    BY <1>3, <1>7, <2>1
<1>8. CASE HandlerStep(t)
  <2>1. CASE HandOff(t)
    BY <1>2, <1>4, <2>1 DEF HandOff
  <2>2. CASE Refuse(t)
    BY <1>5, <2>2 DEF Refuse
  <2>3. CASE SyncExec(t)
    BY <1>1, <1>2, <2>3 DEF SyncExec, IdleInv, At
  <2>4. CASE SyncEnd(t)
    BY <1>1, <1>2, <2>4 DEF SyncEnd, IdleInv, At
  <2>. QED
    BY <1>8, <2>1, <2>2, <2>3, <2>4 DEF HandlerStep
<1>9. CASE DrainStep(t)
  <2>1. CASE Conclude(t) \/ ResumeEndsEarly(t) \/ Close(t)
    BY <1>2, <1>7, <2>1 DEF Conclude, ResumeEndsEarly, Close
  <2>2. CASE Cleanup(t)
    BY <1>6, <2>2 DEF Cleanup
  <2>3. CASE \/ Start(t) \/ Persist(t) \/ Peek(t)
             \/ ClaimFiles(t) \/ OpenTransaction(t) \/ CommitTransaction(t)
    BY <1>2, <1>4, <2>3 DEF Start, Persist, Peek, ClaimFiles, OpenTransaction, CommitTransaction
  <2>4. CASE RunExec(t) \/ ExecDone(t) \/ CallModel(t) \/ NextIteration(t)
    BY <1>2, <1>4, <2>4 DEF RunExec, DrainExec, ExecDone, CallModel, NextIteration
  <2>5. CASE Raise(t)
    BY <1>2, <1>4, <2>5 DEF Raise
  <2>6. CASE CancelLands(t)
    <3>1. marker' = marker /\ (Goto(t, "done") \/ Goto(t, "cancel_close"))
      BY <2>6 DEF CancelLands
    <3>. QED
      BY <1>2, <1>4, <3>1
  <2>. QED
    BY <1>9, <2>1, <2>2, <2>3, <2>4, <2>5, <2>6 DEF DrainStep
<1>10. CASE BodyStep(t)
  <2>1. CASE BodyStart(t)
    BY <1>2, <1>4, <1>5, <2>1 DEF BodyStart
  <2>2. CASE BodyAllExec(t)
    BY <1>6, <2>2 DEF BodyAllExec
  <2>3. CASE BodyExec(t) \/ BodyExecDone(t) \/ BodySeed(t)
    BY <1>2, <1>4, <2>3 DEF BodyExec, DrainExec, BodyExecDone, BodySeed
  <2>4. CASE BodySeedFails(t) \/ BodyStaleHead(t) \/ BodyRaise(t) \/ BodyCancelled(t)
    BY <1>5, <2>4 DEF BodySeedFails, BodyStaleHead, BodyRaise, BodyCancelled
  <2>. QED
    BY <1>10, <2>1, <2>2, <2>3, <2>4 DEF BodyStep
<1>. QED
  BY <1>8, <1>9, <1>10 DEF TurnStep

\* Nobody queues behind an idle thread.
LEMMA OthersKeepIdle ==
    ASSUME RegistryInv, WorkInv, HandInv, IdleInv, [Next]_vars, \A t \in TurnIds : ~TurnStep(t)
    PROVE  IdleInv'
<1>0. turn \in [TurnIds -> HandleSet] /\ queue \in Seq(Entries) /\ marker \in TurnIds \cup {NoTurn}
  BY DEF RegistryInv, RegistryTypeOK, HandleSet, WorkInv
<1>1. CASE Starts
  <2>1. PICK k \in Kinds, p \in LivePoints, s \in Seq(Entries) :
            Reserve(k, p, [Idle EXCEPT !.seed = s]) /\ queue' = queue /\ ~shuttingDown
    BY <1>1 DEF Starts
  <2>2. marker = NoTurn /\ completed' = completed
    BY <2>1 DEF Reserve
  <2>3. ~(completed /\ queue # <<>>)
    BY <2>1, <2>2 DEF IdleInv
  <2>. QED
    BY <2>1, <2>2, <2>3 DEF IdleInv
<1>2. CASE Enqueues
  <2>1. PICK e \in Entries : Enqueue(e)
    BY <1>2 DEF Enqueues
  <2>2. marker \in TurnIds /\ marker # NoTurn /\ turn[marker].kind \in {"chat", "resume"}
    BY <1>0, <2>1 DEF Enqueue, Steerable
  <2>3. ~At(marker, SyncPoints)
    BY <2>2 DEF HandInv, Hand
  <2>. QED
    BY <2>1, <2>2, <2>3 DEF Enqueue, registry, IdleInv, At
<1>3. ASSUME UNCHANGED <<marker, completed>>, shuttingDown => shuttingDown',
             queue' # <<>> => queue # <<>>,
             \A u \in TurnIds : turn'[u].pc = turn[u].pc
      PROVE  IdleInv'
  BY <1>0, <1>3 DEF IdleInv, At
<1>4. CASE Rests
  BY <1>3, <1>4 DEF Rests, registry
<1>5. CASE \/ \E scope \in 0 .. nextTurn - 1 : Stop(scope)
           \/ \E e \in Entries : DeleteSteer(e)
  <2>1. \A u \in TurnIds : turn'[u].pc = turn[u].pc
    BY <1>5, StopLatches DEF Latches, DeleteSteer, registry
  <2>2. TakesBack
    BY <1>5, StopTakesBack
  <2>3. queue' # <<>> => queue # <<>>
    <3>1. queue' # <<>> => Head(queue') \in ToSet(queue)
      BY <2>2, HeadAndRest DEF TakesBack
    <3>. QED
      BY <3>1 DEF ToSet
  <2>4. UNCHANGED <<marker, completed>>
    BY <1>5 DEF Stop, DeleteSteer, registry
  <2>. QED
    BY <1>3, <2>1, <2>2, <2>3, <2>4 DEF TakesBack
<1>6. CASE Shutdown \/ \E i \in StopIds : StopCancels(i)
  <2>1. \A u \in TurnIds : turn'[u].pc = turn[u].pc
    BY <1>6, StopLatches DEF Latches
  <2>2. UNCHANGED <<marker, completed, queue>> /\ (shuttingDown => shuttingDown')
    BY <1>6 DEF Shutdown, StopCancels, environment
  <2>. QED
    BY <1>3, <2>1, <2>2
<1>. QED
  BY <1>1, <1>2, <1>4, <1>5, <1>6, OtherSteps

-----------------------------------------------------------------------------
\* The invariant of the steers.
SteerInv ==
    /\ RegistryInv /\ WorkInv /\ HandInv /\ WhereInv /\ StopsInv /\ BooksInv
    /\ LineInv /\ ReadyInv /\ IdleInv /\ UnsentNeverRuns /\ LostOnlyAsSeed

\* Every step keeps the invariant: each steer is in the line, in a hand or in the books.
THEOREM SteerInductive == SteerInv /\ [Next]_vars => SteerInv'
<1>. SUFFICES ASSUME SteerInv, [Next]_vars PROVE SteerInv'
  OBVIOUS
<1>. USE DEF SteerInv
<1>1. RegistryInv'
  BY RegistryInductive
<1>2. ASSUME NEW t \in TurnIds, TurnStep(t) PROVE SteerInv'
  <2>1. WorkInv' /\ HandInv' /\ WhereInv' /\ UnsentNeverRuns'
    BY <1>2, TurnKeepsWork, TurnKeepsHand, TurnKeepsWhere
  <2>2. StopsInv' /\ BooksInv' /\ LostOnlyAsSeed'
    BY <1>2, TurnKeepsBooks
  <2>3. LineInv' /\ ReadyInv' /\ IdleInv'
    BY <1>2, TurnKeepsLine, TurnKeepsReady, TurnKeepsIdle
  <2>. QED
    BY <1>1, <2>1, <2>2, <2>3
<1>3. ASSUME \A t \in TurnIds : ~TurnStep(t) PROVE SteerInv'
  <2>1. WorkInv' /\ HandInv' /\ WhereInv'
    BY <1>3, OthersKeepHand, OthersKeepWhere
  <2>2. StopsInv' /\ BooksInv' /\ LostOnlyAsSeed'
    BY <1>3, StopsKept, OthersKeepBooks, OthersLoseNothing
  <2>3. LineInv' /\ ReadyInv' /\ UnsentNeverRuns' /\ IdleInv'
    BY <1>3, OthersKeepLine, OthersKeepReady, OthersKeepIdle
  <2>. QED
    BY <1>1, <2>1, <2>2, <2>3
<1>. QED
  BY <1>2, <1>3

\* A process starts with an empty queue and empty hands.
LEMMA SteerInitial == Init => SteerInv
<1>. SUFFICES ASSUME Init PROVE SteerInv
  OBVIOUS
<1>0. ToSet(<<>>) = {} /\ DOMAIN <<>> = {} /\ <<>> \in Seq(Entries) /\ Len(<<>>) = 0
  BY EmptySeq DEF ToSet
<1>1. RegistryInv
  BY RegistryInitial
<1>2. /\ \A t \in TurnIds : work[t] = Idle /\ turn[t].pc = "unused"
      /\ Idle \in WorkSet /\ "unused" \notin LivePoints
      /\ Idle.seed = <<>> /\ Idle.todo = <<>> /\ Idle.batch = <<>> /\ Idle.calls = 0
  BY <1>0, LivePointsNamed, BoundsAssumption DEF Init, Idle, Handle, WorkSet
<1>3. /\ queue = <<>> /\ applied = <<>> /\ accepted = <<>> /\ used = {} /\ unsent = {}
      /\ handed = {} /\ marker = NoTurn /\ work = [t \in TurnIds |-> Idle]
  BY DEF Init
<1>4. WorkInv
  BY <1>0, <1>2, <1>3 DEF WorkInv
<1>5. HandInv
  BY <1>0, <1>2, LivePointsNamed, Points DEF HandInv, Hand, At, Live, Uncalled
<1>6. WhereInv
  BY <1>0, <1>2, <1>3 DEF WhereInv, Where, Back
<1>7. StopsInv
  <2>1. NoStop \in [pc : {"idle", "reading", "scoped", "unscoped"}, found : 0 .. MaxTurns]
        /\ NoStop.pc = "idle"
    BY BoundsAssumption DEF NoStop, NoTurn
  <2>2. stop = [i \in StopIds |-> NoStop] /\ nextStop = 1
    BY DEF Init
  <2>. QED
    BY <2>1, <2>2, BoundsAssumption DEF StopsInv, StopSet
<1>8. BooksInv
  <2>1. receipt.held = FALSE /\ receipt.entries = <<>>
    BY DEF Init, NoReceipt
  <2>. QED
    BY <1>0, <2>1 DEF Init, BooksInv, FilesSet
<1>9. LineInv
  <2>1. AcceptedOnce /\ Sorted(queue) /\ Sorted(<<>>)
    BY <1>0, <1>3 DEF AcceptedOnce, Sorted
  <2>2. ASSUME NEW t \in TurnIds PROVE Line(t)
    BY <1>0, <1>2, <1>3, <2>1, Points DEF Line, Before, At
  <2>. QED
    BY <2>1, <2>2 DEF LineInv
<1>10. ReadyInv
  <2>1. InOrder
    BY <1>0, <1>3 DEF InOrder
  <2>2. \A t \in TurnIds : ReadyHand(t)
    BY <1>0, <1>2 DEF ReadyHand, At
  <2>. QED
    BY <1>0, <1>3, <2>1, <2>2 DEF ReadyInv
<1>11. IdleInv /\ UnsentNeverRuns /\ LostOnlyAsSeed
  BY <1>0, <1>3 DEF IdleInv, UnsentNeverRuns, LostOnlyAsSeed
<1>. QED
  BY <1>1, <1>4, <1>5, <1>6, <1>7, <1>8, <1>9, <1>10, <1>11 DEF SteerInv

-----------------------------------------------------------------------------
\* What the invariant says of the properties the runs check.

\* The steers that took effect did so in the order in which they were accepted.
LEMMA OrderIsFifo == WorkInv /\ InOrder => FirstInFirstOut
<1>. SUFFICES ASSUME WorkInv, InOrder PROVE FirstInFirstOut
  OBVIOUS
<1>. DEFINE S == ToSet(accepted)
            r == Only(applied, S)
<1>1. applied \in Seq(Entries) /\ DOMAIN applied = 1 .. Len(applied) /\ Len(applied) \in Nat
  BY DEF WorkInv
<1>2. r \in Seq(Entries) /\ DOMAIN r = 1 .. Len(r) /\ Len(r) \in Nat
  BY <1>1, OnlyKeeps
<1>3. PICK g : KeepsPlaces(r, applied, S, g)
  BY <1>1, OnlyKeeps
<1>. SUFFICES ASSUME NEW i \in DOMAIN r, NEW j \in DOMAIN r, i < j
              PROVE  \/ Ord(r[i]) <= Ord(r[j])
                     \/ LegacyStop /\ r[j] \in Textless \cup {r[k] : k \in 1 .. i - 1}
  BY DEF FirstInFirstOut, Ord
<1>. HIDE DEF r, S
<1>4. /\ g[i] \in 1 .. Len(applied) /\ g[j] \in 1 .. Len(applied) /\ g[i] < g[j]
      /\ r[i] = applied[g[i]] /\ r[j] = applied[g[j]] /\ {r[i], r[j]} \subseteq S
  BY <1>2, <1>3 DEF KeepsPlaces
<1>5. MayFollow(r[j], g[i])
  BY <1>1, <1>4 DEF InOrder
<1>6. Ord(r[i]) <= Ord(r[j]) \/ Repeat(r[j], g[i])
  BY <1>4, <1>5 DEF MayFollow, S
<1>7. ASSUME NEW k \in 1 .. g[i] - 1, applied[k] = r[j]
      PROVE  r[j] \in {r[l] : l \in 1 .. i - 1}
  <2>1. k \in 1 .. Len(applied) /\ applied[k] \in S
    BY <1>1, <1>4, <1>7
  <2>2. PICK l \in 1 .. Len(r) : g[l] = k
    BY <1>3, <2>1 DEF KeepsPlaces
  <2>3. r[l] = r[j]
    BY <1>3, <1>7, <2>2 DEF KeepsPlaces
  <2>4. l < i
    <3>1. ~(i < l) /\ l # i
      BY <1>1, <1>2, <1>3, <1>4, <1>7, <2>2 DEF KeepsPlaces
    <3>. QED
      BY <1>2, <3>1
  <2>. QED
    BY <1>2, <2>3, <2>4
<1>. QED
  BY <1>6, <1>7 DEF Repeat

\* The conjuncts of EachSteerOnce.
LEMMA SteersAreOnce == SteerInv => EachSteerOnce
<1>. SUFFICES ASSUME SteerInv PROVE EachSteerOnce
  OBVIOUS
<1>1. AppliedOnce
  BY DEF SteerInv, ReadyInv, InOrder, MayFollow, AppliedOnce
<1>2. CompletedLeavesNone
  BY DEF SteerInv, IdleInv, CompletedLeavesNone
<1>. QED
  BY <1>1, <1>2 DEF SteerInv, EachSteerOnce, TakenOnce, NoneLeftBehind

\* The parts of the type invariant the steers need.
LEMMA SteersAreTyped == SteerInv => TypeOK
<1>. SUFFICES ASSUME SteerInv PROVE TypeOK
  OBVIOUS
<1>1. ASSUME NEW t \in TurnIds
      PROVE  /\ work[t].seed \in Seq(Entries) /\ Len(work[t].seed) <= 1
             /\ work[t].todo \in Seq(Entries)
             /\ work[t].batch \in Seq(Entries)
             /\ work[t].calls \in 0 .. MaxIter
  <2>1. work[t] \in WorkSet /\ Len(work[t].seed) <= 1
    BY DEF SteerInv, WorkInv, HandInv, Hand
  <2>. QED
    BY <2>1 DEF WorkSet
<1>2. accepted \in Seq(used)
  <2>1. accepted \in Seq(Entries) /\ ToSet(accepted) \subseteq used
    BY DEF SteerInv, WorkInv, WhereInv
  <2>2. \A i \in 1 .. Len(accepted) : accepted[i] \in used
    BY <2>1 DEF ToSet
  <2>. QED
    BY <2>1, <2>2
<1>3. queue \in Seq(Entries) /\ applied \in Seq(Entries) /\ RegistryTypeOK
  BY DEF SteerInv, WorkInv, RegistryInv
<1>4. /\ files \in [Attached -> {"staged", "claimed", "refused"}]
      /\ {dropped, lost, unsent, handed} \subseteq SUBSET Entries
      /\ used \subseteq Entries
      /\ receipt.held \in BOOLEAN /\ receipt.entries \in Seq(Entries)
      /\ gateOpen \in BOOLEAN /\ shuttingDown \in BOOLEAN
  BY DEF SteerInv, BooksInv, FilesSet
<1>5. stop \in StopSet /\ nextStop \in 1 .. MaxStops + 1
  BY DEF SteerInv, StopsInv
<1>. QED
  BY <1>1, <1>2, <1>3, <1>4, <1>5 DEF TypeOK, StopSet

\* Only a turn's own step opens a transaction, and over what it found queued.
LEMMA TransactionsOpenOverQueued ==
    ASSUME SteerInv, [Next]_vars, NEW u \in TurnIds, At(u, {"claim"}), turn'[u].pc = "txn"
    PROVE  ToSet(work'[u].batch) \cap (unsent \cup handed) = {}
<1>1. ASSUME NEW t \in TurnIds, TurnStep(t)
      PROVE  ToSet(work'[u].batch) \cap (unsent \cup handed) = {}
  <2>1. Live(u)
    BY Points DEF At, Live
  <2>2. u = t
    BY <1>1, <2>1, StepLeavesOthers DEF SteerInv, OthersRest
  <2>3. Moves(u)
    BY <1>1, <2>2, StepMoves DEF SteerInv
  <2>4. Opens(u)
    BY <2>3 DEF At, Onward, Moves, Walks, Breaks, SeedLands, BatchLands, Persists, Peeks,
                Opens, Commits, Drains, Calls, Takes, Seeds, Ends, EndPoints
  <2>5. work'[u].batch = Batch(u)
    BY <2>4 DEF Opens, Holding
  <2>6. ToSet(Batch(u)) \subseteq ToSet(queue)
    BY BatchIsQueued DEF SteerInv
  <2>. QED
    BY <2>5, <2>6 DEF SteerInv, WhereInv, Back
<1>2. turn \in [TurnIds -> HandleSet] /\ marker \in TurnIds \cup {NoTurn} /\ Live(u) /\ marker = u
  BY Points DEF SteerInv, RegistryInv, RegistryTypeOK, HandleSet, MarkerExact, At, Live
<1>3. turn[u].pc # turn'[u].pc
  BY DEF At
<1>4. ~Starts
  <2>1. u # NoTurn
    BY DEF TurnIds, NoTurn
  <2>. QED
    BY <1>2, <2>1 DEF Starts, Reserve
<1>5. ~Enqueues /\ ~Rests /\ \A e \in Entries : ~DeleteSteer(e)
  BY <1>3 DEF Enqueues, Enqueue, Rests, DeleteSteer, registry
<1>6. /\ ~Shutdown /\ \A i \in StopIds : ~StopCancels(i)
      /\ \A scope \in 0 .. nextTurn - 1 : ~Stop(scope)
  BY <1>3, StopLatches DEF SteerInv, Latches
<1>. QED
  BY <1>1, <1>4, <1>5, <1>6, OtherSteps DEF SteerInv

\* What takes effect comes off the queue or out of a hand, and what was taken back is in
\* neither but in the batch of an open transaction.
LEMMA OnlyOpenWritesLand ==
    ASSUME SteerInv, [Next]_vars, NEW e \in handed, e \in ToSet(applied') \ ToSet(applied)
    PROVE  \E t \in TurnIds : At(t, {"txn"}) /\ e \in ToSet(work[t].batch)
<1>1. ASSUME NEW t \in TurnIds, TurnStep(t)
      PROVE  At(t, {"txn"}) /\ e \in ToSet(work[t].batch)
  <2>1. \/ e \in ToSet(applied) \cup ToSet(work[t].seed)
        \/ e \in ToSet(work[t].todo) \cap ToSet(queue)
        \/ e \in ToSet(work[t].batch) /\ At(t, {"txn"})
    BY <1>1, StepEntries DEF SteerInv
  <2>2. e \notin ToSet(queue) /\ e \notin ToSet(work[t].seed)
    BY DEF SteerInv, WhereInv, Where, Back
  <2>. QED
    BY <2>1, <2>2
<1>2. applied' # applied
  OBVIOUS
<1>3. ~Starts /\ ~Enqueues /\ ~Rests
  BY <1>2 DEF Starts, Enqueues, Enqueue, Rests, effects
<1>4. /\ ~Shutdown /\ \A i \in StopIds : ~StopCancels(i)
      /\ \A d \in Entries : ~DeleteSteer(d)
      /\ \A scope \in 0 .. nextTurn - 1 : ~Stop(scope)
  BY <1>2 DEF Shutdown, StopCancels, DeleteSteer, Stop, effects
<1>. QED
  BY <1>1, <1>3, <1>4, OtherSteps DEF SteerInv

\* For every bound and set of entries, every variable keeps its type.
THEOREM TypesAlways == Spec => []TypeOK
<1>. QED
  BY SteersAreTyped, SteerInitial, SteerInductive, PTL DEF Spec

\* For every bound and set of entries, what the owner sent is done once, or taken back and
\* not done, or still where it will be done (agent.py _DrainHooks, _drain_b_body, the Stop).
THEOREM EachSteerOnceAlways == Spec => []EachSteerOnce
<1>. QED
  BY SteersAreOnce, SteerInitial, SteerInductive, PTL DEF Spec

\* For every bound and set of entries, steers take effect in the order of their 202s
\* (steer_queue.py enqueue / requeue_front, _DrainHooks, _drain_b_body).
THEOREM FifoAlways == Spec => []FirstInFirstOut
<1>1. SteerInv => FirstInFirstOut
  BY OrderIsFifo DEF SteerInv, ReadyInv
<1>. QED
  BY <1>1, SteerInitial, SteerInductive, PTL DEF Spec

\* For every bound and set of entries, what was taken back stays back: no transaction opens
\* over it, and only a write already in flight still brings it in.
THEOREM TakenBackStays == Spec => StaysTakenBack
<1>1. SteerInv /\ [Next]_vars =>
          [\A t \in TurnIds :
               At(t, {"claim"}) /\ turn'[t].pc = "txn"
                   => ToSet(work'[t].batch) \cap (unsent \cup handed) = {}]_vars
  BY TransactionsOpenOverQueued
<1>2. SteerInv /\ [Next]_vars =>
          [\A e \in handed : e \in ToSet(applied') \ ToSet(applied)
               => \E t \in TurnIds : At(t, {"txn"}) /\ e \in ToSet(work[t].batch)]_vars
  BY OnlyOpenWritesLand
<1>3. Spec => OpensOverQueuedOnly
  BY <1>1, SteerInitial, SteerInductive, PTL DEF Spec, OpensOverQueuedOnly
<1>4. Spec => StopNeverAutoRuns
  BY <1>2, SteerInitial, SteerInductive, PTL DEF Spec, StopNeverAutoRuns
<1>. QED
  BY <1>3, <1>4 DEF StaysTakenBack

===========================================================================
