-------------------------- MODULE ToolCallsRecordProofs --------------------------
(***************************************************************************)
(* What the record of a conversation holds for every number of calls: it   *)
(* tells the truth (RecordIsTrue), a message the drive has left is         *)
(* resolved whole or waits on one call (BatchSettled), a tool's result is  *)
(* lost only to a Stop that cuts the harvest off (DoneWorkSurvives), the   *)
(* results stand in the model's order (ResultsInOrder), and a rejected     *)
(* call is not asked again (RejectionStands).  StateInv, proved in module  *)
(* ToolCallsLedgerProofs, says how the calls' states move; the parts       *)
(* below relate them to the result rows and their places, the owner's      *)
(* tokens, how the step ends and the rejections.                           *)
(***************************************************************************)
EXTENDS ToolCallsLedgerProofs

\* The points where the batch in hand holds no live token of the owner's.
HandPoints == Serial \cup {"head", "prefix", "persist", "harvest", "cut"}

(***************************************************************************)
(* Results: a call is closed in the database exactly when a row holds its  *)
(* result, and in memory when a row or result_parts does; the row this     *)
(* step created holds no more than result_parts; what went out is in rows. *)
(***************************************************************************)
RowsShape == /\ rows \in Seq(Seq(Calls)) /\ parts \in Seq(Calls) /\ row \in 0 .. Len(rows)
             /\ row # 0 => ToSet(rows[row]) \subseteq ToSet(parts)
DiskTold == \A c \in Calls : disk[c] \in Closed <=> c \in Results
StateTold == \A c \in Calls : state[c] \in Closed <=> c \in Results \cup ToSet(parts)
PartsWritten == pc \in Synced \cup {"flip", "park"} => ToSet(parts) \subseteq Results
PrefixParts == InPrefix \/ pc = "head" => ToSet(parts) = Taken
AtTold == pc = "persist" => at \in ToSet(parts)
EmittedInv == emitted \subseteq Results
ResultsInv ==
    RowsShape /\ DiskTold /\ StateTold /\ PartsWritten /\ PrefixParts /\ AtTold /\ EmittedInv

(***************************************************************************)
(* Tokens: one the owner holds is of a call that waits for a confirm, in   *)
(* memory and in the database, and no call of the batch in hand has one.   *)
(***************************************************************************)
TokensWait ==
    /\ shown \subseteq Calls
    /\ \A c \in shown \ blocked : disk[c] = "awaiting_confirm" /\ state[c] = "awaiting_confirm"
TokensElsewhere == pc \in HandPoints => \A c \in InBatch(batch) : c \notin shown \ blocked
TokensInv == TokensWait /\ TokensElsewhere

(***************************************************************************)
(* Endings: what each way to end a step leaves of its batch, that every    *)
(* other message is settled, and where a result a tool returned is held.   *)
(***************************************************************************)
Settled(f, x) ==
    \/ \A c \in InBatch(x) : f[c] \in Resolved \cup {"absent"}
    \/ \E c \in InBatch(x) : f[c] \in Awaiting
EndsRight ==
    /\ pc \in Serial \cup {"head", "prefix", "persist", "model", "idle", "resume"} => ending = "done"
    /\ pc = "harvest" => ending \in {"error", "cancelled"}
    /\ pc = "park" => state[at] \in Awaiting
    /\ pc = "backstop" /\ ending = "done" => \A c \in InBatch(batch) : state[c] \in Resolved
    /\ pc = "backstop" /\ ending = "suspended" => \E c \in InBatch(batch) : state[c] \in Awaiting
    /\ pc = "end" /\ ending = "suspended" => batch = 0
SettledInv ==
    ~torn /\ pc # "boot" => \A x \in Batches :
        \/ Settled(disk, x)
        \/ x = batch /\ pc # "resume"
        \/ pc = "end" /\ ending # "suspended"
Finished == ~torn =>
    /\ finished \subseteq Results \cup dropped \cup ToSet(parts) \cup {c \in Calls : task[c] = "done"}
    /\ pc = "end" => finished \subseteq Results \cup dropped
SettleInv == EndsRight /\ SettledInv /\ Finished

(***************************************************************************)
(* Rejections: a call reaches the gate unconfirmed only if its signature   *)
(* was not rejected, and the call the owner rejected is in denied_sigs, or *)
(* is still the one the drive has to serve.                                *)
(***************************************************************************)
FlipConfirmed == pc = "flip" => Answering(at, "execute")
NotDenied == pc = "invoke" => Answering(at, "execute") \/ Sig[at] \notin denied
RejectionKept == verdict = "dismiss" =>
    \/ Sig[target] \in denied
    \/ pc \in {"resume", "end"}
    \/ pc = "tail" /\ target \in InBatch(batch) /\ state[target] \in Awaiting
RejectInv == FlipConfirmed /\ NotDenied /\ RejectionKept

(***************************************************************************)
(* Places: the rows are in order, and so is what the commit adds: the row  *)
(* of this step is the last one, result_parts is sorted and may follow     *)
(* every other row, and while the prefix lasts those rows hold none of the *)
(* message in hand.                                                        *)
(***************************************************************************)
Sorted(p) == \A x, y \in DOMAIN p : x < y => MayPrecede(p[x], p[y])
Chained(r) == \A i, k \in DOMAIN r : i < k =>
    \A c \in ToSet(r[i]), d \in ToSet(r[k]) : MayPrecede(c, d)
RowsOrdered == (\A i \in DOMAIN rows : Sorted(rows[i])) /\ Chained(rows)
RowIsLast == row # 0 => row = Len(rows)
PartsFollow == \A i \in DOMAIN rows \ {row} :
    \A c \in ToSet(rows[i]), d \in ToSet(parts) : MayPrecede(c, d)
BatchUntold == InPrefix \/ pc = "head" =>
    \A i \in DOMAIN rows \ {row} : \A c \in ToSet(rows[i]) : Batch[c] # batch
PlaceInv == RowsOrdered /\ RowIsLast /\ Sorted(parts) /\ PartsFollow /\ BatchUntold

\* What TypeOK says beyond TypeInv and RowsShape.
Running == {c \in Calls : task[c] = "running"}
FewRunning == Cardinality(Running) <= MaxParallel
SetTypes ==
    /\ ending \in {"done", "suspended", "cancelled", "error"}
    /\ stopping \in BOOLEAN /\ carry \in BOOLEAN /\ interactive \in BOOLEAN /\ torn \in BOOLEAN
    /\ denied \subseteq Sigs /\ granted \subseteq Sigs
    /\ spent \subseteq Calls /\ shown \subseteq Calls /\ blocked \subseteq Calls
    /\ emitted \subseteq Calls /\ consented \subseteq Calls /\ finished \subseteq Calls
    /\ dropped \subseteq Calls
RestInv == SetTypes /\ FewRunning

RecordInv == ResultsInv /\ PlaceInv /\ TokensInv /\ SettleInv /\ RejectInv /\ RestInv

-----------------------------------------------------------------------------
\* Appending a result to result_parts adds that call to the results in hand.
LEMMA PartsAppended ==
  ASSUME NEW p \in Seq(Calls), NEW c \in Calls
  PROVE  Append(p, c) \in Seq(Calls) /\ ToSet(Append(p, c)) = ToSet(p) \cup {c}
<1>1. /\ Append(p, c) \in Seq(Calls) /\ DOMAIN Append(p, c) = 1 .. Len(p) + 1 /\ DOMAIN p = 1 .. Len(p)
      /\ \A i \in 1 .. Len(p) : Append(p, c)[i] = p[i]
      /\ Append(p, c)[Len(p) + 1] = c /\ Len(p) \in Nat
  OBVIOUS
<1>2. \A i \in 1 .. Len(p) + 1 : i \in 1 .. Len(p) \/ i = Len(p) + 1
  BY <1>1
<1>. QED
  BY <1>1, <1>2 DEF ToSet

\* result_parts is empty exactly when it holds no result.
LEMMA NoParts == ToSet(<<>>) = {} /\ \A p \in Seq(Calls) : ToSet(p) = {} => p = <<>>
<1>1. ToSet(<<>>) = {}
  BY DEF ToSet
<1>2. ASSUME NEW p \in Seq(Calls), ToSet(p) = {} PROVE p = <<>>
  <2>1. \A i \in DOMAIN p : p[i] \in ToSet(p)
    BY DEF ToSet
  <2>2. Len(p) \in Nat /\ DOMAIN p = 1 .. Len(p)
    OBVIOUS
  <2>3. Len(p) = 0
    <3>. SUFFICES ASSUME Len(p) # 0 PROVE FALSE
      OBVIOUS
    <3>1. 1 \in DOMAIN p
      BY <2>2
    <3>2. p[1] \in ToSet(p)
      BY <3>1, <2>1
    <3>. QED
      BY <3>2, <1>2
  <2>. QED
    BY <2>3, EmptySeq
<1>. QED
  BY <1>1, <1>2

\* What the commit writes: every result in hand is in a tool row, and none is lost.
LEMMA RowsCommitted ==
  ASSUME RowsShape, rows' = RowsWritten
  PROVE  /\ rows' \in Seq(Seq(Calls)) /\ Len(rows) <= Len(rows')
         /\ Results' = Results \cup ToSet(parts)
         /\ LET r == IF row = 0 /\ parts # <<>> THEN Len(rows) + 1 ELSE row
            IN  r \in 0 .. Len(rows') /\ (r # 0 => ToSet(rows'[r]) \subseteq ToSet(parts))
<1>. USE DEF RowsShape
<1>1. CASE parts = <<>>
  <2>1. rows' = rows /\ ToSet(parts) = {}
    BY <1>1, NoParts DEF RowsWritten
  <2>. QED
    BY <2>1, <1>1 DEF Results
<1>2. CASE parts # <<>> /\ row = 0
  <2>1. rows' = Append(rows, parts)
    BY <1>2 DEF RowsWritten
  <2>2. /\ DOMAIN rows = 1 .. Len(rows) /\ DOMAIN rows' = 1 .. Len(rows) + 1 /\ Len(rows') = Len(rows) + 1
        /\ \A i \in 1 .. Len(rows) : rows'[i] = rows[i]
        /\ rows'[Len(rows) + 1] = parts /\ rows' \in Seq(Seq(Calls)) /\ Len(rows) \in Nat
    BY <2>1
  <2>3. \A i \in 1 .. Len(rows) + 1 : i \in 1 .. Len(rows) \/ i = Len(rows) + 1
    BY <2>2
  <2>4. Results' = Results \cup ToSet(parts)
    <3>1. \A x : x \in Results' => x \in Results \cup ToSet(parts)
      BY <2>2, <2>3 DEF Results
    <3>2. \A x : x \in Results => x \in Results'
      BY <2>2 DEF Results
    <3>3. \A x : x \in ToSet(parts) => x \in Results'
      BY <2>2 DEF Results
    <3>. QED
      BY <3>1, <3>2, <3>3
  <2>. QED
    BY <1>2, <2>2, <2>4
<1>3. CASE parts # <<>> /\ row # 0
  <2>1. rows' = [rows EXCEPT ![row] = parts]
    BY <1>3 DEF RowsWritten
  <2>2. /\ DOMAIN rows = 1 .. Len(rows) /\ DOMAIN rows' = 1 .. Len(rows) /\ Len(rows') = Len(rows)
        /\ \A i \in 1 .. Len(rows) : i # row => rows'[i] = rows[i]
        /\ rows'[row] = parts /\ rows' \in Seq(Seq(Calls)) /\ Len(rows) \in Nat /\ row \in 1 .. Len(rows)
    BY <2>1, <1>3
  <2>3. Results' = Results \cup ToSet(parts)
    <3>1. \A x : x \in Results' => x \in Results \cup ToSet(parts)
      BY <2>2 DEF Results
    <3>2. \A x : x \in Results => x \in Results'
      <4>. SUFFICES ASSUME NEW i \in 1 .. Len(rows), NEW x \in ToSet(rows[i]) PROVE x \in Results'
        BY <2>2 DEF Results
      <4>1. CASE i = row
        BY <4>1, <2>2, <1>3 DEF Results
      <4>2. CASE i # row
        BY <4>2, <2>2 DEF Results
      <4>. QED
        BY <4>1, <4>2
    <3>3. \A x : x \in ToSet(parts) => x \in Results'
      BY <2>2 DEF Results
    <3>. QED
      BY <3>1, <3>2, <3>3
  <2>. QED
    BY <1>3, <2>2, <2>3
<1>. QED
  BY <1>1, <1>2, <1>3

\* Taking a task adds its result to result_parts, in the model's order.
LEMMA TakeParts ==
  ASSUME CallsAssumption, TypeInv, NEW c \in Calls, Take(c)
  PROVE  parts' \in Seq(Calls) /\ ToSet(parts') = Taken \cup {c} /\ Taken' = Taken \cup {c}
<1>1. Taken \cup {c} \in SUBSET Calls /\ parts' = InModelOrder(Taken \cup {c})
  BY DEF Take, Taken
<1>2. Taken' = Taken \cup {c}
  BY DEF Take, Taken, TypeInv
<1>. QED
  BY <1>1, <1>2, ModelOrder

\* The harvest puts every finished task's result into result_parts.
LEMMA HarvestParts ==
  ASSUME CallsAssumption, Harvest
  PROVE  parts' \in Seq(Calls) /\ ToSet(parts') = Taken \cup {c \in Calls : task[c] = "done"}
<1>1. Harvested \in SUBSET Calls /\ parts' = InModelOrder(Harvested)
  BY DEF Harvest, Harvested, Taken
<1>. QED
  BY <1>1, ModelOrder DEF Harvested

-----------------------------------------------------------------------------
\* Every step keeps states and results told together (persist-before-emit).
LEMMA ResultsKept ==
  ASSUME CallsAssumption, TypeInv, ConsentInv, WriteInv, OrderInv, PrefixInv, BegunInv,
         ResultsInv, Next
  PROVE  ResultsInv'
<1>w. Written = state
  BY WrittenIsState DEF WriteInv
<1>l. Outstanding # {} <=> Busy
  BY OutstandingTasks
<1>r. rows' = rows => Results' = Results
  BY DEF Results
<1>t. task' = task => Taken' = Taken
  BY DEF Taken
<1>o. ToSet(<<>>) = {}
  BY NoParts
<1>d. /\ Reconciled(disk) \in [Calls -> States]
      /\ \A c \in Calls : Reconciled(disk)[c] \in Closed <=> disk[c] \in Closed
  BY ReconciledKeeps DEF TypeInv
<1>c. rows' = RowsWritten =>
         /\ rows' \in Seq(Seq(Calls)) /\ Results' = Results \cup ToSet(parts)
         /\ row \in 0 .. Len(rows')
         /\ LET r == IF row = 0 /\ parts # <<>> THEN Len(rows) + 1 ELSE row
            IN  r \in 0 .. Len(rows') /\ (r # 0 => ToSet(rows'[r]) \subseteq ToSet(parts))
  BY RowsCommitted DEF ResultsInv, RowsShape
<1>a. \A c \in Calls : /\ Append(parts, c) \in Seq(Calls)
                       /\ ToSet(Append(parts, c)) = ToSet(parts) \cup {c}
  BY PartsAppended DEF ResultsInv, RowsShape
<1>p. pc \in {"prefix", "harvest", "cut"} => ToSet(parts) = Taken
  BY DEF ResultsInv, PrefixParts, InPrefix
<1>k. Taken = {c \in Calls : task[c] = "taken"}
  BY DEF Taken
<1>x. \A c \in Calls : Take(c) =>
        parts' \in Seq(Calls) /\ ToSet(parts') = Taken \cup {c} /\ Taken' = Taken \cup {c}
  BY TakeParts
<1>h. Harvest => parts' \in Seq(Calls) /\ ToSet(parts') = Taken \cup {c \in Calls : task[c] = "done"}
  BY HarvestParts
<1>g. \A c \in Calls, s \in TaskStates \ {"taken"} :
        task[c] # "taken" /\ task' = [task EXCEPT ![c] = s] => Taken' = Taken
  BY DEF TypeInv, Taken, TaskStates
<1>f. ASSUME NEW p \in {"idle", "boot"}, NEW d \in [Calls -> States], Forget(p, d), emitted' = emitted,
             \A c \in Calls : d[c] \in Closed <=> disk[c] \in Closed
      PROVE  ResultsInv'
  <2>1. /\ pc' = p /\ disk' = d /\ state' = d /\ parts' = <<>> /\ row' = 0 /\ rows' = rows
        /\ \A c \in Calls : task'[c] = "none"
    BY <1>f DEF Forget
  <2>2. Results' = Results /\ ToSet(parts') = {} /\ rows \in Seq(Seq(Calls))
    BY <2>1, <1>r, <1>o DEF ResultsInv, RowsShape
  <2>3. RowsShape'
    BY <2>1, <2>2 DEF RowsShape
  <2>4. DiskTold' /\ StateTold' /\ EmittedInv'
    BY <1>f, <2>1, <2>2 DEF ResultsInv, DiskTold, StateTold, EmittedInv
  <2>5. PartsWritten' /\ PrefixParts' /\ AtTold'
    BY <1>f, <2>1, <2>2 DEF PartsWritten, PrefixParts, AtTold, InPrefix, Busy
  <2>. QED
    BY <2>3, <2>4, <2>5 DEF ResultsInv
<1>z. ASSUME disk' = Written, state' = state, rows' = RowsWritten, parts' = parts \/ parts' = <<>>
      PROVE  DiskTold' /\ StateTold'
  <2>1. /\ disk' = state /\ Results' = Results \cup ToSet(parts)
        /\ Results' \cup ToSet(parts') = Results \cup ToSet(parts)
    BY <1>z, <1>w, <1>c, <1>o
  <2>2. \A c \in Calls : state[c] \in Closed <=> c \in Results \cup ToSet(parts)
    BY DEF ResultsInv, StateTold
  <2>. QED
    BY <1>z, <2>1, <2>2 DEF DiskTold, StateTold
<1>. USE CallsAssumption DEF CallsAssumption, TypeInv, Calls, Points, States, TaskStates,
           Verdicts, Awaiting, Resolved, Stale, hand, guard, owner, durable, gate, history,
           InBatch, Closed, Serial, AtCall, Synced, InPrefix, HandPoints, Quiet, Busy, ResultsInv,
           RowsShape, DiskTold, StateTold, PartsWritten, PrefixParts, AtTold, EmittedInv,
           WriteInv, OwnWritten, NoBatch, OrderInv, AtIsNext, HeadPending, PrefixInv, PrefixPlace,
           PrefixStates, TakenStays
<1>1. ASSUME NEW c \in Calls, NEW s \in Closed, Resolving(c, s) PROVE ResultsInv'
  <2>1. RowsShape'
    BY <1>1, <1>a, <1>r, <1>t DEF Resolving, UpNext, Resolve
  <2>2. DiskTold'
    BY <1>1, <1>a, <1>r, <1>t DEF Resolving, UpNext, Resolve
  <2>3. StateTold'
    BY SMTT(30), <1>1, <1>a, <1>r, <1>t DEF Resolving, UpNext, Resolve
  <2>4. PartsWritten'
    BY <1>1, <1>a, <1>r, <1>t DEF Resolving, UpNext, Resolve
  <2>5. PrefixParts'
    BY <1>1, <1>a, <1>r, <1>t DEF Resolving, UpNext, Resolve
  <2>6. AtTold'
    BY <1>1, <1>a, <1>r, <1>t DEF Resolving, UpNext, Resolve
  <2>7. EmittedInv'
    BY <1>1, <1>a, <1>r, <1>t DEF Resolving, UpNext, Resolve
  <2>. QED
    BY <2>1, <2>2, <2>3, <2>4, <2>5, <2>6, <2>7
<1>2. ASSUME NEW c \in Calls, NEW s \in Awaiting, Parking(c, s) PROVE ResultsInv'
  <2>1. RowsShape'
    BY <1>2, <1>r, <1>t DEF Parking, UpNext
  <2>2. DiskTold'
    BY <1>2, <1>r, <1>t DEF Parking, UpNext
  <2>3. StateTold'
    BY SMTT(30), <1>2, <1>r, <1>t DEF Parking, UpNext
  <2>4. PartsWritten'
    BY <1>2, <1>r, <1>t DEF Parking, UpNext
  <2>5. PrefixParts'
    BY <1>2, <1>r, <1>t DEF Parking, UpNext
  <2>6. AtTold'
    BY <1>2, <1>r, <1>t DEF Parking, UpNext
  <2>7. EmittedInv'
    BY <1>2, <1>r, <1>t DEF Parking, UpNext
  <2>. QED
    BY <2>1, <2>2, <2>3, <2>4, <2>5, <2>6, <2>7
<1>3. ASSUME FreshTurn PROVE ResultsInv'
  BY <1>3, <1>r, <1>t DEF FreshTurn
<1>4. ASSUME EmitBatch PROVE ResultsInv'
  <2>1. PICK d \in Calls : state[d] = "absent" /\ batch' = Batch[d]
    BY <1>4 DEF EmitBatch
  <2>2. \A c \in Calls : Batch[c] = batch' => state[c] = "absent" /\ disk[c] = "absent"
    BY <1>4, <2>1 DEF EmitBatch, WriteInv, Opened, OwnWritten
  <2>3. /\ \A c \in Calls : state'[c] = IF Batch[c] = batch' THEN "pending" ELSE state[c]
        /\ \A c \in Calls : disk'[c] = IF Batch[c] = batch' THEN "pending" ELSE disk[c]
        /\ pc = "model" /\ pc' = "head" /\ rows' = rows /\ emitted' = emitted /\ parts' = <<>> /\ row' = 0
        /\ \A c \in Calls : task'[c] = "none"
    BY <1>4 DEF EmitBatch
  <2>4. Results' = Results /\ ToSet(parts') = {} /\ ToSet(parts) \subseteq Results
    BY <2>3, <1>r, <1>o
  <2>7. \A c \in Calls : Batch[c] = batch' => c \notin Results
    BY <2>2
  <2>8. DiskTold'
    BY <2>3, <2>4, <2>7
  <2>9. \A c \in Calls : state[c] \in Closed <=> c \in Results
    BY <2>4
  <2>5. StateTold'
    BY SMTT(30), <2>3, <2>4, <2>7, <2>9
  <2>10. Taken' = {}
    BY <2>3 DEF Taken
  <2>6. RowsShape' /\ PartsWritten' /\ PrefixParts' /\ AtTold' /\ EmittedInv'
    BY <2>3, <2>4, <2>10
  <2>. QED
    BY <2>5, <2>6, <2>8
<1>5. ASSUME Complete PROVE ResultsInv'
  <2>1. Forget("idle", disk) /\ emitted' = emitted
    BY <1>5 DEF Complete, Rest, history
  <2>2. disk \in [Calls -> States]
    BY <1>d
  <2>. HIDE DEF ResultsInv
  <2>. QED
    BY <2>1, <2>2, <1>f, <1>d
<1>6. ASSUME StartBatch PROVE ResultsInv'
  <2>1. RowsShape'
    BY <1>6, <1>k, <1>r, <1>t DEF StartBatch
  <2>2. DiskTold'
    BY <1>6, <1>k, <1>r, <1>t DEF StartBatch
  <2>3. StateTold'
    BY <1>6, <1>k, <1>r, <1>t DEF StartBatch
  <2>4. PartsWritten'
    BY <1>6, <1>k, <1>r, <1>t DEF StartBatch
  <2>5. PrefixParts'
    <3>1. Taken = {} /\ ToSet(parts) = {} /\ parts' = parts
      BY SMTT(30), <1>6, <1>k DEF StartBatch
    <3>2. Taken' = {}
      <4>1. \A c \in Calls : task'[c] # "taken"
        <5>1. task' = task \/ task' = [c \in Calls |-> IF c \in Prefix THEN "queued" ELSE "none"]
          BY <1>6 DEF StartBatch
        <5>2. \A c \in Calls : task[c] = "none"
          BY <1>6 DEF StartBatch
        <5>3. CASE task' = task
          BY <5>2, <5>3
        <5>4. CASE task' = [c \in Calls |-> IF c \in Prefix THEN "queued" ELSE "none"]
          BY <5>4
        <5>. QED
          BY <5>1, <5>3, <5>4
      <4>. QED
        BY SMTT(30), <4>1 DEF Taken
    <3>. QED
      BY <3>1, <3>2
  <2>6. AtTold'
    BY <1>6, <1>k, <1>r, <1>t DEF StartBatch
  <2>7. EmittedInv'
    BY <1>6, <1>k, <1>r, <1>t DEF StartBatch
  <2>. QED
    BY <2>1, <2>2, <2>3, <2>4, <2>5, <2>6, <2>7
<1>7. ASSUME NEW c \in Calls, TaskStart(c) PROVE ResultsInv'
  <2>1. RowsShape'
    BY <1>7, <1>k, <1>r DEF TaskStart, TasksAlive
  <2>2. DiskTold'
    BY <1>7, <1>k, <1>r DEF TaskStart, TasksAlive
  <2>3. StateTold'
    BY <1>7, <1>k, <1>r DEF TaskStart, TasksAlive
  <2>4. PartsWritten'
    BY <1>7, <1>k, <1>r DEF TaskStart, TasksAlive
  <2>5. PrefixParts'
    <3>1. Taken' = Taken
      BY <1>7, <1>g DEF TaskStart
    <3>2. /\ pc' = pc \/ (Busy /\ pc \in {"prefix", "harvest", "cut"})
          /\ InPrefix' => InPrefix
          /\ parts' = parts
      BY <1>7 DEF TaskStart, TasksAlive
    <3>. QED
      BY <3>1, <3>2
  <2>6. AtTold'
    BY <1>7, <1>k, <1>r DEF TaskStart, TasksAlive
  <2>7. EmittedInv'
    BY <1>7, <1>k, <1>r DEF TaskStart, TasksAlive
  <2>. QED
    BY <2>1, <2>2, <2>3, <2>4, <2>5, <2>6, <2>7
<1>8. ASSUME NEW c \in Calls, TaskDone(c) PROVE ResultsInv'
  <2>1. RowsShape'
    BY <1>8, <1>k, <1>r DEF TaskDone, TasksAlive
  <2>2. DiskTold'
    BY <1>8, <1>k, <1>r DEF TaskDone, TasksAlive
  <2>3. StateTold'
    BY <1>8, <1>k, <1>r DEF TaskDone, TasksAlive
  <2>4. PartsWritten'
    BY <1>8, <1>k, <1>r DEF TaskDone, TasksAlive
  <2>5. PrefixParts'
    <3>1. Taken' = Taken
      BY <1>8, <1>g DEF TaskDone
    <3>2. /\ pc' = pc \/ (Busy /\ pc \in {"prefix", "harvest", "cut"})
          /\ InPrefix' => InPrefix
          /\ parts' = parts
      BY <1>8 DEF TaskDone, TasksAlive
    <3>. QED
      BY <3>1, <3>2
  <2>6. AtTold'
    BY <1>8, <1>k, <1>r DEF TaskDone, TasksAlive
  <2>7. EmittedInv'
    BY <1>8, <1>k, <1>r DEF TaskDone, TasksAlive
  <2>. QED
    BY <2>1, <2>2, <2>3, <2>4, <2>5, <2>6, <2>7
<1>9. ASSUME NEW c \in Calls, TaskFails(c) PROVE ResultsInv'
  <2>1. RowsShape'
    BY <1>9, <1>k, <1>r DEF TaskFails, TasksAlive
  <2>2. DiskTold'
    BY <1>9, <1>k, <1>r DEF TaskFails, TasksAlive
  <2>3. StateTold'
    BY <1>9, <1>k, <1>r DEF TaskFails, TasksAlive
  <2>4. PartsWritten'
    BY <1>9, <1>k, <1>r DEF TaskFails, TasksAlive
  <2>5. PrefixParts'
    <3>1. Taken' = Taken
      BY <1>9, <1>g DEF TaskFails
    <3>2. /\ pc' = pc \/ (Busy /\ pc \in {"prefix", "harvest", "cut"})
          /\ InPrefix' => InPrefix
          /\ parts' = parts
      BY <1>9 DEF TaskFails, TasksAlive
    <3>. QED
      BY <3>1, <3>2
  <2>6. AtTold'
    BY <1>9, <1>k, <1>r DEF TaskFails, TasksAlive
  <2>7. EmittedInv'
    BY <1>9, <1>k, <1>r DEF TaskFails, TasksAlive
  <2>. QED
    BY <2>1, <2>2, <2>3, <2>4, <2>5, <2>6, <2>7
<1>10. ASSUME NEW c \in Calls, Take(c) PROVE ResultsInv'
  <2>1. RowsShape'
    <3>1. parts' \in Seq(Calls) /\ ToSet(parts') = Taken \cup {c}
      BY <1>10, <1>x
    <3>2. ToSet(parts) = Taken /\ rows' = rows /\ row' = row
      BY <1>10, <1>p DEF Take
    <3>. QED
      BY <3>1, <3>2
  <2>2. DiskTold'
    BY <1>10, <1>x, <1>p, <1>r DEF Take, Outcome
  <2>3. StateTold'
    <3>1. ToSet(parts') = ToSet(parts) \cup {c} /\ Results' = Results
      BY <1>10, <1>x, <1>p, <1>r DEF Take
    <3>2. \A d \in Calls : state'[d] = IF d = c THEN Outcome(c) ELSE state[d]
      BY <1>10 DEF Take
    <3>3. Outcome(c) \in Closed
      BY DEF Outcome
    <3>. QED
      BY <3>1, <3>2, <3>3
  <2>4. PartsWritten'
    BY <1>10, <1>x, <1>p, <1>r DEF Take, Outcome
  <2>5. PrefixParts'
    BY <1>10, <1>x, <1>p, <1>r DEF Take, Outcome
  <2>6. AtTold'
    <3>1. at' = c
      BY <1>10 DEF Take
    <3>2. ToSet(parts') = Taken \cup {c}
      BY <1>10, <1>x
    <3>. QED
      BY <3>1, <3>2
  <2>7. EmittedInv'
    BY <1>10, <1>x, <1>p, <1>r DEF Take, Outcome
  <2>. QED
    BY <2>1, <2>2, <2>3, <2>4, <2>5, <2>6, <2>7
<1>11. ASSUME NEW c \in Calls, TakeFailed(c) PROVE ResultsInv'
  BY <1>11, <1>l, <1>r, <1>t DEF TakeFailed, Unwind
<1>12. ASSUME NEW c \in Calls, TaskCancelled(c) PROVE ResultsInv'
  <2>1. RowsShape'
    BY <1>12, <1>k, <1>r DEF TaskCancelled
  <2>2. DiskTold'
    BY <1>12, <1>k, <1>r DEF TaskCancelled
  <2>3. StateTold'
    BY <1>12, <1>k, <1>r DEF TaskCancelled
  <2>4. PartsWritten'
    BY <1>12, <1>k, <1>r DEF TaskCancelled
  <2>5. PrefixParts'
    <3>1. Taken' = Taken
      BY <1>12, <1>g DEF TaskCancelled
    <3>2. /\ pc' = pc \/ (Busy /\ pc \in {"prefix", "harvest", "cut"})
          /\ InPrefix' => InPrefix
          /\ parts' = parts
      BY <1>12 DEF TaskCancelled, TasksAlive
    <3>. QED
      BY <3>1, <3>2
  <2>6. AtTold'
    BY <1>12, <1>k, <1>r DEF TaskCancelled
  <2>7. EmittedInv'
    BY <1>12, <1>k, <1>r DEF TaskCancelled
  <2>. QED
    BY <2>1, <2>2, <2>3, <2>4, <2>5, <2>6, <2>7
<1>13. ASSUME Harvest PROVE ResultsInv'
  <2>1. RowsShape'
    BY <1>13, <1>h, <1>p, <1>r DEF Harvest, Outcome
  <2>2. DiskTold'
    BY <1>13, <1>h, <1>p, <1>r DEF Harvest, Outcome
  <2>3. StateTold'
    <3>1. ToSet(parts') = ToSet(parts) \cup {c \in Calls : task[c] = "done"} /\ Results' = Results
      BY <1>13, <1>h, <1>p, <1>r DEF Harvest
    <3>2. \A d \in Calls : state'[d] = IF task[d] = "done" THEN Outcome(d) ELSE state[d]
      BY <1>13 DEF Harvest, Harvested
    <3>3. \A d \in Calls : Outcome(d) \in Closed
      BY DEF Outcome
    <3>. QED
      BY SMTT(30), <3>1, <3>2, <3>3
  <2>4. PartsWritten'
    BY <1>13, <1>h, <1>p, <1>r DEF Harvest, Outcome
  <2>5. PrefixParts'
    BY <1>13, <1>h, <1>p, <1>r DEF Harvest, Outcome
  <2>6. AtTold'
    BY <1>13, <1>h, <1>p, <1>r DEF Harvest, Outcome
  <2>7. EmittedInv'
    BY <1>13, <1>h, <1>p, <1>r DEF Harvest, Outcome
  <2>. QED
    BY <2>1, <2>2, <2>3, <2>4, <2>5, <2>6, <2>7
<1>14. ASSUME NEW c \in Calls, Blocked(c) PROVE ResultsInv'
  BY <1>14, <1>r, <1>t DEF Blocked, Hand, Admitted, Serving, Unresolved, Answering, Fresh
<1>15. ASSUME NEW c \in Calls, Confirmed(c) PROVE ResultsInv'
  BY SMTT(30), <1>15, <1>r, <1>t DEF Confirmed, Answering, Admitted, Serving, Unresolved, Fresh,
     Marked
<1>16. ASSUME NEW c \in Calls, Unasked(c) PROVE ResultsInv'
  BY <1>16, <1>r, <1>t DEF Unasked, Fresh, Hand, Admitted, Serving, Unresolved, Answering
<1>17. ASSUME Flip PROVE ResultsInv'
  BY <1>17, <1>w, <1>r, <1>t DEF Flip
<1>18. ASSUME FlipFails PROVE ResultsInv'
  BY <1>18, <1>l, <1>r, <1>t DEF FlipFails, Unwind
<1>19. ASSUME Begin PROVE ResultsInv'
  BY <1>19, <1>r, <1>t DEF Begin, Allowed, Approved
<1>20. ASSUME DenyHeadless PROVE ResultsInv'
  BY <1>20, <1>r, <1>t DEF DenyHeadless, NeedsConfirm, Allowed, Approved
<1>asking. ASSUME Question PROVE ResultsInv'
  BY <1>asking, <1>r, <1>t DEF Question
<1>cut. ASSUME HarvestCut PROVE ResultsInv'
  BY <1>cut, <1>r DEF HarvestCut
<1>21. ASSUME Effect PROVE ResultsInv'
  BY <1>21, <1>r, <1>t DEF Effect
<1>22. ASSUME Return PROVE ResultsInv'
  BY <1>22, <1>r, <1>t DEF Return
<1>23. ASSUME NEW c \in Calls, LateEffect(c) PROVE ResultsInv'
  BY <1>23, <1>r, <1>t DEF LateEffect, AtAwait
<1>24. ASSUME AuditFails PROVE ResultsInv'
  BY <1>24, <1>l, <1>r, <1>t DEF AuditFails, Unwind
<1>25. ASSUME Persisted PROVE ResultsInv'
  <2>1. RowsShape'
    BY <1>25, <1>w, <1>l, <1>c, <1>t DEF Persisted, Commit, Unresolved, Unwind
  <2>2. /\ disk' = Written /\ state' = state /\ rows' = RowsWritten
        /\ parts' = parts \/ parts' = <<>>
    BY <1>25 DEF Persisted, Commit
  <2>3. DiskTold' /\ StateTold'
    BY <2>2, <1>z
  <2>4. PartsWritten'
    BY <1>25, <1>w, <1>l, <1>c, <1>t DEF Persisted, Commit, Unresolved, Unwind
  <2>5. PrefixParts'
    BY <1>25, <1>w, <1>l, <1>c, <1>t DEF Persisted, Commit, Unresolved, Unwind
  <2>6. AtTold'
    BY <1>25, <1>w, <1>l, <1>c, <1>t DEF Persisted, Commit, Unresolved, Unwind
  <2>7. EmittedInv'
    <3>1. emitted' \subseteq emitted \cup {at} /\ at \in ToSet(parts)
      BY <1>25 DEF Persisted
    <3>2. rows' = RowsWritten
      BY <1>25 DEF Persisted, Commit
    <3>. QED
      BY <3>1, <3>2, <1>c
  <2>. QED
    BY <2>1, <2>2, <2>3, <2>4, <2>5, <2>6, <2>7
<1>26. ASSUME PersistFails PROVE ResultsInv'
  BY <1>26, <1>l, <1>r, <1>t DEF PersistFails, Unwind, EmittedUnwritten
<1>27. ASSUME Parked PROVE ResultsInv'
  <2>1. RowsShape'
    BY <1>27, <1>w, <1>c, <1>t DEF Parked, Commit
  <2>2. /\ disk' = Written /\ state' = state /\ rows' = RowsWritten
        /\ parts' = parts \/ parts' = <<>>
    BY <1>27 DEF Parked, Commit
  <2>3. DiskTold' /\ StateTold'
    BY <2>2, <1>z
  <2>4. PartsWritten'
    BY <1>27, <1>w, <1>c, <1>t DEF Parked, Commit
  <2>5. PrefixParts'
    BY <1>27, <1>w, <1>c, <1>t DEF Parked, Commit
  <2>6. AtTold'
    BY <1>27, <1>w, <1>c, <1>t DEF Parked, Commit
  <2>7. EmittedInv'
    BY <1>27, <1>w, <1>c, <1>t DEF Parked, Commit
  <2>. QED
    BY <2>1, <2>2, <2>3, <2>4, <2>5, <2>6, <2>7
<1>28. ASSUME ParkFails PROVE ResultsInv'
  BY <1>28, <1>l, <1>r, <1>t DEF ParkFails, Unwind
<1>29. ASSUME Backstop PROVE ResultsInv'
  <2>1. RowsShape'
    BY <1>29, <1>w, <1>c, <1>o, <1>t DEF Backstop
  <2>2. /\ disk' = Written /\ state' = state /\ rows' = RowsWritten
        /\ parts' = parts \/ parts' = <<>>
    BY <1>29 DEF Backstop
  <2>3. DiskTold' /\ StateTold'
    BY <2>2, <1>z
  <2>4. PartsWritten'
    BY <1>29, <1>w, <1>c, <1>o, <1>t DEF Backstop
  <2>5. PrefixParts'
    BY <1>29, <1>w, <1>c, <1>o, <1>t DEF Backstop
  <2>6. AtTold'
    BY <1>29, <1>w, <1>c, <1>o, <1>t DEF Backstop
  <2>7. EmittedInv'
    BY <1>29, <1>w, <1>c, <1>o, <1>t DEF Backstop
  <2>. QED
    BY <2>1, <2>2, <2>3, <2>4, <2>5, <2>6, <2>7
<1>30. ASSUME BackstopFails PROVE ResultsInv'
  BY <1>30, <1>w, <1>r, <1>t DEF BackstopFails
<1>31. ASSUME Close PROVE ResultsInv'
  <2>1. Forget("idle", disk) /\ emitted' = emitted
    BY <1>31 DEF Close, Rest, history
  <2>2. disk \in [Calls -> States]
    BY <1>d
  <2>. HIDE DEF ResultsInv
  <2>. QED
    BY <2>1, <2>2, <1>f, <1>d
<1>32. ASSUME Reconcile PROVE ResultsInv'
  <2>1. Forget("idle", Reconciled(disk)) /\ emitted' = emitted
    BY <1>32 DEF Reconcile, Rest, history
  <2>2. Reconciled(disk) \in [Calls -> States]
    BY <1>d
  <2>. HIDE DEF ResultsInv
  <2>. QED
    BY <2>1, <2>2, <1>f, <1>d
<1>33. ASSUME ReconcileFails PROVE ResultsInv'
  <2>1. Forget("idle", disk) /\ emitted' = emitted
    BY <1>33 DEF ReconcileFails, Rest, history
  <2>2. disk \in [Calls -> States]
    BY <1>d
  <2>. HIDE DEF ResultsInv
  <2>. QED
    BY <2>1, <2>2, <1>f, <1>d
<1>34. ASSUME Stop PROVE ResultsInv'
  BY <1>34, <1>r, <1>t DEF Stop, AtAwait
<1>35. ASSUME CancelLands PROVE ResultsInv'
  BY <1>35, <1>w, <1>l, <1>r, <1>t DEF CancelLands, Unwind, Cancellable
<1>36. ASSUME CancelLandsOutside PROVE ResultsInv'
  BY <1>36, <1>r, <1>t DEF CancelLandsOutside
<1>37. ASSUME Crash PROVE ResultsInv'
  <2>1. Forget("boot", disk) /\ emitted' = emitted
    BY <1>37 DEF Crash, Rest, history
  <2>2. disk \in [Calls -> States]
    BY <1>d
  <2>. HIDE DEF ResultsInv
  <2>. QED
    BY <2>1, <2>2, <1>f, <1>d
<1>38. ASSUME Boot PROVE ResultsInv'
  <2>1. ASSUME NEW d, d \in {disk, Reconciled(disk)}, Rest(d), emitted' = emitted
        PROVE  ResultsInv'
    <3>1. d \in [Calls -> States] /\ (\A c \in Calls : d[c] \in Closed <=> disk[c] \in Closed)
      <4>1. CASE d = disk
        BY <4>1
      <4>2. CASE d = Reconciled(disk)
        BY <4>2, <1>d
      <4>. QED
        BY <2>1, <4>1, <4>2
    <3>2. Forget("idle", d)
      BY <2>1 DEF Rest
    <3>. HIDE DEF ResultsInv
    <3>. QED
      BY <2>1, <3>1, <3>2, <1>f
  <2>. QED
    BY <1>38, <2>1 DEF Boot
<1>39. ASSUME NEW c \in Calls, NEW v \in Verdicts \ {"none"}, Resume(c,v) PROVE ResultsInv'
  BY <1>39, <1>r, <1>t DEF Resume
<1>40. ASSUME ResumeRefused PROVE ResultsInv'
  <2>1. Forget("idle", disk) /\ emitted' = emitted
    BY <1>40 DEF ResumeRefused, Rest, history
  <2>2. disk \in [Calls -> States]
    BY <1>d
  <2>. HIDE DEF ResultsInv
  <2>. QED
    BY <2>1, <2>2, <1>f, <1>d
<1>41. ASSUME RefusedByAllowlist PROVE ResultsInv'
  BY <1>41, <1>r, <1>t DEF RefusedByAllowlist
<1>42. ASSUME Grant PROVE ResultsInv'
  BY <1>42, <1>r, <1>t DEF Grant
<1>43. ASSUME Mint PROVE ResultsInv'
  BY <1>43, <1>r, <1>t DEF Mint, Outlived
<1>44. ASSUME Replied PROVE ResultsInv'
  BY <1>44, <1>r, <1>t DEF Replied, Outlived
<1>45. ASSUME NEW c \in Calls, TokenGone(c) PROVE ResultsInv'
  BY <1>45, <1>r, <1>t DEF TokenGone, AtAwait
<1>46. ASSUME CarryExpires PROVE ResultsInv'
  BY <1>46, <1>r, <1>t DEF CarryExpires, AtAwait
<1>47. ASSUME NEW c \in Calls, Withdraw(c) PROVE ResultsInv'
  BY <1>47, <1>r, <1>t DEF Withdraw, AtAwait
<1>. HIDE DEF TypeInv, Calls, Points, States, TaskStates, Verdicts, Awaiting, Resolved, Stale,
           hand, guard, owner, durable, gate, history, InBatch, Closed, Serial, AtCall, Synced,
           InPrefix, HandPoints, Quiet, Busy, ResultsInv, RowsShape, DiskTold, StateTold,
           PartsWritten, PrefixParts, AtTold, EmittedInv, WriteInv, OwnWritten, NoBatch, OrderInv,
           AtIsNext, HeadPending, PrefixInv, PrefixPlace, PrefixStates, TakenStays
<1>. QED
  BY <1>asking, <1>cut, <1>1, <1>2, <1>3, <1>4, <1>5, <1>6, <1>7, <1>8, <1>9, <1>10, <1>11, <1>12,
     <1>13, <1>14,
     <1>15, <1>16, <1>17, <1>18, <1>19, <1>20, <1>21, <1>22, <1>23, <1>24, <1>25, <1>26, <1>27,
     <1>28, <1>29, <1>30, <1>31, <1>32, <1>33, <1>34, <1>35, <1>36, <1>37, <1>38, <1>39, <1>40,
     <1>41, <1>42, <1>43, <1>44, <1>45, <1>46, <1>47, AnswerInjectedResolves, DismissedResolves,
     SuppressedResolves, MalformedResolves, AnswerHeadlessResolves, AuditedResolves, AskParks
     DEF Next, Own, Serve, Environment

-----------------------------------------------------------------------------
\* In the order of the numbers of its calls a sequence is in order.
LEMMA RisingSorted ==
  ASSUME CallsAssumption, NEW p \in Seq(Calls), \A i, j \in DOMAIN p : i < j => p[i] < p[j]
  PROVE  Sorted(p)
<1>1. \A i \in DOMAIN p : p[i] \in Nat
  BY DEF CallsAssumption, Calls
<1>. QED
  BY <1>1 DEF Sorted, MayPrecede

\* A result that may follow every result in hand keeps them in order.
LEMMA AppendSorted ==
  ASSUME NEW p \in Seq(Calls), NEW c \in Calls, Sorted(p), \A d \in ToSet(p) : MayPrecede(d, c)
  PROVE  Sorted(Append(p, c))
<1>1. /\ DOMAIN Append(p, c) = 1 .. Len(p) + 1 /\ DOMAIN p = 1 .. Len(p) /\ Len(p) \in Nat
      /\ \A i \in 1 .. Len(p) : Append(p, c)[i] = p[i]
      /\ Append(p, c)[Len(p) + 1] = c
  OBVIOUS
<1>2. SUFFICES ASSUME NEW x \in 1 .. Len(p) + 1, NEW y \in 1 .. Len(p) + 1, x < y
               PROVE  MayPrecede(Append(p, c)[x], Append(p, c)[y])
  BY <1>1 DEF Sorted
<1>3. x \in 1 .. Len(p) /\ Append(p, c)[x] = p[x] /\ p[x] \in ToSet(p)
  BY <1>1, <1>2 DEF ToSet
<1>4. CASE y = Len(p) + 1
  BY <1>1, <1>2, <1>3, <1>4
<1>5. CASE y # Len(p) + 1
  <2>1. y \in 1 .. Len(p) /\ Append(p, c)[y] = p[y]
    BY <1>5, <1>1
  <2>. QED
    BY <2>1, <1>1, <1>2, <1>3 DEF Sorted
<1>. QED
  BY <1>2, <1>4, <1>5

\* The commit leaves the rows in order, this step's row the last of them.
LEMMA PlacesCommitted ==
  ASSUME RowsShape, RowsOrdered, RowIsLast, Sorted(parts), PartsFollow, rows' = RowsWritten
  PROVE  /\ RowsOrdered'
         /\ LET r == IF row = 0 /\ parts # <<>> THEN Len(rows) + 1 ELSE row
            IN  /\ r # 0 => r = Len(rows')
                /\ \A i \in DOMAIN rows' \ {r} : i \in DOMAIN rows \ {row} /\ rows'[i] = rows[i]
<1>. USE DEF RowsShape
<1>1. CASE parts = <<>>
  <2>1. rows' = rows
    BY <1>1 DEF RowsWritten
  <2>. QED
    BY <2>1, <1>1 DEF RowsOrdered, Chained, RowIsLast
<1>2. CASE parts # <<>>
  <2>. DEFINE r == IF row = 0 THEN Len(rows) + 1 ELSE row
  <2>1. /\ Len(rows) \in Nat /\ DOMAIN rows = 1 .. Len(rows) /\ DOMAIN rows' = 1 .. r /\ r = Len(rows')
        /\ rows'[r] = parts /\ r \in 1 .. r
        /\ \A i \in 1 .. r : i # r => i \in 1 .. Len(rows) /\ i # row /\ rows'[i] = rows[i]
    <3>1. CASE row = 0
      <4>1. rows' = Append(rows, parts)
        BY <1>2, <3>1 DEF RowsWritten
      <4>. QED
        BY <3>1, <4>1
    <3>2. CASE row # 0
      <4>1. rows' = [rows EXCEPT ![row] = parts]
        BY <1>2, <3>2 DEF RowsWritten
      <4>. QED
        BY <3>2, <4>1 DEF RowIsLast
    <3>. QED
      BY <3>1, <3>2
  <2>. HIDE DEF r
  <2>2. \A i \in DOMAIN rows' : Sorted(rows'[i])
    BY <2>1 DEF RowsOrdered
  <2>3. ASSUME NEW i \in DOMAIN rows', NEW k \in DOMAIN rows', i < k,
               NEW c \in ToSet(rows'[i]), NEW d \in ToSet(rows'[k])
        PROVE  MayPrecede(c, d)
    <3>1. i \in DOMAIN rows \ {row} /\ rows'[i] = rows[i] /\ i < r
      BY <2>1, <2>3
    <3>2. CASE k = r
      BY <3>1, <3>2, <2>1, <2>3 DEF PartsFollow
    <3>3. CASE k # r
      BY <3>1, <3>3, <2>1, <2>3 DEF RowsOrdered, Chained
    <3>. QED
      BY <3>2, <3>3
  <2>4. Chained(rows')
    BY <2>3 DEF Chained
  <2>5. (IF row = 0 /\ parts # <<>> THEN Len(rows) + 1 ELSE row) = r
    BY <1>2 DEF r
  <2>. QED
    BY <2>1, <2>2, <2>4, <2>5 DEF RowsOrdered
<1>. QED
  BY <1>1, <1>2

\* Every step keeps the results in order.
LEMMA PlacesKept ==
  ASSUME CallsAssumption, TypeInv, ConsentInv, WriteInv, OrderInv, PrefixInv, BegunInv,
         ResultsInv, PlaceInv, Next
  PROVE  PlaceInv'
<1>l. Outstanding # {} <=> Busy
  BY OutstandingTasks
<1>s. Sorted(<<>>) /\ ToSet(<<>>) = {}
  BY NoParts DEF Sorted
<1>t. RowsShape /\ \A c \in Calls : state[c] \in Closed <=> c \in Results \cup ToSet(parts)
  BY DEF ResultsInv, StateTold
<1>q. \A i \in DOMAIN rows : ToSet(rows[i]) \subseteq Results
  BY DEF Results
<1>i. InPrefix <=> Busy \/ pc \in {"prefix", "harvest", "cut"}
  BY DEF InPrefix
\* No row and no result in hand is touched.
<1>u. ASSUME rows' = rows, row' = row, parts' = parts,
             InPrefix' \/ pc' = "head" => (InPrefix \/ pc = "head") /\ batch' = batch
      PROVE  PlaceInv'
  BY <1>u DEF PlaceInv, RowsOrdered, Chained, Sorted, RowIsLast, PartsFollow, BatchUntold
\* The results in hand are dropped, or there were none.
<1>n. ASSUME rows' = rows, row' = 0, parts' = <<>>, ~(InPrefix' \/ pc' = "head")
      PROVE  PlaceInv'
  <2>1. RowsOrdered'
    BY <1>n DEF PlaceInv, RowsOrdered, Chained, Sorted
  <2>. QED
    BY <1>n, <1>s, <2>1 DEF PlaceInv, RowIsLast, PartsFollow, BatchUntold
<1>f. ASSUME NEW p \in {"idle", "boot"}, NEW d, Forget(p, d) PROVE PlaceInv'
  <2>1. /\ pc' = p /\ parts' = <<>> /\ row' = 0 /\ rows' = rows
        /\ \A c \in Calls : task'[c] = "none"
    BY <1>f DEF Forget
  <2>2. ~(InPrefix' \/ pc' = "head")
    BY <2>1, <1>f DEF InPrefix, Busy
  <2>. QED
    BY <2>1, <2>2, <1>n
\* The transaction is committed; the results in hand are kept or dropped.
<1>c. ASSUME rows' = RowsWritten, row' = (IF row = 0 /\ parts # <<>> THEN Len(rows) + 1 ELSE row),
             parts' = parts,
             InPrefix' \/ pc' = "head" => (InPrefix \/ pc = "head") /\ batch' = batch
      PROVE  PlaceInv'
  <2>1. RowsOrdered' /\ RowIsLast' /\ \A i \in DOMAIN rows' \ {row'} : i \in DOMAIN rows \ {row} /\ rows'[i] = rows[i]
    BY <1>c, <1>t, PlacesCommitted DEF PlaceInv, RowIsLast
  <2>. QED
    BY <1>c, <2>1 DEF PlaceInv, PartsFollow, BatchUntold, Sorted
\* A result joins those in hand.
<1>j. ASSUME NEW c \in Calls, rows' = rows, row' = row, batch' = batch,
             Sorted(parts'), ToSet(parts') \subseteq ToSet(parts) \cup {c},
             \A i \in DOMAIN rows \ {row} : \A d \in ToSet(rows[i]) : MayPrecede(d, c),
             InPrefix' \/ pc' = "head" => InPrefix \/ pc = "head"
      PROVE  PlaceInv'
  <2>1. RowsOrdered' /\ RowIsLast' /\ BatchUntold'
    BY <1>j DEF PlaceInv, RowsOrdered, Chained, Sorted, RowIsLast, BatchUntold
  <2>2. PartsFollow'
    BY <1>j DEF PlaceInv, PartsFollow
  <2>. QED
    BY <1>j, <2>1, <2>2 DEF PlaceInv
<1>1. ASSUME NEW c \in Calls, NEW s \in Closed, Resolving(c, s) PROVE PlaceInv'
  <2>1. /\ pc \in Serial /\ c \in InBatch(batch) /\ state[c] \notin Resolved
        /\ parts' = Append(parts, c) /\ rows' = rows /\ row' = row /\ batch' = batch
        /\ task' = task /\ pc' = "persist"
    BY <1>1 DEF Resolving, UpNext, Resolve, durable
  <2>2. ASSUME NEW d \in Calls, d \in Results \cup ToSet(parts) PROVE MayPrecede(d, c)
    <3>1. state[d] \in Resolved /\ state[d] # "pending"
      BY <2>2, <1>t DEF Closed, Resolved
    <3>2. d # c
      BY <2>1, <3>1
    <3>3. Batch[d] = Batch[c] => ~(c < d)
      BY <2>1, <3>1 DEF OrderInv, TailInOrder, OneByOne, InBatch
    <3>. QED
      BY <3>2, <3>3 DEF MayPrecede, CallsAssumption, Calls
  <2>3. parts \in Seq(Calls) /\ ToSet(parts) \subseteq Calls /\ Results \subseteq Calls
    BY <1>t DEF RowsShape, ToSet, Results
  <2>4. Sorted(parts') /\ ToSet(parts') = ToSet(parts) \cup {c}
    BY <2>1, <2>2, <2>3, AppendSorted, PartsAppended DEF PlaceInv
  <2>5. \A i \in DOMAIN rows \ {row} : \A d \in ToSet(rows[i]) : MayPrecede(d, c)
    BY <2>2, <2>3, <1>q
  <2>6. InPrefix' => InPrefix
    BY <2>1 DEF InPrefix, Busy
  <2>. QED
    BY <2>1, <2>4, <2>5, <2>6, <1>j
<1>2. ASSUME NEW c \in Calls, NEW s \in Awaiting, Parking(c, s) PROVE PlaceInv'
  <2>1. rows' = rows /\ row' = row /\ parts' = parts
    BY <1>2 DEF Parking, hand, owner, durable
  <2>2. InPrefix' \/ pc' = "head" => (InPrefix \/ pc = "head") /\ batch' = batch
    BY <1>2, <1>l DEF Parking, hand, owner, durable, InPrefix, Busy, PrefixInv, PrefixPlace
  <2>. QED
    BY <2>1, <2>2, <1>u
<1>3. ASSUME FreshTurn PROVE PlaceInv'
  <2>1. rows' = rows /\ row' = row /\ parts' = parts
    BY <1>3 DEF FreshTurn, hand, owner, durable
  <2>2. InPrefix' \/ pc' = "head" => (InPrefix \/ pc = "head") /\ batch' = batch
    BY <1>3, <1>l DEF FreshTurn, hand, owner, durable, InPrefix, Busy, PrefixInv, PrefixPlace
  <2>. QED
    BY <2>1, <2>2, <1>u
<1>4. ASSUME EmitBatch PROVE PlaceInv'
  <2>1. PICK d \in Calls : state[d] = "absent" /\ batch' = Batch[d]
    BY <1>4 DEF EmitBatch
  <2>2. /\ rows' = rows /\ row' = 0 /\ parts' = <<>>
        /\ \A c \in Calls : Batch[c] = batch' => state[c] = "absent"
    BY <1>4, <2>1 DEF EmitBatch, WriteInv, Opened
  <2>3. \A c \in Calls : Batch[c] = batch' => c \notin Results
    BY <2>2, <1>t DEF Closed
  <2>4. Results \subseteq Calls
    BY <1>t DEF RowsShape, ToSet, Results
  <2>5. BatchUntold'
    BY <2>2, <2>3, <2>4, <1>q DEF BatchUntold
  <2>6. RowsOrdered'
    BY <2>2 DEF PlaceInv, RowsOrdered, Chained, Sorted
  <2>. QED
    BY <2>2, <2>5, <2>6, <1>s DEF PlaceInv, RowIsLast, PartsFollow
<1>5. ASSUME Complete PROVE PlaceInv'
  <2>1. Forget("idle", disk)
    BY <1>5 DEF Complete, Rest
  <2>. QED
    BY <2>1, <1>f
<1>6. ASSUME StartBatch PROVE PlaceInv'
  <2>1. rows' = rows /\ row' = row /\ parts' = parts
    BY <1>6 DEF StartBatch, hand, owner, durable
  <2>2. InPrefix' \/ pc' = "head" => (InPrefix \/ pc = "head") /\ batch' = batch
    BY <1>6, <1>l DEF StartBatch, hand, owner, durable, InPrefix, Busy, PrefixInv, PrefixPlace
  <2>. QED
    BY <2>1, <2>2, <1>u
<1>7. ASSUME NEW c \in Calls, TaskStart(c) PROVE PlaceInv'
  <2>1. rows' = rows /\ row' = row /\ parts' = parts
    BY <1>7 DEF TaskStart, TasksAlive, TypeInv, hand, owner, durable
  <2>2. InPrefix' \/ pc' = "head" => (InPrefix \/ pc = "head") /\ batch' = batch
    BY <1>7, <1>l DEF TaskStart, TasksAlive, TypeInv, hand, owner, durable, InPrefix, Busy,
       PrefixInv, PrefixPlace
  <2>. QED
    BY <2>1, <2>2, <1>u
<1>8. ASSUME NEW c \in Calls, TaskDone(c) PROVE PlaceInv'
  <2>1. rows' = rows /\ row' = row /\ parts' = parts
    BY <1>8 DEF TaskDone, TasksAlive, TypeInv, hand, owner, durable
  <2>2. InPrefix' \/ pc' = "head" => (InPrefix \/ pc = "head") /\ batch' = batch
    BY <1>8, <1>l DEF TaskDone, TasksAlive, TypeInv, hand, owner, durable, InPrefix, Busy,
       PrefixInv, PrefixPlace
  <2>. QED
    BY <2>1, <2>2, <1>u
<1>9. ASSUME NEW c \in Calls, TaskFails(c) PROVE PlaceInv'
  <2>1. rows' = rows /\ row' = row /\ parts' = parts
    BY <1>9 DEF TaskFails, TasksAlive, TypeInv, hand, owner, durable
  <2>2. InPrefix' \/ pc' = "head" => (InPrefix \/ pc = "head") /\ batch' = batch
    BY <1>9, <1>l DEF TaskFails, TasksAlive, TypeInv, hand, owner, durable, InPrefix, Busy,
       PrefixInv, PrefixPlace
  <2>. QED
    BY <2>1, <2>2, <1>u
<1>10. ASSUME NEW c \in Calls, Take(c) PROVE PlaceInv'
  <2>1. /\ parts' = InModelOrder(Taken \cup {c}) /\ rows' = rows /\ row' = row /\ batch' = batch
        /\ Taken \cup {c} \in SUBSET Calls /\ InPrefix /\ Batch[c] = batch
    BY <1>10 DEF Take, durable, Taken, InPrefix, PrefixInv, PrefixOwn
  <2>2. ToSet(parts) = Taken
    BY <2>1 DEF ResultsInv, PrefixParts
  <2>3. Sorted(parts') /\ ToSet(parts') = ToSet(parts) \cup {c}
    BY <2>1, <2>2, ModelOrder, RisingSorted
  <2>4. \A i \in DOMAIN rows \ {row} : \A d \in ToSet(rows[i]) : MayPrecede(d, c)
    BY <2>1 DEF PlaceInv, BatchUntold, MayPrecede
  <2>. QED
    BY <2>1, <2>3, <2>4, <1>j
<1>11. ASSUME NEW c \in Calls, TakeFailed(c) PROVE PlaceInv'
  <2>1. rows' = rows /\ row' = row /\ parts' = parts
    BY <1>11 DEF TakeFailed, Unwind, hand, owner, durable
  <2>2. InPrefix' \/ pc' = "head" => (InPrefix \/ pc = "head") /\ batch' = batch
    BY <1>11, <1>l DEF TakeFailed, Unwind, hand, owner, durable, InPrefix, Busy, PrefixInv,
       PrefixPlace
  <2>. QED
    BY <2>1, <2>2, <1>u
<1>12. ASSUME NEW c \in Calls, TaskCancelled(c) PROVE PlaceInv'
  <2>1. rows' = rows /\ row' = row /\ parts' = parts
    BY <1>12 DEF TaskCancelled, hand, owner, durable
  <2>2. InPrefix' \/ pc' = "head" => (InPrefix \/ pc = "head") /\ batch' = batch
    BY <1>12, <1>l DEF TaskCancelled, hand, owner, durable, InPrefix, Busy, PrefixInv, PrefixPlace
  <2>. QED
    BY <2>1, <2>2, <1>u
<1>13. ASSUME Harvest PROVE PlaceInv'
  <2>1. /\ parts' = InModelOrder(Harvested) /\ rows' = rows /\ row' = row
        /\ Harvested \in SUBSET Calls /\ InPrefix /\ \A c \in Harvested : Batch[c] = batch
        /\ pc' = "backstop" /\ \A c \in Calls : task'[c] = "none"
    BY <1>13 DEF Harvest, durable, Harvested, Taken, InPrefix, PrefixInv, PrefixOwn
  <2>2. Sorted(parts') /\ ToSet(parts') = Harvested
    BY <2>1, ModelOrder, RisingSorted
  <2>3. PartsFollow'
    <3>1. \A i \in DOMAIN rows \ {row} : \A c \in ToSet(rows[i]) : Batch[c] # batch
      BY <2>1 DEF PlaceInv, BatchUntold
    <3>. QED
      BY <2>1, <2>2, <3>1 DEF PartsFollow, MayPrecede
  <2>4. BatchUntold'
    BY <2>1 DEF BatchUntold, InPrefix, Busy
  <2>5. RowsOrdered' /\ RowIsLast'
    BY <2>1 DEF PlaceInv, RowsOrdered, Chained, Sorted, RowIsLast
  <2>. QED
    BY <2>2, <2>3, <2>4, <2>5 DEF PlaceInv
<1>14. ASSUME NEW c \in Calls, Blocked(c) PROVE PlaceInv'
  <2>1. rows' = rows /\ row' = row /\ parts' = parts
    BY <1>14 DEF Blocked, Hand, hand, owner, durable
  <2>2. InPrefix' \/ pc' = "head" => (InPrefix \/ pc = "head") /\ batch' = batch
    BY <1>14, <1>l DEF Blocked, Hand, hand, owner, durable, InPrefix, Busy, PrefixInv, PrefixPlace
  <2>. QED
    BY <2>1, <2>2, <1>u
<1>15. ASSUME NEW c \in Calls, Confirmed(c) PROVE PlaceInv'
  <2>1. rows' = rows /\ row' = row /\ parts' = parts
    BY <1>15 DEF Confirmed, hand, owner, durable
  <2>2. InPrefix' \/ pc' = "head" => (InPrefix \/ pc = "head") /\ batch' = batch
    BY <1>15, <1>l DEF Confirmed, hand, owner, durable, InPrefix, Busy, PrefixInv, PrefixPlace
  <2>. QED
    BY <2>1, <2>2, <1>u
<1>16. ASSUME NEW c \in Calls, Unasked(c) PROVE PlaceInv'
  <2>1. rows' = rows /\ row' = row /\ parts' = parts
    BY <1>16 DEF Unasked, Hand, hand, owner, durable
  <2>2. InPrefix' \/ pc' = "head" => (InPrefix \/ pc = "head") /\ batch' = batch
    BY <1>16, <1>l DEF Unasked, Hand, hand, owner, durable, InPrefix, Busy, PrefixInv, PrefixPlace
  <2>. QED
    BY <2>1, <2>2, <1>u
<1>17. ASSUME Flip PROVE PlaceInv'
  <2>1. rows' = rows /\ row' = row /\ parts' = parts
    BY <1>17 DEF Flip, hand, owner, durable
  <2>2. InPrefix' \/ pc' = "head" => (InPrefix \/ pc = "head") /\ batch' = batch
    BY <1>17, <1>l DEF Flip, hand, owner, durable, InPrefix, Busy, PrefixInv, PrefixPlace
  <2>. QED
    BY <2>1, <2>2, <1>u
<1>18. ASSUME FlipFails PROVE PlaceInv'
  <2>1. rows' = rows /\ row' = row /\ parts' = parts
    BY <1>18 DEF FlipFails, Unwind, hand, owner, durable
  <2>2. InPrefix' \/ pc' = "head" => (InPrefix \/ pc = "head") /\ batch' = batch
    BY <1>18, <1>l DEF FlipFails, Unwind, hand, owner, durable, InPrefix, Busy, PrefixInv,
       PrefixPlace
  <2>. QED
    BY <2>1, <2>2, <1>u
<1>19. ASSUME Begin PROVE PlaceInv'
  <2>1. rows' = rows /\ row' = row /\ parts' = parts
    BY <1>19 DEF Begin, hand, owner, durable
  <2>2. InPrefix' \/ pc' = "head" => (InPrefix \/ pc = "head") /\ batch' = batch
    BY <1>19, <1>l DEF Begin, hand, owner, durable, InPrefix, Busy, PrefixInv, PrefixPlace
  <2>. QED
    BY <2>1, <2>2, <1>u
<1>20. ASSUME DenyHeadless PROVE PlaceInv'
  <2>1. rows' = rows /\ row' = row /\ parts' = parts
    BY <1>20 DEF DenyHeadless, hand, owner, durable
  <2>2. InPrefix' \/ pc' = "head" => (InPrefix \/ pc = "head") /\ batch' = batch
    BY <1>20, <1>l DEF DenyHeadless, hand, owner, durable, InPrefix, Busy, PrefixInv, PrefixPlace
  <2>. QED
    BY <2>1, <2>2, <1>u
<1>asking. ASSUME Question PROVE PlaceInv'
  <2>1. rows' = rows /\ row' = row /\ parts' = parts
    BY <1>asking DEF Question, hand, owner, durable
  <2>2. InPrefix' \/ pc' = "head" => (InPrefix \/ pc = "head") /\ batch' = batch
    BY <1>asking, <1>l DEF Question, hand, owner, durable, InPrefix, Busy, PrefixInv, PrefixPlace
  <2>. QED
    BY <2>1, <2>2, <1>u
<1>cut. ASSUME HarvestCut PROVE PlaceInv'
  <2>1. rows' = rows /\ row' = row /\ parts' = parts
    BY <1>cut DEF HarvestCut, durable
  <2>2. InPrefix' \/ pc' = "head" => (InPrefix \/ pc = "head") /\ batch' = batch
    BY <1>cut DEF HarvestCut, InPrefix, Busy
  <2>. QED
    BY <2>1, <2>2, <1>u
<1>21. ASSUME Effect PROVE PlaceInv'
  <2>1. rows' = rows /\ row' = row /\ parts' = parts
    BY <1>21 DEF Effect, hand, owner, durable
  <2>2. InPrefix' \/ pc' = "head" => (InPrefix \/ pc = "head") /\ batch' = batch
    BY <1>21, <1>l DEF Effect, hand, owner, durable, InPrefix, Busy, PrefixInv, PrefixPlace
  <2>. QED
    BY <2>1, <2>2, <1>u
<1>22. ASSUME Return PROVE PlaceInv'
  <2>1. rows' = rows /\ row' = row /\ parts' = parts
    BY <1>22 DEF Return, hand, owner, durable
  <2>2. InPrefix' \/ pc' = "head" => (InPrefix \/ pc = "head") /\ batch' = batch
    BY <1>22, <1>l DEF Return, hand, owner, durable, InPrefix, Busy, PrefixInv, PrefixPlace
  <2>. QED
    BY <2>1, <2>2, <1>u
<1>23. ASSUME NEW c \in Calls, LateEffect(c) PROVE PlaceInv'
  <2>1. rows' = rows /\ row' = row /\ parts' = parts
    BY <1>23 DEF LateEffect, hand, owner, durable
  <2>2. InPrefix' \/ pc' = "head" => (InPrefix \/ pc = "head") /\ batch' = batch
    BY <1>23, <1>l DEF LateEffect, hand, owner, durable, InPrefix, Busy, PrefixInv, PrefixPlace
  <2>. QED
    BY <2>1, <2>2, <1>u
<1>24. ASSUME AuditFails PROVE PlaceInv'
  <2>1. rows' = rows /\ row' = row /\ parts' = parts
    BY <1>24 DEF AuditFails, Unwind, hand, owner, durable
  <2>2. InPrefix' \/ pc' = "head" => (InPrefix \/ pc = "head") /\ batch' = batch
    BY <1>24, <1>l DEF AuditFails, Unwind, hand, owner, durable, InPrefix, Busy, PrefixInv,
       PrefixPlace
  <2>. QED
    BY <2>1, <2>2, <1>u
<1>25. ASSUME Persisted PROVE PlaceInv'
  <2>1. /\ rows' = RowsWritten /\ parts' = parts
        /\ row' = IF row = 0 /\ parts # <<>> THEN Len(rows) + 1 ELSE row
    BY <1>25 DEF Persisted, Commit
  <2>2. InPrefix' \/ pc' = "head" => (InPrefix \/ pc = "head") /\ batch' = batch
    BY <1>25, <1>l DEF Persisted, Unwind, InPrefix, Busy, PrefixInv, PrefixPlace
  <2>. QED
    BY <2>1, <2>2, <1>c
<1>26. ASSUME PersistFails PROVE PlaceInv'
  <2>1. rows' = rows /\ row' = row /\ parts' = parts
    BY <1>26 DEF PersistFails, Unwind, hand, owner, durable
  <2>2. InPrefix' \/ pc' = "head" => (InPrefix \/ pc = "head") /\ batch' = batch
    BY <1>26, <1>l DEF PersistFails, Unwind, hand, owner, durable, InPrefix, Busy, PrefixInv,
       PrefixPlace
  <2>. QED
    BY <2>1, <2>2, <1>u
<1>27. ASSUME Parked PROVE PlaceInv'
  <2>1. /\ rows' = RowsWritten /\ parts' = parts
        /\ row' = IF row = 0 /\ parts # <<>> THEN Len(rows) + 1 ELSE row
    BY <1>27 DEF Parked, Commit
  <2>2. InPrefix' \/ pc' = "head" => (InPrefix \/ pc = "head") /\ batch' = batch
    BY <1>27, <1>l DEF Parked, InPrefix, Busy, PrefixInv, PrefixPlace
  <2>. QED
    BY <2>1, <2>2, <1>c
<1>28. ASSUME ParkFails PROVE PlaceInv'
  <2>1. rows' = rows /\ row' = row /\ parts' = parts
    BY <1>28 DEF ParkFails, Unwind, hand, owner, durable
  <2>2. InPrefix' \/ pc' = "head" => (InPrefix \/ pc = "head") /\ batch' = batch
    BY <1>28, <1>l DEF ParkFails, Unwind, hand, owner, durable, InPrefix, Busy, PrefixInv,
       PrefixPlace
  <2>. QED
    BY <2>1, <2>2, <1>u
<1>29. ASSUME Backstop PROVE PlaceInv'
  <2>1. /\ rows' = RowsWritten /\ parts' = <<>> /\ row' = 0
        /\ pc' \in {"model", "end"} /\ \A c \in Calls : task'[c] = "none"
    BY <1>29 DEF Backstop
  <2>2. RowsOrdered'
    BY <2>1, <1>t, PlacesCommitted DEF PlaceInv
  <2>3. BatchUntold'
    BY <2>1 DEF BatchUntold, InPrefix, Busy
  <2>. QED
    BY <2>1, <2>2, <2>3, <1>s DEF PlaceInv, RowIsLast, PartsFollow
<1>30. ASSUME BackstopFails PROVE PlaceInv'
  <2>1. rows' = rows /\ row' = row /\ parts' = parts
    BY <1>30 DEF BackstopFails, hand, owner, durable
  <2>2. InPrefix' \/ pc' = "head" => (InPrefix \/ pc = "head") /\ batch' = batch
    BY <1>30, <1>l DEF BackstopFails, hand, owner, durable, InPrefix, Busy, PrefixInv, PrefixPlace
  <2>. QED
    BY <2>1, <2>2, <1>u
<1>31. ASSUME Close PROVE PlaceInv'
  <2>1. Forget("idle", disk)
    BY <1>31 DEF Close, Rest
  <2>. QED
    BY <2>1, <1>f
<1>32. ASSUME Reconcile PROVE PlaceInv'
  <2>1. Forget("idle", Reconciled(disk))
    BY <1>32 DEF Reconcile, Rest
  <2>. QED
    BY <2>1, <1>f
<1>33. ASSUME ReconcileFails PROVE PlaceInv'
  <2>1. Forget("idle", disk)
    BY <1>33 DEF ReconcileFails, Rest
  <2>. QED
    BY <2>1, <1>f
<1>34. ASSUME Stop PROVE PlaceInv'
  <2>1. rows' = rows /\ row' = row /\ parts' = parts
    BY <1>34 DEF Stop, hand, owner, durable
  <2>2. InPrefix' \/ pc' = "head" => (InPrefix \/ pc = "head") /\ batch' = batch
    BY <1>34, <1>l DEF Stop, hand, owner, durable, InPrefix, Busy, PrefixInv, PrefixPlace
  <2>. QED
    BY <2>1, <2>2, <1>u
<1>35. ASSUME CancelLands PROVE PlaceInv'
  <2>1. rows' = rows /\ row' = row /\ parts' = parts
    BY <1>35 DEF CancelLands, Unwind, Cancellable, hand, owner, durable
  <2>2. InPrefix' \/ pc' = "head" => (InPrefix \/ pc = "head") /\ batch' = batch
    BY <1>35, <1>l DEF CancelLands, Unwind, Cancellable, hand, owner, durable, InPrefix, Busy,
       PrefixInv, PrefixPlace
  <2>. QED
    BY <2>1, <2>2, <1>u
<1>36. ASSUME CancelLandsOutside PROVE PlaceInv'
  <2>1. rows' = rows /\ row' = row /\ parts' = parts
    BY <1>36 DEF CancelLandsOutside, hand, owner, durable
  <2>2. InPrefix' \/ pc' = "head" => (InPrefix \/ pc = "head") /\ batch' = batch
    BY <1>36, <1>l DEF CancelLandsOutside, hand, owner, durable, InPrefix, Busy, PrefixInv,
       PrefixPlace
  <2>. QED
    BY <2>1, <2>2, <1>u
<1>37. ASSUME Crash PROVE PlaceInv'
  <2>1. Forget("boot", disk)
    BY <1>37 DEF Crash, Rest
  <2>. QED
    BY <2>1, <1>f
<1>38. ASSUME Boot PROVE PlaceInv'
  <2>1. Forget("idle", disk) \/ Forget("idle", Reconciled(disk))
    BY <1>38 DEF Boot, Rest
  <2>. QED
    BY <2>1, <1>f
<1>39. ASSUME NEW c \in Calls, NEW v \in Verdicts \ {"none"}, Resume(c, v) PROVE PlaceInv'
  <2>1. rows' = rows /\ row' = row /\ parts' = parts
    BY <1>39 DEF Resume, hand, owner, durable
  <2>2. InPrefix' \/ pc' = "head" => (InPrefix \/ pc = "head") /\ batch' = batch
    BY <1>39, <1>l DEF Resume, hand, owner, durable, InPrefix, Busy, PrefixInv, PrefixPlace
  <2>. QED
    BY <2>1, <2>2, <1>u
<1>40. ASSUME ResumeRefused PROVE PlaceInv'
  <2>1. Forget("idle", disk)
    BY <1>40 DEF ResumeRefused, Rest
  <2>. QED
    BY <2>1, <1>f
<1>41. ASSUME RefusedByAllowlist PROVE PlaceInv'
  <2>1. rows' = rows /\ row' = row /\ parts' = parts
    BY <1>41 DEF RefusedByAllowlist, hand, owner, durable
  <2>2. InPrefix' \/ pc' = "head" => (InPrefix \/ pc = "head") /\ batch' = batch
    BY <1>41, <1>l DEF RefusedByAllowlist, hand, owner, durable, InPrefix, Busy, PrefixInv,
       PrefixPlace
  <2>. QED
    BY <2>1, <2>2, <1>u
<1>42. ASSUME Grant PROVE PlaceInv'
  <2>1. rows' = rows /\ row' = row /\ parts' = parts
    BY <1>42 DEF Grant, hand, owner, durable
  <2>2. InPrefix' \/ pc' = "head" => (InPrefix \/ pc = "head") /\ batch' = batch
    BY <1>42, <1>l DEF Grant, hand, owner, durable, InPrefix, Busy, PrefixInv, PrefixPlace
  <2>. QED
    BY <2>1, <2>2, <1>u
<1>43. ASSUME Mint PROVE PlaceInv'
  <2>1. rows' = rows /\ row' = row /\ parts' = parts
    BY <1>43 DEF Mint, hand, owner, durable
  <2>2. InPrefix' \/ pc' = "head" => (InPrefix \/ pc = "head") /\ batch' = batch
    BY <1>43, <1>l DEF Mint, hand, owner, durable, InPrefix, Busy, PrefixInv, PrefixPlace
  <2>. QED
    BY <2>1, <2>2, <1>u
<1>44. ASSUME Replied PROVE PlaceInv'
  <2>1. rows' = rows /\ row' = row /\ parts' = parts
    BY <1>44 DEF Replied, hand, owner, durable
  <2>2. InPrefix' \/ pc' = "head" => (InPrefix \/ pc = "head") /\ batch' = batch
    BY <1>44, <1>l DEF Replied, hand, owner, durable, InPrefix, Busy, PrefixInv, PrefixPlace
  <2>. QED
    BY <2>1, <2>2, <1>u
<1>45. ASSUME NEW c \in Calls, TokenGone(c) PROVE PlaceInv'
  <2>1. rows' = rows /\ row' = row /\ parts' = parts
    BY <1>45 DEF TokenGone, hand, owner, durable
  <2>2. InPrefix' \/ pc' = "head" => (InPrefix \/ pc = "head") /\ batch' = batch
    BY <1>45, <1>l DEF TokenGone, hand, owner, durable, InPrefix, Busy, PrefixInv, PrefixPlace
  <2>. QED
    BY <2>1, <2>2, <1>u
<1>46. ASSUME CarryExpires PROVE PlaceInv'
  <2>1. rows' = rows /\ row' = row /\ parts' = parts
    BY <1>46 DEF CarryExpires, hand, owner, durable
  <2>2. InPrefix' \/ pc' = "head" => (InPrefix \/ pc = "head") /\ batch' = batch
    BY <1>46, <1>l DEF CarryExpires, hand, owner, durable, InPrefix, Busy, PrefixInv, PrefixPlace
  <2>. QED
    BY <2>1, <2>2, <1>u
<1>47. ASSUME NEW c \in Calls, Withdraw(c) PROVE PlaceInv'
  <2>1. rows' = rows /\ row' = row /\ parts' = parts
    BY <1>47 DEF Withdraw, hand, owner, durable
  <2>2. InPrefix' \/ pc' = "head" => (InPrefix \/ pc = "head") /\ batch' = batch
    BY <1>47, <1>l DEF Withdraw, hand, owner, durable, InPrefix, Busy, PrefixInv, PrefixPlace
  <2>. QED
    BY <2>1, <2>2, <1>u
<1>. QED
  BY <1>asking, <1>cut, <1>1, <1>2, <1>3, <1>4, <1>5, <1>6, <1>7, <1>8, <1>9, <1>10, <1>11, <1>12,
     <1>13, <1>14,
     <1>15, <1>16, <1>17, <1>18, <1>19, <1>20, <1>21, <1>22, <1>23, <1>24, <1>25, <1>26, <1>27,
     <1>28, <1>29, <1>30, <1>31, <1>32, <1>33, <1>34, <1>35, <1>36, <1>37, <1>38, <1>39, <1>40,
     <1>41, <1>42, <1>43, <1>44, <1>45, <1>46, <1>47, AnswerInjectedResolves, DismissedResolves,
     SuppressedResolves, MalformedResolves, AnswerHeadlessResolves, AuditedResolves, AskParks
     DEF Next, Own, Serve, Environment

-----------------------------------------------------------------------------
\* Every step keeps the owner's tokens on calls that wait.
LEMMA TokensKept ==
  ASSUME CallsAssumption, TypeInv, ConsentInv, WriteInv, OrderInv, PrefixInv, BegunInv,
         TokensInv, Next
  PROVE  TokensInv'
<1>w. Written = state
  BY WrittenIsState DEF WriteInv
<1>l. Outstanding # {} <=> Busy
  BY OutstandingTasks
<1>e. \A c \in shown \ blocked : Reconciled(disk)[c] = "awaiting_confirm"
  BY ReconciledKeeps DEF TypeInv, Awaiting, TokensInv, TokensWait, InBatch
<1>r. pc = "resume" => /\ target \in InBatch(batch) /\ disk[target] \in Awaiting
                       /\ \A c \in InBatch(batch) : c \in shown \ blocked => c = target
  <2>. SUFFICES ASSUME pc = "resume", NEW c \in InBatch(batch), c \in shown \ blocked, c # target
                PROVE  FALSE
    BY DEF OrderInv, AtResume
  <2>1. /\ c \in Calls /\ target \in Calls /\ Batch[c] = Batch[target]
        /\ disk[target] \in Awaiting /\ disk[c] \in Awaiting
    BY DEF OrderInv, AtResume, InBatch, TokensInv, TokensWait, Awaiting
  <2>2. c < target \/ target < c
    BY <2>1 DEF Calls
  <2>. QED
    BY <2>1, <2>2 DEF OrderInv, Waits, Awaiting, Resolved
<1>. USE CallsAssumption DEF CallsAssumption, TypeInv, Calls, Points, States, TaskStates,
           Verdicts, Awaiting, Resolved, Stale, hand, guard, owner, durable, gate, history,
           InBatch, Closed, Serial, AtCall, Synced, InPrefix, HandPoints, Quiet, Busy, TokensInv,
           TokensWait, TokensElsewhere, OrderInv, AtIsNext, WriteInv, OwnWritten, Synced, NoBatch,
           PrefixInv, PrefixPlace, AtResume, PrefixStates, HeadPending
<1>1. ASSUME NEW c \in Calls, NEW s \in Closed, Resolving(c, s) PROVE TokensInv'
  <2>1. TokensWait'
    BY SMTT(30), <1>1 DEF Resolving, UpNext, Resolve
  <2>2. TokensElsewhere'
    BY <1>1 DEF Resolving, UpNext, Resolve
  <2>. QED
    BY <2>1, <2>2
<1>2. ASSUME NEW c \in Calls, NEW s \in Awaiting, Parking(c, s) PROVE TokensInv'
  <2>1. TokensWait'
    BY <1>2 DEF Parking, UpNext
  <2>2. TokensElsewhere'
    BY <1>2 DEF Parking, UpNext
  <2>. QED
    BY <2>1, <2>2
<1>3. ASSUME FreshTurn PROVE TokensInv'
  BY <1>3 DEF FreshTurn
<1>4. ASSUME EmitBatch PROVE TokensInv'
  <2>1. PICK e \in Calls : state[e] = "absent" /\ batch' = Batch[e]
    BY <1>4 DEF EmitBatch
  <2>2. \A c \in Calls : Batch[c] = batch' => state[c] = "absent"
    BY <2>1 DEF WriteInv, Opened
  <2>3. \A c \in shown \ blocked : Batch[c] # batch'
    BY <2>2
  <2>. QED
    BY <1>4, <2>3 DEF EmitBatch
<1>5. ASSUME Complete PROVE TokensInv'
  BY <1>5 DEF Complete, Rest, Forget
<1>6. ASSUME StartBatch PROVE TokensInv'
  BY <1>6 DEF StartBatch
<1>7. ASSUME NEW c \in Calls, TaskStart(c) PROVE TokensInv'
  BY <1>7 DEF TaskStart, TasksAlive
<1>8. ASSUME NEW c \in Calls, TaskDone(c) PROVE TokensInv'
  BY <1>8 DEF TaskDone, TasksAlive
<1>9. ASSUME NEW c \in Calls, TaskFails(c) PROVE TokensInv'
  BY <1>9 DEF TaskFails, TasksAlive
<1>10. ASSUME NEW c \in Calls, Take(c) PROVE TokensInv'
  <2>1. c \in InBatch(batch)
    BY <1>10 DEF Take, PrefixInv, PrefixOwn
  <2>. QED
    BY <1>10, <2>1 DEF Take
<1>11. ASSUME NEW c \in Calls, TakeFailed(c) PROVE TokensInv'
  BY <1>11, <1>l DEF TakeFailed, Unwind
<1>12. ASSUME NEW c \in Calls, TaskCancelled(c) PROVE TokensInv'
  BY <1>12 DEF TaskCancelled
<1>13. ASSUME Harvest PROVE TokensInv'
  <2>1. \A c \in Calls : task[c] = "done" => c \in InBatch(batch)
    BY DEF PrefixInv, PrefixOwn
  <2>. QED
    BY <1>13, <2>1 DEF Harvest
<1>14. ASSUME NEW c \in Calls, Blocked(c) PROVE TokensInv'
  BY <1>14 DEF Blocked, Hand, Admitted, Serving, Unresolved, Answering, Fresh
<1>15. ASSUME NEW c \in Calls, Confirmed(c) PROVE TokensInv'
  BY <1>15 DEF Confirmed, Answering, Admitted, Serving, Unresolved, Fresh, Marked
<1>16. ASSUME NEW c \in Calls, Unasked(c) PROVE TokensInv'
  BY <1>16 DEF Unasked, Fresh, Hand, Admitted, Serving, Unresolved, Answering
<1>17. ASSUME Flip PROVE TokensInv'
  BY <1>17, <1>w DEF Flip
<1>18. ASSUME FlipFails PROVE TokensInv'
  BY <1>18, <1>l DEF FlipFails, Unwind
<1>19. ASSUME Begin PROVE TokensInv'
  BY <1>19 DEF Begin, Allowed, Approved
<1>20. ASSUME DenyHeadless PROVE TokensInv'
  BY <1>20 DEF DenyHeadless, NeedsConfirm, Allowed, Approved
<1>asking. ASSUME Question PROVE TokensInv'
  BY <1>asking DEF Question
<1>cut. ASSUME HarvestCut PROVE TokensInv'
  BY <1>cut DEF HarvestCut, AllSettled
<1>21. ASSUME Effect PROVE TokensInv'
  BY <1>21 DEF Effect
<1>22. ASSUME Return PROVE TokensInv'
  BY <1>22 DEF Return
<1>23. ASSUME NEW c \in Calls, LateEffect(c) PROVE TokensInv'
  BY <1>23 DEF LateEffect, AtAwait
<1>24. ASSUME AuditFails PROVE TokensInv'
  BY <1>24, <1>l DEF AuditFails, Unwind
<1>25. ASSUME Persisted PROVE TokensInv'
  <2>1. TokensWait'
    BY <1>25, <1>l, <1>w DEF Persisted, Commit, Unresolved, Unwind
  <2>2. TokensElsewhere'
    BY <1>25, <1>l, <1>w DEF Persisted, Commit, Unresolved, Unwind
  <2>. QED
    BY <2>1, <2>2
<1>26. ASSUME PersistFails PROVE TokensInv'
  BY <1>26, <1>l DEF PersistFails, Unwind, EmittedUnwritten
<1>27. ASSUME Parked PROVE TokensInv'
  <2>1. TokensWait'
    BY <1>27, <1>w DEF Parked, Commit
  <2>2. TokensElsewhere'
    BY <1>27, <1>w DEF Parked, Commit
  <2>. QED
    BY <2>1, <2>2
<1>28. ASSUME ParkFails PROVE TokensInv'
  BY <1>28, <1>l DEF ParkFails, Unwind
<1>29. ASSUME Backstop PROVE TokensInv'
  BY <1>29, <1>w DEF Backstop
<1>30. ASSUME BackstopFails PROVE TokensInv'
  BY <1>30, <1>w DEF BackstopFails
<1>31. ASSUME Close PROVE TokensInv'
  BY <1>31 DEF Close, Rest, Forget
<1>32. ASSUME Reconcile PROVE TokensInv'
  BY <1>32, <1>e DEF Reconcile, Rest, Forget
<1>33. ASSUME ReconcileFails PROVE TokensInv'
  BY <1>33 DEF ReconcileFails, Rest, Forget
<1>34. ASSUME Stop PROVE TokensInv'
  BY <1>34 DEF Stop, AtAwait
<1>35. ASSUME CancelLands PROVE TokensInv'
  <2>1. /\ state' = state /\ batch' = batch /\ shown' = shown /\ blocked' = blocked
        /\ disk' = disk \/ disk' = state
    BY <1>35, <1>w DEF CancelLands
  <2>2. TokensWait'
    <3>1. \A c \in shown \ blocked : disk[c] = "awaiting_confirm" /\ state[c] = "awaiting_confirm"
      OBVIOUS
    <3>2. \A c \in shown \ blocked : disk'[c] = "awaiting_confirm"
      BY ONLY <2>1, <3>1
    <3>. QED
      BY <2>1, <3>1, <3>2
  <2>3. pc \in HandPoints
    BY <1>35 DEF CancelLands, Cancellable
  <2>4. TokensElsewhere'
    BY <2>1, <2>3
  <2>. QED
    BY <2>2, <2>4
<1>36. ASSUME CancelLandsOutside PROVE TokensInv'
  BY <1>36 DEF CancelLandsOutside
<1>37. ASSUME Crash PROVE TokensInv'
  BY <1>37 DEF Crash, Forget, AtAwait
<1>38. ASSUME Boot PROVE TokensInv'
  BY <1>38, <1>e DEF Boot, Rest, Forget
<1>39. ASSUME NEW c \in Calls, NEW v \in Verdicts \ {"none"}, Resume(c,v) PROVE TokensInv'
  BY <1>39 DEF Resume
<1>40. ASSUME ResumeRefused PROVE TokensInv'
  BY <1>40 DEF ResumeRefused, Rest, Forget
<1>41. ASSUME RefusedByAllowlist PROVE TokensInv'
  <2>1. TokensWait'
    BY <1>41, <1>r DEF RefusedByAllowlist
  <2>2. TokensElsewhere'
    BY <1>41, <1>r DEF RefusedByAllowlist
  <2>. QED
    BY <2>1, <2>2
<1>42. ASSUME Grant PROVE TokensInv'
  BY <1>42 DEF Grant
<1>43. ASSUME Mint PROVE TokensInv'
  <2>1. TokensWait'
    BY <1>43, <1>r DEF Mint, Outlived
  <2>2. TokensElsewhere'
    BY <1>43, <1>r DEF Mint, Outlived
  <2>. QED
    BY <2>1, <2>2
<1>44. ASSUME Replied PROVE TokensInv'
  <2>1. TokensWait'
    BY <1>44, <1>r DEF Replied, Outlived
  <2>2. TokensElsewhere'
    BY <1>44, <1>r DEF Replied, Outlived
  <2>. QED
    BY <2>1, <2>2
<1>45. ASSUME NEW c \in Calls, TokenGone(c) PROVE TokensInv'
  BY <1>45 DEF TokenGone, AtAwait
<1>46. ASSUME CarryExpires PROVE TokensInv'
  BY <1>46 DEF CarryExpires, AtAwait
<1>47. ASSUME NEW c \in Calls, Withdraw(c) PROVE TokensInv'
  BY <1>47 DEF Withdraw, AtAwait
<1>. HIDE DEF TypeInv, Calls, Points, States, TaskStates, Verdicts, Awaiting, Resolved, Stale,
           hand, guard, owner, durable, gate, history, InBatch, Closed, Serial, AtCall, Synced,
           InPrefix, HandPoints, Quiet, Busy, TokensInv, TokensWait, TokensElsewhere, OrderInv,
           AtIsNext, WriteInv, OwnWritten, Synced, NoBatch, PrefixInv, PrefixPlace, AtResume,
           PrefixStates, HeadPending
<1>. QED
  BY <1>asking, <1>cut, <1>1, <1>2, <1>3, <1>4, <1>5, <1>6, <1>7, <1>8, <1>9, <1>10, <1>11, <1>12,
     <1>13, <1>14,
     <1>15, <1>16, <1>17, <1>18, <1>19, <1>20, <1>21, <1>22, <1>23, <1>24, <1>25, <1>26, <1>27,
     <1>28, <1>29, <1>30, <1>31, <1>32, <1>33, <1>34, <1>35, <1>36, <1>37, <1>38, <1>39, <1>40,
     <1>41, <1>42, <1>43, <1>44, <1>45, <1>46, <1>47, AnswerInjectedResolves, DismissedResolves,
     SuppressedResolves, MalformedResolves, AnswerHeadlessResolves, AuditedResolves, AskParks
     DEF Next, Own, Serve, Environment

-----------------------------------------------------------------------------
\* Every step keeps how a step may end.
LEMMA EndsKept ==
  ASSUME CallsAssumption, TypeInv, ConsentInv, WriteInv, OrderInv, PrefixInv, BegunInv,
         ResultsInv, SettleInv, Next
  PROVE  EndsRight'
<1>w. Written = state
  BY WrittenIsState DEF WriteInv
<1>l. Outstanding # {} <=> Busy
  BY OutstandingTasks
<1>s. ASSUME NEW c \in Calls, UpNext(c) PROVE ending = "done"
  BY <1>s DEF UpNext, SettleInv, EndsRight
<1>. USE CallsAssumption DEF CallsAssumption, TypeInv, Calls, Points, States, TaskStates,
           Verdicts, Awaiting, Resolved, Stale, hand, guard, owner, durable, gate, history,
           InBatch, Closed, Serial, AtCall, Synced, InPrefix, HandPoints, Quiet, Busy, SettleInv,
           EndsRight, OrderInv, AtIsNext, PrefixInv, PrefixPlace, NoBatch, WriteInv
<1>1. ASSUME NEW c \in Calls, NEW s \in Closed, Resolving(c, s) PROVE EndsRight'
  BY <1>1, <1>s DEF Resolving, UpNext, Resolve
<1>2. ASSUME NEW c \in Calls, NEW s \in Awaiting, Parking(c, s) PROVE EndsRight'
  BY <1>2 DEF Parking, UpNext
<1>3. ASSUME FreshTurn PROVE EndsRight'
  BY <1>3 DEF FreshTurn
<1>4. ASSUME EmitBatch PROVE EndsRight'
  BY <1>4 DEF EmitBatch
<1>5. ASSUME Complete PROVE EndsRight'
  BY <1>5 DEF Complete, Rest, Forget
<1>6. ASSUME StartBatch PROVE EndsRight'
  BY <1>6 DEF StartBatch
<1>7. ASSUME NEW c \in Calls, TaskStart(c) PROVE EndsRight'
  BY <1>7 DEF TaskStart, TasksAlive
<1>8. ASSUME NEW c \in Calls, TaskDone(c) PROVE EndsRight'
  BY <1>8 DEF TaskDone, TasksAlive
<1>9. ASSUME NEW c \in Calls, TaskFails(c) PROVE EndsRight'
  BY <1>9 DEF TaskFails, TasksAlive
<1>10. ASSUME NEW c \in Calls, Take(c) PROVE EndsRight'
  BY <1>10 DEF Take, Outcome
<1>11. ASSUME NEW c \in Calls, TakeFailed(c) PROVE EndsRight'
  BY <1>11, <1>l DEF TakeFailed, Unwind
<1>12. ASSUME NEW c \in Calls, TaskCancelled(c) PROVE EndsRight'
  BY <1>12 DEF TaskCancelled
<1>13. ASSUME Harvest PROVE EndsRight'
  BY <1>13 DEF Harvest, Outcome
<1>14. ASSUME NEW c \in Calls, Blocked(c) PROVE EndsRight'
  BY <1>14 DEF Blocked, Hand, Admitted, Serving, Unresolved, Answering, Fresh
<1>15. ASSUME NEW c \in Calls, Confirmed(c) PROVE EndsRight'
  BY <1>15 DEF Confirmed, Answering, Admitted, Serving, Unresolved, Fresh, Marked
<1>16. ASSUME NEW c \in Calls, Unasked(c) PROVE EndsRight'
  BY <1>16 DEF Unasked, Fresh, Hand, Admitted, Serving, Unresolved, Answering
<1>17. ASSUME Flip PROVE EndsRight'
  BY <1>17 DEF Flip
<1>18. ASSUME FlipFails PROVE EndsRight'
  BY <1>18, <1>l DEF FlipFails, Unwind
<1>19. ASSUME Begin PROVE EndsRight'
  BY <1>19 DEF Begin, Allowed, Approved
<1>20. ASSUME DenyHeadless PROVE EndsRight'
  BY <1>20 DEF DenyHeadless, NeedsConfirm, Allowed, Approved
<1>asking. ASSUME Question PROVE EndsRight'
  BY <1>asking DEF Question
<1>cut. ASSUME HarvestCut PROVE EndsRight'
  BY <1>cut DEF HarvestCut, AllSettled
<1>21. ASSUME Effect PROVE EndsRight'
  BY <1>21 DEF Effect
<1>22. ASSUME Return PROVE EndsRight'
  BY <1>22 DEF Return
<1>23. ASSUME NEW c \in Calls, LateEffect(c) PROVE EndsRight'
  BY <1>23 DEF LateEffect, AtAwait
<1>24. ASSUME AuditFails PROVE EndsRight'
  BY <1>24, <1>l DEF AuditFails, Unwind
<1>25. ASSUME Persisted PROVE EndsRight'
  BY <1>25, <1>l DEF Persisted, Commit, Unresolved, Unwind
<1>26. ASSUME PersistFails PROVE EndsRight'
  BY <1>26, <1>l DEF PersistFails, Unwind, EmittedUnwritten
<1>27. ASSUME Parked PROVE EndsRight'
  BY <1>27 DEF Parked, Commit
<1>28. ASSUME ParkFails PROVE EndsRight'
  BY <1>28, <1>l DEF ParkFails, Unwind
<1>29. ASSUME Backstop PROVE EndsRight'
  BY <1>29 DEF Backstop
<1>30. ASSUME BackstopFails PROVE EndsRight'
  BY <1>30 DEF BackstopFails
<1>31. ASSUME Close PROVE EndsRight'
  BY <1>31 DEF Close, Rest, Forget
<1>32. ASSUME Reconcile PROVE EndsRight'
  BY <1>32 DEF Reconcile, Rest, Forget
<1>33. ASSUME ReconcileFails PROVE EndsRight'
  BY <1>33 DEF ReconcileFails, Rest, Forget
<1>34. ASSUME Stop PROVE EndsRight'
  BY <1>34 DEF Stop, AtAwait
<1>35. ASSUME CancelLands PROVE EndsRight'
  BY <1>35, <1>l DEF CancelLands, Unwind, Cancellable
<1>36. ASSUME CancelLandsOutside PROVE EndsRight'
  BY <1>36 DEF CancelLandsOutside
<1>37. ASSUME Crash PROVE EndsRight'
  BY <1>37 DEF Crash, Forget, AtAwait
<1>38. ASSUME Boot PROVE EndsRight'
  BY <1>38 DEF Boot, Rest, Forget
<1>39. ASSUME NEW c \in Calls, NEW v \in Verdicts \ {"none"}, Resume(c,v) PROVE EndsRight'
  BY <1>39 DEF Resume
<1>40. ASSUME ResumeRefused PROVE EndsRight'
  BY <1>40 DEF ResumeRefused, Rest, Forget
<1>41. ASSUME RefusedByAllowlist PROVE EndsRight'
  BY <1>41 DEF RefusedByAllowlist
<1>42. ASSUME Grant PROVE EndsRight'
  BY <1>42 DEF Grant
<1>43. ASSUME Mint PROVE EndsRight'
  BY <1>43 DEF Mint, Outlived
<1>44. ASSUME Replied PROVE EndsRight'
  BY <1>44 DEF Replied, Outlived
<1>45. ASSUME NEW c \in Calls, TokenGone(c) PROVE EndsRight'
  BY <1>45 DEF TokenGone, AtAwait
<1>46. ASSUME CarryExpires PROVE EndsRight'
  BY <1>46 DEF CarryExpires, AtAwait
<1>47. ASSUME NEW c \in Calls, Withdraw(c) PROVE EndsRight'
  BY <1>47 DEF Withdraw, AtAwait
<1>. HIDE DEF TypeInv, Calls, Points, States, TaskStates, Verdicts, Awaiting, Resolved, Stale,
           hand, guard, owner, durable, gate, history, InBatch, Closed, Serial, AtCall, Synced,
           InPrefix, HandPoints, Quiet, Busy, SettleInv, EndsRight, OrderInv, AtIsNext, PrefixInv,
           PrefixPlace, NoBatch, WriteInv
<1>. QED
  BY <1>asking, <1>cut, <1>1, <1>2, <1>3, <1>4, <1>5, <1>6, <1>7, <1>8, <1>9, <1>10, <1>11, <1>12,
     <1>13, <1>14,
     <1>15, <1>16, <1>17, <1>18, <1>19, <1>20, <1>21, <1>22, <1>23, <1>24, <1>25, <1>26, <1>27,
     <1>28, <1>29, <1>30, <1>31, <1>32, <1>33, <1>34, <1>35, <1>36, <1>37, <1>38, <1>39, <1>40,
     <1>41, <1>42, <1>43, <1>44, <1>45, <1>46, <1>47, AnswerInjectedResolves, DismissedResolves,
     SuppressedResolves, MalformedResolves, AnswerHeadlessResolves, AuditedResolves, AskParks
     DEF Next, Own, Serve, Environment

-----------------------------------------------------------------------------
\* Every step keeps every message but the one in hand settled.
LEMMA SettledKept ==
  ASSUME CallsAssumption, TypeInv, ConsentInv, WriteInv, OrderInv, PrefixInv, BegunInv,
         SettleInv, Next
  PROVE  SettledInv'
<1>. USE CallsAssumption
<1>w. Written = state
  BY WrittenIsState DEF WriteInv
<1>l. Outstanding # {} <=> Busy
  BY OutstandingTasks
<1>d. Reconciled(disk) \in [Calls -> States] /\ \A x \in Batches : Settled(Reconciled(disk), x)
  <2>1. Reconciled(disk) \in [Calls -> States]
    BY ReconciledKeeps DEF TypeInv
  <2>. SUFFICES ASSUME NEW x \in Batches PROVE Settled(Reconciled(disk), x)
    BY <2>1
  <2>2. CASE \E s \in InBatch(x) : disk[s] \in Awaiting
    <3>1. PICK s \in InBatch(x) : disk[s] \in Awaiting
      BY <2>2
    <3>2. Reconciled(disk)[s] \in Awaiting
      BY <3>1, ReconciledKeeps DEF TypeInv, InBatch
    <3>. QED
      BY <3>1, <3>2 DEF Settled
  <2>3. CASE \A s \in InBatch(x) : disk[s] \notin Awaiting
    <3>1. \A c \in InBatch(x) : Reconciled(disk)[c] \in Resolved \cup {"absent"}
      BY <2>3, ReconciledKeeps DEF TypeInv, InBatch
    <3>. QED
      BY <3>1 DEF Settled
  <2>. QED
    BY <2>2, <2>3
<1>s. ASSUME NEW x \in Batches, NEW f, Settled(disk, x), \A c \in Calls : Batch[c] = x => f[c] = disk[c]
      PROVE  Settled(f, x)
  BY <1>s DEF Settled, InBatch
<1>o. ASSUME NEW f, ~torn, pc \notin {"boot"}, f = disk \/ f = Written
      PROVE  \A x \in Batches : Settled(f, x) \/ (x = batch /\ pc # "resume") \/ (pc = "end" /\ ending # "suspended")
  <2>. SUFFICES ASSUME NEW x \in Batches, x # batch, ~(pc = "end" /\ ending # "suspended") PROVE Settled(f, x)
    <3>1. \A x \in Batches : x = batch /\ pc = "resume" => Settled(f, x)
      <4>1. pc = "resume" => f = disk
        BY <1>o, <1>w DEF WriteInv, OwnWritten, Synced
      <4>. QED
        BY <4>1, <1>o DEF SettleInv, SettledInv
    <3>. QED
      BY <3>1
  <2>1. Settled(disk, x)
    BY <1>o DEF SettleInv, SettledInv
  <2>2. \A c \in Calls : Batch[c] = x => f[c] = disk[c]
    BY <1>o, <1>w DEF WriteInv, OthersWritten
  <2>. QED
    BY <2>1, <2>2, <1>s
<1>k. ASSUME batch' = batch, torn' = torn, pc # "boot", pc # "resume" \/ pc' \notin {"boot"},
             pc # "end", pc' # "resume",
             disk' = disk \/ disk' = Written
      PROVE  SettledInv'
  <2>. SUFFICES ASSUME ~torn, NEW x \in Batches
                PROVE  Settled(disk', x) \/ x = batch
    BY <1>k DEF SettledInv, Settled
  <2>. QED
    BY <1>k, <1>o DEF Settled
<1>f. ASSUME NEW d, d = disk, NEW p \in {"idle", "boot"}, Forget(p, d), torn' = torn,
             p = "idle" => pc # "boot" /\ (pc = "end" => ending = "suspended")
                           /\ (pc \notin {"resume", "end"} => batch = 0)
      PROVE  SettledInv'
  <2>1. pc' = p /\ disk' = disk /\ torn' = torn
    BY <1>f DEF Forget
  <2>2. CASE p = "boot"
    BY <2>1, <2>2 DEF SettledInv
  <2>3. CASE p = "idle"
    <3>. SUFFICES ASSUME ~torn, NEW x \in Batches PROVE Settled(disk, x)
      BY <2>1, <2>3 DEF SettledInv, Settled
    <3>1. x # 0
      BY DEF Batches, CallsAssumption, Calls
    <3>2. pc # "boot" /\ (x = batch => pc = "resume")
      BY <1>f, <2>3, <3>1 DEF SettleInv, EndsRight, Synced
    <3>. QED
      BY <3>2, <1>f, <2>3 DEF SettleInv, SettledInv
  <2>. QED
    BY <2>2, <2>3
<1>u. ASSUME pc' = pc, batch' = batch, ending' = ending, torn' = torn, disk' = disk PROVE SettledInv'
  BY <1>u DEF SettleInv, SettledInv, Settled
<1>e. ASSUME pc' = "end", ending' # "suspended" PROVE SettledInv'
  BY <1>e DEF SettledInv
<1>r. ASSUME \/ torn' = TRUE
             \/ pc' = "idle" /\ \A x \in Batches : Settled(disk', x)
      PROVE  SettledInv'
  BY <1>r DEF SettledInv
<1>. USE DEF TypeInv
<1>1. ASSUME NEW c \in Calls, NEW s \in Closed, Resolving(c, s) PROVE SettledInv'
  <2>1. /\ batch' = batch /\ torn' = torn /\ pc \notin {"boot", "resume", "end"} /\ pc' # "resume"
        /\ disk' = disk \/ disk' = Written
    BY <1>1 DEF Resolving, UpNext, Resolve, Serial, TasksAlive, Cancellable, hand, guard, owner,
       durable, gate, history
  <2>. QED
    BY <2>1, <1>k
<1>2. ASSUME NEW c \in Calls, NEW s \in Awaiting, Parking(c, s) PROVE SettledInv'
  <2>1. /\ batch' = batch /\ torn' = torn /\ pc \notin {"boot", "resume", "end"} /\ pc' # "resume"
        /\ disk' = disk \/ disk' = Written
    BY <1>2 DEF Parking, UpNext, Serial, TasksAlive, Cancellable, hand, guard, owner, durable, gate,
       history
  <2>. QED
    BY <2>1, <1>k
<1>3. ASSUME FreshTurn PROVE SettledInv'
  <2>1. /\ torn' = torn /\ disk' = disk /\ pc # "boot"
        /\ pc \in {"idle", "resume"} /\ pc' \in {"model", "tail", "resume"} /\ (pc = "idle" => batch = 0)
    BY <1>3 DEF FreshTurn, hand, history, durable, gate, WriteInv, NoBatch, Quiet
  <2>. SUFFICES ASSUME ~torn, NEW x \in Batches PROVE Settled(disk, x)
    BY <2>1 DEF SettledInv, Settled
  <2>2. x # 0
    BY DEF Batches, CallsAssumption, Calls
  <2>. QED
    BY <2>1, <2>2 DEF SettleInv, SettledInv
<1>4. ASSUME EmitBatch PROVE SettledInv'
  <2>1. PICK e \in Calls : state[e] = "absent" /\ batch' = Batch[e]
    BY <1>4 DEF EmitBatch
  <2>2. /\ pc = "model" /\ pc' = "head" /\ torn' = torn /\ batch = 0
        /\ \A c \in Calls : Batch[c] # batch' => disk'[c] = disk[c]
    BY <1>4 DEF EmitBatch, history, WriteInv, NoBatch, Quiet
  <2>. SUFFICES ASSUME ~torn, NEW x \in Batches, x # batch' PROVE Settled(disk', x)
    BY <2>2 DEF SettledInv, Settled
  <2>3. x # 0
    BY DEF Batches, CallsAssumption, Calls
  <2>4. Settled(disk, x)
    BY <2>2, <2>3 DEF SettleInv, SettledInv
  <2>. QED
    BY <2>2, <2>4, <1>s
<1>5. ASSUME Complete PROVE SettledInv'
  <2>1. Forget("idle", disk) /\ torn' = torn
    BY <1>5 DEF Complete, Rest, history
  <2>2. pc # "boot" /\ (pc = "end" => ending = "suspended") /\ (pc \notin {"resume", "end"} => batch = 0)
    BY <1>5 DEF Complete, WriteInv, NoBatch, Quiet
  <2>. QED
    BY <2>1, <2>2, <1>f
<1>6. ASSUME StartBatch PROVE SettledInv'
  <2>1. /\ batch' = batch /\ torn' = torn /\ pc \notin {"boot", "resume", "end"} /\ pc' # "resume"
        /\ disk' = disk \/ disk' = Written
    BY <1>6 DEF StartBatch, Serial, TasksAlive, Cancellable, hand, guard, owner, durable, gate,
       history
  <2>. QED
    BY <2>1, <1>k
<1>7. ASSUME NEW c \in Calls, TaskStart(c) PROVE SettledInv'
  <2>1. /\ batch' = batch /\ torn' = torn /\ pc \notin {"boot", "resume", "end"} /\ pc' # "resume"
        /\ disk' = disk \/ disk' = Written
    BY <1>7 DEF TaskStart, TasksAlive, Serial, TasksAlive, Cancellable, hand, guard, owner, durable,
       gate, history
  <2>. QED
    BY <2>1, <1>k
<1>8. ASSUME NEW c \in Calls, TaskDone(c) PROVE SettledInv'
  <2>1. /\ batch' = batch /\ torn' = torn /\ pc \notin {"boot", "resume", "end"} /\ pc' # "resume"
        /\ disk' = disk \/ disk' = Written
    BY <1>8 DEF TaskDone, TasksAlive, Serial, TasksAlive, Cancellable, hand, guard, owner, durable,
       gate, history
  <2>. QED
    BY <2>1, <1>k
<1>9. ASSUME NEW c \in Calls, TaskFails(c) PROVE SettledInv'
  <2>1. /\ batch' = batch /\ torn' = torn /\ pc \notin {"boot", "resume", "end"} /\ pc' # "resume"
        /\ disk' = disk \/ disk' = Written
    BY <1>9 DEF TaskFails, TasksAlive, Serial, TasksAlive, Cancellable, hand, guard, owner, durable,
       gate, history
  <2>. QED
    BY <2>1, <1>k
<1>10. ASSUME NEW c \in Calls, Take(c) PROVE SettledInv'
  <2>1. /\ batch' = batch /\ torn' = torn /\ pc \notin {"boot", "resume", "end"} /\ pc' # "resume"
        /\ disk' = disk \/ disk' = Written
    BY <1>10 DEF Take, Outcome, Serial, TasksAlive, Cancellable, hand, guard, owner, durable, gate,
       history
  <2>. QED
    BY <2>1, <1>k
<1>11. ASSUME NEW c \in Calls, TakeFailed(c) PROVE SettledInv'
  <2>1. /\ batch' = batch /\ torn' = torn /\ pc \notin {"boot", "resume", "end"} /\ pc' # "resume"
        /\ disk' = disk \/ disk' = Written
    BY <1>11 DEF TakeFailed, Unwind, Serial, TasksAlive, Cancellable, hand, guard, owner, durable,
       gate, history
  <2>. QED
    BY <2>1, <1>k
<1>12. ASSUME NEW c \in Calls, TaskCancelled(c) PROVE SettledInv'
  <2>1. /\ batch' = batch /\ torn' = torn /\ pc \notin {"boot", "resume", "end"} /\ pc' # "resume"
        /\ disk' = disk \/ disk' = Written
    BY <1>12 DEF TaskCancelled, Serial, TasksAlive, Cancellable, hand, guard, owner, durable, gate,
       history
  <2>. QED
    BY <2>1, <1>k
<1>13. ASSUME Harvest PROVE SettledInv'
  <2>1. /\ batch' = batch /\ torn' = torn /\ pc \notin {"boot", "resume", "end"} /\ pc' # "resume"
        /\ disk' = disk \/ disk' = Written
    BY <1>13 DEF Harvest, Outcome, Serial, TasksAlive, Cancellable, hand, guard, owner, durable,
       gate,
       history
  <2>. QED
    BY <2>1, <1>k
<1>14. ASSUME NEW c \in Calls, Blocked(c) PROVE SettledInv'
  <2>1. /\ batch' = batch /\ torn' = torn /\ pc \notin {"boot", "resume", "end"} /\ pc' # "resume"
        /\ disk' = disk \/ disk' = Written
    BY <1>14 DEF Blocked, Hand, Admitted, Serving, Unresolved, Answering, Fresh, Serial, TasksAlive,
       Cancellable, hand, guard, owner, durable, gate, history
  <2>. QED
    BY <2>1, <1>k
<1>15. ASSUME NEW c \in Calls, Confirmed(c) PROVE SettledInv'
  <2>1. /\ batch' = batch /\ torn' = torn /\ pc \notin {"boot", "resume", "end"} /\ pc' # "resume"
        /\ disk' = disk \/ disk' = Written
    BY <1>15 DEF Confirmed, Answering, Admitted, Serving, Unresolved, Fresh, Marked, Serial,
       TasksAlive, Cancellable, hand, guard, owner, durable, gate, history
  <2>. QED
    BY <2>1, <1>k
<1>16. ASSUME NEW c \in Calls, Unasked(c) PROVE SettledInv'
  <2>1. /\ batch' = batch /\ torn' = torn /\ pc \notin {"boot", "resume", "end"} /\ pc' # "resume"
        /\ disk' = disk \/ disk' = Written
    BY <1>16 DEF Unasked, Fresh, Hand, Admitted, Serving, Unresolved, Answering, Serial, TasksAlive,
       Cancellable, hand, guard, owner, durable, gate, history
  <2>. QED
    BY <2>1, <1>k
<1>17. ASSUME Flip PROVE SettledInv'
  <2>1. /\ batch' = batch /\ torn' = torn /\ pc \notin {"boot", "resume", "end"} /\ pc' # "resume"
        /\ disk' = disk \/ disk' = Written
    BY <1>17 DEF Flip, Serial, TasksAlive, Cancellable, hand, guard, owner, durable, gate, history
  <2>. QED
    BY <2>1, <1>k
<1>18. ASSUME FlipFails PROVE SettledInv'
  <2>1. /\ batch' = batch /\ torn' = torn /\ pc \notin {"boot", "resume", "end"} /\ pc' # "resume"
        /\ disk' = disk \/ disk' = Written
    BY <1>18 DEF FlipFails, Unwind, Serial, TasksAlive, Cancellable, hand, guard, owner, durable,
       gate, history
  <2>. QED
    BY <2>1, <1>k
<1>19. ASSUME Begin PROVE SettledInv'
  <2>1. /\ batch' = batch /\ torn' = torn /\ pc \notin {"boot", "resume", "end"} /\ pc' # "resume"
        /\ disk' = disk \/ disk' = Written
    BY <1>19 DEF Begin, Allowed, Approved, Serial, TasksAlive, Cancellable, hand, guard, owner,
       durable, gate, history
  <2>. QED
    BY <2>1, <1>k
<1>20. ASSUME DenyHeadless PROVE SettledInv'
  <2>1. /\ batch' = batch /\ torn' = torn /\ pc \notin {"boot", "resume", "end"} /\ pc' # "resume"
        /\ disk' = disk \/ disk' = Written
    BY <1>20 DEF DenyHeadless, NeedsConfirm, Allowed, Approved, Serial, TasksAlive, Cancellable,
       hand,
       guard, owner, durable, gate, history
  <2>. QED
    BY <2>1, <1>k
<1>asking. ASSUME Question PROVE SettledInv'
  <2>1. /\ batch' = batch /\ torn' = torn /\ pc \notin {"boot", "resume", "end"} /\ pc' # "resume"
        /\ disk' = disk \/ disk' = Written
    BY <1>asking DEF Question, hand, durable, history
  <2>. QED
    BY <2>1, <1>k
<1>cut. ASSUME HarvestCut PROVE SettledInv'
  <2>1. /\ batch' = batch /\ torn' = torn /\ pc \notin {"boot", "resume", "end"} /\ pc' # "resume"
        /\ disk' = disk \/ disk' = Written
    BY <1>cut DEF HarvestCut, hand, durable, history
  <2>. QED
    BY <2>1, <1>k
<1>21. ASSUME Effect PROVE SettledInv'
  <2>1. /\ batch' = batch /\ torn' = torn /\ pc \notin {"boot", "resume", "end"} /\ pc' # "resume"
        /\ disk' = disk \/ disk' = Written
    BY <1>21 DEF Effect, Serial, TasksAlive, Cancellable, hand, guard, owner, durable, gate, history
  <2>. QED
    BY <2>1, <1>k
<1>22. ASSUME Return PROVE SettledInv'
  <2>1. /\ batch' = batch /\ torn' = torn /\ pc \notin {"boot", "resume", "end"} /\ pc' # "resume"
        /\ disk' = disk \/ disk' = Written
    BY <1>22 DEF Return, Serial, TasksAlive, Cancellable, hand, guard, owner, durable, gate, history
  <2>. QED
    BY <2>1, <1>k
<1>23. ASSUME NEW c \in Calls, LateEffect(c) PROVE SettledInv'
  <2>1. pc' = pc /\ batch' = batch /\ ending' = ending /\ torn' = torn /\ disk' = disk
    BY <1>23 DEF LateEffect, AtAwait, hand, guard, owner, durable, gate, history
  <2>. QED
    BY <2>1, <1>u
<1>24. ASSUME AuditFails PROVE SettledInv'
  <2>1. /\ batch' = batch /\ torn' = torn /\ pc \notin {"boot", "resume", "end"} /\ pc' # "resume"
        /\ disk' = disk \/ disk' = Written
    BY <1>24 DEF AuditFails, Unwind, Serial, TasksAlive, Cancellable, hand, guard, owner, durable,
       gate, history
  <2>. QED
    BY <2>1, <1>k
<1>25. ASSUME Persisted PROVE SettledInv'
  <2>1. /\ batch' = batch /\ torn' = torn /\ pc \notin {"boot", "resume", "end"} /\ pc' # "resume"
        /\ disk' = disk \/ disk' = Written
    BY <1>25 DEF Persisted, Commit, Unresolved, Unwind, Serial, TasksAlive, Cancellable, hand,
       guard,
       owner, durable, gate, history
  <2>. QED
    BY <2>1, <1>k
<1>26. ASSUME PersistFails PROVE SettledInv'
  <2>1. /\ batch' = batch /\ torn' = torn /\ pc \notin {"boot", "resume", "end"} /\ pc' # "resume"
        /\ disk' = disk \/ disk' = Written
    BY <1>26 DEF PersistFails, Unwind, EmittedUnwritten, Serial, TasksAlive, Cancellable, hand,
       guard,
       owner, durable, gate, history
  <2>. QED
    BY <2>1, <1>k
<1>27. ASSUME Parked PROVE SettledInv'
  <2>1. /\ batch' = batch /\ torn' = torn /\ pc \notin {"boot", "resume", "end"} /\ pc' # "resume"
        /\ disk' = disk \/ disk' = Written
    BY <1>27 DEF Parked, Commit, Serial, TasksAlive, Cancellable, hand, guard, owner, durable, gate,
       history
  <2>. QED
    BY <2>1, <1>k
<1>28. ASSUME ParkFails PROVE SettledInv'
  <2>1. /\ batch' = batch /\ torn' = torn /\ pc \notin {"boot", "resume", "end"} /\ pc' # "resume"
        /\ disk' = disk \/ disk' = Written
    BY <1>28 DEF ParkFails, Unwind, Serial, TasksAlive, Cancellable, hand, guard, owner, durable,
       gate, history
  <2>. QED
    BY <2>1, <1>k
<1>29. ASSUME Backstop PROVE SettledInv'
  <2>1. /\ torn' = torn /\ disk' = Written /\ batch' = 0 /\ pc = "backstop"
        /\ pc' = IF ending' = "done" THEN "model" ELSE "end"
        /\ ending' = ending \/ ending' = "cancelled"
    BY <1>29 DEF Backstop, history
  <2>. SUFFICES ASSUME ~torn, ending' \in {"done", "suspended"}, NEW x \in Batches PROVE Settled(Written, x)
    BY <2>1 DEF SettledInv, Settled
  <2>2. CASE x # batch
    BY <2>1, <2>2, <1>o
  <2>3. CASE x = batch
    BY <2>1, <2>3, <1>w DEF SettleInv, EndsRight, Settled
  <2>. QED
    BY <2>2, <2>3
<1>30. ASSUME BackstopFails PROVE SettledInv'
  <2>1. pc' = "end" /\ ending' # "suspended"
    BY <1>30 DEF BackstopFails
  <2>. QED
    BY <2>1, <1>e
<1>31. ASSUME Close PROVE SettledInv'
  <2>1. Forget("idle", disk) /\ torn' = torn
    BY <1>31 DEF Close, Rest, history
  <2>2. pc # "boot" /\ (pc = "end" => ending = "suspended") /\ (pc \notin {"resume", "end"} => batch = 0)
    BY <1>31 DEF Close, WriteInv, NoBatch, Quiet
  <2>. QED
    BY <2>1, <2>2, <1>f
<1>32. ASSUME Reconcile PROVE SettledInv'
  <2>1. pc' = "idle" /\ disk' = Reconciled(disk)
    BY <1>32 DEF Reconcile, Rest, Forget
  <2>. QED
    BY <2>1, <1>d, <1>r
<1>33. ASSUME ReconcileFails PROVE SettledInv'
  <2>1. torn' = TRUE
    BY <1>33 DEF ReconcileFails
  <2>. QED
    BY <2>1, <1>r
<1>34. ASSUME Stop PROVE SettledInv'
  <2>1. CASE pc = "harvest"
    <3>1. /\ batch' = batch /\ torn' = torn /\ pc \notin {"boot", "resume", "end"} /\ pc' # "resume"
          /\ disk' = disk \/ disk' = Written
      BY <1>34, <2>1 DEF Stop, hand, durable, history
    <3>. QED
      BY <3>1, <1>k
  <2>2. CASE pc # "harvest"
    <3>1. pc' = pc /\ batch' = batch /\ ending' = ending /\ torn' = torn /\ disk' = disk
      BY <1>34, <2>2 DEF Stop, AtAwait, hand, guard, owner, durable, gate, history
    <3>. QED
      BY <3>1, <1>u
  <2>. QED
    BY <2>1, <2>2
<1>35. ASSUME CancelLands PROVE SettledInv'
  <2>1. /\ batch' = batch /\ torn' = torn /\ pc \notin {"boot", "resume", "end"} /\ pc' # "resume"
        /\ disk' = disk \/ disk' = Written
    BY <1>35 DEF CancelLands, Unwind, Cancellable, Serial, TasksAlive, Cancellable, hand, guard,
       owner, durable, gate, history
  <2>. QED
    BY <2>1, <1>k
<1>36. ASSUME CancelLandsOutside PROVE SettledInv'
  <2>1. pc' = "end" /\ ending' = ending /\ ending = "done"
    BY <1>36 DEF CancelLandsOutside, SettleInv, EndsRight, hand
  <2>. QED
    BY <2>1, <1>e
<1>37. ASSUME Crash PROVE SettledInv'
  <2>1. Forget("boot", disk) /\ torn' = torn
    BY <1>37 DEF Crash, history
  <2>. QED
    BY <2>1, <1>f
<1>38. ASSUME Boot PROVE SettledInv'
  <2>1. \/ torn' = TRUE
        \/ pc' = "idle" /\ disk' = Reconciled(disk)
    BY <1>38 DEF Boot, Rest, Forget
  <2>. QED
    BY <2>1, <1>d, <1>r
<1>39. ASSUME NEW c \in Calls, NEW v \in Verdicts \ {"none"}, Resume(c,v) PROVE SettledInv'
  <2>1. /\ torn' = torn /\ disk' = disk /\ pc # "boot"
        /\ pc \in {"idle", "resume"} /\ pc' \in {"model", "tail", "resume"} /\ (pc = "idle" => batch = 0)
    BY <1>39 DEF Resume, hand, history, durable, gate, WriteInv, NoBatch, Quiet
  <2>. SUFFICES ASSUME ~torn, NEW x \in Batches PROVE Settled(disk, x)
    BY <2>1 DEF SettledInv, Settled
  <2>2. x # 0
    BY DEF Batches, CallsAssumption, Calls
  <2>. QED
    BY <2>1, <2>2 DEF SettleInv, SettledInv
<1>40. ASSUME ResumeRefused PROVE SettledInv'
  <2>1. Forget("idle", disk) /\ torn' = torn
    BY <1>40 DEF ResumeRefused, Rest, history
  <2>2. pc # "boot" /\ (pc = "end" => ending = "suspended") /\ (pc \notin {"resume", "end"} => batch = 0)
    BY <1>40 DEF ResumeRefused, WriteInv, NoBatch, Quiet
  <2>. QED
    BY <2>1, <2>2, <1>f
<1>41. ASSUME RefusedByAllowlist PROVE SettledInv'
  <2>1. /\ torn' = torn /\ disk' = disk /\ pc # "boot"
        /\ pc \in {"idle", "resume"} /\ pc' \in {"model", "tail", "resume"} /\ (pc = "idle" => batch = 0)
    BY <1>41 DEF RefusedByAllowlist, hand, history, durable, gate, WriteInv, NoBatch, Quiet
  <2>. SUFFICES ASSUME ~torn, NEW x \in Batches PROVE Settled(disk, x)
    BY <2>1 DEF SettledInv, Settled
  <2>2. x # 0
    BY DEF Batches, CallsAssumption, Calls
  <2>. QED
    BY <2>1, <2>2 DEF SettleInv, SettledInv
<1>42. ASSUME Grant PROVE SettledInv'
  <2>1. pc' = pc /\ batch' = batch /\ ending' = ending /\ torn' = torn /\ disk' = disk
    BY <1>42 DEF Grant, hand, guard, owner, durable, gate, history
  <2>. QED
    BY <2>1, <1>u
<1>43. ASSUME Mint PROVE SettledInv'
  <2>1. /\ torn' = torn /\ disk' = disk /\ pc # "boot"
        /\ pc \in {"idle", "resume"} /\ pc' \in {"model", "tail", "resume"} /\ (pc = "idle" => batch = 0)
    BY <1>43 DEF Mint, hand, history, durable, gate, WriteInv, NoBatch, Quiet
  <2>. SUFFICES ASSUME ~torn, NEW x \in Batches PROVE Settled(disk, x)
    BY <2>1 DEF SettledInv, Settled
  <2>2. x # 0
    BY DEF Batches, CallsAssumption, Calls
  <2>. QED
    BY <2>1, <2>2 DEF SettleInv, SettledInv
<1>44. ASSUME Replied PROVE SettledInv'
  <2>1. /\ torn' = torn /\ disk' = disk /\ pc # "boot"
        /\ pc \in {"idle", "resume"} /\ pc' \in {"model", "tail", "resume"} /\ (pc = "idle" => batch = 0)
    BY <1>44 DEF Replied, hand, history, durable, gate, WriteInv, NoBatch, Quiet
  <2>. SUFFICES ASSUME ~torn, NEW x \in Batches PROVE Settled(disk, x)
    BY <2>1 DEF SettledInv, Settled
  <2>2. x # 0
    BY DEF Batches, CallsAssumption, Calls
  <2>. QED
    BY <2>1, <2>2 DEF SettleInv, SettledInv
<1>45. ASSUME NEW c \in Calls, TokenGone(c) PROVE SettledInv'
  <2>1. pc' = pc /\ batch' = batch /\ ending' = ending /\ torn' = torn /\ disk' = disk
    BY <1>45 DEF TokenGone, AtAwait, hand, guard, owner, durable, gate, history
  <2>. QED
    BY <2>1, <1>u
<1>46. ASSUME CarryExpires PROVE SettledInv'
  <2>1. pc' = pc /\ batch' = batch /\ ending' = ending /\ torn' = torn /\ disk' = disk
    BY <1>46 DEF CarryExpires, AtAwait, hand, guard, owner, durable, gate, history
  <2>. QED
    BY <2>1, <1>u
<1>47. ASSUME NEW c \in Calls, Withdraw(c) PROVE SettledInv'
  <2>1. pc' = pc /\ batch' = batch /\ ending' = ending /\ torn' = torn /\ disk' = disk
    BY <1>47 DEF Withdraw, AtAwait, hand, guard, owner, durable, gate, history
  <2>. QED
    BY <2>1, <1>u
<1>. HIDE DEF TypeInv
<1>. QED
  BY <1>asking, <1>cut, <1>1, <1>2, <1>3, <1>4, <1>5, <1>6, <1>7, <1>8, <1>9, <1>10, <1>11, <1>12,
     <1>13, <1>14,
     <1>15, <1>16, <1>17, <1>18, <1>19, <1>20, <1>21, <1>22, <1>23, <1>24, <1>25, <1>26, <1>27,
     <1>28, <1>29, <1>30, <1>31, <1>32, <1>33, <1>34, <1>35, <1>36, <1>37, <1>38, <1>39, <1>40,
     <1>41, <1>42, <1>43, <1>44, <1>45, <1>46, <1>47, AnswerInjectedResolves, DismissedResolves,
     SuppressedResolves, MalformedResolves, AnswerHeadlessResolves, AuditedResolves, AskParks
     DEF Next, Own, Serve, Environment

-----------------------------------------------------------------------------
\* Every step keeps a finished call's result held.
LEMMA FinishedKept ==
  ASSUME CallsAssumption, TypeInv, ConsentInv, WriteInv, OrderInv, PrefixInv, BegunInv,
         ResultsInv, SettleInv, Next
  PROVE  Finished'
<1>. USE CallsAssumption
<1>r. rows' = rows => Results' = Results
  BY DEF Results
<1>c. rows' = RowsWritten => Results' = Results \cup ToSet(parts)
  BY RowsCommitted DEF ResultsInv
<1>a. \A c \in Calls : ToSet(Append(parts, c)) = ToSet(parts) \cup {c}
  BY PartsAppended DEF ResultsInv, RowsShape
<1>x. \A c \in Calls : Take(c) => ToSet(parts') = Taken \cup {c}
  BY TakeParts
<1>h. Harvest => ToSet(parts') = Taken \cup {c \in Calls : task[c] = "done"}
  BY HarvestParts
<1>p. pc \in {"prefix", "harvest", "cut"} => ToSet(parts) = Taken
  BY DEF ResultsInv, PrefixParts, InPrefix
<1>q. ~torn /\ pc \notin {"prefix", "persist", "harvest", "cut", "backstop"} => finished \subseteq Results \cup dropped
  <2>. SUFFICES ASSUME ~torn, pc \notin {"prefix", "persist", "harvest", "cut", "backstop"}, pc # "end"
                PROVE  finished \subseteq Results \cup dropped
    BY DEF SettleInv, Finished
  <2>1. \A c \in Calls : task[c] # "done"
    BY DEF PrefixInv, PrefixPlace, Busy
  <2>2. ToSet(parts) \subseteq Results
    BY DEF TypeInv, Points, ResultsInv, PartsWritten, Synced
  <2>. QED
    BY <2>1, <2>2 DEF SettleInv, Finished
<1>e. ~torn /\ pc = "backstop" => finished \subseteq Results \cup dropped \cup ToSet(parts)
  BY DEF SettleInv, Finished, PrefixInv, PrefixPlace, Busy
<1>u. ASSUME torn' = torn, dropped' = dropped,
             Results \subseteq Results', finished' \subseteq finished, pc' # "end", ToSet(parts) \subseteq ToSet(parts'),
             \A c \in Calls : task[c] = "done" => task'[c] = "done" \/ c \in ToSet(parts')
      PROVE  Finished'
  BY <1>u DEF SettleInv, Finished
<1>g. ASSUME NEW d, NEW p \in {"idle", "boot"}, Forget(p, d), torn' = torn \/ torn',
             pc \notin {"prefix", "persist", "harvest", "cut", "backstop"},
             finished' = finished, dropped' = dropped
      PROVE  Finished'
  BY <1>g, <1>q, <1>r DEF Forget, Finished
<1>1. ASSUME NEW c \in Calls, NEW s \in Closed, Resolving(c, s) PROVE Finished'
  <2>1. /\ rows' = rows /\ dropped' = dropped /\ finished' \subseteq finished \cup {c}
        /\ torn' = torn /\ pc' = "persist"
        /\ task' = task /\ ToSet(parts') = ToSet(parts) \cup {c}
    BY <1>1, <1>a DEF Resolving, Resolve, durable
  <2>. QED
    BY <2>1, <1>r DEF SettleInv, Finished
<1>2. ASSUME NEW c \in Calls, NEW s \in Awaiting, Parking(c, s) PROVE Finished'
  <2>1. /\ torn' = torn /\ pc' # "end" /\ dropped' = dropped /\ finished' = finished /\ parts' = parts
        /\ \A d \in Calls : task[d] = "done" => task'[d] = "done"
        /\ rows' = rows
    BY <1>2 DEF Parking, UpNext, hand, guard, owner, durable, gate, history, TypeInv, TasksAlive,
       Serial
  <2>. QED
    BY <2>1, <1>r, <1>c, <1>u
<1>3. ASSUME FreshTurn PROVE Finished'
  <2>1. /\ torn' = torn /\ pc' # "end" /\ dropped' = dropped /\ finished' = finished /\ parts' = parts
        /\ \A d \in Calls : task[d] = "done" => task'[d] = "done"
        /\ rows' = rows
    BY <1>3 DEF FreshTurn, hand, guard, owner, durable, gate, history, TypeInv, TasksAlive, Serial
  <2>. QED
    BY <2>1, <1>r, <1>c, <1>u
<1>4. ASSUME EmitBatch PROVE Finished'
  <2>1. /\ rows' = rows /\ dropped' = dropped /\ finished' = finished
        /\ torn' = torn /\ pc = "model" /\ pc' = "head"
    BY <1>4 DEF EmitBatch, history
  <2>. QED
    BY <2>1, <1>r, <1>q DEF Finished
<1>5. ASSUME Complete PROVE Finished'
  <2>1. /\ torn' = torn \/ torn'
        /\ pc \notin {"prefix", "persist", "harvest", "cut", "backstop"} /\ dropped' = dropped /\ finished' = finished
    BY <1>5 DEF Complete, history
  <2>2. Forget("idle", disk) \/ Forget("idle", Reconciled(disk))
    BY <1>5 DEF Complete, Rest
  <2>. QED
    BY <2>1, <2>2, <1>g
<1>6. ASSUME StartBatch PROVE Finished'
  <2>1. /\ rows' = rows /\ dropped' = dropped /\ finished' = finished
        /\ torn' = torn /\ pc = "head" /\ pc' # "end"
    BY <1>6 DEF StartBatch, durable, history
  <2>. QED
    BY <2>1, <1>r, <1>q DEF Finished
<1>7. ASSUME NEW c \in Calls, TaskStart(c) PROVE Finished'
  <2>1. /\ torn' = torn /\ pc' # "end" /\ dropped' = dropped /\ finished' = finished /\ parts' = parts
        /\ \A d \in Calls : task[d] = "done" => task'[d] = "done"
        /\ rows' = rows
    BY <1>7 DEF TaskStart, TasksAlive, hand, guard, owner, durable, gate, history, TypeInv,
       TasksAlive, Serial
  <2>. QED
    BY <2>1, <1>r, <1>c, <1>u
<1>8. ASSUME NEW c \in Calls, TaskDone(c) PROVE Finished'
  <2>1. /\ rows' = rows /\ dropped' = dropped /\ finished' = finished \cup {c}
        /\ torn' = torn /\ pc' \in {"prefix", "persist", "harvest", "cut"}
        /\ task' = [task EXCEPT ![c] = "done"] /\ parts' = parts
    BY <1>8 DEF TaskDone, durable, TasksAlive
  <2>. QED
    BY <2>1, <1>r DEF SettleInv, Finished, TypeInv
<1>9. ASSUME NEW c \in Calls, TaskFails(c) PROVE Finished'
  <2>1. /\ torn' = torn /\ pc' # "end" /\ dropped' = dropped /\ finished' = finished /\ parts' = parts
        /\ \A d \in Calls : task[d] = "done" => task'[d] = "done"
        /\ rows' = rows
    BY <1>9 DEF TaskFails, TasksAlive, hand, guard, owner, durable, gate, history, TypeInv,
       TasksAlive, Serial
  <2>. QED
    BY <2>1, <1>r, <1>c, <1>u
<1>10. ASSUME NEW c \in Calls, Take(c) PROVE Finished'
  <2>1. rows' = rows /\ dropped' = dropped /\ finished' = finished /\ torn' = torn /\ pc' = "persist"
        /\ task' = [task EXCEPT ![c] = "taken"] /\ ToSet(parts') = ToSet(parts) \cup {c}
    BY <1>10, <1>x, <1>p DEF Take, durable, history
  <2>. QED
    BY <2>1, <1>r DEF SettleInv, Finished, TypeInv
<1>11. ASSUME NEW c \in Calls, TakeFailed(c) PROVE Finished'
  <2>1. /\ torn' = torn /\ pc' # "end" /\ dropped' = dropped /\ finished' = finished /\ parts' = parts
        /\ \A d \in Calls : task[d] = "done" => task'[d] = "done"
        /\ rows' = rows
    BY <1>11 DEF TakeFailed, Unwind, hand, guard, owner, durable, gate, history, TypeInv,
       TasksAlive,
       Serial
  <2>. QED
    BY <2>1, <1>r, <1>c, <1>u
<1>12. ASSUME NEW c \in Calls, TaskCancelled(c) PROVE Finished'
  <2>1. /\ torn' = torn /\ pc' # "end" /\ dropped' = dropped /\ finished' = finished /\ parts' = parts
        /\ \A d \in Calls : task[d] = "done" => task'[d] = "done"
        /\ rows' = rows
    BY <1>12 DEF TaskCancelled, hand, guard, owner, durable, gate, history, TypeInv, TasksAlive,
       Serial
  <2>. QED
    BY <2>1, <1>r, <1>c, <1>u
<1>13. ASSUME Harvest PROVE Finished'
  <2>1. rows' = rows /\ dropped' = dropped /\ finished' = finished /\ torn' = torn /\ pc' = "backstop"
        /\ ToSet(parts') = ToSet(parts) \cup {c \in Calls : task[c] = "done"}
    BY <1>13, <1>h, <1>p DEF Harvest, durable, history
  <2>. QED
    BY <2>1, <1>r DEF SettleInv, Finished
<1>14. ASSUME NEW c \in Calls, Blocked(c) PROVE Finished'
  <2>1. /\ torn' = torn /\ pc' # "end" /\ dropped' = dropped /\ finished' = finished /\ parts' = parts
        /\ \A d \in Calls : task[d] = "done" => task'[d] = "done"
        /\ rows' = rows
    BY <1>14 DEF Blocked, Hand, Admitted, Serving, Unresolved, Answering, Fresh, hand, guard, owner,
       durable, gate, history, TypeInv, TasksAlive, Serial
  <2>. QED
    BY <2>1, <1>r, <1>c, <1>u
<1>15. ASSUME NEW c \in Calls, Confirmed(c) PROVE Finished'
  <2>1. /\ torn' = torn /\ pc' # "end" /\ dropped' = dropped /\ finished' = finished /\ parts' = parts
        /\ \A d \in Calls : task[d] = "done" => task'[d] = "done"
        /\ rows' = rows
    BY <1>15 DEF Confirmed, Answering, Admitted, Serving, Unresolved, Fresh, Marked, hand, guard,
       owner, durable, gate, history, TypeInv, TasksAlive, Serial
  <2>. QED
    BY <2>1, <1>r, <1>c, <1>u
<1>16. ASSUME NEW c \in Calls, Unasked(c) PROVE Finished'
  <2>1. /\ torn' = torn /\ pc' # "end" /\ dropped' = dropped /\ finished' = finished /\ parts' = parts
        /\ \A d \in Calls : task[d] = "done" => task'[d] = "done"
        /\ rows' = rows
    BY <1>16 DEF Unasked, Fresh, Hand, Admitted, Serving, Unresolved, Answering, hand, guard, owner,
       durable, gate, history, TypeInv, TasksAlive, Serial
  <2>. QED
    BY <2>1, <1>r, <1>c, <1>u
<1>17. ASSUME Flip PROVE Finished'
  <2>1. /\ torn' = torn /\ pc' # "end" /\ dropped' = dropped /\ finished' = finished /\ parts' = parts
        /\ \A d \in Calls : task[d] = "done" => task'[d] = "done"
        /\ rows' = rows
    BY <1>17 DEF Flip, hand, guard, owner, durable, gate, history, TypeInv, TasksAlive, Serial
  <2>. QED
    BY <2>1, <1>r, <1>c, <1>u
<1>18. ASSUME FlipFails PROVE Finished'
  <2>1. /\ torn' = torn /\ pc' # "end" /\ dropped' = dropped /\ finished' = finished /\ parts' = parts
        /\ \A d \in Calls : task[d] = "done" => task'[d] = "done"
        /\ rows' = rows
    BY <1>18 DEF FlipFails, Unwind, hand, guard, owner, durable, gate, history, TypeInv, TasksAlive,
       Serial
  <2>. QED
    BY <2>1, <1>r, <1>c, <1>u
<1>19. ASSUME Begin PROVE Finished'
  <2>1. /\ torn' = torn /\ pc' # "end" /\ dropped' = dropped /\ finished' = finished /\ parts' = parts
        /\ \A d \in Calls : task[d] = "done" => task'[d] = "done"
        /\ rows' = rows
    BY <1>19 DEF Begin, Allowed, Approved, hand, guard, owner, durable, gate, history, TypeInv,
       TasksAlive, Serial
  <2>. QED
    BY <2>1, <1>r, <1>c, <1>u
<1>20. ASSUME DenyHeadless PROVE Finished'
  <2>1. /\ torn' = torn /\ pc' # "end" /\ dropped' = dropped /\ finished' = finished /\ parts' = parts
        /\ \A d \in Calls : task[d] = "done" => task'[d] = "done"
        /\ rows' = rows
    BY <1>20 DEF DenyHeadless, NeedsConfirm, Allowed, Approved, hand, guard, owner, durable, gate,
       history, TypeInv, TasksAlive, Serial
  <2>. QED
    BY <2>1, <1>r, <1>c, <1>u
<1>asking. ASSUME Question PROVE Finished'
  <2>1. /\ torn' = torn /\ pc' # "end" /\ dropped' = dropped /\ finished' = finished /\ parts' = parts
        /\ \A d \in Calls : task[d] = "done" => task'[d] = "done"
        /\ rows' = rows
    BY <1>asking DEF Question, hand, durable, history
  <2>. QED
    BY <2>1, <1>r, <1>c, <1>u
<1>cut. ASSUME HarvestCut PROVE Finished'
  <2>1. /\ torn' = torn /\ pc' # "end" /\ finished' = finished /\ parts' = parts /\ rows' = rows
        /\ dropped' = dropped \cup {c \in Calls : task[c] = "done"}
    BY <1>cut DEF HarvestCut, durable
  <2>. QED
    BY <2>1, <1>r DEF SettleInv, Finished
<1>21. ASSUME Effect PROVE Finished'
  <2>1. /\ torn' = torn /\ pc' # "end" /\ dropped' = dropped /\ finished' = finished /\ parts' = parts
        /\ \A d \in Calls : task[d] = "done" => task'[d] = "done"
        /\ rows' = rows
    BY <1>21 DEF Effect, hand, guard, owner, durable, gate, history, TypeInv, TasksAlive, Serial
  <2>. QED
    BY <2>1, <1>r, <1>c, <1>u
<1>22. ASSUME Return PROVE Finished'
  <2>1. /\ torn' = torn /\ pc' # "end" /\ dropped' = dropped /\ finished' = finished /\ parts' = parts
        /\ \A d \in Calls : task[d] = "done" => task'[d] = "done"
        /\ rows' = rows
    BY <1>22 DEF Return, hand, guard, owner, durable, gate, history, TypeInv, TasksAlive, Serial
  <2>. QED
    BY <2>1, <1>r, <1>c, <1>u
<1>23. ASSUME NEW c \in Calls, LateEffect(c) PROVE Finished'
  <2>1. /\ torn' = torn /\ pc' = pc /\ dropped' = dropped /\ finished' = finished
        /\ parts' = parts /\ task' = task /\ rows' = rows
    BY <1>23 DEF LateEffect, AtAwait, hand, guard, owner, durable, gate, history, TypeInv,
       TasksAlive,
       Serial
  <2>. QED
    BY <2>1, <1>r DEF SettleInv, Finished
<1>24. ASSUME AuditFails PROVE Finished'
  <2>1. /\ torn' = torn /\ pc' # "end" /\ dropped' = dropped /\ finished' = finished /\ parts' = parts
        /\ \A d \in Calls : task[d] = "done" => task'[d] = "done"
        /\ rows' = rows
    BY <1>24 DEF AuditFails, Unwind, hand, guard, owner, durable, gate, history, TypeInv,
       TasksAlive,
       Serial
  <2>. QED
    BY <2>1, <1>r, <1>c, <1>u
<1>25. ASSUME Persisted PROVE Finished'
  <2>1. /\ torn' = torn /\ pc' # "end" /\ dropped' = dropped /\ finished' = finished /\ parts' = parts
        /\ \A d \in Calls : task[d] = "done" => task'[d] = "done"
        /\ rows' = RowsWritten
    BY <1>25 DEF Persisted, Commit, Unresolved, Unwind, hand, guard, owner, durable, gate, history,
       TypeInv, TasksAlive, Serial
  <2>. QED
    BY <2>1, <1>r, <1>c, <1>u
<1>26. ASSUME PersistFails PROVE Finished'
  <2>1. /\ torn' = torn /\ pc' # "end" /\ dropped' = dropped /\ finished' = finished /\ parts' = parts
        /\ \A d \in Calls : task[d] = "done" => task'[d] = "done"
        /\ rows' = rows
    BY <1>26 DEF PersistFails, Unwind, EmittedUnwritten, hand, guard, owner, durable, gate, history,
       TypeInv, TasksAlive, Serial
  <2>. QED
    BY <2>1, <1>r, <1>c, <1>u
<1>27. ASSUME Parked PROVE Finished'
  <2>1. /\ torn' = torn /\ pc' # "end" /\ dropped' = dropped /\ finished' = finished /\ parts' = parts
        /\ \A d \in Calls : task[d] = "done" => task'[d] = "done"
        /\ rows' = RowsWritten
    BY <1>27 DEF Parked, Commit, hand, guard, owner, durable, gate, history, TypeInv, TasksAlive,
       Serial
  <2>. QED
    BY <2>1, <1>r, <1>c, <1>u
<1>28. ASSUME ParkFails PROVE Finished'
  <2>1. /\ torn' = torn /\ pc' # "end" /\ dropped' = dropped /\ finished' = finished /\ parts' = parts
        /\ \A d \in Calls : task[d] = "done" => task'[d] = "done"
        /\ rows' = rows
    BY <1>28 DEF ParkFails, Unwind, hand, guard, owner, durable, gate, history, TypeInv, TasksAlive,
       Serial
  <2>. QED
    BY <2>1, <1>r, <1>c, <1>u
<1>29. ASSUME Backstop PROVE Finished'
  <2>1. rows' = RowsWritten /\ dropped' = dropped /\ finished' = finished /\ torn' = torn /\ pc = "backstop"
    BY <1>29 DEF Backstop, history
  <2>. QED
    BY <2>1, <1>c, <1>e DEF Finished
<1>30. ASSUME BackstopFails PROVE Finished'
  <2>. SUFFICES ASSUME ~torn, RowsWritten = rows PROVE finished' \subseteq Results' \cup dropped'
    BY <1>30 DEF BackstopFails, Finished
  <2>1. rows' = rows /\ rows' = RowsWritten /\ dropped' = dropped /\ finished' = finished /\ pc = "backstop"
    BY <1>30 DEF BackstopFails, durable
  <2>. QED
    BY <2>1, <1>c, <1>e
<1>31. ASSUME Close PROVE Finished'
  <2>1. /\ torn' = torn \/ torn'
        /\ pc \notin {"prefix", "persist", "harvest", "cut", "backstop"} /\ dropped' = dropped /\ finished' = finished
    BY <1>31 DEF Close, history
  <2>2. Forget("idle", disk) \/ Forget("idle", Reconciled(disk))
    BY <1>31 DEF Close, Rest
  <2>. QED
    BY <2>1, <2>2, <1>g
<1>32. ASSUME Reconcile PROVE Finished'
  <2>1. /\ torn' = torn \/ torn'
        /\ pc \notin {"prefix", "persist", "harvest", "cut", "backstop"} /\ dropped' = dropped /\ finished' = finished
    BY <1>32 DEF Reconcile, history
  <2>2. Forget("idle", disk) \/ Forget("idle", Reconciled(disk))
    BY <1>32 DEF Reconcile, Rest
  <2>. QED
    BY <2>1, <2>2, <1>g
<1>33. ASSUME ReconcileFails PROVE Finished'
  <2>1. /\ torn' = torn \/ torn'
        /\ pc \notin {"prefix", "persist", "harvest", "cut", "backstop"} /\ dropped' = dropped /\ finished' = finished
    BY <1>33 DEF ReconcileFails, history
  <2>2. Forget("idle", disk) \/ Forget("idle", Reconciled(disk))
    BY <1>33 DEF ReconcileFails, Rest
  <2>. QED
    BY <2>1, <2>2, <1>g
<1>34. ASSUME Stop PROVE Finished'
  <2>1. /\ torn' = torn /\ (pc' = "end" => pc = "end") /\ dropped' = dropped /\ finished' = finished
        /\ parts' = parts /\ task' = task /\ rows' = rows
    BY <1>34 DEF Stop, AtAwait, hand, guard, owner, durable, gate, history, TypeInv, TasksAlive,
       Serial
  <2>. QED
    BY <2>1, <1>r DEF SettleInv, Finished
<1>35. ASSUME CancelLands PROVE Finished'
  <2>1. /\ torn' = torn /\ pc' # "end" /\ dropped' = dropped /\ finished' = finished /\ parts' = parts
        /\ \A d \in Calls : task[d] = "done" => task'[d] = "done"
        /\ rows' = rows
    BY <1>35 DEF CancelLands, Unwind, Cancellable, hand, guard, owner, durable, gate, history,
       TypeInv, TasksAlive, Serial
  <2>. QED
    BY <2>1, <1>r, <1>c, <1>u
<1>36. ASSUME CancelLandsOutside PROVE Finished'
  <2>1. /\ rows' = rows /\ dropped' = dropped /\ finished' = finished
        /\ torn' = torn /\ pc \in {"resume", "model"}
    BY <1>36 DEF CancelLandsOutside, history, durable
  <2>. QED
    BY <2>1, <1>r, <1>q DEF Finished
<1>37. ASSUME Crash PROVE Finished'
  <2>1. rows' = rows /\ dropped' = dropped /\ finished' = finished \cap Results
    BY <1>37 DEF Crash, Forget
  <2>. QED
    BY <2>1, <1>r DEF Finished
<1>38. ASSUME Boot PROVE Finished'
  <2>1. /\ torn' = torn \/ torn'
        /\ pc \notin {"prefix", "persist", "harvest", "cut", "backstop"} /\ dropped' = dropped /\ finished' = finished
    BY <1>38 DEF Boot, history
  <2>2. Forget("idle", disk) \/ Forget("idle", Reconciled(disk))
    BY <1>38 DEF Boot, Rest
  <2>. QED
    BY <2>1, <2>2, <1>g
<1>39. ASSUME NEW c \in Calls, NEW v \in Verdicts \ {"none"}, Resume(c,v) PROVE Finished'
  <2>1. /\ rows' = rows /\ dropped' = dropped /\ finished' = finished
        /\ torn' = torn /\ pc = "idle" /\ pc' = "resume"
    BY <1>39 DEF Resume, history, durable
  <2>. QED
    BY <2>1, <1>r, <1>q DEF Finished
<1>40. ASSUME ResumeRefused PROVE Finished'
  <2>1. /\ torn' = torn \/ torn'
        /\ pc \notin {"prefix", "persist", "harvest", "cut", "backstop"} /\ dropped' = dropped /\ finished' = finished
    BY <1>40 DEF ResumeRefused, history
  <2>2. Forget("idle", disk) \/ Forget("idle", Reconciled(disk))
    BY <1>40 DEF ResumeRefused, Rest
  <2>. QED
    BY <2>1, <2>2, <1>g
<1>41. ASSUME RefusedByAllowlist PROVE Finished'
  <2>1. /\ torn' = torn /\ pc' # "end" /\ dropped' = dropped /\ finished' = finished /\ parts' = parts
        /\ \A d \in Calls : task[d] = "done" => task'[d] = "done"
        /\ rows' = rows
    BY <1>41 DEF RefusedByAllowlist, hand, guard, owner, durable, gate, history, TypeInv,
       TasksAlive,
       Serial
  <2>. QED
    BY <2>1, <1>r, <1>c, <1>u
<1>42. ASSUME Grant PROVE Finished'
  <2>1. /\ torn' = torn /\ pc' # "end" /\ dropped' = dropped /\ finished' = finished /\ parts' = parts
        /\ \A d \in Calls : task[d] = "done" => task'[d] = "done"
        /\ rows' = rows
    BY <1>42 DEF Grant, hand, guard, owner, durable, gate, history, TypeInv, TasksAlive, Serial
  <2>. QED
    BY <2>1, <1>r, <1>c, <1>u
<1>43. ASSUME Mint PROVE Finished'
  <2>1. /\ torn' = torn /\ pc' # "end" /\ dropped' = dropped /\ finished' = finished /\ parts' = parts
        /\ \A d \in Calls : task[d] = "done" => task'[d] = "done"
        /\ rows' = rows
    BY <1>43 DEF Mint, Outlived, hand, guard, owner, durable, gate, history, TypeInv, TasksAlive,
       Serial
  <2>. QED
    BY <2>1, <1>r, <1>c, <1>u
<1>44. ASSUME Replied PROVE Finished'
  <2>1. /\ torn' = torn /\ pc' # "end" /\ dropped' = dropped /\ finished' = finished /\ parts' = parts
        /\ \A d \in Calls : task[d] = "done" => task'[d] = "done"
        /\ rows' = rows
    BY <1>44 DEF Replied, Outlived, hand, guard, owner, durable, gate, history, TypeInv, TasksAlive,
       Serial
  <2>. QED
    BY <2>1, <1>r, <1>c, <1>u
<1>45. ASSUME NEW c \in Calls, TokenGone(c) PROVE Finished'
  <2>1. /\ torn' = torn /\ pc' = pc /\ dropped' = dropped /\ finished' = finished
        /\ parts' = parts /\ task' = task /\ rows' = rows
    BY <1>45 DEF TokenGone, AtAwait, hand, guard, owner, durable, gate, history, TypeInv,
       TasksAlive,
       Serial
  <2>. QED
    BY <2>1, <1>r DEF SettleInv, Finished
<1>46. ASSUME CarryExpires PROVE Finished'
  <2>1. /\ torn' = torn /\ pc' = pc /\ dropped' = dropped /\ finished' = finished
        /\ parts' = parts /\ task' = task /\ rows' = rows
    BY <1>46 DEF CarryExpires, AtAwait, hand, guard, owner, durable, gate, history, TypeInv,
       TasksAlive, Serial
  <2>. QED
    BY <2>1, <1>r DEF SettleInv, Finished
<1>47. ASSUME NEW c \in Calls, Withdraw(c) PROVE Finished'
  <2>1. /\ torn' = torn /\ pc' = pc /\ dropped' = dropped /\ finished' = finished
        /\ parts' = parts /\ task' = task /\ rows' = rows
    BY <1>47 DEF Withdraw, AtAwait, hand, guard, owner, durable, gate, history, TypeInv, TasksAlive,
       Serial
  <2>. QED
    BY <2>1, <1>r DEF SettleInv, Finished
<1>. QED
  BY <1>asking, <1>cut, <1>1, <1>2, <1>3, <1>4, <1>5, <1>6, <1>7, <1>8, <1>9, <1>10, <1>11, <1>12,
     <1>13, <1>14,
     <1>15, <1>16, <1>17, <1>18, <1>19, <1>20, <1>21, <1>22, <1>23, <1>24, <1>25, <1>26, <1>27,
     <1>28, <1>29, <1>30, <1>31, <1>32, <1>33, <1>34, <1>35, <1>36, <1>37, <1>38, <1>39, <1>40,
     <1>41, <1>42, <1>43, <1>44, <1>45, <1>46, <1>47, AnswerInjectedResolves, DismissedResolves,
     SuppressedResolves, MalformedResolves, AnswerHeadlessResolves, AuditedResolves, AskParks
     DEF Next, Own, Serve, Environment

-----------------------------------------------------------------------------
\* Every step keeps a rejection known until the call it is of has been served.
LEMMA RejectKept ==
  ASSUME CallsAssumption, TypeInv, ConsentInv, WriteInv, OrderInv, PrefixInv, BegunInv,
         RejectInv, Next
  PROVE  RejectInv'
<1>s. ASSUME NEW c \in Calls, Serving(c), verdict = "dismiss", Sig[target] \notin denied PROVE c = target
  <2>1. /\ target \in InBatch(batch) /\ state[target] \in Awaiting
        /\ state[target] \notin Resolved /\ pc = "tail"
    BY <1>s DEF RejectInv, RejectionKept, Serving, Awaiting, Resolved
  <2>2. \A d \in InBatch(batch) : d < target => state[d] \in Resolved
    BY <2>1 DEF OrderInv, Waits, InBatch
  <2>3. c \in InBatch(batch) /\ state[c] \notin Resolved /\ c <= target
    BY <1>s, <2>1 DEF Serving, Unresolved
  <2>. QED
    BY <2>1, <2>2, <2>3 DEF InBatch, Calls
<1>a. pc = "resume" => target \in InBatch(batch) /\ disk[target] \in Awaiting /\ state = disk
  BY DEF OrderInv, AtResume, WriteInv, OwnWritten, Synced
<1>. USE CallsAssumption DEF CallsAssumption, TypeInv, Calls, Points, States, TaskStates,
           Verdicts, Awaiting, Resolved, Stale, hand, guard, owner, durable, gate, history,
           InBatch, Closed, Serial, AtCall, Synced, InPrefix, HandPoints, Quiet, Busy, RejectInv,
           FlipConfirmed, NotDenied, RejectionKept, Answering
<1>1. ASSUME FreshTurn PROVE RejectInv'
  BY <1>1 DEF FreshTurn
<1>2. ASSUME EmitBatch PROVE RejectInv'
  BY <1>2 DEF EmitBatch
<1>3. ASSUME Complete PROVE RejectInv'
  BY <1>3 DEF Complete, Rest, Forget
<1>4. ASSUME StartBatch PROVE RejectInv'
  BY <1>4 DEF StartBatch
<1>5. ASSUME NEW c \in Calls, TaskStart(c) PROVE RejectInv'
  BY <1>5 DEF TaskStart, TasksAlive
<1>6. ASSUME NEW c \in Calls, TaskDone(c) PROVE RejectInv'
  BY <1>6 DEF TaskDone, TasksAlive
<1>7. ASSUME NEW c \in Calls, TaskFails(c) PROVE RejectInv'
  BY <1>7 DEF TaskFails, TasksAlive
<1>8. ASSUME NEW c \in Calls, Take(c) PROVE RejectInv'
  BY <1>8 DEF Take, Outcome
<1>9. ASSUME NEW c \in Calls, TakeFailed(c) PROVE RejectInv'
  BY <1>9 DEF TakeFailed, Unwind
<1>10. ASSUME NEW c \in Calls, TaskCancelled(c) PROVE RejectInv'
  BY <1>10 DEF TaskCancelled
<1>11. ASSUME Harvest PROVE RejectInv'
  BY <1>11 DEF Harvest, Outcome
<1>12. ASSUME NEW c \in Calls, AnswerInjected(c) PROVE RejectInv'
  BY <1>12, <1>s DEF AnswerInjected, Serving, Unresolved, Answering, Resolve
<1>13. ASSUME NEW c \in Calls, Dismissed(c) PROVE RejectInv'
  BY <1>13, <1>s DEF Dismissed, Serving, Unresolved, Answering, Resolve, Rejected
<1>14. ASSUME NEW c \in Calls, Suppressed(c) PROVE RejectInv'
  <2>1. ASSUME NEW s \in Closed, Resolve(c, s) PROVE RejectInv'
    BY <1>14, <2>1, <1>s DEF Suppressed, Fresh, Serving, Unresolved, Resolve
  <2>. QED
    BY <1>14, <2>1 DEF Suppressed
<1>15. ASSUME NEW c \in Calls, Blocked(c) PROVE RejectInv'
  BY <1>15, <1>s DEF Blocked, Hand, Admitted, Serving, Unresolved, Answering, Fresh
<1>16. ASSUME NEW c \in Calls, Malformed(c) PROVE RejectInv'
  BY <1>16, <1>s DEF Malformed, Resolve, Admitted, Serving, Unresolved, Answering, Fresh
<1>17. ASSUME NEW c \in Calls, Confirmed(c) PROVE RejectInv'
  BY <1>17, <1>s DEF Confirmed, Answering, Admitted, Serving, Unresolved, Fresh, Marked
<1>18. ASSUME NEW c \in Calls, Unasked(c) PROVE RejectInv'
  BY <1>18, <1>s DEF Unasked, Fresh, Hand, Admitted, Serving, Unresolved, Answering
<1>19. ASSUME Flip PROVE RejectInv'
  BY <1>19 DEF Flip
<1>20. ASSUME FlipFails PROVE RejectInv'
  BY <1>20 DEF FlipFails, Unwind
<1>21. ASSUME Begin PROVE RejectInv'
  BY <1>21 DEF Begin, Allowed, Approved
<1>22. ASSUME Ask PROVE RejectInv'
  BY <1>22 DEF Ask, NeedsConfirm, Allowed, Approved
<1>23. ASSUME DenyHeadless PROVE RejectInv'
  BY <1>23 DEF DenyHeadless, NeedsConfirm, Allowed, Approved
<1>asking. ASSUME Question PROVE RejectInv'
  BY <1>asking DEF Question
<1>cut. ASSUME HarvestCut PROVE RejectInv'
  BY <1>cut DEF HarvestCut, AllSettled
<1>24. ASSUME AnswerHeadless PROVE RejectInv'
  BY <1>24 DEF AnswerHeadless, Resolve
<1>25. ASSUME Effect PROVE RejectInv'
  BY <1>25 DEF Effect
<1>26. ASSUME Return PROVE RejectInv'
  BY <1>26 DEF Return
<1>27. ASSUME NEW c \in Calls, LateEffect(c) PROVE RejectInv'
  BY <1>27 DEF LateEffect, AtAwait
<1>28. ASSUME Audited PROVE RejectInv'
  BY <1>28 DEF Audited, Outcome, Resolve
<1>29. ASSUME AuditFails PROVE RejectInv'
  BY <1>29 DEF AuditFails, Unwind
<1>30. ASSUME Persisted PROVE RejectInv'
  BY <1>30 DEF Persisted, Commit, Unresolved, Unwind
<1>31. ASSUME PersistFails PROVE RejectInv'
  BY <1>31 DEF PersistFails, Unwind, EmittedUnwritten
<1>32. ASSUME Parked PROVE RejectInv'
  BY <1>32 DEF Parked, Commit
<1>33. ASSUME ParkFails PROVE RejectInv'
  BY <1>33 DEF ParkFails, Unwind
<1>34. ASSUME Backstop PROVE RejectInv'
  BY <1>34 DEF Backstop
<1>35. ASSUME BackstopFails PROVE RejectInv'
  BY <1>35 DEF BackstopFails
<1>36. ASSUME Close PROVE RejectInv'
  BY <1>36 DEF Close, Rest, Forget
<1>37. ASSUME Reconcile PROVE RejectInv'
  BY <1>37 DEF Reconcile, Rest, Forget
<1>38. ASSUME ReconcileFails PROVE RejectInv'
  BY <1>38 DEF ReconcileFails, Rest, Forget
<1>39. ASSUME Stop PROVE RejectInv'
  BY <1>39 DEF Stop, AtAwait
<1>40. ASSUME CancelLands PROVE RejectInv'
  BY <1>40 DEF CancelLands, Unwind, Cancellable
<1>41. ASSUME CancelLandsOutside PROVE RejectInv'
  BY <1>41 DEF CancelLandsOutside
<1>42. ASSUME Crash PROVE RejectInv'
  BY <1>42 DEF Crash, Forget, AtAwait
<1>43. ASSUME Boot PROVE RejectInv'
  BY <1>43 DEF Boot, Rest, Forget
<1>44. ASSUME NEW c \in Calls, NEW v \in Verdicts \ {"none"}, Resume(c,v) PROVE RejectInv'
  BY <1>44 DEF Resume
<1>45. ASSUME ResumeRefused PROVE RejectInv'
  BY <1>45 DEF ResumeRefused, Rest, Forget
<1>46. ASSUME RefusedByAllowlist PROVE RejectInv'
  BY <1>46 DEF RefusedByAllowlist
<1>47. ASSUME Grant PROVE RejectInv'
  BY <1>47 DEF Grant
<1>48. ASSUME Mint PROVE RejectInv'
  BY <1>48 DEF Mint, Outlived
<1>49. ASSUME Replied PROVE RejectInv'
  BY <1>49, <1>a DEF Replied, Outlived
<1>50. ASSUME NEW c \in Calls, TokenGone(c) PROVE RejectInv'
  BY <1>50 DEF TokenGone, AtAwait
<1>51. ASSUME CarryExpires PROVE RejectInv'
  BY <1>51 DEF CarryExpires, AtAwait
<1>52. ASSUME NEW c \in Calls, Withdraw(c) PROVE RejectInv'
  BY <1>52 DEF Withdraw, AtAwait
<1>. HIDE DEF Calls, Points, States, TaskStates, Verdicts, Awaiting, Resolved, Stale, hand, guard,
           owner, durable, gate, history, InBatch, Closed, Serial, AtCall, Synced, InPrefix,
           HandPoints, Quiet, Busy, RejectInv, FlipConfirmed, NotDenied, RejectionKept, Answering
<1>. QED
  BY <1>asking, <1>cut, <1>1, <1>2, <1>3, <1>4, <1>5, <1>6, <1>7, <1>8, <1>9, <1>10, <1>11, <1>12,
     <1>13, <1>14,
     <1>15, <1>16, <1>17, <1>18, <1>19, <1>20, <1>21, <1>22, <1>23, <1>24, <1>25, <1>26, <1>27,
     <1>28, <1>29, <1>30, <1>31, <1>32, <1>33, <1>34, <1>35, <1>36, <1>37, <1>38, <1>39, <1>40,
     <1>41, <1>42, <1>43, <1>44, <1>45, <1>46, <1>47, <1>48, <1>49, <1>50, <1>51, <1>52
     DEF Next, Own, Serve, Environment

-----------------------------------------------------------------------------
\* Every step keeps the types of the sets and flags.
LEMMA SetTypesKept == ASSUME CallsAssumption, TypeInv, SetTypes, Next PROVE SetTypes'
<1>. USE CallsAssumption DEF TypeInv, Calls, Points, States, TaskStates, Verdicts, Awaiting,
           Resolved, Stale, hand, guard, owner, durable, gate, history, InBatch, SetTypes, Sigs,
           Gated
<1>1. ASSUME FreshTurn PROVE SetTypes'
  BY <1>1 DEF FreshTurn
<1>2. ASSUME EmitBatch PROVE SetTypes'
  BY <1>2 DEF EmitBatch
<1>3. ASSUME Complete PROVE SetTypes'
  BY <1>3 DEF Complete, Rest, Forget
<1>4. ASSUME StartBatch PROVE SetTypes'
  BY <1>4 DEF StartBatch
<1>5. ASSUME NEW c \in Calls, TaskStart(c) PROVE SetTypes'
  BY <1>5 DEF TaskStart, TasksAlive
<1>6. ASSUME NEW c \in Calls, TaskDone(c) PROVE SetTypes'
  BY <1>6 DEF TaskDone, TasksAlive
<1>7. ASSUME NEW c \in Calls, TaskFails(c) PROVE SetTypes'
  BY <1>7 DEF TaskFails, TasksAlive
<1>8. ASSUME NEW c \in Calls, Take(c) PROVE SetTypes'
  BY <1>8 DEF Take, Outcome
<1>9. ASSUME NEW c \in Calls, TakeFailed(c) PROVE SetTypes'
  BY <1>9 DEF TakeFailed, Unwind
<1>10. ASSUME NEW c \in Calls, TaskCancelled(c) PROVE SetTypes'
  BY <1>10 DEF TaskCancelled
<1>11. ASSUME Harvest PROVE SetTypes'
  BY <1>11 DEF Harvest, Outcome
<1>12. ASSUME NEW c \in Calls, AnswerInjected(c) PROVE SetTypes'
  BY <1>12 DEF AnswerInjected, Serving, Unresolved, Answering, Resolve
<1>13. ASSUME NEW c \in Calls, Dismissed(c) PROVE SetTypes'
  BY <1>13 DEF Dismissed, Serving, Unresolved, Answering, Resolve, Rejected
<1>14. ASSUME NEW c \in Calls, Suppressed(c) PROVE SetTypes'
  <2>1. ASSUME NEW s \in {"done", "denied"}, Resolve(c, s) PROVE SetTypes'
    BY <1>14, <2>1 DEF Suppressed, Resolve
  <2>. QED
    BY <1>14, <2>1 DEF Suppressed
<1>15. ASSUME NEW c \in Calls, Blocked(c) PROVE SetTypes'
  BY <1>15 DEF Blocked, Hand, Admitted, Serving, Unresolved, Answering, Fresh
<1>16. ASSUME NEW c \in Calls, Malformed(c) PROVE SetTypes'
  BY <1>16 DEF Malformed, Resolve, Admitted, Serving, Unresolved, Answering, Fresh
<1>17. ASSUME NEW c \in Calls, Confirmed(c) PROVE SetTypes'
  BY <1>17 DEF Confirmed, Answering, Admitted, Serving, Unresolved, Fresh, Marked
<1>18. ASSUME NEW c \in Calls, Unasked(c) PROVE SetTypes'
  BY <1>18 DEF Unasked, Fresh, Hand, Admitted, Serving, Unresolved, Answering
<1>19. ASSUME Flip PROVE SetTypes'
  BY <1>19 DEF Flip
<1>20. ASSUME FlipFails PROVE SetTypes'
  BY <1>20 DEF FlipFails, Unwind
<1>21. ASSUME Begin PROVE SetTypes'
  BY <1>21 DEF Begin, Allowed, Approved
<1>22. ASSUME Ask PROVE SetTypes'
  BY <1>22 DEF Ask, NeedsConfirm, Allowed, Approved
<1>23. ASSUME DenyHeadless PROVE SetTypes'
  BY <1>23 DEF DenyHeadless, NeedsConfirm, Allowed, Approved
<1>asking. ASSUME Question PROVE SetTypes'
  BY <1>asking DEF Question
<1>cut. ASSUME HarvestCut PROVE SetTypes'
  BY <1>cut DEF HarvestCut, AllSettled
<1>24. ASSUME AnswerHeadless PROVE SetTypes'
  BY <1>24 DEF AnswerHeadless, Resolve
<1>25. ASSUME Effect PROVE SetTypes'
  BY <1>25 DEF Effect
<1>26. ASSUME Return PROVE SetTypes'
  BY <1>26 DEF Return
<1>27. ASSUME NEW c \in Calls, LateEffect(c) PROVE SetTypes'
  BY <1>27 DEF LateEffect, AtAwait
<1>28. ASSUME Audited PROVE SetTypes'
  BY <1>28 DEF Audited, Outcome, Resolve
<1>29. ASSUME AuditFails PROVE SetTypes'
  BY <1>29 DEF AuditFails, Unwind
<1>30. ASSUME Persisted PROVE SetTypes'
  BY <1>30 DEF Persisted, Commit, Unresolved, Unwind
<1>31. ASSUME PersistFails PROVE SetTypes'
  BY <1>31 DEF PersistFails, Unwind, EmittedUnwritten
<1>32. ASSUME Parked PROVE SetTypes'
  BY <1>32 DEF Parked, Commit
<1>33. ASSUME ParkFails PROVE SetTypes'
  BY <1>33 DEF ParkFails, Unwind
<1>34. ASSUME Backstop PROVE SetTypes'
  BY <1>34 DEF Backstop
<1>35. ASSUME BackstopFails PROVE SetTypes'
  BY <1>35 DEF BackstopFails
<1>36. ASSUME Close PROVE SetTypes'
  BY <1>36 DEF Close, Rest, Forget
<1>37. ASSUME Reconcile PROVE SetTypes'
  BY <1>37 DEF Reconcile, Rest, Forget
<1>38. ASSUME ReconcileFails PROVE SetTypes'
  BY <1>38 DEF ReconcileFails, Rest, Forget
<1>39. ASSUME Stop PROVE SetTypes'
  BY <1>39 DEF Stop, AtAwait
<1>40. ASSUME CancelLands PROVE SetTypes'
  BY <1>40 DEF CancelLands, Unwind, Cancellable
<1>41. ASSUME CancelLandsOutside PROVE SetTypes'
  BY <1>41 DEF CancelLandsOutside
<1>42. ASSUME Crash PROVE SetTypes'
  BY <1>42 DEF Crash, Forget, AtAwait
<1>43. ASSUME Boot PROVE SetTypes'
  BY <1>43 DEF Boot, Rest, Forget
<1>44. ASSUME NEW c \in Calls, NEW v \in Verdicts \ {"none"}, Resume(c,v) PROVE SetTypes'
  BY <1>44 DEF Resume
<1>45. ASSUME ResumeRefused PROVE SetTypes'
  BY <1>45 DEF ResumeRefused, Rest, Forget
<1>46. ASSUME RefusedByAllowlist PROVE SetTypes'
  BY <1>46 DEF RefusedByAllowlist
<1>47. ASSUME Grant PROVE SetTypes'
  <2>1. granted' \subseteq granted \cup Sigs
    BY <1>47 DEF Grant
  <2>2. /\ verdict' = "execute"
        /\ UNCHANGED <<ending, stopping, carry, interactive, torn, denied, spent, shown, blocked,
                       emitted, consented, finished, dropped>>
    BY <1>47 DEF Grant
  <2>. QED
    BY <2>1, <2>2
<1>48. ASSUME Mint PROVE SetTypes'
  BY <1>48 DEF Mint, Outlived
<1>49. ASSUME Replied PROVE SetTypes'
  BY <1>49 DEF Replied, Outlived
<1>50. ASSUME NEW c \in Calls, TokenGone(c) PROVE SetTypes'
  BY <1>50 DEF TokenGone, AtAwait
<1>51. ASSUME CarryExpires PROVE SetTypes'
  BY <1>51 DEF CarryExpires, AtAwait
<1>52. ASSUME NEW c \in Calls, Withdraw(c) PROVE SetTypes'
  BY <1>52 DEF Withdraw, AtAwait
<1>. HIDE DEF TypeInv, Calls, Points, States, TaskStates, Verdicts, Awaiting, Resolved, Stale,
           hand, guard, owner, durable, gate, history, InBatch, SetTypes, Sigs, Gated
<1>. QED
  BY <1>asking, <1>cut, <1>1, <1>2, <1>3, <1>4, <1>5, <1>6, <1>7, <1>8, <1>9, <1>10, <1>11, <1>12,
     <1>13, <1>14,
     <1>15, <1>16, <1>17, <1>18, <1>19, <1>20, <1>21, <1>22, <1>23, <1>24, <1>25, <1>26, <1>27,
     <1>28, <1>29, <1>30, <1>31, <1>32, <1>33, <1>34, <1>35, <1>36, <1>37, <1>38, <1>39, <1>40,
     <1>41, <1>42, <1>43, <1>44, <1>45, <1>46, <1>47, <1>48, <1>49, <1>50, <1>51, <1>52
     DEF Next, Own, Serve, Environment

\* No step lets more tools run than max_parallel_tools.
LEMMA FewRunningKept == ASSUME CallsAssumption, TypeInv, RestInv, Next PROVE FewRunning'
<1>a. /\ IsFiniteSet(Running) /\ Cardinality(Running) \in Nat /\ MaxParallel \in Nat
      /\ Running \in SUBSET Calls
  BY CallsFinite DEF Running, CallsAssumption
<1>m. ASSUME \A c \in Calls : task'[c] = "running" => task[c] = "running" PROVE FewRunning'
  <2>1. Running' \in SUBSET Running
    BY <1>m DEF Running
  <2>2. Cardinality(Running') <= Cardinality(Running) /\ Cardinality(Running') \in Nat
    BY <2>1, <1>a, CallsFinite
  <2>. QED
    BY <2>2, <1>a DEF RestInv, FewRunning
<1>. USE CallsAssumption DEF TypeInv
<1>1. ASSUME FreshTurn PROVE FewRunning'
  <2>1. \A d \in Calls : task'[d] = "running" => task[d] = "running"
    BY <1>1 DEF FreshTurn, hand
  <2>. QED
    BY <2>1, <1>m
<1>2. ASSUME EmitBatch PROVE FewRunning'
  <2>1. \A d \in Calls : task'[d] = "running" => task[d] = "running"
    BY <1>2 DEF EmitBatch, hand
  <2>. QED
    BY <2>1, <1>m
<1>3. ASSUME Complete PROVE FewRunning'
  <2>1. \A d \in Calls : task'[d] = "running" => task[d] = "running"
    BY <1>3 DEF Complete, Rest, Forget, hand
  <2>. QED
    BY <2>1, <1>m
<1>4. ASSUME StartBatch PROVE FewRunning'
  <2>1. \A d \in Calls : task'[d] = "running" => task[d] = "running"
    BY <1>4 DEF StartBatch, hand
  <2>. QED
    BY <2>1, <1>m
<1>5. ASSUME NEW c \in Calls, TaskStart(c) PROVE FewRunning'
  <2>1. /\ task' = [task EXCEPT ![c] = "running"] /\ task[c] = "queued"
        /\ Cardinality(Running) < MaxParallel
    BY <1>5 DEF TaskStart, Running, Slots
  <2>2. Running' = Running \cup {c} /\ c \notin Running
    BY <2>1 DEF Running, TypeInv
  <2>3. Cardinality(Running') = Cardinality(Running) + 1
    BY <2>2, <1>a, FS_AddElement
  <2>. QED
    BY <2>1, <2>3, <1>a DEF FewRunning
<1>6. ASSUME NEW c \in Calls, TaskDone(c) PROVE FewRunning'
  <2>1. \A d \in Calls : task'[d] = "running" => task[d] = "running"
    BY <1>6 DEF TaskDone, TasksAlive, hand
  <2>. QED
    BY <2>1, <1>m
<1>7. ASSUME NEW c \in Calls, TaskFails(c) PROVE FewRunning'
  <2>1. \A d \in Calls : task'[d] = "running" => task[d] = "running"
    BY <1>7 DEF TaskFails, TasksAlive, hand
  <2>. QED
    BY <2>1, <1>m
<1>8. ASSUME NEW c \in Calls, Take(c) PROVE FewRunning'
  <2>1. \A d \in Calls : task'[d] = "running" => task[d] = "running"
    BY <1>8 DEF Take, Outcome, hand
  <2>. QED
    BY <2>1, <1>m
<1>9. ASSUME NEW c \in Calls, TakeFailed(c) PROVE FewRunning'
  <2>1. \A d \in Calls : task'[d] = "running" => task[d] = "running"
    BY <1>9 DEF TakeFailed, Unwind, hand
  <2>. QED
    BY <2>1, <1>m
<1>10. ASSUME NEW c \in Calls, TaskCancelled(c) PROVE FewRunning'
  <2>1. \A d \in Calls : task'[d] = "running" => task[d] = "running"
    BY <1>10 DEF TaskCancelled, hand
  <2>. QED
    BY <2>1, <1>m
<1>11. ASSUME Harvest PROVE FewRunning'
  <2>1. \A d \in Calls : task'[d] = "running" => task[d] = "running"
    BY <1>11 DEF Harvest, Outcome, hand
  <2>. QED
    BY <2>1, <1>m
<1>12. ASSUME NEW c \in Calls, AnswerInjected(c) PROVE FewRunning'
  <2>1. \A d \in Calls : task'[d] = "running" => task[d] = "running"
    BY <1>12 DEF AnswerInjected, Serving, Unresolved, Answering, Resolve, hand
  <2>. QED
    BY <2>1, <1>m
<1>13. ASSUME NEW c \in Calls, Dismissed(c) PROVE FewRunning'
  <2>1. \A d \in Calls : task'[d] = "running" => task[d] = "running"
    BY <1>13 DEF Dismissed, Serving, Unresolved, Answering, Resolve, Rejected, hand
  <2>. QED
    BY <2>1, <1>m
<1>14. ASSUME NEW c \in Calls, Suppressed(c) PROVE FewRunning'
  <2>1. task' = task
    BY <1>14 DEF Suppressed, Resolve
  <2>. QED
    BY <2>1, <1>m
<1>15. ASSUME NEW c \in Calls, Blocked(c) PROVE FewRunning'
  <2>1. \A d \in Calls : task'[d] = "running" => task[d] = "running"
    BY <1>15 DEF Blocked, Hand, Admitted, Serving, Unresolved, Answering, Fresh, hand
  <2>. QED
    BY <2>1, <1>m
<1>16. ASSUME NEW c \in Calls, Malformed(c) PROVE FewRunning'
  <2>1. \A d \in Calls : task'[d] = "running" => task[d] = "running"
    BY <1>16 DEF Malformed, Resolve, Admitted, Serving, Unresolved, Answering, Fresh, hand
  <2>. QED
    BY <2>1, <1>m
<1>17. ASSUME NEW c \in Calls, Confirmed(c) PROVE FewRunning'
  <2>1. \A d \in Calls : task'[d] = "running" => task[d] = "running"
    BY <1>17 DEF Confirmed, Answering, Admitted, Serving, Unresolved, Fresh, Marked, hand
  <2>. QED
    BY <2>1, <1>m
<1>18. ASSUME NEW c \in Calls, Unasked(c) PROVE FewRunning'
  <2>1. \A d \in Calls : task'[d] = "running" => task[d] = "running"
    BY <1>18 DEF Unasked, Fresh, Hand, Admitted, Serving, Unresolved, Answering, hand
  <2>. QED
    BY <2>1, <1>m
<1>19. ASSUME Flip PROVE FewRunning'
  <2>1. \A d \in Calls : task'[d] = "running" => task[d] = "running"
    BY <1>19 DEF Flip, hand
  <2>. QED
    BY <2>1, <1>m
<1>20. ASSUME FlipFails PROVE FewRunning'
  <2>1. \A d \in Calls : task'[d] = "running" => task[d] = "running"
    BY <1>20 DEF FlipFails, Unwind, hand
  <2>. QED
    BY <2>1, <1>m
<1>21. ASSUME Begin PROVE FewRunning'
  <2>1. \A d \in Calls : task'[d] = "running" => task[d] = "running"
    BY <1>21 DEF Begin, Allowed, Approved, hand
  <2>. QED
    BY <2>1, <1>m
<1>22. ASSUME Ask PROVE FewRunning'
  <2>1. \A d \in Calls : task'[d] = "running" => task[d] = "running"
    BY <1>22 DEF Ask, NeedsConfirm, Allowed, Approved, hand
  <2>. QED
    BY <2>1, <1>m
<1>23. ASSUME DenyHeadless PROVE FewRunning'
  <2>1. \A d \in Calls : task'[d] = "running" => task[d] = "running"
    BY <1>23 DEF DenyHeadless, NeedsConfirm, Allowed, Approved, hand
  <2>. QED
    BY <2>1, <1>m
<1>asking. ASSUME Question PROVE FewRunning'
  <2>1. \A d \in Calls : task'[d] = "running" => task[d] = "running"
    BY <1>asking DEF Question, hand
  <2>. QED
    BY <2>1, <1>m
<1>cut. ASSUME HarvestCut PROVE FewRunning'
  <2>1. \A d \in Calls : task'[d] = "running" => task[d] = "running"
    BY <1>cut DEF HarvestCut, hand
  <2>. QED
    BY <2>1, <1>m
<1>24. ASSUME AnswerHeadless PROVE FewRunning'
  <2>1. \A d \in Calls : task'[d] = "running" => task[d] = "running"
    BY <1>24 DEF AnswerHeadless, Resolve, hand
  <2>. QED
    BY <2>1, <1>m
<1>25. ASSUME Effect PROVE FewRunning'
  <2>1. \A d \in Calls : task'[d] = "running" => task[d] = "running"
    BY <1>25 DEF Effect, hand
  <2>. QED
    BY <2>1, <1>m
<1>26. ASSUME Return PROVE FewRunning'
  <2>1. \A d \in Calls : task'[d] = "running" => task[d] = "running"
    BY <1>26 DEF Return, hand
  <2>. QED
    BY <2>1, <1>m
<1>27. ASSUME NEW c \in Calls, LateEffect(c) PROVE FewRunning'
  <2>1. \A d \in Calls : task'[d] = "running" => task[d] = "running"
    BY <1>27 DEF LateEffect, AtAwait, hand
  <2>. QED
    BY <2>1, <1>m
<1>28. ASSUME Audited PROVE FewRunning'
  <2>1. \A d \in Calls : task'[d] = "running" => task[d] = "running"
    BY <1>28 DEF Audited, Outcome, Resolve, hand
  <2>. QED
    BY <2>1, <1>m
<1>29. ASSUME AuditFails PROVE FewRunning'
  <2>1. \A d \in Calls : task'[d] = "running" => task[d] = "running"
    BY <1>29 DEF AuditFails, Unwind, hand
  <2>. QED
    BY <2>1, <1>m
<1>30. ASSUME Persisted PROVE FewRunning'
  <2>1. \A d \in Calls : task'[d] = "running" => task[d] = "running"
    BY <1>30 DEF Persisted, Commit, Unresolved, Unwind, hand
  <2>. QED
    BY <2>1, <1>m
<1>31. ASSUME PersistFails PROVE FewRunning'
  <2>1. \A d \in Calls : task'[d] = "running" => task[d] = "running"
    BY <1>31 DEF PersistFails, Unwind, EmittedUnwritten, hand
  <2>. QED
    BY <2>1, <1>m
<1>32. ASSUME Parked PROVE FewRunning'
  <2>1. \A d \in Calls : task'[d] = "running" => task[d] = "running"
    BY <1>32 DEF Parked, Commit, hand
  <2>. QED
    BY <2>1, <1>m
<1>33. ASSUME ParkFails PROVE FewRunning'
  <2>1. \A d \in Calls : task'[d] = "running" => task[d] = "running"
    BY <1>33 DEF ParkFails, Unwind, hand
  <2>. QED
    BY <2>1, <1>m
<1>34. ASSUME Backstop PROVE FewRunning'
  <2>1. \A d \in Calls : task'[d] = "running" => task[d] = "running"
    BY <1>34 DEF Backstop, hand
  <2>. QED
    BY <2>1, <1>m
<1>35. ASSUME BackstopFails PROVE FewRunning'
  <2>1. \A d \in Calls : task'[d] = "running" => task[d] = "running"
    BY <1>35 DEF BackstopFails, hand
  <2>. QED
    BY <2>1, <1>m
<1>36. ASSUME Close PROVE FewRunning'
  <2>1. \A d \in Calls : task'[d] = "running" => task[d] = "running"
    BY <1>36 DEF Close, Rest, Forget, hand
  <2>. QED
    BY <2>1, <1>m
<1>37. ASSUME Reconcile PROVE FewRunning'
  <2>1. \A d \in Calls : task'[d] = "running" => task[d] = "running"
    BY <1>37 DEF Reconcile, Rest, Forget, hand
  <2>. QED
    BY <2>1, <1>m
<1>38. ASSUME ReconcileFails PROVE FewRunning'
  <2>1. \A d \in Calls : task'[d] = "running" => task[d] = "running"
    BY <1>38 DEF ReconcileFails, Rest, Forget, hand
  <2>. QED
    BY <2>1, <1>m
<1>39. ASSUME Stop PROVE FewRunning'
  <2>1. \A d \in Calls : task'[d] = "running" => task[d] = "running"
    BY <1>39 DEF Stop, AtAwait, hand
  <2>. QED
    BY <2>1, <1>m
<1>40. ASSUME CancelLands PROVE FewRunning'
  <2>1. \A d \in Calls : task'[d] = "running" => task[d] = "running"
    BY <1>40 DEF CancelLands, Unwind, Cancellable, hand
  <2>. QED
    BY <2>1, <1>m
<1>41. ASSUME CancelLandsOutside PROVE FewRunning'
  <2>1. \A d \in Calls : task'[d] = "running" => task[d] = "running"
    BY <1>41 DEF CancelLandsOutside, hand
  <2>. QED
    BY <2>1, <1>m
<1>42. ASSUME Crash PROVE FewRunning'
  <2>1. \A d \in Calls : task'[d] = "running" => task[d] = "running"
    BY <1>42 DEF Crash, Forget, AtAwait, hand
  <2>. QED
    BY <2>1, <1>m
<1>43. ASSUME Boot PROVE FewRunning'
  <2>1. \A d \in Calls : task'[d] = "running" => task[d] = "running"
    BY <1>43 DEF Boot, Rest, Forget, hand
  <2>. QED
    BY <2>1, <1>m
<1>44. ASSUME NEW c \in Calls, NEW v \in Verdicts \ {"none"}, Resume(c,v) PROVE FewRunning'
  <2>1. \A d \in Calls : task'[d] = "running" => task[d] = "running"
    BY <1>44 DEF Resume, hand
  <2>. QED
    BY <2>1, <1>m
<1>45. ASSUME ResumeRefused PROVE FewRunning'
  <2>1. \A d \in Calls : task'[d] = "running" => task[d] = "running"
    BY <1>45 DEF ResumeRefused, Rest, Forget, hand
  <2>. QED
    BY <2>1, <1>m
<1>46. ASSUME RefusedByAllowlist PROVE FewRunning'
  <2>1. \A d \in Calls : task'[d] = "running" => task[d] = "running"
    BY <1>46 DEF RefusedByAllowlist, hand
  <2>. QED
    BY <2>1, <1>m
<1>47. ASSUME Grant PROVE FewRunning'
  <2>1. \A d \in Calls : task'[d] = "running" => task[d] = "running"
    BY <1>47 DEF Grant, hand
  <2>. QED
    BY <2>1, <1>m
<1>48. ASSUME Mint PROVE FewRunning'
  <2>1. \A d \in Calls : task'[d] = "running" => task[d] = "running"
    BY <1>48 DEF Mint, Outlived, hand
  <2>. QED
    BY <2>1, <1>m
<1>49. ASSUME Replied PROVE FewRunning'
  <2>1. \A d \in Calls : task'[d] = "running" => task[d] = "running"
    BY <1>49 DEF Replied, Outlived, hand
  <2>. QED
    BY <2>1, <1>m
<1>50. ASSUME NEW c \in Calls, TokenGone(c) PROVE FewRunning'
  <2>1. \A d \in Calls : task'[d] = "running" => task[d] = "running"
    BY <1>50 DEF TokenGone, AtAwait, hand
  <2>. QED
    BY <2>1, <1>m
<1>51. ASSUME CarryExpires PROVE FewRunning'
  <2>1. \A d \in Calls : task'[d] = "running" => task[d] = "running"
    BY <1>51 DEF CarryExpires, AtAwait, hand
  <2>. QED
    BY <2>1, <1>m
<1>52. ASSUME NEW c \in Calls, Withdraw(c) PROVE FewRunning'
  <2>1. \A d \in Calls : task'[d] = "running" => task[d] = "running"
    BY <1>52 DEF Withdraw, AtAwait, hand
  <2>. QED
    BY <2>1, <1>m
<1>. HIDE DEF TypeInv
<1>. QED
  BY <1>asking, <1>cut, <1>1, <1>2, <1>3, <1>4, <1>5, <1>6, <1>7, <1>8, <1>9, <1>10, <1>11, <1>12,
     <1>13, <1>14,
     <1>15, <1>16, <1>17, <1>18, <1>19, <1>20, <1>21, <1>22, <1>23, <1>24, <1>25, <1>26, <1>27,
     <1>28, <1>29, <1>30, <1>31, <1>32, <1>33, <1>34, <1>35, <1>36, <1>37, <1>38, <1>39, <1>40,
     <1>41, <1>42, <1>43, <1>44, <1>45, <1>46, <1>47, <1>48, <1>49, <1>50, <1>51, <1>52
     DEF Next, Own, Serve, Environment

-----------------------------------------------------------------------------
\* A conversation without calls.
LEMMA RecordInitial == ASSUME CallsAssumption, Init PROVE RecordInv
<1>. USE DEF Init
<1>0. Results = {} /\ Taken = {} /\ ToSet(parts) = {} /\ Len(rows) = 0
  BY NoParts DEF Results, Taken
<1>1. ResultsInv
  BY <1>0 DEF ResultsInv, RowsShape, DiskTold, StateTold, PartsWritten, PrefixParts, AtTold,
     EmittedInv, Closed
<1>9. PlaceInv
  BY DEF PlaceInv, RowsOrdered, Chained, Sorted, RowIsLast, PartsFollow, BatchUntold
<1>2. TokensInv
  BY DEF TokensInv, TokensWait, TokensElsewhere
<1>3. EndsRight /\ Finished
  BY DEF EndsRight, Finished
<1>4. SettledInv
  <2>. SUFFICES ASSUME NEW x \in Batches PROVE Settled(disk, x)
    BY DEF SettledInv
  <2>. QED
    BY DEF Settled, InBatch
<1>5. RejectInv
  BY DEF RejectInv, FlipConfirmed, NotDenied, RejectionKept
<1>6. Running = {} /\ Cardinality({}) = 0
  BY FS_EmptySet DEF Running
<1>7. FewRunning
  BY <1>6 DEF FewRunning, CallsAssumption
<1>8. SetTypes
  BY DEF SetTypes
<1>. QED
  BY <1>1, <1>2, <1>3, <1>4, <1>5, <1>7, <1>8, <1>9 DEF RecordInv, SettleInv, RestInv

\* Nothing changes where nothing happens.
LEMMA RecordStutters == ASSUME RecordInv, UNCHANGED vars PROVE RecordInv'
<1>. USE DEF vars, hand, guard, owner, durable, gate, history, RecordInv
<1>0. Results' = Results /\ Taken' = Taken /\ Running' = Running /\ (InPrefix' <=> InPrefix)
  BY DEF Results, Taken, Running, InPrefix, Busy
<1>1. ResultsInv'
  BY <1>0 DEF ResultsInv, RowsShape, DiskTold, StateTold, PartsWritten, PrefixParts, AtTold,
     EmittedInv
<1>7. PlaceInv'
  BY <1>0 DEF PlaceInv, RowsOrdered, Chained, Sorted, RowIsLast, PartsFollow, BatchUntold
<1>2. TokensInv'
  BY DEF TokensInv, TokensWait, TokensElsewhere, InBatch
<1>3. EndsRight' /\ Finished'
  BY <1>0 DEF SettleInv, EndsRight, Finished, InBatch
<1>4. SettledInv'
  BY DEF SettleInv, SettledInv, Settled
<1>5. RejectInv'
  BY DEF RejectInv, FlipConfirmed, NotDenied, RejectionKept, Answering, InBatch
<1>6. RestInv'
  BY <1>0 DEF RestInv, FewRunning, SetTypes
<1>. QED
  BY <1>1, <1>2, <1>3, <1>4, <1>5, <1>6, <1>7 DEF SettleInv

\* What the record holds is kept in every reachable state.
THEOREM RecordInvariant == Spec => []RecordInv
<1>1. Init => RecordInv
  BY RecordInitial, CallsAssumption
<1>2. TypeInv /\ ConsentInv /\ StateInv /\ RecordInv /\ [Next]_vars => RecordInv'
  <2>. SUFFICES ASSUME TypeInv, ConsentInv, StateInv, RecordInv, [Next]_vars PROVE RecordInv'
    OBVIOUS
  <2>1. CASE Next
    <3>1. ResultsInv' /\ PlaceInv' /\ TokensInv'
      BY <2>1, ResultsKept, PlacesKept, TokensKept, CallsAssumption DEF StateInv, RecordInv
    <3>2. SettleInv'
      BY <2>1, EndsKept, SettledKept, FinishedKept, CallsAssumption DEF StateInv, RecordInv,
         SettleInv
    <3>3. RejectInv' /\ RestInv'
      BY <2>1, RejectKept, SetTypesKept, FewRunningKept, CallsAssumption
         DEF StateInv, RecordInv, RestInv
    <3>. QED
      BY <3>1, <3>2, <3>3 DEF RecordInv
  <2>2. CASE UNCHANGED vars
    BY <2>2, RecordStutters
  <2>. QED
    BY <2>1, <2>2
<1>. QED
  BY <1>1, <1>2, ConsentInvariant, StateInvariant, PTL DEF Spec

-----------------------------------------------------------------------------
\* The types, and the limit on the tools at work at once (agent.max_parallel_tools).
THEOREM TypesAlways == Spec => []TypeOK
<1>1. TypeInv /\ RecordInv => TypeOK
  <2>. SUFFICES ASSUME TypeInv, RecordInv PROVE TypeOK
    OBVIOUS
  <2>. USE DEF RecordInv
  <2>1. parts \in Seq(Calls) /\ row \in 0 .. Len(rows) /\ rows \in Seq(Seq(Calls))
    BY DEF ResultsInv, RowsShape
  <2>2. Cardinality({c \in Calls : task[c] = "running"}) <= MaxParallel
    BY DEF RestInv, FewRunning, Running
  <2>3. {spent, shown, blocked, begun, late, emitted, consented, finished,
        dropped} \subseteq SUBSET Calls
    BY DEF RestInv, SetTypes, TypeInv
  <2>4. {stopping, carry, interactive, torn} \subseteq BOOLEAN /\ {state, disk} \subseteq [Calls -> States]
    BY DEF RestInv, SetTypes, TypeInv
  <2>. QED
    BY <2>1, <2>2, <2>3, <2>4 DEF RestInv, SetTypes, TypeInv, TypeOK
<1>. QED
  BY <1>1, ConsentInvariant, RecordInvariant, PTL

\* The record tells the truth: a begun call is never resumable again, what went out to a
\* subscriber is in the database, a call is closed there exactly when a row holds its result,
\* and a token the owner was shown is live only while its bubble waits (C4-H1, D40, ACA-9).
THEOREM RecordIsTrueAlways == Spec => []RecordIsTrue
<1>1. RecordInv /\ EffectNotReplayable => RecordIsTrue
  <2>. SUFFICES ASSUME RecordInv, EffectNotReplayable PROVE RecordIsTrue
    OBVIOUS
  <2>1. EmittedDurable
    BY DEF RecordInv, ResultsInv, EmittedInv, EmittedDurable
  <2>2. ResultsMatchStates
    BY DEF RecordInv, ResultsInv, DiskTold, Closed, ResultsMatchStates
  <2>3. TokenDiesWithBubble
    BY DEF RecordInv, TokensInv, TokensWait, TokenDiesWithBubble
  <2>. QED
    BY <2>1, <2>2, <2>3 DEF RecordIsTrue
<1>. QED
  BY <1>1, NeverReplayable, RecordInvariant, PTL

\* Whenever no drive is alive and no backstop or reconcile write failed, each message is resolved
\* whole or waits on one call, those before it resolved and those after it pending for the
\* resume: whatever was stopped, failed or crashed on the way.
THEOREM BatchesSettled == Spec => []BatchSettled
<1>1. TypeInv /\ StateInv /\ RecordInv => BatchSettled
  <2>. SUFFICES ASSUME TypeInv, StateInv, RecordInv, pc = "idle", ~torn, NEW x \in Batches
                PROVE  \/ \A c \in InBatch(x) : disk[c] \in Resolved \cup {"absent"}
                       \/ \E c \in InBatch(x) :
                           /\ disk[c] \in Awaiting
                           /\ \A d \in InBatch(x) \ {c} :
                                 disk[d] \in IF d < c THEN Resolved ELSE {"pending"}
    BY DEF BatchSettled
  <2>1. x # batch
    BY CallsAssumption DEF StateInv, WriteInv, NoBatch, Quiet, Batches, CallsAssumption, Calls
  <2>2. Settled(disk, x)
    BY <2>1 DEF RecordInv, SettleInv, SettledInv
  <2>3. CASE \A c \in InBatch(x) : disk[c] \in Resolved \cup {"absent"}
    BY <2>3
  <2>4. CASE \E c \in InBatch(x) : disk[c] \in Awaiting
    <3>1. PICK c \in InBatch(x) : disk[c] \in Awaiting
      BY <2>4
    <3>2. ASSUME NEW d \in InBatch(x) \ {c} PROVE disk[d] \in IF d < c THEN Resolved ELSE {"pending"}
      <4>1. c \in Calls /\ d \in Calls /\ Batch[c] = Batch[d] /\ (d < c \/ c < d)
        BY CallsAssumption DEF InBatch, Calls, CallsAssumption
      <4>. QED
        BY <3>1, <4>1 DEF StateInv, OrderInv, Waits
    <3>. QED
      BY <3>1, <3>2
  <2>. QED
    BY <2>2, <2>3, <2>4 DEF Settled
<1>. QED
  BY <1>1, ConsentInvariant, StateInvariant, RecordInvariant, PTL

\* A result a tool returned is on record once the drive is over, whether it ended well, was
\* stopped or failed (the prefix's harvest, the backstop), unless a last write failed, the
\* process died before the result was written, or a Stop during the gather of a prefix that
\* had already failed let the read nobody had taken go.
THEOREM WorkSurvives == Spec => []DoneWorkSurvives
<1>1. StateInv /\ RecordInv => DoneWorkSurvives
  <2>. SUFFICES ASSUME StateInv, RecordInv, pc = "idle", ~torn PROVE finished \subseteq Results \cup dropped
    BY DEF DoneWorkSurvives
  <2>1. \A c \in Calls : task[c] # "done"
    BY DEF StateInv, PrefixInv, PrefixPlace, Busy
  <2>2. ToSet(parts) \subseteq Results
    BY DEF RecordInv, ResultsInv, PartsWritten, Synced
  <2>. QED
    BY <2>1, <2>2 DEF RecordInv, SettleInv, Finished
<1>. QED
  BY <1>1, StateInvariant, RecordInvariant, PTL

\* A call's result is recorded once, and the results of one message stand in the order the
\* model made the calls, whichever finished first and however often the row was rewritten; and
\* a result a tool returned is on record once the drive is over, with the exceptions of
\* WorkSurvives.
THEOREM ResultsAlwaysStand == Spec => []ResultsStand
<1>1. RecordInv => ResultsInOrder
  <2>. SUFFICES ASSUME RecordInv, NEW i \in DOMAIN rows, NEW k \in DOMAIN rows,
                       NEW x \in DOMAIN rows[i], NEW y \in DOMAIN rows[k], i < k \/ (i = k /\ x < y)
                PROVE  MayPrecede(rows[i][x], rows[k][y])
    BY DEF ResultsInOrder
  <2>1. rows[i][x] \in ToSet(rows[i]) /\ rows[k][y] \in ToSet(rows[k])
    BY DEF ToSet
  <2>2. RowsOrdered
    BY DEF RecordInv, PlaceInv
  <2>. QED
    BY <2>1, <2>2 DEF RowsOrdered, Chained, Sorted
<1>. QED
  BY <1>1, RecordInvariant, WorkSurvives, PTL DEF ResultsStand

\* A call the owner rejected is not put to the owner again in the same drive, however often the
\* model makes it anew (the denial echo over guard.denied_sigs).
THEOREM RejectionAlwaysStands == Spec => RejectionStands
<1>1. RecordInv /\ [Next]_vars =>
        (pc = "invoke" /\ pc' = "park" /\ verdict = "dismiss" => Sig[at] # Sig[target])
  BY DEF RecordInv, RejectInv, NotDenied, RejectionKept, Answering
<1>. QED
  BY <1>1, RecordInvariant, PTL DEF Spec, RejectionStands

=============================================================================
