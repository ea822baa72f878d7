-------------------------- MODULE ToolCallsLedgerProofs --------------------------
(***************************************************************************)
(* What module ToolCalls keeps for every number of calls, every way to     *)
(* group them into messages, every kind and signature of each, and every   *)
(* interleaving of the drive with Stops, crashes, failed writes and work   *)
(* left running.  First that a gated tool works only with the owner's      *)
(* consent (ConsentedOnly), then that the module implements CallLedger.    *)
(* The second argument rests on how the calls' states move, in memory and  *)
(* in the database, which StateInv says in four parts: what may be         *)
(* unwritten (WriteInv), the order the tail keeps (OrderInv), what the     *)
(* parallel prefix holds (PrefixInv) and what a call let through excludes  *)
(* (BegunInv).  Module ToolCallsRecordProofs builds on it.                 *)
(***************************************************************************)
EXTENDS ToolCalls, FiniteSetTheorems, SequenceTheorems, TLAPS

\* The part of TypeOK the arguments below use.
TypeInv ==
    /\ pc \in Points
    /\ batch \in Nat /\ at \in Calls \cup {0}
    /\ pc \in {"flip", "invoke", "run", "ran", "audit", "asking", "persist",
           "park"} => at \in Calls
    /\ state \in [Calls -> States] /\ disk \in [Calls -> States]
    /\ task \in [Calls -> TaskStates]
    /\ target \in Calls \cup {0} /\ verdict \in Verdicts
    /\ begun \subseteq Calls /\ late \subseteq Calls
    /\ effects \in [Calls -> Nat]

(***************************************************************************)
(* Consent.  ConsentedOnly alone is not inductive: that the work done was  *)
(* consented to rests on how every call came to be let through.  Work is   *)
(* done, now or late, only for calls that were begun; a gated call is      *)
(* begun only on a standing rule or on the token its own resume minted;    *)
(* and no token is carried from one drive into the next.                   *)
(***************************************************************************)
ConsentInv ==
    /\ \A c \in Calls : effects[c] > 0 => c \in begun
    /\ late \subseteq begun
    /\ pc \in {"run", "ran"} => at \in begun
    /\ \A c \in begun \cap Gated : c \in consented \/ Sig[c] \in granted
    /\ carry /\ target \in Gated => target \in consented
    /\ pc \in {"idle", "boot", "resume"} => ~carry
    /\ \A c \in Calls : task[c] = "queued" => Kind[c] = "read"

-----------------------------------------------------------------------------
\* A conversation without calls has nothing to consent to.
LEMMA InitialConsent == ASSUME CallsAssumption, Init PROVE TypeInv /\ ConsentInv
  BY DEF CallsAssumption, Init, TypeInv, ConsentInv, Calls, Gated, Points, States, TaskStates,
         Verdicts, Awaiting, Resolved, Stale

\* Every step keeps the types.
LEMMA TypeKept == ASSUME CallsAssumption, TypeInv, ConsentInv, Next PROVE TypeInv'
<1>. USE CallsAssumption DEF CallsAssumption, TypeInv, Calls, Gated, Points, States, TaskStates,
           Verdicts, Awaiting, Resolved, Stale, hand, guard, owner, durable, gate, history
<1>1. ASSUME FreshTurn PROVE TypeInv'
  BY <1>1 DEF FreshTurn
<1>2. ASSUME EmitBatch PROVE TypeInv'
  BY <1>2 DEF EmitBatch, InBatch
<1>3. ASSUME Complete PROVE TypeInv'
  BY <1>3 DEF Complete, Rest, Forget
<1>4. ASSUME StartBatch PROVE TypeInv'
  BY <1>4 DEF StartBatch, Prefix, InBatch, Admissible
<1>5. ASSUME NEW c \in Calls, TaskStart(c) PROVE TypeInv'
  BY <1>5 DEF TaskStart, TasksAlive
<1>6. ASSUME NEW c \in Calls, TaskDone(c) PROVE TypeInv'
  <2>1. effects' \in [Calls -> Nat]
    BY <1>6 DEF TaskDone
  <2>2. UNCHANGED <<pc, batch, at, state, disk, target, verdict, begun, late>>
    BY <1>6 DEF TaskDone
  <2>3. task' \in [Calls -> TaskStates]
    BY <1>6 DEF TaskDone
  <2>. QED
    BY <2>1, <2>2, <2>3
<1>7. ASSUME NEW c \in Calls, TaskFails(c) PROVE TypeInv'
  BY <1>7 DEF TaskFails, TasksAlive
<1>8. ASSUME NEW c \in Calls, Take(c) PROVE TypeInv'
  BY <1>8 DEF Take, Outcome, Taken
<1>9. ASSUME NEW c \in Calls, TakeFailed(c) PROVE TypeInv'
  BY <1>9 DEF TakeFailed, Unwind, Outstanding
<1>10. ASSUME NEW c \in Calls, TaskCancelled(c) PROVE TypeInv'
  BY <1>10 DEF TaskCancelled
<1>11. ASSUME Harvest PROVE TypeInv'
  BY <1>11 DEF Harvest, Outcome, Harvested, Taken
<1>12. ASSUME NEW c \in Calls, AnswerInjected(c) PROVE TypeInv'
  BY <1>12 DEF AnswerInjected, Serving, Unresolved, InBatch, Answering, Resolve
<1>13. ASSUME NEW c \in Calls, Dismissed(c) PROVE TypeInv'
  BY <1>13 DEF Dismissed, Serving, Unresolved, InBatch, Answering, Resolve, Rejected
<1>14. ASSUME NEW c \in Calls, Suppressed(c) PROVE TypeInv'
  <2>1. ASSUME NEW s \in {"done", "denied"}, Resolve(c, s),
               UNCHANGED <<stopping, guard, owner, durable, gate, history>>
        PROVE  TypeInv'
    BY <2>1 DEF Resolve
  <2>. QED
    BY <1>14, <2>1 DEF Suppressed
<1>15. ASSUME NEW c \in Calls, Blocked(c) PROVE TypeInv'
  BY <1>15 DEF Blocked, Hand, Admitted, Serving, Unresolved, InBatch, Answering, Fresh
<1>16. ASSUME NEW c \in Calls, Malformed(c) PROVE TypeInv'
  BY <1>16 DEF Malformed, Resolve, Admitted, Serving, Unresolved, InBatch, Answering, Fresh
<1>17. ASSUME NEW c \in Calls, Confirmed(c) PROVE TypeInv'
  BY <1>17 DEF Confirmed, Answering, Admitted, Serving, Unresolved, InBatch, Fresh, Marked
<1>18. ASSUME NEW c \in Calls, Unasked(c) PROVE TypeInv'
  BY <1>18 DEF Unasked, Fresh, Hand, Admitted, Serving, Unresolved, InBatch, Answering
<1>19. ASSUME Flip PROVE TypeInv'
  BY <1>19 DEF Flip, Written
<1>20. ASSUME FlipFails PROVE TypeInv'
  BY <1>20 DEF FlipFails, Unwind, Outstanding
<1>21. ASSUME Begin PROVE TypeInv'
  BY <1>21 DEF Begin, Allowed, Approved
<1>22. ASSUME Ask PROVE TypeInv'
  BY <1>22 DEF Ask, NeedsConfirm, Allowed, Approved
<1>23. ASSUME DenyHeadless PROVE TypeInv'
  BY <1>23 DEF DenyHeadless, NeedsConfirm, Allowed, Approved
<1>asking. ASSUME Question PROVE TypeInv'
  BY <1>asking DEF Question
<1>cut. ASSUME HarvestCut PROVE TypeInv'
  BY <1>cut DEF HarvestCut, AllSettled
<1>24. ASSUME AnswerHeadless PROVE TypeInv'
  BY <1>24 DEF AnswerHeadless, Resolve
<1>25. ASSUME Effect PROVE TypeInv'
  BY <1>25 DEF Effect
<1>26. ASSUME Return PROVE TypeInv'
  BY <1>26 DEF Return
<1>27. ASSUME NEW c \in Calls, LateEffect(c) PROVE TypeInv'
  <2>1. effects' \in [Calls -> Nat]
    BY <1>27 DEF LateEffect
  <2>2. UNCHANGED <<pc, batch, at, state, disk, task, target, verdict, begun>>
    BY <1>27 DEF LateEffect
  <2>3. late' \subseteq Calls
    BY <1>27 DEF LateEffect
  <2>. QED
    BY <2>1, <2>2, <2>3
<1>28. ASSUME Audited PROVE TypeInv'
  BY <1>28 DEF Audited, Outcome, Resolve
<1>29. ASSUME AuditFails PROVE TypeInv'
  BY <1>29 DEF AuditFails, Unwind, Outstanding
<1>30. ASSUME Persisted PROVE TypeInv'
  BY <1>30 DEF Persisted, Commit, Written, Outstanding, Unresolved, InBatch, Unwind
<1>31. ASSUME PersistFails PROVE TypeInv'
  BY <1>31 DEF PersistFails, Unwind, Outstanding, EmittedUnwritten
<1>32. ASSUME Parked PROVE TypeInv'
  BY <1>32 DEF Parked, Commit, Written
<1>33. ASSUME ParkFails PROVE TypeInv'
  BY <1>33 DEF ParkFails, Unwind, Outstanding
<1>34. ASSUME Backstop PROVE TypeInv'
  BY <1>34 DEF Backstop, Written
<1>35. ASSUME BackstopFails PROVE TypeInv'
  BY <1>35 DEF BackstopFails, Written
<1>36. ASSUME Close PROVE TypeInv'
  BY <1>36 DEF Close, Rest, Forget
<1>37. ASSUME Reconcile PROVE TypeInv'
  BY <1>37 DEF Reconcile, Reconciled, InBatch, Rest, Forget
<1>38. ASSUME ReconcileFails PROVE TypeInv'
  BY <1>38 DEF ReconcileFails, Rest, Forget
<1>39. ASSUME Stop PROVE TypeInv'
  BY <1>39 DEF Stop, AtAwait
<1>40. ASSUME CancelLands PROVE TypeInv'
  BY <1>40 DEF CancelLands, Written, Unwind, Outstanding, Cancellable
<1>41. ASSUME CancelLandsOutside PROVE TypeInv'
  BY <1>41 DEF CancelLandsOutside
<1>42. ASSUME Crash PROVE TypeInv'
  BY <1>42 DEF Crash, Forget, AtAwait
<1>43. ASSUME Boot PROVE TypeInv'
  <2>1. ASSUME NEW d, d \in {disk, Reconciled(disk)}, Rest(d), pc = "boot",
               UNCHANGED <<gate, begun, effects, late, emitted, consented, finished, dropped>>
        PROVE  TypeInv'
    BY <2>1 DEF Rest, Forget, Reconciled
  <2>. QED
    BY <1>43, <2>1 DEF Boot
<1>44. ASSUME NEW c \in Calls, NEW v \in Verdicts, Resume(c,v) PROVE TypeInv'
  BY <1>44 DEF Resume
<1>45. ASSUME ResumeRefused PROVE TypeInv'
  BY <1>45 DEF ResumeRefused, Rest, Forget
<1>46. ASSUME RefusedByAllowlist PROVE TypeInv'
  BY <1>46 DEF RefusedByAllowlist
<1>47. ASSUME Grant PROVE TypeInv'
  BY <1>47 DEF Grant
<1>48. ASSUME Mint PROVE TypeInv'
  BY <1>48 DEF Mint, Outlived
<1>49. ASSUME Replied PROVE TypeInv'
  BY <1>49 DEF Replied, Outlived
<1>50. ASSUME NEW c \in Calls, TokenGone(c) PROVE TypeInv'
  BY <1>50 DEF TokenGone, AtAwait
<1>51. ASSUME CarryExpires PROVE TypeInv'
  BY <1>51 DEF CarryExpires, AtAwait
<1>52. ASSUME NEW c \in Calls, Withdraw(c) PROVE TypeInv'
  BY <1>52 DEF Withdraw, AtAwait
<1>. QED
  BY <1>asking, <1>cut, <1>1, <1>2, <1>3, <1>4, <1>5, <1>6, <1>7, <1>8, <1>9, <1>10, <1>11, <1>12,
     <1>13, <1>14,
     <1>15, <1>16, <1>17, <1>18, <1>19, <1>20, <1>21, <1>22, <1>23, <1>24, <1>25, <1>26, <1>27,
     <1>28, <1>29, <1>30, <1>31, <1>32, <1>33, <1>34, <1>35, <1>36, <1>37, <1>38, <1>39, <1>40,
     <1>41, <1>42, <1>43, <1>44, <1>45, <1>46, <1>47, <1>48, <1>49, <1>50, <1>51, <1>52
     DEF Next, Own, Serve, Environment

\* Every step keeps the account of what was let through and why.
LEMMA ConsentKept == ASSUME CallsAssumption, TypeInv, ConsentInv, Next PROVE ConsentInv'
<1>. USE CallsAssumption DEF CallsAssumption, TypeInv, Calls, Gated, Points, States, TaskStates,
           Verdicts, Awaiting, Resolved, Stale, hand, guard, owner, durable, gate, history, ConsentInv
<1>1. ASSUME FreshTurn PROVE ConsentInv'
  BY <1>1 DEF FreshTurn
<1>2. ASSUME EmitBatch PROVE ConsentInv'
  BY <1>2 DEF EmitBatch
<1>3. ASSUME Complete PROVE ConsentInv'
  BY <1>3 DEF Complete, Rest, Forget
<1>4. ASSUME StartBatch PROVE ConsentInv'
  <2>1. \A c \in Calls : task'[c] = "queued" => Kind[c] = "read"
    <3>1. CASE UNCHANGED task
      BY <3>1
    <3>2. CASE task' = [c \in Calls |-> IF c \in Prefix THEN "queued" ELSE "none"]
      <4>1. \A c \in Prefix : Kind[c] = "read"
        BY DEF Prefix, InBatch, Admissible
      <4>. QED
        BY <3>2, <4>1
    <3>. QED
      BY <1>4, <3>1, <3>2 DEF StartBatch
  <2>. QED
    BY <1>4, <2>1 DEF StartBatch
<1>5. ASSUME NEW c \in Calls, TaskStart(c) PROVE ConsentInv'
  BY <1>5 DEF TaskStart, TasksAlive
<1>6. ASSUME NEW c \in Calls, TaskDone(c) PROVE ConsentInv'
  BY <1>6 DEF TaskDone, TasksAlive
<1>7. ASSUME NEW c \in Calls, TaskFails(c) PROVE ConsentInv'
  BY <1>7 DEF TaskFails, TasksAlive
<1>8. ASSUME NEW c \in Calls, Take(c) PROVE ConsentInv'
  BY <1>8 DEF Take
<1>9. ASSUME NEW c \in Calls, TakeFailed(c) PROVE ConsentInv'
  BY <1>9 DEF TakeFailed, Unwind
<1>10. ASSUME NEW c \in Calls, TaskCancelled(c) PROVE ConsentInv'
  BY <1>10 DEF TaskCancelled
<1>11. ASSUME Harvest PROVE ConsentInv'
  BY <1>11 DEF Harvest
<1>12. ASSUME NEW c \in Calls, AnswerInjected(c) PROVE ConsentInv'
  BY <1>12 DEF AnswerInjected, Serving, Answering, Resolve
<1>13. ASSUME NEW c \in Calls, Dismissed(c) PROVE ConsentInv'
  BY <1>13 DEF Dismissed, Serving, Answering, Resolve, Rejected
<1>14. ASSUME NEW c \in Calls, Suppressed(c) PROVE ConsentInv'
  BY <1>14 DEF Suppressed, Serving, Fresh, Resolve
<1>15. ASSUME NEW c \in Calls, Blocked(c) PROVE ConsentInv'
  BY <1>15 DEF Blocked, Hand, Admitted, Serving, Answering, Fresh
<1>16. ASSUME NEW c \in Calls, Malformed(c) PROVE ConsentInv'
  BY <1>16 DEF Malformed, Resolve, Admitted, Serving, Answering, Fresh
<1>17. ASSUME NEW c \in Calls, Confirmed(c) PROVE ConsentInv'
  BY <1>17 DEF Confirmed, Answering, Admitted, Serving, Fresh, Marked
<1>18. ASSUME NEW c \in Calls, Unasked(c) PROVE ConsentInv'
  BY <1>18 DEF Unasked, Fresh, Hand, Admitted, Serving, Answering
<1>19. ASSUME Flip PROVE ConsentInv'
  BY <1>19 DEF Flip
<1>20. ASSUME FlipFails PROVE ConsentInv'
  BY <1>20 DEF FlipFails, Unwind
<1>21. ASSUME Begin PROVE ConsentInv'
  BY <1>21 DEF Begin, Allowed, Approved
<1>22. ASSUME Ask PROVE ConsentInv'
  BY <1>22 DEF Ask, NeedsConfirm, Allowed, Approved
<1>23. ASSUME DenyHeadless PROVE ConsentInv'
  BY <1>23 DEF DenyHeadless, NeedsConfirm, Allowed, Approved
<1>asking. ASSUME Question PROVE ConsentInv'
  BY <1>asking DEF Question
<1>cut. ASSUME HarvestCut PROVE ConsentInv'
  BY <1>cut DEF HarvestCut, AllSettled
<1>24. ASSUME AnswerHeadless PROVE ConsentInv'
  BY <1>24 DEF AnswerHeadless, Resolve
<1>25. ASSUME Effect PROVE ConsentInv'
  BY <1>25 DEF Effect
<1>26. ASSUME Return PROVE ConsentInv'
  BY <1>26 DEF Return
<1>27. ASSUME NEW c \in Calls, LateEffect(c) PROVE ConsentInv'
  BY <1>27 DEF LateEffect, AtAwait
<1>28. ASSUME Audited PROVE ConsentInv'
  BY <1>28 DEF Audited, Resolve
<1>29. ASSUME AuditFails PROVE ConsentInv'
  BY <1>29 DEF AuditFails, Unwind
<1>30. ASSUME Persisted PROVE ConsentInv'
  BY <1>30 DEF Persisted, Commit, Unwind
<1>31. ASSUME PersistFails PROVE ConsentInv'
  BY <1>31 DEF PersistFails, Unwind, EmittedUnwritten
<1>32. ASSUME Parked PROVE ConsentInv'
  BY <1>32 DEF Parked, Commit
<1>33. ASSUME ParkFails PROVE ConsentInv'
  BY <1>33 DEF ParkFails, Unwind
<1>34. ASSUME Backstop PROVE ConsentInv'
  BY <1>34 DEF Backstop
<1>35. ASSUME BackstopFails PROVE ConsentInv'
  BY <1>35 DEF BackstopFails
<1>36. ASSUME Close PROVE ConsentInv'
  BY <1>36 DEF Close, Rest, Forget
<1>37. ASSUME Reconcile PROVE ConsentInv'
  BY <1>37 DEF Reconcile, Rest, Forget
<1>38. ASSUME ReconcileFails PROVE ConsentInv'
  BY <1>38 DEF ReconcileFails, Rest, Forget
<1>39. ASSUME Stop PROVE ConsentInv'
  BY <1>39 DEF Stop, AtAwait
<1>40. ASSUME CancelLands PROVE ConsentInv'
  BY <1>40 DEF CancelLands, Unwind, Cancellable
<1>41. ASSUME CancelLandsOutside PROVE ConsentInv'
  BY <1>41 DEF CancelLandsOutside
<1>42. ASSUME Crash PROVE ConsentInv'
  BY <1>42 DEF Crash, Forget, AtAwait
<1>43. ASSUME Boot PROVE ConsentInv'
  BY <1>43 DEF Boot, Rest, Forget
<1>44. ASSUME NEW c \in Calls, NEW v \in Verdicts, Resume(c,v) PROVE ConsentInv'
  BY <1>44 DEF Resume
<1>45. ASSUME ResumeRefused PROVE ConsentInv'
  BY <1>45 DEF ResumeRefused, Rest, Forget
<1>46. ASSUME RefusedByAllowlist PROVE ConsentInv'
  BY <1>46 DEF RefusedByAllowlist
<1>47. ASSUME Grant PROVE ConsentInv'
  BY <1>47 DEF Grant
<1>48. ASSUME Mint PROVE ConsentInv'
  BY <1>48 DEF Mint, Outlived
<1>49. ASSUME Replied PROVE ConsentInv'
  BY <1>49 DEF Replied, Outlived
<1>50. ASSUME NEW c \in Calls, TokenGone(c) PROVE ConsentInv'
  BY <1>50 DEF TokenGone, AtAwait
<1>51. ASSUME CarryExpires PROVE ConsentInv'
  BY <1>51 DEF CarryExpires, AtAwait
<1>52. ASSUME NEW c \in Calls, Withdraw(c) PROVE ConsentInv'
  BY <1>52 DEF Withdraw, AtAwait
<1>. QED
  BY <1>asking, <1>cut, <1>1, <1>2, <1>3, <1>4, <1>5, <1>6, <1>7, <1>8, <1>9, <1>10, <1>11, <1>12,
     <1>13, <1>14,
     <1>15, <1>16, <1>17, <1>18, <1>19, <1>20, <1>21, <1>22, <1>23, <1>24, <1>25, <1>26, <1>27,
     <1>28, <1>29, <1>30, <1>31, <1>32, <1>33, <1>34, <1>35, <1>36, <1>37, <1>38, <1>39, <1>40,
     <1>41, <1>42, <1>43, <1>44, <1>45, <1>46, <1>47, <1>48, <1>49, <1>50, <1>51, <1>52
     DEF Next, Own, Serve, Environment

\* The invariant holds in every reachable state.
THEOREM ConsentInvariant == Spec => [](TypeInv /\ ConsentInv)
<1>1. Init => TypeInv /\ ConsentInv
  BY InitialConsent, CallsAssumption
<1>2. TypeInv /\ ConsentInv /\ [Next]_vars => (TypeInv /\ ConsentInv)'
  <2>. SUFFICES ASSUME TypeInv, ConsentInv, [Next]_vars PROVE (TypeInv /\ ConsentInv)'
    OBVIOUS
  <2>1. CASE Next
    BY <2>1, TypeKept, ConsentKept, CallsAssumption
  <2>2. CASE UNCHANGED vars
    BY <2>2 DEF TypeInv, ConsentInv, vars, hand, owner, durable, gate, history
  <2>. QED
    BY <2>1, <2>2
<1>. QED
  BY <1>1, <1>2, PTL DEF Spec

\* A gated tool does its work only where the owner answered that very call with
\* execute, or a rule for exactly its arguments stands: however many calls the
\* model makes, whatever is stopped, lost, redeemed or left running.
THEOREM ConsentedAlways == Spec => []ConsentedOnly
<1>1. TypeInv /\ ConsentInv => ConsentedOnly
  BY DEF ConsentInv, ConsentedOnly, Gated
<1>. QED
  BY <1>1, ConsentInvariant, PTL

-----------------------------------------------------------------------------
Closed == {"done", "denied"}

\* Where the drive is in the serial tail, and where a call of it is in hand.
Serial == {"tail", "flip", "invoke", "run", "ran", "audit", "asking", "park"}
AtCall == Serial \ {"tail"}

\* Where nothing in memory is unwritten, and where no batch is in hand.
Synced == {"idle", "boot", "resume", "model", "head", "prefix", "tail", "invoke", "run", "ran",
           "audit", "asking"}
Quiet == {"idle", "boot", "model"}

\* The parallel prefix is at work.
Busy == \E c \in Calls : task[c] \in {"queued", "running", "done", "failed"}
InPrefix == Busy \/ pc \in {"prefix", "harvest", "cut"}

(***************************************************************************)
(* What may be unwritten: only calls of the batch in hand, and in the flip *)
(* only the confirmed call.  A message's calls are opened together, and a  *)
(* call the database closed is not reopened in memory.                     *)
(***************************************************************************)
OthersWritten == \A c \in Calls : Batch[c] # batch => state[c] = disk[c]
OwnWritten == pc \in Synced => state = disk
FlipAlone == pc = "flip" => \A c \in Calls \ {at} : state[c] = disk[c]
NoBatch == pc \in Quiet => batch = 0
InHand == \A c \in InBatch(batch) : state[c] # "absent"
Opened(f) == \A c, d \in Calls : Batch[c] = Batch[d] /\ f[c] = "absent" => f[d] = "absent"
Kept == \A c \in Calls : /\ disk[c] \in Resolved => state[c] \in Resolved
                         /\ disk[c] = "absent" <=> state[c] = "absent"
WriteInv ==
    /\ OthersWritten /\ OwnWritten /\ FlipAlone /\ NoBatch /\ InHand
    /\ Opened(state) /\ Opened(disk) /\ Kept

(***************************************************************************)
(* The tail serves the calls of its message in order: a call that waits    *)
(* for the owner has only resolved calls before it and only untouched ones *)
(* after it, and so has the call the drive is at.                          *)
(***************************************************************************)
Waits(f) == \A c, d \in Calls :
    Batch[c] = Batch[d] /\ f[c] \in Awaiting =>
        (d < c => f[d] \in Resolved) /\ (c < d => f[d] = "pending")
OneByOne == \A c, d \in InBatch(batch) :
    c < d /\ state[c] \notin Resolved => state[d] = "pending"
TailInOrder == pc \in Serial \/ (pc = "persist" /\ ~Busy) => OneByOne
AtIsNext == pc \in AtCall =>
    /\ at \in InBatch(batch)
    /\ \A d \in InBatch(batch) : d < at => state[d] \in Resolved
    /\ state[at] \notin Resolved
HeadPending == pc = "head" =>
    /\ \A c \in InBatch(batch) : state[c] = "pending"
    /\ \A c \in Calls : task[c] = "none"
AtResume == pc = "resume" =>
    target \in InBatch(batch) /\ disk[target] \in Awaiting /\ verdict # "none"
Unanswered == pc \in {"tail", "persist"} => \A c \in InBatch(batch) :
    state[c] \in Awaiting => c = target \/ c \in blocked
Ready == pc \in {"flip", "invoke", "run", "ran", "asking"} => state[at] \in Stale
OrderInv ==
    /\ Waits(state) /\ Waits(disk)
    /\ TailInOrder /\ AtIsNext /\ HeadPending /\ AtResume /\ Unanswered /\ Ready

(***************************************************************************)
(* The prefix: its tasks are leading calls of the batch in hand, each      *)
(* pending until it is taken; none was begun before its task started, and  *)
(* a task that failed began nothing.                                       *)
(***************************************************************************)
PrefixOwn == \A c \in Calls : task[c] # "none" => Batch[c] = batch
PrefixLeads == pc \notin {"harvest", "cut"} => \A c, d \in Calls :
    task[c] # "none" /\ Batch[d] = batch /\ d < c => task[d] # "none"
PrefixPlace == Busy => pc \in {"prefix", "persist", "harvest", "cut"}
PrefixStates == InPrefix => \A c \in InBatch(batch) :
    IF task[c] = "taken" THEN state[c] \in Closed
    ELSE state[c] = "pending" /\ disk[c] = "pending"
PrefixUnasked == InPrefix => \A c \in InBatch(batch) : disk[c] \notin Awaiting
TakenStays == \A c \in Calls : task[c] = "taken" => state[c] \in Closed
TasksBegun == \A c \in Calls :
    /\ task[c] \in {"queued", "failed"} => c \notin begun
    /\ task[c] = "running" => effects[c] = 0
BegunTasks == InPrefix /\ pc \notin {"harvest", "cut"} =>
    \A c \in begun \cap InBatch(batch) : task[c] \in {"running", "done", "taken"}
PrefixInv ==
    /\ PrefixOwn /\ PrefixLeads /\ PrefixPlace /\ PrefixStates /\ PrefixUnasked
    /\ TakenStays /\ TasksBegun /\ BegunTasks

(***************************************************************************)
(* A call that was let through: until it is resolved no call of its        *)
(* message waits for the owner, in memory or in the database; in the tail  *)
(* it is the call in hand; it takes effect once, and late only once.       *)
(***************************************************************************)
NoneAsked(f) == \A c \in begun, d \in Calls :
    Batch[c] = Batch[d] /\ f[c] \notin Resolved => f[d] \notin Awaiting
UnaskedInv == NoneAsked(state) /\ NoneAsked(disk)
BegunResolved == pc \in Serial \cup {"head"} \/ (pc = "persist" /\ ~Busy) =>
    \A c \in begun \cap InBatch(batch) :
        state[c] \in Resolved \/ (c = at /\ pc \in {"run", "ran", "audit"})
BegunOpened == \A c \in begun : state[c] # "absent"
Once == /\ \A c \in Calls : effects[c] \in {0, 1}
        /\ pc = "run" => effects[at] = 0 /\ at \notin late
        /\ \A c \in late : effects[c] = 0 /\ task[c] \notin {"queued", "running"}
OnceInv == BegunResolved /\ BegunOpened /\ Once
BegunInv == UnaskedInv /\ OnceInv

StateInv == WriteInv /\ OrderInv /\ PrefixInv /\ BegunInv

-----------------------------------------------------------------------------
\* A set of calls is finite, and a subset of the same size is the set itself.
LEMMA CallsFinite == ASSUME CallsAssumption, NEW S \in SUBSET Calls
  PROVE /\ IsFiniteSet(S) /\ Cardinality(S) \in Nat
        /\ \A T \in SUBSET S : /\ Cardinality(T) <= Cardinality(S) /\ Cardinality(T) \in Nat
                               /\ Cardinality(S) = Cardinality(T) => S = T
<1>1. IsFiniteSet(Calls)
  BY FS_Interval DEF CallsAssumption, Calls
<1>2. IsFiniteSet(S)
  BY <1>1, FS_Subset
<1>. QED
  BY <1>2, FS_Subset, FS_CardinalityType

\* A finite set of calls can be put in the model's order, and then holds the same calls.
LEMMA ModelOrder == ASSUME CallsAssumption, NEW S \in SUBSET Calls
  PROVE /\ InModelOrder(S) \in Seq(Calls) /\ ToSet(InModelOrder(S)) = S
        /\ \A i, j \in DOMAIN InModelOrder(S) : i < j => InModelOrder(S)[i] < InModelOrder(S)[j]
<1>. DEFINE n == Cardinality(S)
            upto(c) == {d \in S : d <= c}
            rank == [c \in S |-> Cardinality(upto(c))]
            order(q) == \A i, j \in DOMAIN q : i < j => q[i] < q[j]
<1>1. n \in Nat /\ IsFiniteSet(S) /\ \A c \in S : c \in Nat
  BY CallsFinite DEF CallsAssumption, Calls
<1>2. \A c \in S : Cardinality(upto(c)) \in 1 .. n
  <2>. SUFFICES ASSUME NEW c \in S PROVE Cardinality(upto(c)) \in 1 .. n
    OBVIOUS
  <2>1. upto(c) \in SUBSET S /\ c \in upto(c)
    BY <1>1
  <2>2. IsFiniteSet(upto(c)) /\ Cardinality(upto(c)) \in Nat /\ Cardinality(upto(c)) <= n
    BY <2>1, CallsFinite, <1>1
  <2>3. Cardinality(upto(c)) # 0
    BY <2>1, <2>2, FS_EmptySet
  <2>. QED
    BY <2>2, <2>3, <1>1
<1>3. \A c, d \in S : c < d => Cardinality(upto(c)) < Cardinality(upto(d))
  <2>. SUFFICES ASSUME NEW c \in S, NEW d \in S, c < d
                PROVE  Cardinality(upto(c)) < Cardinality(upto(d))
    OBVIOUS
  <2>1. upto(c) \in SUBSET upto(d) /\ d \in upto(d) /\ d \notin upto(c) /\ upto(d) \in SUBSET Calls
    BY <1>1
  <2>2. Cardinality(upto(c)) <= Cardinality(upto(d)) /\ Cardinality(upto(c)) # Cardinality(upto(d))
        /\ Cardinality(upto(c)) \in Nat /\ Cardinality(upto(d)) \in Nat
    BY <2>1, CallsFinite
  <2>. QED
    BY <2>2
<1>. HIDE DEF upto
<1>4. rank \in [S -> 1 .. n] /\ \A c, d \in S : rank[c] = rank[d] => c = d
  BY <1>1, <1>2, <1>3
<1>5. rank \in Surjection(S, 1 .. n)
  <2>1. rank \in Injection(S, 1 .. n)
    BY <1>4 DEF Injection, IsInjective
  <2>2. IsFiniteSet(1 .. n) /\ Cardinality(1 .. n) = n
    BY <1>1, FS_Interval
  <2>. QED
    BY <2>1, <2>2, FS_Injection
<1>6. PICK q \in [1 .. n -> S] : order(q)
  <2>. DEFINE p == [i \in 1 .. n |-> CHOOSE c \in S : rank[c] = i]
  <2>1. \A i \in 1 .. n : p[i] \in S /\ rank[p[i]] = i
    BY <1>5 DEF Surjection
  <2>2. \A i, j \in 1 .. n : i < j => p[i] < p[j]
    <3>. SUFFICES ASSUME NEW i \in 1 .. n, NEW j \in 1 .. n, i < j PROVE p[i] < p[j]
      OBVIOUS
    <3>1. p[i] \in S /\ p[j] \in S /\ rank[p[i]] = i /\ rank[p[j]] = j
      BY <2>1
    <3>. HIDE DEF p
    <3>2. p[j] < p[i] => rank[p[j]] < rank[p[i]]
      BY <3>1, <1>3
    <3>. QED
      BY <3>1, <3>2, <1>1
  <2>. HIDE DEF p
  <2>3. p \in [1 .. n -> S]
    BY <2>1 DEF p
  <2>. QED
    BY <2>2, <2>3
<1>. DEFINE m == InModelOrder(S)
<1>7. m \in [1 .. n -> S] /\ order(m)
  BY <1>6 DEF InModelOrder
<1>. HIDE DEF m, rank
<1>8. m \in Surjection(1 .. n, S)
  <2>1. \A i, j \in 1 .. n : m[i] = m[j] => i = j
    <3>. SUFFICES ASSUME NEW i \in 1 .. n, NEW j \in 1 .. n, m[i] = m[j], i # j PROVE FALSE
      OBVIOUS
    <3>1. i \in DOMAIN m /\ j \in DOMAIN m /\ m[i] \in Nat /\ m[j] \in Nat
      BY <1>7, <1>1
    <3>2. CASE i < j
      BY <3>1, <3>2, <1>7
    <3>3. CASE j < i
      BY <3>1, <3>3, <1>7
    <3>. QED
      BY <3>2, <3>3, <1>1
  <2>2. m \in Injection(1 .. n, S)
    BY <1>7, <2>1 DEF Injection, IsInjective
  <2>3. Cardinality(1 .. n) = Cardinality(S)
    BY <1>1, FS_Interval
  <2>. QED
    BY <2>2, <2>3, <1>1, FS_Injection
<1>9. m \in Seq(Calls)
  BY SMTT(30), <1>7, <1>1, SeqDef
<1>10. ToSet(m) = S
  BY <1>7, <1>8 DEF ToSet, Surjection
<1>. QED
  BY <1>7, <1>9, <1>10 DEF m

\* What an update of the message writes is what memory holds.
LEMMA WrittenIsState ==
  ASSUME CallsAssumption, TypeInv, OthersWritten
  PROVE  Written = state
  BY DEF CallsAssumption, TypeInv, OthersWritten, Written

\* Moving one call, the first unresolved of its message, keeps the order of a message that waits.
LEMMA WaitsSet ==
  ASSUME CallsAssumption, NEW f \in [Calls -> States], Waits(f), NEW c \in Calls, NEW s \in States,
         f[c] \notin Resolved, \A d \in InBatch(Batch[c]) : d < c => f[d] \in Resolved,
         s \notin Awaiting \/ \A d \in InBatch(Batch[c]) : c < d => f[d] = "pending"
  PROVE  Waits([f EXCEPT ![c] = s])
<1>. DEFINE g == [f EXCEPT ![c] = s]
<1>. SUFFICES ASSUME NEW e \in Calls, NEW d \in Calls, Batch[e] = Batch[d], g[e] \in Awaiting
              PROVE  (d < e => g[d] \in Resolved) /\ (e < d => g[d] = "pending")
  BY DEF Waits
<1>1. CASE e = c
  BY <1>1 DEF CallsAssumption, Calls, InBatch
<1>2. CASE e # c /\ Batch[e] = Batch[c]
  <2>1. f[e] \in Awaiting /\ f[e] \notin Resolved
    BY <1>2 DEF Awaiting, Resolved
  <2>2. ~(e < c) /\ ~(c < e)
    BY <1>2, <2>1 DEF Waits, InBatch
  <2>. QED
    BY <1>2, <2>2 DEF CallsAssumption, Calls
<1>3. CASE Batch[e] # Batch[c]
  BY <1>3 DEF Waits
<1>. QED
  BY <1>1, <1>2, <1>3

\* Whether messages are opened whole depends only on which calls are absent.
LEMMA OpenedSame ==
  ASSUME NEW f, NEW g, Opened(f), \A c \in Calls : g[c] = "absent" <=> f[c] = "absent"
  PROVE  Opened(g)
  BY DEF Opened

\* reconcile_stale_calls leaves closed and suspended calls, and every call of a suspended message.
LEMMA ReconciledKeeps ==
  ASSUME CallsAssumption, NEW d \in [Calls -> States]
  PROVE  /\ Reconciled(d) \in [Calls -> States]
         /\ \A c \in Calls :
               /\ Reconciled(d)[c] = "absent" <=> d[c] = "absent"
               /\ Reconciled(d)[c] \in Awaiting <=> d[c] \in Awaiting
               /\ d[c] \in Resolved => Reconciled(d)[c] = d[c]
               /\ Reconciled(d)[c] \in Closed <=> d[c] \in Closed
               /\ (\E s \in InBatch(Batch[c]) : d[s] \in Awaiting) => Reconciled(d)[c] = d[c]
               /\ (\A s \in InBatch(Batch[c]) : d[s] \notin Awaiting) =>
                     Reconciled(d)[c] \in Resolved \cup {"absent"}
<1>1. Reconciled(d) \in [Calls -> States]
  BY DEF Reconciled, States, Resolved
<1>. SUFFICES ASSUME NEW c \in Calls PROVE
               /\ Reconciled(d)[c] = "absent" <=> d[c] = "absent"
               /\ Reconciled(d)[c] \in Awaiting <=> d[c] \in Awaiting
               /\ d[c] \in Resolved => Reconciled(d)[c] = d[c]
               /\ Reconciled(d)[c] \in Closed <=> d[c] \in Closed
               /\ (\E s \in InBatch(Batch[c]) : d[s] \in Awaiting) => Reconciled(d)[c] = d[c]
               /\ (\A s \in InBatch(Batch[c]) : d[s] \notin Awaiting) =>
                     Reconciled(d)[c] \in Resolved \cup {"absent"}
  BY <1>1
<1>2. d[c] \in States /\ c \in InBatch(Batch[c])
  BY DEF InBatch
<1>3. CASE d[c] \in Stale /\ \A s \in InBatch(Batch[c]) : d[s] \notin Awaiting
  BY <1>3 DEF Reconciled, Stale, Awaiting, Resolved, Closed
<1>4. CASE ~(d[c] \in Stale /\ \A s \in InBatch(Batch[c]) : d[s] \notin Awaiting)
  <2>1. Reconciled(d)[c] = d[c]
    BY <1>4 DEF Reconciled
  <2>. QED
    BY <2>1, <1>2, <1>4 DEF States, Stale
<1>. QED
  BY <1>3, <1>4

\* A message that waits for the owner still does so in order after the reconcile.
LEMMA ReconciledWaits ==
  ASSUME CallsAssumption, NEW d \in [Calls -> States], Waits(d) PROVE Waits(Reconciled(d))
<1>. SUFFICES ASSUME NEW e \in Calls, NEW c \in Calls, Batch[e] = Batch[c], Reconciled(d)[e] \in Awaiting
              PROVE  (c < e => Reconciled(d)[c] \in Resolved) /\ (e < c => Reconciled(d)[c] = "pending")
  BY DEF Waits
<1>1. d[e] \in Awaiting /\ e \in InBatch(Batch[c])
  BY ReconciledKeeps DEF InBatch
<1>2. Reconciled(d)[c] = d[c]
  BY <1>1, ReconciledKeeps
<1>. QED
  BY <1>1, <1>2 DEF Waits

\* _classify_batch takes a leading segment of the batch.
LEMMA PrefixSegment ==
  ASSUME CallsAssumption
  PROVE  /\ Prefix \subseteq InBatch(batch)
         /\ \A c \in Prefix, d \in InBatch(batch) : d <= c => d \in Prefix
<1>1. \A c \in Prefix, d \in InBatch(batch), e \in InBatch(batch) : d <= c /\ e <= d => Admissible(e)
  BY DEF CallsAssumption, Prefix, InBatch, Calls
<1>. QED
  BY <1>1 DEF Prefix

\* The prefix has tasks left exactly while one of its calls is queued, running, done or failed.
LEMMA OutstandingTasks == Outstanding # {} <=> Busy
  BY DEF Outstanding, Busy

-----------------------------------------------------------------------------
\* The call the drive is at: the first of its batch that is not resolved.
UpNext(c) ==
    /\ pc \in Serial
    /\ c \in InBatch(batch) /\ state[c] \notin Resolved
    /\ \A d \in InBatch(batch) : d < c => state[d] \in Resolved

\* What the six ways to resolve a call without parking have in common.
Resolving(c, s) ==
    /\ UpNext(c) /\ s \in Closed
    /\ Resolve(c, s)
    /\ c \in begun => s = "done"
    /\ finished' \in {finished, finished \cup {c}}
    /\ UNCHANGED <<owner, durable, gate, begun, effects, late, emitted, consented, dropped, torn>>

\* The call is put to the owner.
Parking(c, s) ==
    /\ UpNext(c) /\ c = at /\ pc \in {"invoke", "asking"} /\ state[c] \in Stale
    /\ s \in Awaiting
    /\ state' = [state EXCEPT ![c] = s]
    /\ pc' = "park"
    /\ UNCHANGED <<batch, at, parts, row, task, ending, stopping, guard, owner, durable, gate, history>>

\* The tail serves the first unresolved call of its batch.
LEMMA ServedIsNext == ASSUME CallsAssumption, NEW c \in Calls, Serving(c) PROVE UpNext(c)
  BY DEF CallsAssumption, Calls, Serving, Unresolved, UpNext, InBatch, Serial

\* The call in hand is the first unresolved call of its batch.
LEMMA AtCallIsNext == ASSUME OrderInv, pc \in AtCall PROVE UpNext(at)
  BY DEF OrderInv, AtIsNext, UpNext, AtCall

\* The tail never serves a call that was let through before.
LEMMA ServedUnbegun ==
  ASSUME CallsAssumption, TypeInv, OrderInv, BegunInv, NEW c \in Calls, Serving(c) PROVE c \notin begun
<1>. SUFFICES ASSUME c \in begun PROVE FALSE
  OBVIOUS
<1>1. pc = "tail" /\ c \in InBatch(batch) /\ state[c] \notin Resolved
  BY DEF Serving, Unresolved
<1>. QED
  BY <1>1 DEF BegunInv, OnceInv, BegunResolved, Serial

\* Each of the six ways to close a call in the tail is a Resolving step.
LEMMA AnswerInjectedResolves ==
  ASSUME CallsAssumption, TypeInv, OrderInv, BegunInv, NEW c \in Calls, AnswerInjected(c)
  PROVE  \E s \in Closed : Resolving(c, s)
<1>1. Serving(c)
  BY DEF AnswerInjected, Admitted
<1>2. Resolving(c, "done")
  BY <1>1, ServedIsNext, ServedUnbegun DEF AnswerInjected, Resolving, Closed, hand, guard, owner,
     durable, gate, history
<1>. QED
  BY <1>2 DEF Closed

\* So is the owner's rejection.
LEMMA DismissedResolves ==
  ASSUME CallsAssumption, TypeInv, OrderInv, BegunInv, NEW c \in Calls, Dismissed(c)
  PROVE  \E s \in Closed : Resolving(c, s)
<1>1. Serving(c)
  BY DEF Dismissed, Admitted
<1>2. Resolving(c, "denied")
  BY <1>1, ServedIsNext, ServedUnbegun DEF Dismissed, Resolving, Closed, hand, guard, owner,
     durable, gate, history
<1>. QED
  BY <1>2 DEF Closed

\* So is the refusal of arguments that did not parse.
LEMMA MalformedResolves ==
  ASSUME CallsAssumption, TypeInv, OrderInv, BegunInv, NEW c \in Calls, Malformed(c)
  PROVE  \E s \in Closed : Resolving(c, s)
<1>1. Serving(c)
  BY DEF Malformed, Admitted
<1>2. Resolving(c, "done")
  BY <1>1, ServedIsNext, ServedUnbegun DEF Malformed, Resolving, Closed, hand, guard, owner,
     durable, gate, history
<1>. QED
  BY <1>2 DEF Closed

\* So is a denial echo or a cap.
LEMMA SuppressedResolves ==
  ASSUME CallsAssumption, TypeInv, OrderInv, BegunInv, NEW c \in Calls, Suppressed(c)
  PROVE  \E s \in Closed : Resolving(c, s)
<1>1. Serving(c)
  BY DEF Suppressed
<1>2. PICK s \in Closed : Resolve(c, s)
  BY DEF Suppressed, Closed
<1>. QED
  BY <1>1, <1>2, ServedIsNext, ServedUnbegun DEF Suppressed, Resolving, hand, guard, owner,
     durable, gate, history

\* So is question_policy's answer.
LEMMA AnswerHeadlessResolves ==
  ASSUME CallsAssumption, TypeInv, OrderInv, BegunInv, AnswerHeadless
  PROVE  at \in Calls /\ \E s \in Closed : Resolving(at, s)
<1>1. UpNext(at) /\ at \in Calls
  BY AtCallIsNext DEF AnswerHeadless, AtCall, Serial, UpNext, InBatch
<1>2. PICK s \in Closed : Resolve(at, s)
  BY DEF AnswerHeadless, Closed
<1>3. at \notin begun
  BY <1>1 DEF BegunInv, OnceInv, BegunResolved, AnswerHeadless, Serial, UpNext
<1>. QED
  BY <1>1, <1>2, <1>3 DEF AnswerHeadless, Resolving, hand, guard, owner, durable, gate, history

\* So is the result of a run or a refusal, once its Event row is written.
LEMMA AuditedResolves ==
  ASSUME CallsAssumption, TypeInv, OrderInv, Audited
  PROVE  at \in Calls /\ \E s \in Closed : Resolving(at, s)
<1>1. UpNext(at) /\ at \in Calls
  BY AtCallIsNext DEF Audited, AtCall, Serial, UpNext, InBatch
<1>2. Outcome(at) \in Closed /\ Resolve(at, Outcome(at)) /\ (at \in begun => Outcome(at) = "done")
  BY DEF Audited, Outcome, Closed
<1>. QED
  BY <1>1, <1>2 DEF Audited, Resolving, hand, guard, owner, durable, gate, history

\* A confirm or a question is a Parking step.
LEMMA AskParks == ASSUME CallsAssumption, TypeInv, OrderInv, Ask
                  PROVE  at \in Calls /\ \E s \in Awaiting : Parking(at, s)
<1>1. pc \in {"invoke", "asking"}
  BY DEF Ask, NeedsConfirm
<1>2. UpNext(at) /\ at \in Calls /\ state[at] \in Stale
  BY <1>1, AtCallIsNext DEF AtCall, Serial, UpNext, InBatch, OrderInv, Ready
<1>3. PICK s \in Awaiting : state' = [state EXCEPT ![at] = s]
  BY DEF Ask, Awaiting
<1>. QED
  BY <1>1, <1>2, <1>3 DEF Ask, Parking, hand, guard, owner, durable, gate, history

\* While the drive is at a call, no other call of its batch waits for the owner.
LEMMA NextAlone ==
  ASSUME CallsAssumption, OrderInv
  PROVE  \A c \in Calls : UpNext(c) => \A e \in InBatch(batch) : e # c => state[e] \notin Awaiting
<1>. SUFFICES ASSUME NEW c \in Calls, UpNext(c), NEW e \in InBatch(batch), e # c, state[e] \in Awaiting
              PROVE  FALSE
  OBVIOUS
<1>1. e \in Calls /\ Batch[e] = Batch[c] /\ state[c] \notin Resolved /\ (e < c => state[e] \in Resolved)
  BY DEF UpNext, InBatch
<1>2. c < e => state[c] \in Resolved
  BY <1>1 DEF OrderInv, Waits
<1>3. c < e \/ e < c
  BY <1>1 DEF CallsAssumption, Calls
<1>. QED
  BY <1>1, <1>2, <1>3 DEF Awaiting, Resolved

-----------------------------------------------------------------------------
\* Every step keeps what may be unwritten.
LEMMA WriteKept ==
  ASSUME CallsAssumption, TypeInv, ConsentInv, WriteInv, OrderInv, PrefixInv, BegunInv, Next
  PROVE  WriteInv'
<1>l. Outstanding # {} <=> Busy
  BY OutstandingTasks
<1>w. Written = state
  BY WrittenIsState DEF WriteInv
<1>d. Opened(Reconciled(disk)) /\ \A c \in Calls : Reconciled(disk)[c] = "absent" <=> disk[c] = "absent"
  <2>1. \A c \in Calls : Reconciled(disk)[c] = "absent" <=> disk[c] = "absent"
    BY ReconciledKeeps DEF TypeInv
  <2>. QED
    BY <2>1, OpenedSame DEF WriteInv
<1>s. ASSUME NEW c \in Calls, NEW s \in States \ {"absent"}, state[c] # "absent", state' = [state EXCEPT ![c] = s]
      PROVE  Opened(state)'
  <2>1. \A d \in Calls : state'[d] = "absent" <=> state[d] = "absent"
    BY <1>s DEF TypeInv
  <2>. QED
    BY <2>1, OpenedSame DEF WriteInv
<1>v. ASSUME UNCHANGED <<pc, batch, at, state, disk>> PROVE WriteInv'
  BY <1>v DEF WriteInv, OthersWritten, OwnWritten, FlipAlone, NoBatch, InHand, Opened, Kept, InBatch
<1>. USE CallsAssumption DEF CallsAssumption, TypeInv, Calls, Points, States, TaskStates,
           Verdicts, Awaiting, Resolved, Stale, hand, guard, owner, durable, gate, history,
           InBatch, Closed, Serial, AtCall, Synced, InPrefix, Quiet, Busy, WriteInv,
           OthersWritten, OwnWritten, FlipAlone, NoBatch, InHand, Opened, Kept, PrefixInv,
           PrefixPlace, PrefixOwn, PrefixStates, OrderInv, AtIsNext, AtResume
<1>1. ASSUME NEW c \in Calls, NEW s \in Closed, Resolving(c, s) PROVE WriteInv'
  <2>1. OwnWritten' /\ FlipAlone' /\ NoBatch' /\ Opened(disk)'
    BY <1>1, <1>s DEF Resolving, UpNext, Resolve
  <2>2. OthersWritten'
    BY <1>1, <1>s DEF Resolving, UpNext, Resolve
  <2>3. InHand'
    BY <1>1, <1>s DEF Resolving, UpNext, Resolve
  <2>4. Opened(state)'
    BY SMTT(30), <1>1, <1>s DEF Resolving, UpNext, Resolve
  <2>5. Kept'
    BY SMTT(30), <1>1, <1>s DEF Resolving, UpNext, Resolve
  <2>. QED
    BY <2>1, <2>2, <2>3, <2>4, <2>5
<1>2. ASSUME NEW c \in Calls, NEW s \in Awaiting, Parking(c, s) PROVE WriteInv'
  <2>1. OwnWritten' /\ FlipAlone' /\ NoBatch' /\ Opened(disk)'
    BY <1>2, <1>s DEF Parking, UpNext
  <2>2. OthersWritten'
    BY <1>2, <1>s DEF Parking, UpNext
  <2>3. InHand'
    BY <1>2, <1>s DEF Parking, UpNext
  <2>4. Opened(state)'
    BY <1>2, <1>s DEF Parking, UpNext
  <2>5. Kept'
    BY SMTT(30), <1>2, <1>s DEF Parking, UpNext
  <2>. QED
    BY <2>1, <2>2, <2>3, <2>4, <2>5
<1>3. ASSUME FreshTurn PROVE WriteInv'
  BY <1>3 DEF FreshTurn
<1>4. ASSUME EmitBatch PROVE WriteInv'
  BY <1>4 DEF EmitBatch
<1>5. ASSUME Complete PROVE WriteInv'
  BY <1>5 DEF Complete, Rest, Forget
<1>6. ASSUME StartBatch PROVE WriteInv'
  BY <1>6 DEF StartBatch
<1>7. ASSUME NEW c \in Calls, TaskStart(c) PROVE WriteInv'
  <2>1. UNCHANGED <<pc, batch, at, state, disk>>
    BY <1>7 DEF TaskStart
  <2>. QED
    BY <2>1, <1>v
<1>8. ASSUME NEW c \in Calls, TaskDone(c) PROVE WriteInv'
  <2>1. UNCHANGED <<pc, batch, at, state, disk>>
    BY <1>8 DEF TaskDone
  <2>. QED
    BY <2>1, <1>v
<1>9. ASSUME NEW c \in Calls, TaskFails(c) PROVE WriteInv'
  <2>1. UNCHANGED <<pc, batch, at, state, disk>>
    BY <1>9 DEF TaskFails
  <2>. QED
    BY <2>1, <1>v
<1>10. ASSUME NEW c \in Calls, Take(c) PROVE WriteInv'
  <2>1. OthersWritten' /\ OwnWritten' /\ FlipAlone' /\ NoBatch' /\ InHand' /\ Opened(disk)'
    BY <1>10, <1>s DEF Take, Outcome, Taken
  <2>2. Opened(state)'
    BY <1>10, <1>s DEF Take, Outcome, Taken
  <2>3. Kept'
    BY <1>10, <1>s DEF Take, Outcome, Taken
  <2>. QED
    BY <2>1, <2>2, <2>3
<1>11. ASSUME NEW c \in Calls, TakeFailed(c) PROVE WriteInv'
  BY <1>11, <1>l DEF TakeFailed, Unwind
<1>12. ASSUME NEW c \in Calls, TaskCancelled(c) PROVE WriteInv'
  <2>1. UNCHANGED <<pc, batch, at, state, disk>>
    BY <1>12 DEF TaskCancelled
  <2>. QED
    BY <2>1, <1>v
<1>13. ASSUME Harvest PROVE WriteInv'
  BY <1>13 DEF Harvest, Outcome, Harvested, Taken
<1>14. ASSUME NEW c \in Calls, Blocked(c) PROVE WriteInv'
  BY <1>14 DEF Blocked, Hand, Admitted, Serving, Unresolved, Answering, Fresh
<1>15. ASSUME NEW c \in Calls, Confirmed(c) PROVE WriteInv'
  <2>1. OwnWritten' /\ FlipAlone' /\ NoBatch' /\ InHand' /\ Opened(disk)'
    BY <1>15, <1>s DEF Confirmed, Answering, Admitted, Serving, Unresolved, Fresh, Marked
  <2>2. OthersWritten'
    BY <1>15, <1>s DEF Confirmed, Answering, Admitted, Serving, Unresolved, Fresh, Marked
  <2>3. Opened(state)'
    BY <1>15, <1>s DEF Confirmed, Answering, Admitted, Serving, Unresolved, Fresh, Marked
  <2>4. Kept'
    BY <1>15, <1>s DEF Confirmed, Answering, Admitted, Serving, Unresolved, Fresh, Marked
  <2>. QED
    BY <2>1, <2>2, <2>3, <2>4
<1>16. ASSUME NEW c \in Calls, Unasked(c) PROVE WriteInv'
  BY <1>16 DEF Unasked, Fresh, Hand, Admitted, Serving, Unresolved, Answering
<1>17. ASSUME Flip PROVE WriteInv'
  BY <1>17, <1>w DEF Flip
<1>18. ASSUME FlipFails PROVE WriteInv'
  BY <1>18, <1>l DEF FlipFails, Unwind
<1>19. ASSUME Begin PROVE WriteInv'
  BY <1>19 DEF Begin, Allowed, Approved
<1>20. ASSUME DenyHeadless PROVE WriteInv'
  BY <1>20 DEF DenyHeadless, NeedsConfirm, Allowed, Approved
<1>asking. ASSUME Question PROVE WriteInv'
  BY <1>asking DEF Question
<1>cut. ASSUME HarvestCut PROVE WriteInv'
  BY <1>cut DEF HarvestCut, AllSettled
<1>21. ASSUME Effect PROVE WriteInv'
  BY <1>21 DEF Effect
<1>22. ASSUME Return PROVE WriteInv'
  BY <1>22 DEF Return
<1>23. ASSUME NEW c \in Calls, LateEffect(c) PROVE WriteInv'
  <2>1. UNCHANGED <<pc, batch, at, state, disk>>
    BY <1>23 DEF LateEffect
  <2>. QED
    BY <2>1, <1>v
<1>24. ASSUME AuditFails PROVE WriteInv'
  BY <1>24, <1>l DEF AuditFails, Unwind
<1>25. ASSUME Persisted PROVE WriteInv'
  BY SMTT(30), <1>25, <1>w, <1>l DEF Persisted, Commit, Unresolved, Unwind
<1>26. ASSUME PersistFails PROVE WriteInv'
  BY <1>26, <1>l DEF PersistFails, Unwind, EmittedUnwritten
<1>27. ASSUME Parked PROVE WriteInv'
  BY <1>27, <1>w DEF Parked, Commit
<1>28. ASSUME ParkFails PROVE WriteInv'
  BY <1>28, <1>l DEF ParkFails, Unwind
<1>29. ASSUME Backstop PROVE WriteInv'
  BY <1>29, <1>w DEF Backstop
<1>30. ASSUME BackstopFails PROVE WriteInv'
  BY <1>30, <1>w DEF BackstopFails
<1>31. ASSUME Close PROVE WriteInv'
  BY <1>31 DEF Close, Rest, Forget
<1>32. ASSUME Reconcile PROVE WriteInv'
  BY <1>32, <1>d DEF Reconcile, Rest, Forget
<1>33. ASSUME ReconcileFails PROVE WriteInv'
  BY <1>33 DEF ReconcileFails, Rest, Forget
<1>34. ASSUME Stop PROVE WriteInv'
  BY <1>34 DEF Stop, AtAwait
<1>35. ASSUME CancelLands PROVE WriteInv'
  <2>1. OthersWritten' /\ FlipAlone' /\ NoBatch' /\ InHand' /\ Opened(state)'
    BY <1>35, <1>w, <1>l DEF CancelLands, Unwind, Cancellable
  <2>2. Opened(disk)'
    <3>1. disk' = disk \/ disk' = state
      BY <1>35, <1>w DEF CancelLands
    <3>2. \A c \in Calls : disk'[c] = "absent" <=> disk[c] = "absent"
      BY <3>1
    <3>. HIDE DEF Opened
    <3>. QED
      BY <3>2, OpenedSame
  <2>3. Kept'
    BY SMTT(30), <1>35, <1>w, <1>l DEF CancelLands, Unwind, Cancellable
  <2>4. OwnWritten'
    BY <1>35, <1>w, <1>l DEF CancelLands, Unwind, Cancellable
  <2>. QED
    BY <2>1, <2>2, <2>3, <2>4
<1>36. ASSUME CancelLandsOutside PROVE WriteInv'
  BY <1>36 DEF CancelLandsOutside
<1>37. ASSUME Crash PROVE WriteInv'
  BY <1>37 DEF Crash, Forget, AtAwait
<1>38. ASSUME Boot PROVE WriteInv'
  <2>1. ASSUME NEW d, d \in {disk, Reconciled(disk)}, Rest(d), pc = "boot" PROVE WriteInv'
    BY <2>1, <1>d DEF Rest, Forget
  <2>. QED
    BY <1>38, <2>1 DEF Boot
<1>39. ASSUME NEW c \in Calls, NEW v \in Verdicts \ {"none"}, Resume(c,v) PROVE WriteInv'
  BY SMTT(30), <1>39 DEF Resume
<1>40. ASSUME ResumeRefused PROVE WriteInv'
  BY <1>40 DEF ResumeRefused, Rest, Forget
<1>41. ASSUME RefusedByAllowlist PROVE WriteInv'
  BY <1>41 DEF RefusedByAllowlist
<1>42. ASSUME Grant PROVE WriteInv'
  BY <1>42 DEF Grant
<1>43. ASSUME Mint PROVE WriteInv'
  BY <1>43 DEF Mint, Outlived
<1>44. ASSUME Replied PROVE WriteInv'
  BY <1>44 DEF Replied, Outlived
<1>45. ASSUME NEW c \in Calls, TokenGone(c) PROVE WriteInv'
  BY <1>45 DEF TokenGone, AtAwait
<1>46. ASSUME CarryExpires PROVE WriteInv'
  BY <1>46 DEF CarryExpires, AtAwait
<1>47. ASSUME NEW c \in Calls, Withdraw(c) PROVE WriteInv'
  BY <1>47 DEF Withdraw, AtAwait
<1>. HIDE DEF TypeInv, Calls, Points, States, TaskStates, Verdicts, Awaiting, Resolved, Stale,
           hand, guard, owner, durable, gate, history, InBatch, Closed, Serial, AtCall, Synced,
           InPrefix, Quiet, Busy, WriteInv, OthersWritten, OwnWritten, FlipAlone,
           NoBatch, InHand, Opened, Kept, PrefixInv, PrefixPlace, PrefixOwn, PrefixStates,
           OrderInv, AtIsNext, AtResume
<1>. QED
  BY <1>asking, <1>cut, <1>1, <1>2, <1>3, <1>4, <1>5, <1>6, <1>7, <1>8, <1>9, <1>10, <1>11, <1>12,
     <1>13, <1>14,
     <1>15, <1>16, <1>17, <1>18, <1>19, <1>20, <1>21, <1>22, <1>23, <1>24, <1>25, <1>26, <1>27,
     <1>28, <1>29, <1>30, <1>31, <1>32, <1>33, <1>34, <1>35, <1>36, <1>37, <1>38, <1>39, <1>40,
     <1>41, <1>42, <1>43, <1>44, <1>45, <1>46, <1>47, AnswerInjectedResolves, DismissedResolves,
     SuppressedResolves, MalformedResolves, AnswerHeadlessResolves, AuditedResolves, AskParks
     DEF Next, Own, Serve, Environment

-----------------------------------------------------------------------------
\* Every step keeps the order in which a message is served.
LEMMA OrderKept ==
  ASSUME CallsAssumption, TypeInv, ConsentInv, WriteInv, OrderInv, PrefixInv, BegunInv, Next
  PROVE  OrderInv'
<1>a. \A c \in Calls : UpNext(c) => \A e \in InBatch(batch) : e # c => state[e] \notin Awaiting
  BY NextAlone
<1>l. Outstanding # {} <=> Busy
  BY OutstandingTasks
<1>w. Written = state
  BY WrittenIsState DEF WriteInv
<1>d. Waits(Reconciled(disk))
  BY ReconciledWaits DEF TypeInv, OrderInv
<1>s. ASSUME NEW c \in Calls, NEW s \in States, UpNext(c), state' = [state EXCEPT ![c] = s],
             s \notin Awaiting \/ \A d \in InBatch(batch) : c < d => state[d] = "pending"
      PROVE  Waits(state)'
  BY <1>s, WaitsSet DEF TypeInv, OrderInv, UpNext, InBatch
<1>q. ASSUME \A c \in Calls : Batch[c] # batch => state'[c] = state[c],
             \A c \in InBatch(batch) : state'[c] \notin Awaiting
      PROVE  Waits(state)'
  BY <1>q DEF OrderInv, Waits, InBatch
<1>n. pc = "resume" => OneByOne /\ \A c \in InBatch(batch) : state[c] \in Awaiting => c = target
  BY SMTT(30) DEF CallsAssumption, Calls, TypeInv, OrderInv, WriteInv, OwnWritten, Synced,
     AtResume, Waits, OneByOne, InBatch,
         Awaiting, Resolved
<1>. USE CallsAssumption DEF CallsAssumption, TypeInv, Calls, Points, States, TaskStates,
           Verdicts, Awaiting, Resolved, Stale, hand, guard, owner, durable, gate, history,
           InBatch, Closed, Serial, AtCall, Synced, InPrefix, Quiet, Busy, WriteInv,
           OwnWritten, Opened, OthersWritten, PrefixInv, PrefixStates, PrefixPlace, PrefixOwn,
           PrefixLeads, InHand, OrderInv, Waits, TailInOrder, OneByOne, AtIsNext, HeadPending,
           AtResume, Unanswered, Ready
<1>1. ASSUME NEW c \in Calls, NEW s \in Closed, Resolving(c, s) PROVE OrderInv'
  <2>1. Waits(state)'
    <3>1. UpNext(c) /\ s \in States /\ s \notin Awaiting /\ state' = [state EXCEPT ![c] = s]
      BY <1>1 DEF Resolving, Resolve
    <3>. HIDE DEF Waits
    <3>. QED
      BY <3>1, <1>s
  <2>2. Waits(disk)'
    BY <1>1 DEF Resolving, UpNext, Resolve
  <2>3. TailInOrder'
    <3>1. pc \in Serial /\ OneByOne
      BY <1>1 DEF Resolving, UpNext
    <3>2. OneByOne'
      BY SMTT(30), <1>1, <3>1 DEF Resolving, UpNext, Resolve
    <3>. QED
      BY <3>2
  <2>4. AtIsNext'
    BY <1>1 DEF Resolving, UpNext, Resolve
  <2>5. HeadPending'
    BY <1>1 DEF Resolving, UpNext, Resolve
  <2>6. AtResume'
    BY <1>1 DEF Resolving, UpNext, Resolve
  <2>7. Unanswered'
    <3>1. UpNext(c) /\ state' = [state EXCEPT ![c] = s] /\ batch' = batch
      BY <1>1 DEF Resolving, Resolve
    <3>2. \A e \in InBatch(batch) : e # c => state[e] \notin Awaiting
      BY <3>1, <1>a
    <3>. QED
      BY SMTT(30), <3>1, <3>2
  <2>8. Ready'
    BY <1>1 DEF Resolving, UpNext, Resolve
  <2>. QED
    BY <2>1, <2>2, <2>3, <2>4, <2>5, <2>6, <2>7, <2>8
<1>2. ASSUME NEW c \in Calls, NEW s \in Awaiting, Parking(c, s) PROVE OrderInv'
  <2>1. Waits(state)'
    <3>1. UpNext(c) /\ s \in States /\ state' = [state EXCEPT ![c] = s]
      BY <1>2 DEF Parking
    <3>2. \A d \in InBatch(batch) : c < d => state[d] = "pending"
      BY <1>2 DEF Parking, UpNext
    <3>. HIDE DEF Waits
    <3>. QED
      BY <3>1, <3>2, <1>s
  <2>2. Waits(disk)'
    BY <1>2 DEF Parking, UpNext
  <2>3. TailInOrder'
    BY SMTT(30), <1>2 DEF Parking, UpNext
  <2>4. AtIsNext'
    BY <1>2 DEF Parking, UpNext
  <2>5. HeadPending'
    BY <1>2 DEF Parking, UpNext
  <2>6. AtResume'
    BY <1>2 DEF Parking, UpNext
  <2>7. Unanswered'
    BY <1>2 DEF Parking, UpNext
  <2>8. Ready'
    BY <1>2 DEF Parking, UpNext
  <2>. QED
    BY <2>1, <2>2, <2>3, <2>4, <2>5, <2>6, <2>7, <2>8
<1>3. ASSUME FreshTurn PROVE OrderInv'
  BY <1>3 DEF FreshTurn
<1>4. ASSUME EmitBatch PROVE OrderInv'
  BY <1>4 DEF EmitBatch
<1>5. ASSUME Complete PROVE OrderInv'
  BY <1>5 DEF Complete, Rest, Forget
<1>6. ASSUME StartBatch PROVE OrderInv'
  BY SMTT(30), <1>6 DEF StartBatch
<1>7. ASSUME NEW c \in Calls, TaskStart(c) PROVE OrderInv'
  <2>1. Waits(state)'
    BY <1>7 DEF TaskStart, TasksAlive
  <2>2. Waits(disk)'
    BY <1>7 DEF TaskStart, TasksAlive
  <2>3. TailInOrder'
    BY SMTT(30), <1>7 DEF TaskStart, TasksAlive
  <2>4. AtIsNext'
    BY <1>7 DEF TaskStart, TasksAlive
  <2>5. HeadPending'
    BY <1>7 DEF TaskStart, TasksAlive
  <2>6. AtResume'
    BY <1>7 DEF TaskStart, TasksAlive
  <2>7. Unanswered'
    BY <1>7 DEF TaskStart, TasksAlive
  <2>8. Ready'
    BY <1>7 DEF TaskStart, TasksAlive
  <2>. QED
    BY <2>1, <2>2, <2>3, <2>4, <2>5, <2>6, <2>7, <2>8
<1>8. ASSUME NEW c \in Calls, TaskDone(c) PROVE OrderInv'
  <2>1. Waits(state)'
    BY <1>8 DEF TaskDone, TasksAlive
  <2>2. Waits(disk)'
    BY <1>8 DEF TaskDone, TasksAlive
  <2>3. TailInOrder'
    <3>1. Busy' <=> Busy
      BY <1>8 DEF TaskDone
    <3>2. pc' = pc /\ state' = state /\ batch' = batch
      BY <1>8 DEF TaskDone
    <3>. QED
      BY <3>1, <3>2
  <2>4. AtIsNext'
    BY <1>8 DEF TaskDone, TasksAlive
  <2>5. HeadPending'
    BY <1>8 DEF TaskDone, TasksAlive
  <2>6. AtResume'
    BY <1>8 DEF TaskDone, TasksAlive
  <2>7. Unanswered'
    BY <1>8 DEF TaskDone, TasksAlive
  <2>8. Ready'
    BY <1>8 DEF TaskDone, TasksAlive
  <2>. QED
    BY <2>1, <2>2, <2>3, <2>4, <2>5, <2>6, <2>7, <2>8
<1>9. ASSUME NEW c \in Calls, TaskFails(c) PROVE OrderInv'
  <2>1. Waits(state)'
    BY <1>9 DEF TaskFails, TasksAlive
  <2>2. Waits(disk)'
    BY <1>9 DEF TaskFails, TasksAlive
  <2>3. TailInOrder'
    <3>1. Busy' <=> Busy
      BY <1>9 DEF TaskFails
    <3>2. pc' = pc /\ state' = state /\ batch' = batch
      BY <1>9 DEF TaskFails
    <3>. QED
      BY <3>1, <3>2
  <2>4. AtIsNext'
    BY <1>9 DEF TaskFails, TasksAlive
  <2>5. HeadPending'
    BY <1>9 DEF TaskFails, TasksAlive
  <2>6. AtResume'
    BY <1>9 DEF TaskFails, TasksAlive
  <2>7. Unanswered'
    BY <1>9 DEF TaskFails, TasksAlive
  <2>8. Ready'
    BY <1>9 DEF TaskFails, TasksAlive
  <2>. QED
    BY <2>1, <2>2, <2>3, <2>4, <2>5, <2>6, <2>7, <2>8
<1>10. ASSUME NEW c \in Calls, Take(c) PROVE OrderInv'
  <2>1. Waits(disk)' /\ AtIsNext' /\ HeadPending' /\ AtResume' /\ Ready'
    BY <1>10 DEF Take, Outcome, Taken
  <2>2. TailInOrder'
    <3>1. ~Busy' => OneByOne'
      <4>. SUFFICES ASSUME ~Busy', NEW d \in InBatch(batch), NEW e \in InBatch(batch),
                           d < e, state'[d] \notin Resolved
                    PROVE  state'[e] = "pending"
        BY <1>10 DEF Take
      <4>0. task'[d] \in {"none", "taken"}
        <5>1. d \in Calls /\ task'[d] \notin {"queued", "running", "done", "failed"}
          OBVIOUS
        <5>2. task'[d] \in TaskStates
          BY <5>1, <1>10 DEF Take
        <5>. QED
          BY <5>1, <5>2
      <4>3. task'[d] # "taken"
        BY <1>10 DEF Take, Outcome
      <4>1. task'[d] = "none" /\ task[d] = "none"
        BY <1>10, <4>0, <4>3 DEF Take
      <4>2. task[e] = "none"
        BY <1>10, <4>1 DEF Take
      <4>. QED
        BY SMTT(30), <1>10, <4>2 DEF Take
    <3>. QED
      BY <1>10, <3>1 DEF Take
  <2>3. Unanswered'
    <3>1. \A d \in InBatch(batch) : state[d] \notin Awaiting
      BY <1>10 DEF Take
    <3>. QED
      BY <1>10, <3>1 DEF Take, Outcome
  <2>4. Waits(state)'
    <3>1. \A d \in Calls : Batch[d] # batch => state'[d] = state[d]
      BY <1>10 DEF Take
    <3>2. \A d \in InBatch(batch) : state'[d] \notin Awaiting
      <4>1. \A d \in InBatch(batch) : state[d] \notin Awaiting
        BY <1>10 DEF Take
      <4>. QED
        BY <1>10, <4>1 DEF Take, Outcome
    <3>. HIDE DEF Waits
    <3>. QED
      BY <3>1, <3>2, <1>q
  <2>. QED
    BY <2>1, <2>2, <2>3, <2>4
<1>11. ASSUME NEW c \in Calls, TakeFailed(c) PROVE OrderInv'
  BY <1>11, <1>l DEF TakeFailed, Unwind
<1>12. ASSUME NEW c \in Calls, TaskCancelled(c) PROVE OrderInv'
  BY <1>12 DEF TaskCancelled
<1>13. ASSUME Harvest PROVE OrderInv'
  <2>1. Waits(state)'
    <3>1. \A d \in Calls : Batch[d] # batch => state'[d] = state[d]
      BY <1>13 DEF Harvest
    <3>2. \A d \in InBatch(batch) : state'[d] \notin Awaiting
      BY <1>13 DEF Harvest, Outcome
    <3>. HIDE DEF Waits
    <3>. QED
      BY <3>1, <3>2, <1>q
  <2>2. Waits(disk)'
    BY <1>13 DEF Harvest, Outcome, Harvested, Taken
  <2>3. TailInOrder'
    BY <1>13 DEF Harvest, Outcome, Harvested, Taken
  <2>4. AtIsNext'
    BY <1>13 DEF Harvest, Outcome, Harvested, Taken
  <2>5. HeadPending'
    BY <1>13 DEF Harvest, Outcome, Harvested, Taken
  <2>6. AtResume'
    BY <1>13 DEF Harvest, Outcome, Harvested, Taken
  <2>7. Unanswered'
    BY <1>13 DEF Harvest, Outcome, Harvested, Taken
  <2>8. Ready'
    BY <1>13 DEF Harvest, Outcome, Harvested, Taken
  <2>. QED
    BY <2>1, <2>2, <2>3, <2>4, <2>5, <2>6, <2>7, <2>8
<1>14. ASSUME NEW c \in Calls, Blocked(c) PROVE OrderInv'
  BY <1>14 DEF Blocked, Hand, Admitted, Serving, Unresolved, Answering, Fresh
<1>15. ASSUME NEW c \in Calls, Confirmed(c) PROVE OrderInv'
  <2>1. Waits(state)'
    <3>1. UpNext(c)
      BY <1>15, ServedIsNext DEF Confirmed, Admitted
    <3>2. "running" \in States /\ "running" \notin Awaiting /\ state' = [state EXCEPT ![c] = "running"]
      BY <1>15 DEF Confirmed, Marked
    <3>. HIDE DEF Waits
    <3>. QED
      BY <3>1, <3>2, <1>s
  <2>2. Waits(disk)'
    BY <1>15 DEF Confirmed, Answering, Admitted, Serving, Unresolved, Fresh, Marked
  <2>3. TailInOrder'
    BY SMTT(30), <1>15 DEF Confirmed, Answering, Admitted, Serving, Unresolved, Fresh, Marked
  <2>4. AtIsNext'
    BY <1>15 DEF Confirmed, Answering, Admitted, Serving, Unresolved, Fresh, Marked
  <2>5. HeadPending'
    BY <1>15 DEF Confirmed, Answering, Admitted, Serving, Unresolved, Fresh, Marked
  <2>6. AtResume'
    BY <1>15 DEF Confirmed, Answering, Admitted, Serving, Unresolved, Fresh, Marked
  <2>7. Unanswered'
    BY <1>15 DEF Confirmed, Answering, Admitted, Serving, Unresolved, Fresh, Marked
  <2>8. Ready'
    BY <1>15 DEF Confirmed, Answering, Admitted, Serving, Unresolved, Fresh, Marked
  <2>. QED
    BY <2>1, <2>2, <2>3, <2>4, <2>5, <2>6, <2>7, <2>8
<1>16. ASSUME NEW c \in Calls, Unasked(c) PROVE OrderInv'
  <2>1. Waits(state)' /\ Waits(disk)' /\ TailInOrder' /\ AtIsNext' /\ HeadPending' /\ AtResume'
    BY <1>16 DEF Unasked, Fresh, Hand, Admitted, Serving, Unresolved, Answering
  <2>2. Ready'
    BY <1>16 DEF Unasked, Fresh, Hand, Admitted, Serving, Unresolved, Answering
  <2>3. Unanswered'
    BY <1>16 DEF Unasked, Fresh, Hand, Admitted, Serving, Unresolved, Answering
  <2>. QED
    BY <2>1, <2>2, <2>3
<1>17. ASSUME Flip PROVE OrderInv'
  <2>1.
     Waits(state)' /\ Waits(disk)' /\ TailInOrder' /\ AtIsNext' /\ HeadPending' /\ AtResume' /\ Unanswered'
    BY <1>17, <1>w DEF Flip
  <2>2. Ready'
    BY <1>17, <1>w DEF Flip
  <2>. QED
    BY <2>1, <2>2
<1>18. ASSUME FlipFails PROVE OrderInv'
  BY <1>18, <1>l DEF FlipFails, Unwind
<1>19. ASSUME Begin PROVE OrderInv'
  BY <1>19 DEF Begin, Allowed, Approved
<1>20. ASSUME DenyHeadless PROVE OrderInv'
  BY <1>20 DEF DenyHeadless, NeedsConfirm, Allowed, Approved
<1>asking. ASSUME Question PROVE OrderInv'
  BY <1>asking DEF Question
<1>cut. ASSUME HarvestCut PROVE OrderInv'
  BY <1>cut DEF HarvestCut, AllSettled
<1>21. ASSUME Effect PROVE OrderInv'
  BY <1>21 DEF Effect
<1>22. ASSUME Return PROVE OrderInv'
  BY <1>22 DEF Return
<1>23. ASSUME NEW c \in Calls, LateEffect(c) PROVE OrderInv'
  BY <1>23 DEF LateEffect, AtAwait
<1>24. ASSUME AuditFails PROVE OrderInv'
  BY <1>24, <1>l DEF AuditFails, Unwind
<1>25. ASSUME Persisted PROVE OrderInv'
  <2>1. Waits(state)' /\ AtIsNext' /\ HeadPending' /\ AtResume' /\ Ready'
    BY <1>25, <1>w, <1>l DEF Persisted, Commit, Unresolved, Unwind
  <2>2. Waits(disk)'
    BY <1>25, <1>w, <1>l DEF Persisted, Commit, Unresolved, Unwind
  <2>3. Unanswered'
    BY <1>25, <1>w, <1>l DEF Persisted, Commit, Unresolved, Unwind
  <2>4. TailInOrder'
    BY <1>25, <1>w, <1>l DEF Persisted, Commit, Unresolved, Unwind
  <2>. QED
    BY <2>1, <2>2, <2>3, <2>4
<1>26. ASSUME PersistFails PROVE OrderInv'
  BY <1>26, <1>l DEF PersistFails, Unwind, EmittedUnwritten
<1>27. ASSUME Parked PROVE OrderInv'
  BY <1>27, <1>w DEF Parked, Commit
<1>28. ASSUME ParkFails PROVE OrderInv'
  BY <1>28, <1>l DEF ParkFails, Unwind
<1>29. ASSUME Backstop PROVE OrderInv'
  BY <1>29, <1>w DEF Backstop
<1>30. ASSUME BackstopFails PROVE OrderInv'
  BY <1>30, <1>w DEF BackstopFails
<1>31. ASSUME Close PROVE OrderInv'
  BY <1>31 DEF Close, Rest, Forget
<1>32. ASSUME Reconcile PROVE OrderInv'
  BY <1>32, <1>d DEF Reconcile, Rest, Forget
<1>33. ASSUME ReconcileFails PROVE OrderInv'
  BY <1>33 DEF ReconcileFails, Rest, Forget
<1>34. ASSUME Stop PROVE OrderInv'
  BY <1>34 DEF Stop, AtAwait
<1>35. ASSUME CancelLands PROVE OrderInv'
  <2>1. Waits(state)'
    BY <1>35, <1>w, <1>l DEF CancelLands, Unwind, Cancellable
  <2>2. Waits(disk)'
    <3>1. disk' = disk \/ disk' = state
      BY <1>35, <1>w DEF CancelLands
    <3>2. Waits(disk) /\ Waits(state)
      OBVIOUS
    <3>. HIDE DEF Waits
    <3>. QED
      BY <3>1, <3>2
  <2>3. TailInOrder'
    BY <1>35, <1>w, <1>l DEF CancelLands, Unwind, Cancellable
  <2>4. AtIsNext'
    BY <1>35, <1>w, <1>l DEF CancelLands, Unwind, Cancellable
  <2>5. HeadPending'
    BY <1>35, <1>w, <1>l DEF CancelLands, Unwind, Cancellable
  <2>6. AtResume'
    BY <1>35, <1>w, <1>l DEF CancelLands, Unwind, Cancellable
  <2>7. Unanswered'
    BY <1>35, <1>w, <1>l DEF CancelLands, Unwind, Cancellable
  <2>8. Ready'
    BY <1>35, <1>w, <1>l DEF CancelLands, Unwind, Cancellable
  <2>. QED
    BY <2>1, <2>2, <2>3, <2>4, <2>5, <2>6, <2>7, <2>8
<1>36. ASSUME CancelLandsOutside PROVE OrderInv'
  BY <1>36 DEF CancelLandsOutside
<1>37. ASSUME Crash PROVE OrderInv'
  BY <1>37 DEF Crash, Forget, AtAwait
<1>38. ASSUME Boot PROVE OrderInv'
  <2>1. ASSUME NEW d, d \in {disk, Reconciled(disk)}, Rest(d), pc = "boot" PROVE OrderInv'
    BY SMTT(30), <2>1, <1>d DEF Rest, Forget
  <2>. QED
    BY <1>38, <2>1 DEF Boot
<1>39. ASSUME NEW c \in Calls, NEW v \in Verdicts \ {"none"}, Resume(c,v) PROVE OrderInv'
  <2>1.
     Waits(state)' /\ Waits(disk)' /\ TailInOrder' /\ AtIsNext' /\ HeadPending' /\ Unanswered' /\ Ready'
    BY <1>39 DEF Resume
  <2>2. AtResume'
    BY <1>39 DEF Resume
  <2>. QED
    BY <2>1, <2>2
<1>40. ASSUME ResumeRefused PROVE OrderInv'
  BY <1>40 DEF ResumeRefused, Rest, Forget
<1>41. ASSUME RefusedByAllowlist PROVE OrderInv'
  <2>1. Waits(state)' /\ Waits(disk)' /\ AtIsNext' /\ HeadPending' /\ AtResume' /\ Ready'
    BY <1>41, <1>n DEF RefusedByAllowlist
  <2>2. TailInOrder'
    BY <1>41, <1>n DEF RefusedByAllowlist
  <2>3. Unanswered'
    BY <1>41, <1>n DEF RefusedByAllowlist
  <2>. QED
    BY <2>1, <2>2, <2>3
<1>42. ASSUME Grant PROVE OrderInv'
  BY <1>42 DEF Grant
<1>43. ASSUME Mint PROVE OrderInv'
  <2>1. Waits(state)' /\ Waits(disk)' /\ AtIsNext' /\ HeadPending' /\ AtResume' /\ Ready'
    BY <1>43, <1>n DEF Mint, Outlived
  <2>2. TailInOrder'
    BY <1>43, <1>n DEF Mint, Outlived
  <2>3. Unanswered'
    BY <1>43, <1>n DEF Mint, Outlived
  <2>. QED
    BY <2>1, <2>2, <2>3
<1>44. ASSUME Replied PROVE OrderInv'
  <2>1. Waits(state)' /\ Waits(disk)' /\ AtIsNext' /\ HeadPending' /\ AtResume' /\ Ready'
    BY <1>44, <1>n DEF Replied, Outlived
  <2>2. TailInOrder'
    BY <1>44, <1>n DEF Replied, Outlived
  <2>3. Unanswered'
    BY <1>44, <1>n DEF Replied, Outlived
  <2>. QED
    BY <2>1, <2>2, <2>3
<1>45. ASSUME NEW c \in Calls, TokenGone(c) PROVE OrderInv'
  BY <1>45 DEF TokenGone, AtAwait
<1>46. ASSUME CarryExpires PROVE OrderInv'
  BY <1>46 DEF CarryExpires, AtAwait
<1>47. ASSUME NEW c \in Calls, Withdraw(c) PROVE OrderInv'
  BY <1>47 DEF Withdraw, AtAwait
<1>. HIDE DEF TypeInv, Calls, Points, States, TaskStates, Verdicts, Awaiting, Resolved, Stale,
           hand, guard, owner, durable, gate, history, InBatch, Closed, Serial, AtCall, Synced,
           InPrefix, Quiet, Busy, WriteInv, OwnWritten, Opened, OthersWritten,
           PrefixInv, PrefixStates, PrefixPlace, PrefixOwn, PrefixLeads, InHand, OrderInv, Waits,
           TailInOrder, OneByOne, AtIsNext, HeadPending, AtResume, Unanswered, Ready
<1>. QED
  BY <1>asking, <1>cut, <1>1, <1>2, <1>3, <1>4, <1>5, <1>6, <1>7, <1>8, <1>9, <1>10, <1>11, <1>12,
     <1>13, <1>14,
     <1>15, <1>16, <1>17, <1>18, <1>19, <1>20, <1>21, <1>22, <1>23, <1>24, <1>25, <1>26, <1>27,
     <1>28, <1>29, <1>30, <1>31, <1>32, <1>33, <1>34, <1>35, <1>36, <1>37, <1>38, <1>39, <1>40,
     <1>41, <1>42, <1>43, <1>44, <1>45, <1>46, <1>47, AnswerInjectedResolves, DismissedResolves,
     SuppressedResolves, MalformedResolves, AnswerHeadlessResolves, AuditedResolves, AskParks
     DEF Next, Own, Serve, Environment

-----------------------------------------------------------------------------
\* The prefix is started on the leading calls of a pending batch.
LEMMA StartBatchKeepsPrefix ==
  ASSUME CallsAssumption, TypeInv, ConsentInv, WriteInv, OrderInv, PrefixInv, BegunInv, StartBatch
  PROVE  PrefixInv'
<1>1. /\ pc = "head" /\ pc' \in {"tail", "prefix"}
      /\ batch' = batch /\ state' = state /\ disk' = disk /\ begun' = begun
      /\ \/ task' = task
         \/ task' = [c \in Calls |-> IF c \in Prefix THEN "queued" ELSE "none"] /\ pc' = "prefix"
  BY DEF StartBatch, durable, history
<1>2. /\ \A c \in InBatch(batch) : state[c] = "pending" /\ disk[c] = "pending"
      /\ \A c \in InBatch(batch) : c \notin begun
      /\ \A c \in Calls : task[c] = "none"
  BY <1>1 DEF OrderInv, HeadPending, WriteInv, OwnWritten, Synced, InBatch, BegunInv, OnceInv,
     BegunResolved,
              Resolved, Serial
<1>3. /\ Prefix \subseteq InBatch(batch)
      /\ \A c \in Prefix, d \in InBatch(batch) : d <= c => d \in Prefix
  BY PrefixSegment
<1>4. \A c \in Calls : /\ task'[c] \in {"none", "queued"}
                       /\ task'[c] = "queued" => c \in Prefix
                       /\ pc' = "tail" => task'[c] = "none"
                       /\ task'[c] = "none" => task' = task \/ c \notin Prefix
  BY <1>1, <1>2
<1>5. PrefixOwn' /\ PrefixPlace' /\ TakenStays'
  BY <1>1, <1>3, <1>4 DEF PrefixOwn, PrefixPlace, TakenStays, Busy, InBatch
<1>6. PrefixStates' /\ PrefixUnasked'
  BY <1>1, <1>2, <1>4 DEF PrefixStates, PrefixUnasked, InBatch, Awaiting
<1>7. PrefixLeads'
  <2>1. CASE task' = task
    BY <1>2, <2>1 DEF PrefixLeads
  <2>2. CASE task' # task
    <3>. SUFFICES ASSUME NEW c \in Calls, NEW d \in Calls, task'[c] # "none", Batch[d] = batch, d < c
                  PROVE  task'[d] # "none"
      BY <1>1 DEF PrefixLeads
    <3>1. c \in Prefix /\ d \in InBatch(batch) /\ d <= c
      BY <1>4 DEF InBatch, CallsAssumption, Calls
    <3>. QED
      BY <3>1, <1>3, <1>4, <2>2
  <2>. QED
    BY <2>1, <2>2
<1>8. TasksBegun' /\ BegunTasks'
  BY <1>1, <1>2, <1>3, <1>4 DEF TasksBegun, BegunTasks, InBatch
<1>. QED
  BY <1>5, <1>6, <1>7, <1>8 DEF PrefixInv

\* Every step keeps what the prefix holds.
LEMMA PrefixKept ==
  ASSUME CallsAssumption, TypeInv, ConsentInv, WriteInv, OrderInv, PrefixInv, BegunInv, Next
  PROVE  PrefixInv'
<1>f. pc \notin {"harvest", "cut"} /\ task' = task /\ batch' = batch => PrefixLeads'
  BY DEF PrefixInv, PrefixLeads
<1>w. Written = state
  BY WrittenIsState DEF WriteInv
<1>l. Outstanding # {} <=> Busy
  BY OutstandingTasks
<1>e. \A c \in Calls : c \notin begun => effects[c] = 0
  BY DEF ConsentInv, TypeInv
<1>. USE CallsAssumption DEF CallsAssumption, TypeInv, Calls, Points, States, TaskStates,
           Verdicts, Awaiting, Resolved, Stale, hand, guard, owner, durable, gate, history,
           InBatch, Closed, Serial, AtCall, Synced, InPrefix, Quiet, Busy, WriteInv,
           OwnWritten, OrderInv, HeadPending, AtIsNext, NoBatch, BegunInv, OnceInv, Once,
           PrefixInv, PrefixOwn, PrefixLeads, PrefixPlace, PrefixStates, PrefixUnasked,
           TakenStays, TasksBegun, BegunTasks
<1>1. ASSUME NEW c \in Calls, NEW s \in Closed, Resolving(c, s) PROVE PrefixInv'
  <2>1. PrefixOwn'
    BY <1>1 DEF Resolving, UpNext, Resolve
  <2>2. PrefixLeads'
    <3>1. pc \notin {"harvest", "cut"} /\ task' = task /\ batch' = batch
      BY <1>1 DEF Resolving, UpNext, Resolve
    <3>. HIDE DEF PrefixLeads
    <3>. QED
      BY <3>1, <1>f
  <2>3. PrefixPlace'
    BY <1>1 DEF Resolving, UpNext, Resolve
  <2>4. PrefixStates'
    BY <1>1 DEF Resolving, UpNext, Resolve
  <2>5. PrefixUnasked'
    BY <1>1 DEF Resolving, UpNext, Resolve
  <2>6. TakenStays'
    BY <1>1 DEF Resolving, UpNext, Resolve
  <2>7. TasksBegun'
    BY <1>1 DEF Resolving, UpNext, Resolve
  <2>8. BegunTasks'
    BY <1>1 DEF Resolving, UpNext, Resolve
  <2>. QED
    BY <2>1, <2>2, <2>3, <2>4, <2>5, <2>6, <2>7, <2>8
<1>2. ASSUME NEW c \in Calls, NEW s \in Awaiting, Parking(c, s) PROVE PrefixInv'
  <2>1. PrefixOwn'
    BY <1>2 DEF Parking, UpNext
  <2>2. PrefixLeads'
    BY <1>2 DEF Parking, UpNext
  <2>3. PrefixPlace'
    BY <1>2 DEF Parking, UpNext
  <2>4. PrefixStates'
    BY <1>2 DEF Parking, UpNext
  <2>5. PrefixUnasked'
    BY <1>2 DEF Parking, UpNext
  <2>6. TakenStays'
    BY <1>2 DEF Parking, UpNext
  <2>7. TasksBegun'
    BY <1>2 DEF Parking, UpNext
  <2>8. BegunTasks'
    BY <1>2 DEF Parking, UpNext
  <2>. QED
    BY <2>1, <2>2, <2>3, <2>4, <2>5, <2>6, <2>7, <2>8
<1>3. ASSUME FreshTurn PROVE PrefixInv'
  BY <1>3 DEF FreshTurn
<1>4. ASSUME EmitBatch PROVE PrefixInv'
  BY <1>4 DEF EmitBatch
<1>5. ASSUME Complete PROVE PrefixInv'
  BY <1>5 DEF Complete, Rest, Forget
<1>6. ASSUME StartBatch PROVE PrefixInv'
  BY <1>6, StartBatchKeepsPrefix
<1>7. ASSUME NEW c \in Calls, TaskStart(c) PROVE PrefixInv'
  <2>1. PrefixOwn'
    BY <1>7, <1>e DEF TaskStart, TasksAlive
  <2>2. PrefixLeads'
    BY <1>7, <1>e DEF TaskStart, TasksAlive
  <2>3. PrefixPlace'
    BY <1>7, <1>e DEF TaskStart, TasksAlive
  <2>4. PrefixStates'
    BY SMTT(30), <1>7, <1>e DEF TaskStart, TasksAlive
  <2>5. PrefixUnasked'
    BY <1>7, <1>e DEF TaskStart, TasksAlive
  <2>6. TakenStays'
    BY <1>7, <1>e DEF TaskStart, TasksAlive
  <2>7. TasksBegun'
    BY SMTT(30), <1>7, <1>e DEF TaskStart, TasksAlive
  <2>8. BegunTasks'
    BY <1>7, <1>e DEF TaskStart, TasksAlive
  <2>. QED
    BY <2>1, <2>2, <2>3, <2>4, <2>5, <2>6, <2>7, <2>8
<1>8. ASSUME NEW c \in Calls, TaskDone(c) PROVE PrefixInv'
  <2>1. PrefixOwn'
    BY <1>8 DEF TaskDone, TasksAlive
  <2>2. PrefixLeads'
    BY SMTT(30), <1>8 DEF TaskDone, TasksAlive
  <2>3. PrefixPlace'
    BY <1>8 DEF TaskDone, TasksAlive
  <2>4. PrefixStates'
    BY SMTT(30), <1>8 DEF TaskDone, TasksAlive
  <2>5. PrefixUnasked'
    BY <1>8 DEF TaskDone, TasksAlive
  <2>6. TakenStays'
    BY <1>8 DEF TaskDone, TasksAlive
  <2>7. TasksBegun'
    BY <1>8 DEF TaskDone, TasksAlive
  <2>8. BegunTasks'
    BY <1>8 DEF TaskDone, TasksAlive
  <2>. QED
    BY <2>1, <2>2, <2>3, <2>4, <2>5, <2>6, <2>7, <2>8
<1>9. ASSUME NEW c \in Calls, TaskFails(c) PROVE PrefixInv'
  <2>1. PrefixOwn'
    BY <1>9 DEF TaskFails, TasksAlive
  <2>2. PrefixLeads'
    BY <1>9 DEF TaskFails, TasksAlive
  <2>3. PrefixPlace'
    BY <1>9 DEF TaskFails, TasksAlive
  <2>4. PrefixStates'
    BY SMTT(30), <1>9 DEF TaskFails, TasksAlive
  <2>5. PrefixUnasked'
    BY <1>9 DEF TaskFails, TasksAlive
  <2>6. TakenStays'
    BY <1>9 DEF TaskFails, TasksAlive
  <2>7. TasksBegun'
    BY <1>9 DEF TaskFails, TasksAlive
  <2>8. BegunTasks'
    BY SMTT(30), <1>9 DEF TaskFails, TasksAlive
  <2>. QED
    BY <2>1, <2>2, <2>3, <2>4, <2>5, <2>6, <2>7, <2>8
<1>10. ASSUME NEW c \in Calls, Take(c) PROVE PrefixInv'
  <2>1. PrefixOwn'
    BY <1>10 DEF Take, Outcome, Taken
  <2>2. PrefixLeads'
    BY SMTT(30), <1>10 DEF Take, Outcome, Taken
  <2>3. PrefixPlace'
    BY <1>10 DEF Take, Outcome, Taken
  <2>4. PrefixStates'
    BY SMTT(30), <1>10 DEF Take, Outcome, Taken
  <2>5. PrefixUnasked'
    BY <1>10 DEF Take, Outcome, Taken
  <2>6. TakenStays'
    BY <1>10 DEF Take, Outcome, Taken
  <2>7. TasksBegun'
    BY <1>10 DEF Take, Outcome, Taken
  <2>8. BegunTasks'
    BY <1>10 DEF Take, Outcome, Taken
  <2>. QED
    BY <2>1, <2>2, <2>3, <2>4, <2>5, <2>6, <2>7, <2>8
<1>11. ASSUME NEW c \in Calls, TakeFailed(c) PROVE PrefixInv'
  BY <1>11, <1>l DEF TakeFailed, Unwind
<1>12. ASSUME NEW c \in Calls, TaskCancelled(c) PROVE PrefixInv'
  BY SMTT(30), <1>12 DEF TaskCancelled
<1>13. ASSUME Harvest PROVE PrefixInv'
  BY <1>13 DEF Harvest, Outcome, Harvested, Taken
<1>14. ASSUME NEW c \in Calls, Blocked(c) PROVE PrefixInv'
  BY SMTT(30), <1>14 DEF Blocked, Hand, Admitted, Serving, Unresolved, Answering, Fresh
<1>15. ASSUME NEW c \in Calls, Confirmed(c) PROVE PrefixInv'
  <2>1. PrefixOwn'
    BY <1>15 DEF Confirmed, Answering, Admitted, Serving, Unresolved, Fresh, Marked
  <2>2. PrefixLeads'
    BY <1>15 DEF Confirmed, Answering, Admitted, Serving, Unresolved, Fresh, Marked
  <2>3. PrefixPlace'
    BY <1>15 DEF Confirmed, Answering, Admitted, Serving, Unresolved, Fresh, Marked
  <2>4. PrefixStates'
    BY <1>15 DEF Confirmed, Answering, Admitted, Serving, Unresolved, Fresh, Marked
  <2>5. PrefixUnasked'
    BY <1>15 DEF Confirmed, Answering, Admitted, Serving, Unresolved, Fresh, Marked
  <2>6. TakenStays'
    BY <1>15 DEF Confirmed, Answering, Admitted, Serving, Unresolved, Fresh, Marked
  <2>7. TasksBegun'
    BY <1>15 DEF Confirmed, Answering, Admitted, Serving, Unresolved, Fresh, Marked
  <2>8. BegunTasks'
    BY <1>15 DEF Confirmed, Answering, Admitted, Serving, Unresolved, Fresh, Marked
  <2>. QED
    BY <2>1, <2>2, <2>3, <2>4, <2>5, <2>6, <2>7, <2>8
<1>16. ASSUME NEW c \in Calls, Unasked(c) PROVE PrefixInv'
  BY SMTT(30), <1>16 DEF Unasked, Fresh, Hand, Admitted, Serving, Unresolved, Answering
<1>17. ASSUME Flip PROVE PrefixInv'
  BY <1>17, <1>w DEF Flip
<1>18. ASSUME FlipFails PROVE PrefixInv'
  BY <1>18, <1>l DEF FlipFails, Unwind
<1>19. ASSUME Begin PROVE PrefixInv'
  <2>1. PrefixOwn'
    BY <1>19 DEF Begin, Allowed, Approved
  <2>2. PrefixLeads'
    BY <1>19 DEF Begin, Allowed, Approved
  <2>3. PrefixPlace'
    BY <1>19 DEF Begin, Allowed, Approved
  <2>4. PrefixStates'
    BY <1>19 DEF Begin, Allowed, Approved
  <2>5. PrefixUnasked'
    BY <1>19 DEF Begin, Allowed, Approved
  <2>6. TakenStays'
    BY <1>19 DEF Begin, Allowed, Approved
  <2>7. TasksBegun'
    BY <1>19 DEF Begin, Allowed, Approved
  <2>8. BegunTasks'
    BY <1>19 DEF Begin, Allowed, Approved
  <2>. QED
    BY <2>1, <2>2, <2>3, <2>4, <2>5, <2>6, <2>7, <2>8
<1>20. ASSUME DenyHeadless PROVE PrefixInv'
  BY <1>20 DEF DenyHeadless, NeedsConfirm, Allowed, Approved
<1>asking. ASSUME Question PROVE PrefixInv'
  BY <1>asking DEF Question
<1>cut. ASSUME HarvestCut PROVE PrefixInv'
  BY <1>cut DEF HarvestCut, AllSettled
<1>21. ASSUME Effect PROVE PrefixInv'
  <2>1. PrefixOwn'
    BY <1>21 DEF Effect
  <2>2. PrefixLeads'
    BY <1>21 DEF Effect
  <2>3. PrefixPlace'
    BY <1>21 DEF Effect
  <2>4. PrefixStates'
    BY <1>21 DEF Effect
  <2>5. PrefixUnasked'
    BY <1>21 DEF Effect
  <2>6. TakenStays'
    BY <1>21 DEF Effect
  <2>7. TasksBegun'
    BY <1>21 DEF Effect
  <2>8. BegunTasks'
    BY <1>21 DEF Effect
  <2>. QED
    BY <2>1, <2>2, <2>3, <2>4, <2>5, <2>6, <2>7, <2>8
<1>22. ASSUME Return PROVE PrefixInv'
  BY SMTT(30), <1>22 DEF Return
<1>23. ASSUME NEW c \in Calls, LateEffect(c) PROVE PrefixInv'
  <2>1. PrefixOwn'
    BY <1>23 DEF LateEffect, AtAwait
  <2>2. PrefixLeads'
    BY <1>23 DEF LateEffect, AtAwait
  <2>3. PrefixPlace'
    BY <1>23 DEF LateEffect, AtAwait
  <2>4. PrefixStates'
    BY <1>23 DEF LateEffect, AtAwait
  <2>5. PrefixUnasked'
    BY <1>23 DEF LateEffect, AtAwait
  <2>6. TakenStays'
    BY <1>23 DEF LateEffect, AtAwait
  <2>7. TasksBegun'
    BY <1>23 DEF LateEffect, AtAwait
  <2>8. BegunTasks'
    BY <1>23 DEF LateEffect, AtAwait
  <2>. QED
    BY <2>1, <2>2, <2>3, <2>4, <2>5, <2>6, <2>7, <2>8
<1>24. ASSUME AuditFails PROVE PrefixInv'
  BY <1>24, <1>l DEF AuditFails, Unwind
<1>25. ASSUME Persisted PROVE PrefixInv'
  <2>1. PrefixOwn'
    BY <1>25, <1>w, <1>l DEF Persisted, Commit, Unresolved, Unwind
  <2>2. PrefixLeads'
    BY <1>25, <1>w, <1>l DEF Persisted, Commit, Unresolved, Unwind
  <2>3. PrefixPlace'
    BY <1>25, <1>w, <1>l DEF Persisted, Commit, Unresolved, Unwind
  <2>4. PrefixStates'
    BY <1>25, <1>w, <1>l DEF Persisted, Commit, Unresolved, Unwind
  <2>5. PrefixUnasked'
    BY <1>25, <1>w, <1>l DEF Persisted, Commit, Unresolved, Unwind
  <2>6. TakenStays'
    BY <1>25, <1>w, <1>l DEF Persisted, Commit, Unresolved, Unwind
  <2>7. TasksBegun'
    BY <1>25, <1>w, <1>l DEF Persisted, Commit, Unresolved, Unwind
  <2>8. BegunTasks'
    BY <1>25, <1>w, <1>l DEF Persisted, Commit, Unresolved, Unwind
  <2>. QED
    BY <2>1, <2>2, <2>3, <2>4, <2>5, <2>6, <2>7, <2>8
<1>26. ASSUME PersistFails PROVE PrefixInv'
  <2>1. PrefixOwn'
    BY <1>26, <1>l DEF PersistFails, Unwind, EmittedUnwritten
  <2>2. PrefixLeads'
    BY <1>26, <1>l DEF PersistFails, Unwind, EmittedUnwritten
  <2>3. PrefixPlace'
    BY <1>26, <1>l DEF PersistFails, Unwind, EmittedUnwritten
  <2>4. PrefixStates'
    BY <1>26, <1>l DEF PersistFails, Unwind, EmittedUnwritten
  <2>5. PrefixUnasked'
    BY <1>26, <1>l DEF PersistFails, Unwind, EmittedUnwritten
  <2>6. TakenStays'
    BY <1>26, <1>l DEF PersistFails, Unwind, EmittedUnwritten
  <2>7. TasksBegun'
    BY <1>26, <1>l DEF PersistFails, Unwind, EmittedUnwritten
  <2>8. BegunTasks'
    BY <1>26, <1>l DEF PersistFails, Unwind, EmittedUnwritten
  <2>. QED
    BY <2>1, <2>2, <2>3, <2>4, <2>5, <2>6, <2>7, <2>8
<1>27. ASSUME Parked PROVE PrefixInv'
  BY <1>27, <1>w DEF Parked, Commit
<1>28. ASSUME ParkFails PROVE PrefixInv'
  BY <1>28, <1>l DEF ParkFails, Unwind
<1>29. ASSUME Backstop PROVE PrefixInv'
  BY <1>29, <1>w DEF Backstop
<1>30. ASSUME BackstopFails PROVE PrefixInv'
  BY <1>30, <1>w DEF BackstopFails
<1>31. ASSUME Close PROVE PrefixInv'
  BY <1>31 DEF Close, Rest, Forget
<1>32. ASSUME Reconcile PROVE PrefixInv'
  BY <1>32 DEF Reconcile, Rest, Forget
<1>33. ASSUME ReconcileFails PROVE PrefixInv'
  BY <1>33 DEF ReconcileFails, Rest, Forget
<1>34. ASSUME Stop PROVE PrefixInv'
  BY <1>34 DEF Stop, AtAwait
<1>35. ASSUME CancelLands PROVE PrefixInv'
  <2>1. PrefixOwn'
    BY <1>35, <1>w, <1>l DEF CancelLands, Unwind, Cancellable
  <2>2. PrefixLeads'
    <3>1. pc \notin {"harvest", "cut"} /\ task' = task /\ batch' = batch
      BY <1>35 DEF CancelLands, Cancellable
    <3>. HIDE DEF PrefixLeads
    <3>. QED
      BY <3>1, <1>f
  <2>3. PrefixPlace'
    BY <1>35, <1>w, <1>l DEF CancelLands, Unwind, Cancellable
  <2>4. PrefixStates'
    <3>1. disk' = disk \/ (pc = "flip" /\ ~InPrefix)
      BY <1>35, <1>w DEF CancelLands
    <3>. QED
      BY SMTT(30), <1>35, <3>1, <1>l DEF CancelLands, Unwind, Cancellable
  <2>5. PrefixUnasked'
    BY <1>35, <1>w, <1>l DEF CancelLands, Unwind, Cancellable
  <2>6. TakenStays'
    BY <1>35, <1>w, <1>l DEF CancelLands, Unwind, Cancellable
  <2>7. TasksBegun'
    BY <1>35, <1>w, <1>l DEF CancelLands, Unwind, Cancellable
  <2>8. BegunTasks'
    BY <1>35, <1>w, <1>l DEF CancelLands, Unwind, Cancellable
  <2>. QED
    BY <2>1, <2>2, <2>3, <2>4, <2>5, <2>6, <2>7, <2>8
<1>36. ASSUME CancelLandsOutside PROVE PrefixInv'
  BY SMTT(30), <1>36 DEF CancelLandsOutside
<1>37. ASSUME Crash PROVE PrefixInv'
  BY <1>37 DEF Crash, Forget, AtAwait
<1>38. ASSUME Boot PROVE PrefixInv'
  BY <1>38 DEF Boot, Rest, Forget
<1>39. ASSUME NEW c \in Calls, NEW v \in Verdicts \ {"none"}, Resume(c,v) PROVE PrefixInv'
  BY SMTT(30), <1>39 DEF Resume
<1>40. ASSUME ResumeRefused PROVE PrefixInv'
  BY <1>40 DEF ResumeRefused, Rest, Forget
<1>41. ASSUME RefusedByAllowlist PROVE PrefixInv'
  BY <1>41 DEF RefusedByAllowlist
<1>42. ASSUME Grant PROVE PrefixInv'
  BY <1>42 DEF Grant
<1>43. ASSUME Mint PROVE PrefixInv'
  BY <1>43 DEF Mint, Outlived
<1>44. ASSUME Replied PROVE PrefixInv'
  BY <1>44 DEF Replied, Outlived
<1>45. ASSUME NEW c \in Calls, TokenGone(c) PROVE PrefixInv'
  <2>1. PrefixOwn'
    BY <1>45 DEF TokenGone, AtAwait
  <2>2. PrefixLeads'
    BY <1>45 DEF TokenGone, AtAwait
  <2>3. PrefixPlace'
    BY <1>45 DEF TokenGone, AtAwait
  <2>4. PrefixStates'
    BY <1>45 DEF TokenGone, AtAwait
  <2>5. PrefixUnasked'
    BY <1>45 DEF TokenGone, AtAwait
  <2>6. TakenStays'
    BY <1>45 DEF TokenGone, AtAwait
  <2>7. TasksBegun'
    BY <1>45 DEF TokenGone, AtAwait
  <2>8. BegunTasks'
    BY <1>45 DEF TokenGone, AtAwait
  <2>. QED
    BY <2>1, <2>2, <2>3, <2>4, <2>5, <2>6, <2>7, <2>8
<1>46. ASSUME CarryExpires PROVE PrefixInv'
  BY <1>46 DEF CarryExpires, AtAwait
<1>47. ASSUME NEW c \in Calls, Withdraw(c) PROVE PrefixInv'
  BY <1>47 DEF Withdraw, AtAwait
<1>. HIDE DEF TypeInv, Calls, Points, States, TaskStates, Verdicts, Awaiting, Resolved, Stale,
           hand, guard, owner, durable, gate, history, InBatch, Closed, Serial, AtCall, Synced,
           InPrefix, Quiet, Busy, WriteInv, OwnWritten, OrderInv, HeadPending,
           AtIsNext, NoBatch, BegunInv, OnceInv, Once, PrefixInv, PrefixOwn, PrefixLeads,
           PrefixPlace, PrefixStates, PrefixUnasked, TakenStays, TasksBegun, BegunTasks
<1>. QED
  BY <1>asking, <1>cut, <1>1, <1>2, <1>3, <1>4, <1>5, <1>6, <1>7, <1>8, <1>9, <1>10, <1>11, <1>12,
     <1>13, <1>14,
     <1>15, <1>16, <1>17, <1>18, <1>19, <1>20, <1>21, <1>22, <1>23, <1>24, <1>25, <1>26, <1>27,
     <1>28, <1>29, <1>30, <1>31, <1>32, <1>33, <1>34, <1>35, <1>36, <1>37, <1>38, <1>39, <1>40,
     <1>41, <1>42, <1>43, <1>44, <1>45, <1>46, <1>47, AnswerInjectedResolves, DismissedResolves,
     SuppressedResolves, MalformedResolves, AnswerHeadlessResolves, AuditedResolves, AskParks
     DEF Next, Own, Serve, Environment

-----------------------------------------------------------------------------
\* Every step keeps a begun call's message free of calls that wait for the owner.
LEMMA UnaskedKept ==
  ASSUME CallsAssumption, TypeInv, ConsentInv, WriteInv, OrderInv, PrefixInv, BegunInv, Next
  PROVE  UnaskedInv'
<1>w. Written = state
  BY WrittenIsState DEF WriteInv
<1>d. NoneAsked(Reconciled(disk))
  <2>1. disk \in [Calls -> States] /\ NoneAsked(disk)
    BY DEF TypeInv, BegunInv, UnaskedInv
  <2>. SUFFICES ASSUME NEW c \in begun, NEW d \in Calls, Batch[c] = Batch[d],
                       Reconciled(disk)[c] \notin Resolved
                PROVE  Reconciled(disk)[d] \notin Awaiting
    BY <2>1, ReconciledKeeps DEF NoneAsked
  <2>2. c \in Calls /\ disk[c] \notin Resolved
    BY <2>1, ReconciledKeeps DEF TypeInv
  <2>. QED
    BY <2>1, <2>2, ReconciledKeeps DEF NoneAsked
<1>b. pc \in {"invoke", "asking"} => \A e \in begun \cap InBatch(batch) : state[e] \in Resolved
  BY DEF BegunInv, OnceInv, BegunResolved, Serial
<1>m. ASSUME begun' = begun, \A c \in Calls : state[c] \in Resolved => state'[c] \in Resolved,
             \A c \in Calls : state'[c] \in Awaiting => state[c] \in Awaiting
      PROVE  NoneAsked(state)'
  BY <1>m DEF BegunInv, UnaskedInv, NoneAsked, TypeInv
<1>p. ASSUME NEW c \in Calls, begun' = begun \cup {c}, state' = state, disk' = disk,
             \A e \in InBatch(Batch[c]) : state[e] \notin Awaiting /\ disk[e] \notin Awaiting
      PROVE  NoneAsked(state)' /\ NoneAsked(disk)'
  BY <1>p DEF BegunInv, UnaskedInv, NoneAsked, TypeInv, InBatch
<1>u. pc = "invoke" =>
        /\ at \in InBatch(batch) /\ state[at] \in Stale
        /\ \A e \in InBatch(batch) : state[e] \notin Awaiting /\ disk[e] \notin Awaiting
  <2>. SUFFICES ASSUME pc = "invoke" PROVE
        /\ at \in InBatch(batch) /\ state[at] \in Stale
        /\ \A e \in InBatch(batch) : state[e] \notin Awaiting
    BY DEF WriteInv, OwnWritten, Synced
  <2>1. at \in InBatch(batch) /\ state[at] \in Stale /\ UpNext(at)
    BY AtCallIsNext DEF AtCall, Serial, UpNext, OrderInv, Ready
  <2>. QED
    BY <2>1, NextAlone DEF InBatch, Stale, Awaiting
<1>t. \A c \in Calls : task[c] = "queued" =>
        /\ c \in InBatch(batch)
        /\ \A e \in InBatch(batch) : state[e] \notin Awaiting /\ disk[e] \notin Awaiting
  <2>. SUFFICES ASSUME NEW c \in Calls, task[c] = "queued" PROVE
        /\ c \in InBatch(batch)
        /\ \A e \in InBatch(batch) : state[e] \notin Awaiting /\ disk[e] \notin Awaiting
    OBVIOUS
  <2>1. InPrefix /\ c \in InBatch(batch)
    BY DEF InPrefix, Busy, PrefixInv, PrefixOwn, InBatch
  <2>. QED
    BY <2>1 DEF PrefixInv, PrefixStates, PrefixUnasked, Awaiting, Closed
<1>. USE CallsAssumption DEF CallsAssumption, TypeInv, Calls, Points, States, TaskStates,
           Verdicts, Awaiting, Resolved, Stale, hand, guard, owner, durable, gate, history,
           InBatch, Closed, Serial, AtCall, Synced, InPrefix, Quiet, Busy, UnaskedInv,
           NoneAsked, WriteInv, Opened, BegunInv, OnceInv, BegunOpened
<1>1. ASSUME NEW c \in Calls, NEW s \in Closed, Resolving(c, s) PROVE UnaskedInv'
  <2>1. NoneAsked(state)'
    <3>1. /\ begun' = begun /\ \A d \in Calls : state[d] \in Resolved => state'[d] \in Resolved
          /\ \A d \in Calls : state'[d] \in Awaiting => state[d] \in Awaiting
      BY <1>1 DEF Resolving, Resolve
    <3>. HIDE DEF NoneAsked
    <3>. QED
      BY <3>1, <1>m
  <2>2. NoneAsked(disk)'
    BY <1>1 DEF Resolving, UpNext, Resolve
  <2>. QED
    BY <2>1, <2>2
<1>2. ASSUME NEW c \in Calls, NEW s \in Awaiting, Parking(c, s) PROVE UnaskedInv'
  <2>1. NoneAsked(state)'
    <3>1. /\ c \in InBatch(batch) /\ state' = [state EXCEPT ![c] = s] /\ begun' = begun
          /\ state[c] \notin Resolved
          /\ \A e \in begun \cap InBatch(batch) : state[e] \in Resolved
      <4>1. UpNext(c) /\ pc \in {"invoke", "asking"}
        BY <1>2 DEF Parking
      <4>2. \A e \in begun \cap InBatch(batch) : state[e] \in Resolved
        BY <4>1, <1>b
      <4>. QED
        BY <1>2, <4>1, <4>2 DEF Parking, UpNext
    <3>2. \A e \in begun : Batch[e] = batch => state[e] \in Resolved /\ state'[e] \in Resolved
      BY <3>1
    <3>. QED
      BY SMTT(30), <3>1, <3>2
  <2>2. NoneAsked(disk)'
    BY <1>2 DEF Parking, UpNext
  <2>. QED
    BY <2>1, <2>2
<1>3. ASSUME FreshTurn PROVE UnaskedInv'
  BY <1>3 DEF FreshTurn
<1>4. ASSUME EmitBatch PROVE UnaskedInv'
  <2>1. PICK d \in Calls : state[d] = "absent" /\ batch' = Batch[d]
    BY <1>4 DEF EmitBatch
  <2>2. \A c \in Calls : Batch[c] = batch' => c \notin begun
    BY <2>1
  <2>3. /\ \A c \in Calls : state'[c] = IF Batch[c] = batch' THEN "pending" ELSE state[c]
        /\ \A c \in Calls : disk'[c] = IF Batch[c] = batch' THEN "pending" ELSE disk[c]
        /\ begun' = begun
    BY <1>4 DEF EmitBatch
  <2>. QED
    BY <2>2, <2>3
<1>5. ASSUME Complete PROVE UnaskedInv'
  BY <1>5 DEF Complete, Rest, Forget
<1>6. ASSUME StartBatch PROVE UnaskedInv'
  BY <1>6 DEF StartBatch
<1>7. ASSUME NEW c \in Calls, TaskStart(c) PROVE UnaskedInv'
  <2>1. begun' = begun \/ begun' = begun \cup {c}
    BY <1>7 DEF TaskStart
  <2>2. state' = state /\ disk' = disk /\ task[c] = "queued"
    BY <1>7 DEF TaskStart
  <2>3. \A e \in InBatch(Batch[c]) : state[e] \notin Awaiting /\ disk[e] \notin Awaiting
    BY <2>2, <1>t
  <2>4. CASE begun' = begun
    BY <2>2, <2>4
  <2>5. CASE begun' = begun \cup {c}
    <3>. HIDE DEF NoneAsked
    <3>. QED
      BY <2>2, <2>3, <2>5, <1>p
  <2>. QED
    BY <2>1, <2>4, <2>5
<1>8. ASSUME NEW c \in Calls, TaskDone(c) PROVE UnaskedInv'
  BY <1>8 DEF TaskDone, TasksAlive
<1>9. ASSUME NEW c \in Calls, TaskFails(c) PROVE UnaskedInv'
  BY <1>9 DEF TaskFails, TasksAlive
<1>10. ASSUME NEW c \in Calls, Take(c) PROVE UnaskedInv'
  <2>1. NoneAsked(state)'
    <3>1. /\ begun' = begun /\ \A d \in Calls : state[d] \in Resolved => state'[d] \in Resolved
          /\ \A d \in Calls : state'[d] \in Awaiting => state[d] \in Awaiting
      BY <1>10 DEF Take, Outcome
    <3>. HIDE DEF NoneAsked
    <3>. QED
      BY <3>1, <1>m
  <2>2. NoneAsked(disk)'
    BY <1>10 DEF Take, Outcome, Taken
  <2>. QED
    BY <2>1, <2>2
<1>11. ASSUME NEW c \in Calls, TakeFailed(c) PROVE UnaskedInv'
  BY <1>11 DEF TakeFailed, Unwind
<1>12. ASSUME NEW c \in Calls, TaskCancelled(c) PROVE UnaskedInv'
  BY <1>12 DEF TaskCancelled
<1>13. ASSUME Harvest PROVE UnaskedInv'
  <2>1. NoneAsked(state)'
    <3>1. /\ begun' = begun /\ \A d \in Calls : state[d] \in Resolved => state'[d] \in Resolved
          /\ \A d \in Calls : state'[d] \in Awaiting => state[d] \in Awaiting
      BY <1>13 DEF Harvest, Outcome
    <3>. HIDE DEF NoneAsked
    <3>. QED
      BY <3>1, <1>m
  <2>2. NoneAsked(disk)'
    BY <1>13 DEF Harvest, Outcome, Harvested, Taken
  <2>. QED
    BY <2>1, <2>2
<1>14. ASSUME NEW c \in Calls, Blocked(c) PROVE UnaskedInv'
  BY <1>14 DEF Blocked, Hand, Admitted, Serving, Unresolved, Answering, Fresh
<1>15. ASSUME NEW c \in Calls, Confirmed(c) PROVE UnaskedInv'
  <2>1. NoneAsked(state)'
    <3>1. /\ begun' = begun /\ \A d \in Calls : state[d] \in Resolved => state'[d] \in Resolved
          /\ \A d \in Calls : state'[d] \in Awaiting => state[d] \in Awaiting
      BY <1>15 DEF Confirmed, Marked, Admitted, Serving, Unresolved
    <3>. HIDE DEF NoneAsked
    <3>. QED
      BY <3>1, <1>m
  <2>2. NoneAsked(disk)'
    BY <1>15 DEF Confirmed, Answering, Admitted, Serving, Unresolved, Fresh, Marked
  <2>. QED
    BY <2>1, <2>2
<1>16. ASSUME NEW c \in Calls, Unasked(c) PROVE UnaskedInv'
  BY <1>16 DEF Unasked, Fresh, Hand, Admitted, Serving, Unresolved, Answering
<1>17. ASSUME Flip PROVE UnaskedInv'
  BY <1>17, <1>w DEF Flip
<1>18. ASSUME FlipFails PROVE UnaskedInv'
  BY <1>18 DEF FlipFails, Unwind
<1>19. ASSUME Begin PROVE UnaskedInv'
  <2>1. begun' = begun \cup {at} /\ state' = state /\ disk' = disk /\ pc = "invoke" /\ at \in Calls
    BY <1>19 DEF Begin
  <2>2. \A e \in InBatch(Batch[at]) : state[e] \notin Awaiting /\ disk[e] \notin Awaiting
    BY <2>1, <1>u
  <2>. HIDE DEF NoneAsked
  <2>. QED
    BY <2>1, <2>2, <1>p
<1>20. ASSUME DenyHeadless PROVE UnaskedInv'
  BY <1>20 DEF DenyHeadless, NeedsConfirm, Allowed, Approved
<1>asking. ASSUME Question PROVE UnaskedInv'
  BY <1>asking DEF Question
<1>cut. ASSUME HarvestCut PROVE UnaskedInv'
  BY <1>cut DEF HarvestCut, AllSettled
<1>21. ASSUME Effect PROVE UnaskedInv'
  BY <1>21 DEF Effect
<1>22. ASSUME Return PROVE UnaskedInv'
  BY <1>22 DEF Return
<1>23. ASSUME NEW c \in Calls, LateEffect(c) PROVE UnaskedInv'
  BY <1>23 DEF LateEffect, AtAwait
<1>24. ASSUME AuditFails PROVE UnaskedInv'
  BY <1>24 DEF AuditFails, Unwind
<1>25. ASSUME Persisted PROVE UnaskedInv'
  <2>1. NoneAsked(state)'
    BY <1>25, <1>w DEF Persisted, Commit, Unresolved, Unwind
  <2>2. NoneAsked(disk)'
    BY <1>25, <1>w DEF Persisted, Commit, Unresolved, Unwind
  <2>. QED
    BY <2>1, <2>2
<1>26. ASSUME PersistFails PROVE UnaskedInv'
  BY <1>26 DEF PersistFails, Unwind, EmittedUnwritten
<1>27. ASSUME Parked PROVE UnaskedInv'
  <2>1. NoneAsked(state)'
    BY <1>27, <1>w DEF Parked, Commit
  <2>2. NoneAsked(disk)'
    BY <1>27, <1>w DEF Parked, Commit
  <2>. QED
    BY <2>1, <2>2
<1>28. ASSUME ParkFails PROVE UnaskedInv'
  BY <1>28 DEF ParkFails, Unwind
<1>29. ASSUME Backstop PROVE UnaskedInv'
  BY <1>29, <1>w DEF Backstop
<1>30. ASSUME BackstopFails PROVE UnaskedInv'
  BY <1>30, <1>w DEF BackstopFails
<1>31. ASSUME Close PROVE UnaskedInv'
  BY <1>31 DEF Close, Rest, Forget
<1>32. ASSUME Reconcile PROVE UnaskedInv'
  BY <1>32, <1>d DEF Reconcile, Rest, Forget
<1>33. ASSUME ReconcileFails PROVE UnaskedInv'
  BY <1>33 DEF ReconcileFails, Rest, Forget
<1>34. ASSUME Stop PROVE UnaskedInv'
  BY <1>34 DEF Stop, AtAwait
<1>35. ASSUME CancelLands PROVE UnaskedInv'
  <2>1. NoneAsked(state)'
    BY <1>35, <1>w DEF CancelLands, Unwind, Cancellable
  <2>2. NoneAsked(disk)'
    <3>1. (disk' = disk \/ disk' = state) /\ begun' = begun
      BY <1>35, <1>w DEF CancelLands
    <3>. QED
      BY <3>1
  <2>. QED
    BY <2>1, <2>2
<1>36. ASSUME CancelLandsOutside PROVE UnaskedInv'
  BY <1>36 DEF CancelLandsOutside
<1>37. ASSUME Crash PROVE UnaskedInv'
  BY <1>37 DEF Crash, Forget, AtAwait
<1>38. ASSUME Boot PROVE UnaskedInv'
  <2>1. ASSUME NEW d, d \in {disk, Reconciled(disk)}, Rest(d), pc = "boot", begun' = begun
        PROVE  UnaskedInv'
    BY SMTT(30), <2>1, <1>d DEF Rest, Forget
  <2>. QED
    BY <1>38, <2>1 DEF Boot, history
<1>39. ASSUME NEW c \in Calls, NEW v \in Verdicts \ {"none"}, Resume(c,v) PROVE UnaskedInv'
  BY <1>39 DEF Resume
<1>40. ASSUME ResumeRefused PROVE UnaskedInv'
  BY <1>40 DEF ResumeRefused, Rest, Forget
<1>41. ASSUME RefusedByAllowlist PROVE UnaskedInv'
  BY <1>41 DEF RefusedByAllowlist
<1>42. ASSUME Grant PROVE UnaskedInv'
  BY <1>42 DEF Grant
<1>43. ASSUME Mint PROVE UnaskedInv'
  BY <1>43 DEF Mint, Outlived
<1>44. ASSUME Replied PROVE UnaskedInv'
  BY <1>44 DEF Replied, Outlived
<1>45. ASSUME NEW c \in Calls, TokenGone(c) PROVE UnaskedInv'
  BY <1>45 DEF TokenGone, AtAwait
<1>46. ASSUME CarryExpires PROVE UnaskedInv'
  BY <1>46 DEF CarryExpires, AtAwait
<1>47. ASSUME NEW c \in Calls, Withdraw(c) PROVE UnaskedInv'
  BY <1>47 DEF Withdraw, AtAwait
<1>. HIDE DEF TypeInv, Calls, Points, States, TaskStates, Verdicts, Awaiting, Resolved, Stale,
           hand, guard, owner, durable, gate, history, InBatch, Closed, Serial, AtCall, Synced,
           InPrefix, Quiet, Busy, UnaskedInv, NoneAsked, WriteInv, Opened, BegunInv,
           OnceInv, BegunOpened
<1>. QED
  BY <1>asking, <1>cut, <1>1, <1>2, <1>3, <1>4, <1>5, <1>6, <1>7, <1>8, <1>9, <1>10, <1>11, <1>12,
     <1>13, <1>14,
     <1>15, <1>16, <1>17, <1>18, <1>19, <1>20, <1>21, <1>22, <1>23, <1>24, <1>25, <1>26, <1>27,
     <1>28, <1>29, <1>30, <1>31, <1>32, <1>33, <1>34, <1>35, <1>36, <1>37, <1>38, <1>39, <1>40,
     <1>41, <1>42, <1>43, <1>44, <1>45, <1>46, <1>47, AnswerInjectedResolves, DismissedResolves,
     SuppressedResolves, MalformedResolves, AnswerHeadlessResolves, AuditedResolves, AskParks
     DEF Next, Own, Serve, Environment

-----------------------------------------------------------------------------
\* Every step keeps begun calls the drive's own, and their effects at most one.
LEMMA OnceKept ==
  ASSUME CallsAssumption, TypeInv, ConsentInv, WriteInv, OrderInv, PrefixInv, BegunInv, Next
  PROVE  OnceInv'
<1>w. Written = state
  BY WrittenIsState DEF WriteInv
<1>l. Outstanding # {} <=> Busy
  BY OutstandingTasks
<1>d. \A c \in Calls : Reconciled(disk)[c] = "absent" <=> disk[c] = "absent"
  BY ReconciledKeeps DEF TypeInv
<1>n. \A c \in Calls : UpNext(c) /\ pc \notin {"run", "ran", "audit"} => c \notin begun
  BY DEF UpNext, BegunInv, OnceInv, BegunResolved
<1>e. \A c \in Calls : c \notin begun => effects[c] = 0 /\ c \notin late
  BY DEF ConsentInv, TypeInv
<1>i. \A c \in Calls : state[c] = "absent" => c \notin begun
  BY DEF BegunInv, OnceInv, BegunOpened
<1>j. ASSUME NEW d \in Calls, state[d] = "absent" PROVE \A c \in InBatch(Batch[d]) : c \notin begun
  BY <1>i, <1>j DEF WriteInv, Opened, InBatch
<1>v. \A c \in Calls : UpNext(c) => \A d \in begun \cap InBatch(batch) : state[d] \in Resolved \/ d = c
  BY DEF BegunInv, OnceInv, BegunResolved, UpNext, OrderInv, AtIsNext, AtCall, Serial,
     CallsAssumption, Calls, InBatch
<1>r. pc = "resume" => \A d \in begun \cap InBatch(batch) : state[d] \in Resolved
  BY DEF BegunInv, UnaskedInv, NoneAsked, OrderInv, AtResume, WriteInv, OwnWritten, Synced, InBatch
<1>t. \A c \in Calls : task[c] # "none" => state[c] # "absent"
  BY DEF PrefixInv, PrefixOwn, WriteInv, InHand, InBatch
<1>x. ASSUME NEW c \in Calls, TaskDone(c) PROVE Once'
  <2>1. /\ pc' = pc /\ pc # "run" /\ late' = late /\ task' = [task EXCEPT ![c] = "done"]
        /\ task[c] = "running" /\ task \in [Calls -> TaskStates] /\ effects \in [Calls -> Nat]
    BY <1>x DEF TaskDone, TasksAlive, TypeInv, history
  <2>2. /\ \A d \in Calls : effects[d] \in {0, 1}
        /\ \A d \in late : d \in Calls /\ effects[d] = 0 /\ task[d] \notin {"queued", "running"}
    BY DEF BegunInv, OnceInv, Once, TypeInv
  <2>3. effects[c] = 0 /\ c \notin late
    BY <2>1, <2>2 DEF PrefixInv, TasksBegun
  <2>4. effects' = effects \/ effects' = [effects EXCEPT ![c] = effects[c] + 1]
    BY <1>x DEF TaskDone
  <2>5. \A d \in Calls : effects'[d] = effects[d] \/ (d = c /\ effects'[d] = 1)
    BY <2>1, <2>3, <2>4
  <2>6. \A d \in late : effects'[d] = 0 /\ task'[d] = task[d]
    BY <2>1, <2>2, <2>3, <2>5
  <2>. QED
    BY <2>1, <2>2, <2>5, <2>6 DEF Once
<1>u. pc \in AtCall => UpNext(at) /\ at \in Calls
  BY AtCallIsNext DEF UpNext, InBatch
<1>. USE CallsAssumption DEF CallsAssumption, TypeInv, Calls, Points, States, TaskStates,
           Verdicts, Awaiting, Resolved, Stale, hand, guard, owner, durable, gate, history,
           InBatch, Closed, Serial, AtCall, Synced, InPrefix, Quiet, Busy, OnceInv,
           BegunInv, BegunResolved, BegunOpened, Once, WriteInv, OwnWritten, InHand, OrderInv,
           HeadPending, AtIsNext, PrefixInv, PrefixStates, PrefixPlace, TasksBegun, BegunTasks,
           NoBatch, Kept
<1>1. ASSUME NEW c \in Calls, NEW s \in Closed, Resolving(c, s) PROVE OnceInv'
  <2>1. BegunResolved'
    <3>1. /\ \A d \in begun \cap InBatch(batch) : state[d] \in Resolved \/ d = c
          /\ state' = [state EXCEPT ![c] = s] /\ s \in Resolved /\ begun' = begun /\ batch' = batch
      BY <1>1, <1>v DEF Resolving, Resolve
    <3>. QED
      BY <3>1
  <2>2. BegunOpened'
    BY <1>1, <1>n DEF Resolving, UpNext, Resolve
  <2>3. Once'
    BY <1>1, <1>n DEF Resolving, UpNext, Resolve
  <2>. QED
    BY <2>1, <2>2, <2>3
<1>2. ASSUME NEW c \in Calls, NEW s \in Awaiting, Parking(c, s) PROVE OnceInv'
  <2>1. BegunResolved'
    BY <1>2, <1>n DEF Parking, UpNext
  <2>2. BegunOpened'
    BY <1>2, <1>n DEF Parking, UpNext
  <2>3. Once'
    BY <1>2, <1>n DEF Parking, UpNext
  <2>. QED
    BY <2>1, <2>2, <2>3
<1>3. ASSUME FreshTurn PROVE OnceInv'
  BY <1>3 DEF FreshTurn
<1>4. ASSUME EmitBatch PROVE OnceInv'
  <2>1. PICK d \in Calls : state[d] = "absent" /\ batch' = Batch[d]
    BY <1>4 DEF EmitBatch
  <2>2. \A c \in InBatch(batch') : c \notin begun
    BY <2>1, <1>j
  <2>. QED
    BY <1>4, <2>2 DEF EmitBatch
<1>5. ASSUME Complete PROVE OnceInv'
  BY <1>5 DEF Complete, Rest, Forget
<1>6. ASSUME StartBatch PROVE OnceInv'
  <2>1. /\ pc = "head" /\ pc' \in {"prefix", "tail"}
        /\ UNCHANGED <<batch, state, begun, late, effects>>
    BY <1>6 DEF StartBatch
  <2>2. BegunResolved' /\ BegunOpened'
    BY <2>1
  <2>3. \A c \in late : c \notin Prefix \/ c \in begun
    BY DEF ConsentInv
  <2>4. \A c \in InBatch(batch) : c \notin begun
    BY <2>1
  <2>5. \A c \in Calls : task'[c] = task[c] \/ task'[c] = "none" \/ c \in InBatch(batch)
    <3>1. task' = task \/ task' = [c \in Calls |-> IF c \in Prefix THEN "queued" ELSE "none"]
      BY <1>6 DEF StartBatch
    <3>2. Prefix \subseteq InBatch(batch)
      BY PrefixSegment
    <3>. QED
      BY <3>1, <3>2
  <2>6. Once'
    BY <2>1, <2>4, <2>5 DEF ConsentInv
  <2>. QED
    BY <2>2, <2>6
<1>7. ASSUME NEW c \in Calls, TaskStart(c) PROVE OnceInv'
  <2>1. BegunResolved'
    BY SMTT(30), <1>7, <1>e, <1>t DEF TaskStart, TasksAlive
  <2>2. BegunOpened'
    BY <1>7, <1>e, <1>t DEF TaskStart, TasksAlive
  <2>3. Once'
    BY <1>7, <1>e, <1>t DEF TaskStart, TasksAlive
  <2>. QED
    BY <2>1, <2>2, <2>3
<1>8. ASSUME NEW c \in Calls, TaskDone(c) PROVE OnceInv'
  <2>1. BegunResolved'
    BY <1>8 DEF TaskDone, TasksAlive
  <2>2. BegunOpened'
    BY <1>8 DEF TaskDone, TasksAlive
  <2>3. Once'
    BY <1>8, <1>x
  <2>. QED
    BY <2>1, <2>2, <2>3
<1>9. ASSUME NEW c \in Calls, TaskFails(c) PROVE OnceInv'
  <2>1. BegunResolved'
    BY <1>9 DEF TaskFails, TasksAlive
  <2>2. BegunOpened'
    BY <1>9 DEF TaskFails, TasksAlive
  <2>3. Once'
    BY <1>9 DEF TaskFails, TasksAlive
  <2>. QED
    BY <2>1, <2>2, <2>3
<1>10. ASSUME NEW c \in Calls, Take(c) PROVE OnceInv'
  <2>1. BegunResolved'
    BY <1>10 DEF Take, Outcome, Taken
  <2>2. BegunOpened'
    BY <1>10 DEF Take, Outcome, Taken
  <2>3. Once'
    BY <1>10 DEF Take, Outcome, Taken
  <2>. QED
    BY <2>1, <2>2, <2>3
<1>11. ASSUME NEW c \in Calls, TakeFailed(c) PROVE OnceInv'
  <2>1. BegunResolved'
    BY <1>11, <1>l DEF TakeFailed, Unwind
  <2>2. BegunOpened'
    BY <1>11, <1>l DEF TakeFailed, Unwind
  <2>3. Once'
    BY <1>11, <1>l DEF TakeFailed, Unwind
  <2>. QED
    BY <2>1, <2>2, <2>3
<1>12. ASSUME NEW c \in Calls, TaskCancelled(c) PROVE OnceInv'
  BY <1>12 DEF TaskCancelled
<1>13. ASSUME Harvest PROVE OnceInv'
  <2>1. BegunResolved'
    BY <1>13 DEF Harvest, Outcome, Harvested, Taken
  <2>2. BegunOpened'
    BY <1>13 DEF Harvest, Outcome, Harvested, Taken
  <2>3. Once'
    BY <1>13 DEF Harvest, Outcome, Harvested, Taken
  <2>. QED
    BY <2>1, <2>2, <2>3
<1>14. ASSUME NEW c \in Calls, Blocked(c) PROVE OnceInv'
  BY <1>14 DEF Blocked, Hand, Admitted, Serving, Unresolved, Answering, Fresh
<1>15. ASSUME NEW c \in Calls, Confirmed(c) PROVE OnceInv'
  <2>1. BegunResolved'
    BY <1>15, <1>n, ServedIsNext DEF Confirmed, Answering, Admitted, Serving, Unresolved, Fresh,
       Marked
  <2>2. BegunOpened'
    BY <1>15, <1>n, ServedIsNext DEF Confirmed, Answering, Admitted, Serving, Unresolved, Fresh,
       Marked
  <2>3. Once'
    BY <1>15, <1>n, ServedIsNext DEF Confirmed, Answering, Admitted, Serving, Unresolved, Fresh,
       Marked
  <2>. QED
    BY <2>1, <2>2, <2>3
<1>16. ASSUME NEW c \in Calls, Unasked(c) PROVE OnceInv'
  BY <1>16 DEF Unasked, Fresh, Hand, Admitted, Serving, Unresolved, Answering
<1>17. ASSUME Flip PROVE OnceInv'
  BY <1>17, <1>u DEF Flip
<1>18. ASSUME FlipFails PROVE OnceInv'
  BY <1>18, <1>l DEF FlipFails, Unwind
<1>19. ASSUME Begin PROVE OnceInv'
  <2>1. BegunResolved'
    BY <1>19, <1>e, <1>u, <1>n DEF Begin, Allowed, Approved
  <2>2. BegunOpened'
    BY <1>19, <1>e, <1>u, <1>n DEF Begin, Allowed, Approved
  <2>3. Once'
    BY <1>19, <1>e, <1>u, <1>n DEF Begin, Allowed, Approved
  <2>. QED
    BY <2>1, <2>2, <2>3
<1>20. ASSUME DenyHeadless PROVE OnceInv'
  BY <1>20 DEF DenyHeadless, NeedsConfirm, Allowed, Approved
<1>asking. ASSUME Question PROVE OnceInv'
  BY <1>asking DEF Question
<1>cut. ASSUME HarvestCut PROVE OnceInv'
  BY <1>cut DEF HarvestCut, AllSettled
<1>21. ASSUME Effect PROVE OnceInv'
  <2>1. BegunResolved'
    BY <1>21 DEF Effect
  <2>2. BegunOpened'
    BY <1>21 DEF Effect
  <2>3. Once'
    BY <1>21 DEF Effect
  <2>. QED
    BY <2>1, <2>2, <2>3
<1>22. ASSUME Return PROVE OnceInv'
  <2>1. BegunResolved'
    BY <1>22 DEF Return
  <2>2. BegunOpened'
    BY <1>22 DEF Return
  <2>3. Once'
    <3>1. pc = "run" => effects[at] = 0 /\ task[at] \notin {"queued", "running"} /\ at \in Calls
      BY <1>22 DEF Return
    <3>2. /\ pc' = "audit" /\ effects' = effects /\ task' = task
          /\ late' = late \/ (pc = "run" /\ late' = late \cup {at})
      BY <1>22 DEF Return
    <3>. QED
      BY <3>1, <3>2
  <2>. QED
    BY <2>1, <2>2, <2>3
<1>23. ASSUME NEW c \in Calls, LateEffect(c) PROVE OnceInv'
  <2>1. BegunResolved'
    BY <1>23 DEF LateEffect, AtAwait
  <2>2. BegunOpened'
    BY <1>23 DEF LateEffect, AtAwait
  <2>3. Once'
    BY <1>23 DEF LateEffect, AtAwait
  <2>. QED
    BY <2>1, <2>2, <2>3
<1>24. ASSUME AuditFails PROVE OnceInv'
  BY <1>24, <1>l DEF AuditFails, Unwind
<1>25. ASSUME Persisted PROVE OnceInv'
  <2>1. BegunResolved'
    BY <1>25, <1>l DEF Persisted, Commit, Unresolved, Unwind
  <2>2. BegunOpened'
    BY <1>25, <1>l DEF Persisted, Commit, Unresolved, Unwind
  <2>3. Once'
    BY <1>25, <1>l DEF Persisted, Commit, Unresolved, Unwind
  <2>. QED
    BY <2>1, <2>2, <2>3
<1>26. ASSUME PersistFails PROVE OnceInv'
  BY <1>26, <1>l DEF PersistFails, Unwind, EmittedUnwritten
<1>27. ASSUME Parked PROVE OnceInv'
  BY <1>27 DEF Parked, Commit
<1>28. ASSUME ParkFails PROVE OnceInv'
  BY <1>28, <1>l DEF ParkFails, Unwind
<1>29. ASSUME Backstop PROVE OnceInv'
  BY <1>29 DEF Backstop
<1>30. ASSUME BackstopFails PROVE OnceInv'
  BY <1>30 DEF BackstopFails
<1>31. ASSUME Close PROVE OnceInv'
  BY <1>31 DEF Close, Rest, Forget
<1>32. ASSUME Reconcile PROVE OnceInv'
  BY <1>32, <1>d DEF Reconcile, Rest, Forget
<1>33. ASSUME ReconcileFails PROVE OnceInv'
  BY <1>33 DEF ReconcileFails, Rest, Forget
<1>34. ASSUME Stop PROVE OnceInv'
  BY <1>34 DEF Stop, AtAwait
<1>35. ASSUME CancelLands PROVE OnceInv'
  <2>1. BegunResolved'
    BY <1>35, <1>l DEF CancelLands, Unwind, Cancellable
  <2>2. BegunOpened'
    BY <1>35, <1>l DEF CancelLands, Unwind, Cancellable
  <2>3. Once'
    <3>1. pc = "run" => effects[at] = 0 /\ task[at] \notin {"queued", "running"} /\ at \in Calls
      BY <1>35 DEF CancelLands
    <3>2. /\ pc' # "run" /\ effects' = effects /\ task' = task
          /\ late' = late \/ (pc = "run" /\ late' = late \cup {at})
      BY <1>35 DEF CancelLands, Unwind
    <3>. QED
      BY <3>1, <3>2
  <2>. QED
    BY <2>1, <2>2, <2>3
<1>36. ASSUME CancelLandsOutside PROVE OnceInv'
  BY <1>36 DEF CancelLandsOutside
<1>37. ASSUME Crash PROVE OnceInv'
  BY <1>37 DEF Crash, Forget, AtAwait
<1>38. ASSUME Boot PROVE OnceInv'
  <2>1. ASSUME NEW d, d \in {disk, Reconciled(disk)}, Rest(d), pc = "boot", UNCHANGED <<begun, effects, late>>
        PROVE  OnceInv'
    BY SMTT(30), <2>1, <1>d DEF Rest, Forget
  <2>. QED
    BY <1>38, <2>1 DEF Boot, history
<1>39. ASSUME NEW c \in Calls, NEW v \in Verdicts \ {"none"}, Resume(c,v) PROVE OnceInv'
  BY <1>39 DEF Resume
<1>40. ASSUME ResumeRefused PROVE OnceInv'
  BY <1>40 DEF ResumeRefused, Rest, Forget
<1>41. ASSUME RefusedByAllowlist PROVE OnceInv'
  BY <1>41, <1>r DEF RefusedByAllowlist
<1>42. ASSUME Grant PROVE OnceInv'
  BY <1>42 DEF Grant
<1>43. ASSUME Mint PROVE OnceInv'
  BY <1>43, <1>r DEF Mint, Outlived
<1>44. ASSUME Replied PROVE OnceInv'
  BY <1>44, <1>r DEF Replied, Outlived
<1>45. ASSUME NEW c \in Calls, TokenGone(c) PROVE OnceInv'
  <2>1. BegunResolved'
    BY <1>45 DEF TokenGone, AtAwait
  <2>2. BegunOpened'
    BY <1>45 DEF TokenGone, AtAwait
  <2>3. Once'
    BY <1>45 DEF TokenGone, AtAwait
  <2>. QED
    BY <2>1, <2>2, <2>3
<1>46. ASSUME CarryExpires PROVE OnceInv'
  BY <1>46 DEF CarryExpires, AtAwait
<1>47. ASSUME NEW c \in Calls, Withdraw(c) PROVE OnceInv'
  BY <1>47 DEF Withdraw, AtAwait
<1>. HIDE DEF TypeInv, Calls, Points, States, TaskStates, Verdicts, Awaiting, Resolved, Stale,
           hand, guard, owner, durable, gate, history, InBatch, Closed, Serial, AtCall, Synced,
           InPrefix, Quiet, Busy, OnceInv, BegunInv, BegunResolved, BegunOpened, Once,
           WriteInv, OwnWritten, InHand, OrderInv, HeadPending, AtIsNext, PrefixInv, PrefixStates,
           PrefixPlace, TasksBegun, BegunTasks, NoBatch, Kept
<1>. QED
  BY <1>asking, <1>cut, <1>1, <1>2, <1>3, <1>4, <1>5, <1>6, <1>7, <1>8, <1>9, <1>10, <1>11, <1>12,
     <1>13, <1>14,
     <1>15, <1>16, <1>17, <1>18, <1>19, <1>20, <1>21, <1>22, <1>23, <1>24, <1>25, <1>26, <1>27,
     <1>28, <1>29, <1>30, <1>31, <1>32, <1>33, <1>34, <1>35, <1>36, <1>37, <1>38, <1>39, <1>40,
     <1>41, <1>42, <1>43, <1>44, <1>45, <1>46, <1>47, AnswerInjectedResolves, DismissedResolves,
     SuppressedResolves, MalformedResolves, AnswerHeadlessResolves, AuditedResolves, AskParks
     DEF Next, Own, Serve, Environment

-----------------------------------------------------------------------------
\* What the ledger sees of each state.
LEMMA StatusCases ==
  \A s \in States : \/ s = "absent" /\ Status(s) = "absent"
                    \/ s \in Stale /\ Status(s) = "open"
                    \/ s \in Awaiting /\ Status(s) = "asked"
                    \/ s \in Resolved /\ Status(s) = "closed"
  BY DEF Status, States, Stale, Awaiting, Resolved

\* Writing memory to the database moves no call in a way the ledger forbids.
LEMMA WrittenMoves ==
  ASSUME CallsAssumption, TypeInv, WriteInv, BegunInv, NEW c \in Calls,
         Status(state[c]) # Status(disk[c])
  PROVE  \/ Status(disk[c]) = "open" /\ Status(state[c]) = "asked" /\ c \notin begun
         \/ Status(disk[c]) = "open" /\ Status(state[c]) = "closed"
         \/ Status(disk[c]) = "asked" /\ Status(state[c]) \in {"open", "closed"}
<1>1. /\ disk[c] \in States /\ state[c] \in States
      /\ disk[c] \in Resolved => state[c] \in Resolved
      /\ disk[c] = "absent" <=> state[c] = "absent"
  BY DEF TypeInv, WriteInv, Kept
<1>2. c \in begun /\ state[c] \notin Resolved => state[c] \notin Awaiting
  BY DEF BegunInv, UnaskedInv, NoneAsked
<1>3. \/ state[c] = "absent" /\ Status(state[c]) = "absent"
      \/ state[c] \in Stale /\ Status(state[c]) = "open"
      \/ state[c] \in Awaiting /\ Status(state[c]) = "asked"
      \/ state[c] \in Resolved /\ Status(state[c]) = "closed"
  BY <1>1, StatusCases
<1>4. \/ disk[c] = "absent" /\ Status(disk[c]) = "absent"
      \/ disk[c] \in Stale /\ Status(disk[c]) = "open"
      \/ disk[c] \in Awaiting /\ Status(disk[c]) = "asked"
      \/ disk[c] \in Resolved /\ Status(disk[c]) = "closed"
  BY <1>1, StatusCases
<1>5. ~(disk[c] = "absent") /\ ~(state[c] = "absent")
  BY <1>1, <1>3, <1>4 DEF Stale, Awaiting, Resolved
<1>6. ~(disk[c] \in Resolved)
  BY <1>1, <1>3, <1>4 DEF Stale, Awaiting, Resolved
<1>7. Status(state[c]) = "asked" => c \notin begun
  BY <1>2, <1>3, <1>5 DEF Stale, Awaiting, Resolved
<1>. QED
  BY <1>3, <1>4, <1>5, <1>6, <1>7

\* A step that writes the database and begins nothing is a Record of the ledger.
LEMMA WriteRecords ==
  ASSUME CallsAssumption, TypeInv, WriteInv, BegunInv, begun' = begun, effects' = effects,
         disk' = disk \/ disk' = Written \/ disk' = Reconciled(disk)
  PROVE  Ledger!Record
<1>1. Written = state
  BY WrittenIsState DEF WriteInv
<1>2. disk' \in [Calls -> States]
  BY <1>1, ReconciledKeeps DEF TypeInv
<1>3. \A c \in Calls : Status(disk'[c]) \in {"absent", "open", "asked", "closed"}
  BY <1>2 DEF Status, States, Stale, Awaiting, Resolved
<1>4. ASSUME NEW c \in Calls PROVE Ledger!Moves(c)
  <2>1. CASE disk' = disk
    BY <2>1 DEF Ledger!Moves
  <2>2. CASE disk' = state
    BY <2>2, WrittenMoves DEF Ledger!Moves
  <2>3. CASE disk' = Reconciled(disk)
    <3>1. CASE disk'[c] = disk[c]
      BY <3>1 DEF Ledger!Moves
    <3>2. CASE disk'[c] # disk[c]
      <4>1. disk[c] \in Stale /\ disk'[c] = "cancelled"
        BY <2>3, <3>2 DEF Reconciled
      <4>2. Status(disk[c]) = "open" /\ Status(disk'[c]) = "closed"
        BY <4>1 DEF Status, Stale, Awaiting, Resolved
      <4>. QED
        BY <4>2 DEF Ledger!Moves
    <3>. QED
      BY <3>1, <3>2
  <2>. QED
    BY <1>1, <2>1, <2>2, <2>3
<1>. QED
  BY <1>3, <1>4 DEF Ledger!Record

\* Opening a batch is a Record of the ledger.
LEMMA BatchRecords ==
  ASSUME CallsAssumption, TypeInv, WriteInv, EmitBatch PROVE Ledger!Record
<1>1. PICK e \in Calls : state[e] = "absent" /\ batch' = Batch[e]
  BY DEF EmitBatch
<1>2. /\ disk' = [c \in Calls |-> IF Batch[c] = batch' THEN "pending" ELSE disk[c]]
      /\ begun' = begun /\ effects' = effects
  BY DEF EmitBatch, history
<1>3. \A c \in Calls : Batch[c] = batch' => disk[c] = "absent"
  BY <1>1 DEF WriteInv, Opened, Kept
<1>4. disk' \in [Calls -> States]
  BY <1>2 DEF TypeInv, States, Stale
<1>5. \A c \in Calls : Status(disk'[c]) \in {"absent", "open", "asked", "closed"}
  BY <1>4 DEF Status, States, Stale, Awaiting, Resolved
<1>6. ASSUME NEW c \in Calls PROVE Ledger!Moves(c)
  <2>1. CASE Batch[c] = batch'
    <3>1. Status(disk[c]) = "absent" /\ Status(disk'[c]) = "open"
      BY <2>1, <1>2, <1>3 DEF Status, Stale, Awaiting, Resolved
    <3>. QED
      BY <3>1 DEF Ledger!Moves
  <2>2. CASE Batch[c] # batch'
    BY <2>2, <1>2 DEF Ledger!Moves
  <2>. QED
    BY <2>1, <2>2
<1>. QED
  BY <1>2, <1>5, <1>6 DEF Ledger!Record

\* Letting an open call through is a Begin of the ledger.
LEMMA LedgerBegins ==
  ASSUME CallsAssumption, TypeInv, NEW c \in Calls, disk[c] \in Stale, c \notin begun,
         begun' = begun \cup {c}, disk' = disk, effects' = effects
  PROVE  Ledger!Begin(c)
<1>1. Status(disk[c]) = "open"
  BY DEF Status, Stale, Awaiting, Resolved
<1>. QED
  BY <1>1 DEF Ledger!Begin

\* A begun call's first effect is an Effect of the ledger.
LEMMA LedgerTakesEffect ==
  ASSUME CallsAssumption, TypeInv, NEW c \in Calls, c \in begun, effects[c] = 0,
         effects' = [effects EXCEPT ![c] = @ + 1], disk' = disk, begun' = begun
  PROVE  Ledger!Effect(c)
<1>1. effects' = [effects EXCEPT ![c] = 1]
  BY DEF TypeInv
<1>. QED
  BY <1>1 DEF Ledger!Effect

\* Every action is a step of the ledger.
LEMMA ActionRefines ==
  ASSUME CallsAssumption, TypeInv, ConsentInv, WriteInv, OrderInv, PrefixInv, BegunInv, Next
  PROVE  Ledger!Next
<1>. USE CallsAssumption DEF Ledger!Next
<1>1. ASSUME FreshTurn PROVE Ledger!Next
  <2>1. /\ begun' = begun /\ effects' = effects
        /\ disk' = disk \/ disk' = Written \/ disk' = Reconciled(disk)
    BY <1>1 DEF FreshTurn, hand, guard, owner, durable, gate, history
  <2>. QED
    BY <2>1, WriteRecords
<1>2. ASSUME EmitBatch PROVE Ledger!Next
  BY <1>2, BatchRecords
<1>3. ASSUME Complete PROVE Ledger!Next
  <2>1. /\ begun' = begun /\ effects' = effects
        /\ disk' = disk \/ disk' = Written \/ disk' = Reconciled(disk)
    BY <1>3 DEF Complete, Rest, Forget, hand, guard, owner, durable, gate, history
  <2>. QED
    BY <2>1, WriteRecords
<1>4. ASSUME StartBatch PROVE Ledger!Next
  <2>1. /\ begun' = begun /\ effects' = effects
        /\ disk' = disk \/ disk' = Written \/ disk' = Reconciled(disk)
    BY <1>4 DEF StartBatch, hand, guard, owner, durable, gate, history
  <2>. QED
    BY <2>1, WriteRecords
<1>5. ASSUME NEW c \in Calls, TaskStart(c) PROVE Ledger!Next
  <2>1. CASE c \in blocked
    <3>1. begun' = begun /\ effects' = effects /\ disk' = disk
      BY <1>5, <2>1 DEF TaskStart, durable
    <3>. QED
      BY <3>1, WriteRecords
  <2>2. CASE c \notin blocked
    <3>1. /\ task[c] = "queued" /\ begun' = begun \cup {c} /\ effects' = effects /\ disk' = disk
      BY <1>5, <2>2 DEF TaskStart, durable
    <3>2. c \notin begun /\ c \in InBatch(batch) /\ InPrefix
      BY <3>1 DEF PrefixInv, TasksBegun, PrefixOwn, InBatch, InPrefix, Busy
    <3>3. disk[c] \in Stale
      BY <3>1, <3>2 DEF PrefixInv, PrefixStates, Stale
    <3>. QED
      BY <3>1, <3>2, <3>3, LedgerBegins
  <2>. QED
    BY <2>1, <2>2
<1>6. ASSUME NEW c \in Calls, TaskDone(c) PROVE Ledger!Next
  <2>1. /\ task[c] = "running" /\ begun' = begun /\ disk' = disk
        /\ effects' = IF c \in begun THEN [effects EXCEPT ![c] = @ + 1] ELSE effects
    BY <1>6 DEF TaskDone, durable
  <2>2. CASE c \in begun
    <3>1. effects[c] = 0
      BY <2>1 DEF PrefixInv, TasksBegun
    <3>. QED
      BY <2>1, <2>2, <3>1, LedgerTakesEffect
  <2>3. CASE c \notin begun
    BY <2>1, <2>3, WriteRecords
  <2>. QED
    BY <2>2, <2>3
<1>7. ASSUME NEW c \in Calls, TaskFails(c) PROVE Ledger!Next
  <2>1. /\ begun' = begun /\ effects' = effects
        /\ disk' = disk \/ disk' = Written \/ disk' = Reconciled(disk)
    BY <1>7 DEF TaskFails, TasksAlive, hand, guard, owner, durable, gate, history
  <2>. QED
    BY <2>1, WriteRecords
<1>8. ASSUME NEW c \in Calls, Take(c) PROVE Ledger!Next
  <2>1. /\ begun' = begun /\ effects' = effects
        /\ disk' = disk \/ disk' = Written \/ disk' = Reconciled(disk)
    BY <1>8 DEF Take, Outcome, hand, guard, owner, durable, gate, history
  <2>. QED
    BY <2>1, WriteRecords
<1>9. ASSUME NEW c \in Calls, TakeFailed(c) PROVE Ledger!Next
  <2>1. /\ begun' = begun /\ effects' = effects
        /\ disk' = disk \/ disk' = Written \/ disk' = Reconciled(disk)
    BY <1>9 DEF TakeFailed, Unwind, hand, guard, owner, durable, gate, history
  <2>. QED
    BY <2>1, WriteRecords
<1>10. ASSUME NEW c \in Calls, TaskCancelled(c) PROVE Ledger!Next
  <2>1. /\ begun' = begun /\ effects' = effects
        /\ disk' = disk \/ disk' = Written \/ disk' = Reconciled(disk)
    BY <1>10 DEF TaskCancelled, hand, guard, owner, durable, gate, history
  <2>. QED
    BY <2>1, WriteRecords
<1>11. ASSUME Harvest PROVE Ledger!Next
  <2>1. /\ begun' = begun /\ effects' = effects
        /\ disk' = disk \/ disk' = Written \/ disk' = Reconciled(disk)
    BY <1>11 DEF Harvest, Outcome, hand, guard, owner, durable, gate, history
  <2>. QED
    BY <2>1, WriteRecords
<1>12. ASSUME NEW c \in Calls, AnswerInjected(c) PROVE Ledger!Next
  <2>1. /\ begun' = begun /\ effects' = effects
        /\ disk' = disk \/ disk' = Written \/ disk' = Reconciled(disk)
    BY <1>12 DEF AnswerInjected, Serving, Unresolved, Answering, Resolve, hand, guard, owner,
       durable,
       gate, history
  <2>. QED
    BY <2>1, WriteRecords
<1>13. ASSUME NEW c \in Calls, Dismissed(c) PROVE Ledger!Next
  <2>1. /\ begun' = begun /\ effects' = effects
        /\ disk' = disk \/ disk' = Written \/ disk' = Reconciled(disk)
    BY <1>13 DEF Dismissed, Serving, Unresolved, Answering, Resolve, Rejected, hand, guard, owner,
       durable, gate, history
  <2>. QED
    BY <2>1, WriteRecords
<1>14. ASSUME NEW c \in Calls, Suppressed(c) PROVE Ledger!Next
  <2>1. /\ begun' = begun /\ effects' = effects
        /\ disk' = disk \/ disk' = Written \/ disk' = Reconciled(disk)
    BY <1>14 DEF Suppressed, Resolve, hand, guard, owner, durable, gate, history
  <2>. QED
    BY <2>1, WriteRecords
<1>15. ASSUME NEW c \in Calls, Blocked(c) PROVE Ledger!Next
  <2>1. /\ begun' = begun /\ effects' = effects
        /\ disk' = disk \/ disk' = Written \/ disk' = Reconciled(disk)
    BY <1>15 DEF Blocked, Hand, Admitted, Serving, Unresolved, Answering, Fresh, hand, guard, owner,
       durable, gate, history
  <2>. QED
    BY <2>1, WriteRecords
<1>16. ASSUME NEW c \in Calls, Malformed(c) PROVE Ledger!Next
  <2>1. /\ begun' = begun /\ effects' = effects
        /\ disk' = disk \/ disk' = Written \/ disk' = Reconciled(disk)
    BY <1>16 DEF Malformed, Resolve, Admitted, Serving, Unresolved, Answering, Fresh, hand, guard,
       owner, durable, gate, history
  <2>. QED
    BY <2>1, WriteRecords
<1>17. ASSUME NEW c \in Calls, Confirmed(c) PROVE Ledger!Next
  <2>1. /\ begun' = begun /\ effects' = effects
        /\ disk' = disk \/ disk' = Written \/ disk' = Reconciled(disk)
    BY <1>17 DEF Confirmed, Answering, Admitted, Serving, Unresolved, Fresh, Marked, hand, guard,
       owner, durable, gate, history
  <2>. QED
    BY <2>1, WriteRecords
<1>18. ASSUME NEW c \in Calls, Unasked(c) PROVE Ledger!Next
  <2>1. /\ begun' = begun /\ effects' = effects
        /\ disk' = disk \/ disk' = Written \/ disk' = Reconciled(disk)
    BY <1>18 DEF Unasked, Fresh, Hand, Admitted, Serving, Unresolved, Answering, hand, guard, owner,
       durable, gate, history
  <2>. QED
    BY <2>1, WriteRecords
<1>19. ASSUME Flip PROVE Ledger!Next
  <2>1. /\ begun' = begun /\ effects' = effects
        /\ disk' = disk \/ disk' = Written \/ disk' = Reconciled(disk)
    BY <1>19 DEF Flip, hand, guard, owner, durable, gate, history
  <2>. QED
    BY <2>1, WriteRecords
<1>20. ASSUME FlipFails PROVE Ledger!Next
  <2>1. /\ begun' = begun /\ effects' = effects
        /\ disk' = disk \/ disk' = Written \/ disk' = Reconciled(disk)
    BY <1>20 DEF FlipFails, Unwind, hand, guard, owner, durable, gate, history
  <2>. QED
    BY <2>1, WriteRecords
<1>21. ASSUME Begin PROVE Ledger!Next
  <2>1. pc = "invoke" /\ begun' = begun \cup {at} /\ effects' = effects /\ disk' = disk
    BY <1>21 DEF Begin, durable
  <2>2. at \in Calls /\ at \in InBatch(batch) /\ state[at] \in Stale
    BY <2>1 DEF OrderInv, AtIsNext, AtCall, Serial, Ready, InBatch
  <2>3. at \notin begun
    BY <2>1, <2>2 DEF BegunInv, OnceInv, BegunResolved, Serial, Stale, Resolved
  <2>4. disk[at] \in Stale
    BY <2>1, <2>2 DEF WriteInv, OwnWritten, Synced
  <2>. QED
    BY <2>1, <2>2, <2>3, <2>4, LedgerBegins
<1>22. ASSUME Ask PROVE Ledger!Next
  <2>1. /\ begun' = begun /\ effects' = effects
        /\ disk' = disk \/ disk' = Written \/ disk' = Reconciled(disk)
    BY <1>22 DEF Ask, NeedsConfirm, Allowed, Approved, hand, guard, owner, durable, gate, history
  <2>. QED
    BY <2>1, WriteRecords
<1>23. ASSUME DenyHeadless PROVE Ledger!Next
  <2>1. /\ begun' = begun /\ effects' = effects
        /\ disk' = disk \/ disk' = Written \/ disk' = Reconciled(disk)
    BY <1>23 DEF DenyHeadless, NeedsConfirm, Allowed, Approved, hand, guard, owner, durable, gate,
       history
  <2>. QED
    BY <2>1, WriteRecords
<1>asking. ASSUME Question PROVE Ledger!Next
  <2>1. /\ begun' = begun /\ effects' = effects
        /\ disk' = disk \/ disk' = Written \/ disk' = Reconciled(disk)
    BY <1>asking DEF Question, durable, history
  <2>. QED
    BY <2>1, WriteRecords
<1>cut. ASSUME HarvestCut PROVE Ledger!Next
  <2>1. /\ begun' = begun /\ effects' = effects
        /\ disk' = disk \/ disk' = Written \/ disk' = Reconciled(disk)
    BY <1>cut DEF HarvestCut, durable, history
  <2>. QED
    BY <2>1, WriteRecords
<1>24. ASSUME AnswerHeadless PROVE Ledger!Next
  <2>1. /\ begun' = begun /\ effects' = effects
        /\ disk' = disk \/ disk' = Written \/ disk' = Reconciled(disk)
    BY <1>24 DEF AnswerHeadless, Resolve, hand, guard, owner, durable, gate, history
  <2>. QED
    BY <2>1, WriteRecords
<1>25. ASSUME Effect PROVE Ledger!Next
  <2>1. pc = "run" /\ effects' = [effects EXCEPT ![at] = @ + 1] /\ begun' = begun /\ disk' = disk
    BY <1>25 DEF Effect, durable
  <2>2. at \in Calls /\ at \in begun /\ effects[at] = 0
    BY <2>1 DEF ConsentInv, TypeInv, BegunInv, OnceInv, Once
  <2>. QED
    BY <2>1, <2>2, LedgerTakesEffect
<1>26. ASSUME Return PROVE Ledger!Next
  <2>1. /\ begun' = begun /\ effects' = effects
        /\ disk' = disk \/ disk' = Written \/ disk' = Reconciled(disk)
    BY <1>26 DEF Return, hand, guard, owner, durable, gate, history
  <2>. QED
    BY <2>1, WriteRecords
<1>27. ASSUME NEW c \in Calls, LateEffect(c) PROVE Ledger!Next
  <2>1. c \in late /\ effects' = [effects EXCEPT ![c] = @ + 1] /\ begun' = begun /\ disk' = disk
    BY <1>27 DEF LateEffect, durable
  <2>2. c \in begun /\ effects[c] = 0
    BY <2>1 DEF ConsentInv, BegunInv, OnceInv, Once
  <2>. QED
    BY <2>1, <2>2, LedgerTakesEffect
<1>28. ASSUME Audited PROVE Ledger!Next
  <2>1. /\ begun' = begun /\ effects' = effects
        /\ disk' = disk \/ disk' = Written \/ disk' = Reconciled(disk)
    BY <1>28 DEF Audited, Outcome, Resolve, hand, guard, owner, durable, gate, history
  <2>. QED
    BY <2>1, WriteRecords
<1>29. ASSUME AuditFails PROVE Ledger!Next
  <2>1. /\ begun' = begun /\ effects' = effects
        /\ disk' = disk \/ disk' = Written \/ disk' = Reconciled(disk)
    BY <1>29 DEF AuditFails, Unwind, hand, guard, owner, durable, gate, history
  <2>. QED
    BY <2>1, WriteRecords
<1>30. ASSUME Persisted PROVE Ledger!Next
  <2>1. /\ begun' = begun /\ effects' = effects
        /\ disk' = disk \/ disk' = Written \/ disk' = Reconciled(disk)
    BY <1>30 DEF Persisted, Commit, Unresolved, Unwind, hand, guard, owner, durable, gate, history
  <2>. QED
    BY <2>1, WriteRecords
<1>31. ASSUME PersistFails PROVE Ledger!Next
  <2>1. /\ begun' = begun /\ effects' = effects
        /\ disk' = disk \/ disk' = Written \/ disk' = Reconciled(disk)
    BY <1>31 DEF PersistFails, Unwind, EmittedUnwritten, hand, guard, owner, durable, gate, history
  <2>. QED
    BY <2>1, WriteRecords
<1>32. ASSUME Parked PROVE Ledger!Next
  <2>1. /\ begun' = begun /\ effects' = effects
        /\ disk' = disk \/ disk' = Written \/ disk' = Reconciled(disk)
    BY <1>32 DEF Parked, Commit, hand, guard, owner, durable, gate, history
  <2>. QED
    BY <2>1, WriteRecords
<1>33. ASSUME ParkFails PROVE Ledger!Next
  <2>1. /\ begun' = begun /\ effects' = effects
        /\ disk' = disk \/ disk' = Written \/ disk' = Reconciled(disk)
    BY <1>33 DEF ParkFails, Unwind, hand, guard, owner, durable, gate, history
  <2>. QED
    BY <2>1, WriteRecords
<1>34. ASSUME Backstop PROVE Ledger!Next
  <2>1. /\ begun' = begun /\ effects' = effects
        /\ disk' = disk \/ disk' = Written \/ disk' = Reconciled(disk)
    BY <1>34 DEF Backstop, hand, guard, owner, durable, gate, history
  <2>. QED
    BY <2>1, WriteRecords
<1>35. ASSUME BackstopFails PROVE Ledger!Next
  <2>1. /\ begun' = begun /\ effects' = effects
        /\ disk' = disk \/ disk' = Written \/ disk' = Reconciled(disk)
    BY <1>35 DEF BackstopFails, hand, guard, owner, durable, gate, history
  <2>. QED
    BY <2>1, WriteRecords
<1>36. ASSUME Close PROVE Ledger!Next
  <2>1. /\ begun' = begun /\ effects' = effects
        /\ disk' = disk \/ disk' = Written \/ disk' = Reconciled(disk)
    BY <1>36 DEF Close, Rest, Forget, hand, guard, owner, durable, gate, history
  <2>. QED
    BY <2>1, WriteRecords
<1>37. ASSUME Reconcile PROVE Ledger!Next
  <2>1. /\ begun' = begun /\ effects' = effects
        /\ disk' = disk \/ disk' = Written \/ disk' = Reconciled(disk)
    BY <1>37 DEF Reconcile, Rest, Forget, hand, guard, owner, durable, gate, history
  <2>. QED
    BY <2>1, WriteRecords
<1>38. ASSUME ReconcileFails PROVE Ledger!Next
  <2>1. /\ begun' = begun /\ effects' = effects
        /\ disk' = disk \/ disk' = Written \/ disk' = Reconciled(disk)
    BY <1>38 DEF ReconcileFails, Rest, Forget, hand, guard, owner, durable, gate, history
  <2>. QED
    BY <2>1, WriteRecords
<1>39. ASSUME Stop PROVE Ledger!Next
  <2>1. /\ begun' = begun /\ effects' = effects
        /\ disk' = disk \/ disk' = Written \/ disk' = Reconciled(disk)
    BY <1>39 DEF Stop, AtAwait, hand, guard, owner, durable, gate, history
  <2>. QED
    BY <2>1, WriteRecords
<1>40. ASSUME CancelLands PROVE Ledger!Next
  <2>1. /\ begun' = begun /\ effects' = effects
        /\ disk' = disk \/ disk' = Written \/ disk' = Reconciled(disk)
    BY <1>40 DEF CancelLands, Unwind, Cancellable, hand, guard, owner, durable, gate, history
  <2>. QED
    BY <2>1, WriteRecords
<1>41. ASSUME CancelLandsOutside PROVE Ledger!Next
  <2>1. /\ begun' = begun /\ effects' = effects
        /\ disk' = disk \/ disk' = Written \/ disk' = Reconciled(disk)
    BY <1>41 DEF CancelLandsOutside, hand, guard, owner, durable, gate, history
  <2>. QED
    BY <2>1, WriteRecords
<1>42. ASSUME Crash PROVE Ledger!Next
  <2>1. /\ begun' = begun /\ effects' = effects
        /\ disk' = disk \/ disk' = Written \/ disk' = Reconciled(disk)
    BY <1>42 DEF Crash, Forget, AtAwait, hand, guard, owner, durable, gate, history
  <2>. QED
    BY <2>1, WriteRecords
<1>43. ASSUME Boot PROVE Ledger!Next
  <2>1. /\ begun' = begun /\ effects' = effects
        /\ disk' = disk \/ disk' = Written \/ disk' = Reconciled(disk)
    BY <1>43 DEF Boot, Rest, Forget, hand, guard, owner, durable, gate, history
  <2>. QED
    BY <2>1, WriteRecords
<1>44. ASSUME NEW c \in Calls, NEW v \in Verdicts \ {"none"}, Resume(c,v) PROVE Ledger!Next
  <2>1. /\ begun' = begun /\ effects' = effects
        /\ disk' = disk \/ disk' = Written \/ disk' = Reconciled(disk)
    BY <1>44 DEF Resume, hand, guard, owner, durable, gate, history
  <2>. QED
    BY <2>1, WriteRecords
<1>45. ASSUME ResumeRefused PROVE Ledger!Next
  <2>1. /\ begun' = begun /\ effects' = effects
        /\ disk' = disk \/ disk' = Written \/ disk' = Reconciled(disk)
    BY <1>45 DEF ResumeRefused, Rest, Forget, hand, guard, owner, durable, gate, history
  <2>. QED
    BY <2>1, WriteRecords
<1>46. ASSUME RefusedByAllowlist PROVE Ledger!Next
  <2>1. /\ begun' = begun /\ effects' = effects
        /\ disk' = disk \/ disk' = Written \/ disk' = Reconciled(disk)
    BY <1>46 DEF RefusedByAllowlist, hand, guard, owner, durable, gate, history
  <2>. QED
    BY <2>1, WriteRecords
<1>47. ASSUME Grant PROVE Ledger!Next
  <2>1. /\ begun' = begun /\ effects' = effects
        /\ disk' = disk \/ disk' = Written \/ disk' = Reconciled(disk)
    BY <1>47 DEF Grant, hand, guard, owner, durable, gate, history
  <2>. QED
    BY <2>1, WriteRecords
<1>48. ASSUME Mint PROVE Ledger!Next
  <2>1. /\ begun' = begun /\ effects' = effects
        /\ disk' = disk \/ disk' = Written \/ disk' = Reconciled(disk)
    BY <1>48 DEF Mint, Outlived, hand, guard, owner, durable, gate, history
  <2>. QED
    BY <2>1, WriteRecords
<1>49. ASSUME Replied PROVE Ledger!Next
  <2>1. /\ begun' = begun /\ effects' = effects
        /\ disk' = disk \/ disk' = Written \/ disk' = Reconciled(disk)
    BY <1>49 DEF Replied, Outlived, hand, guard, owner, durable, gate, history
  <2>. QED
    BY <2>1, WriteRecords
<1>50. ASSUME NEW c \in Calls, TokenGone(c) PROVE Ledger!Next
  <2>1. /\ begun' = begun /\ effects' = effects
        /\ disk' = disk \/ disk' = Written \/ disk' = Reconciled(disk)
    BY <1>50 DEF TokenGone, AtAwait, hand, guard, owner, durable, gate, history
  <2>. QED
    BY <2>1, WriteRecords
<1>51. ASSUME CarryExpires PROVE Ledger!Next
  <2>1. /\ begun' = begun /\ effects' = effects
        /\ disk' = disk \/ disk' = Written \/ disk' = Reconciled(disk)
    BY <1>51 DEF CarryExpires, AtAwait, hand, guard, owner, durable, gate, history
  <2>. QED
    BY <2>1, WriteRecords
<1>52. ASSUME NEW c \in Calls, Withdraw(c) PROVE Ledger!Next
  <2>1. /\ begun' = begun /\ effects' = effects
        /\ disk' = disk \/ disk' = Written \/ disk' = Reconciled(disk)
    BY <1>52 DEF Withdraw, AtAwait, hand, guard, owner, durable, gate, history
  <2>. QED
    BY <2>1, WriteRecords
<1>. HIDE DEF Ledger!Next
<1>. QED
  BY <1>asking, <1>cut, <1>1, <1>2, <1>3, <1>4, <1>5, <1>6, <1>7, <1>8, <1>9, <1>10, <1>11, <1>12,
     <1>13, <1>14,
     <1>15, <1>16, <1>17, <1>18, <1>19, <1>20, <1>21, <1>22, <1>23, <1>24, <1>25, <1>26, <1>27,
     <1>28, <1>29, <1>30, <1>31, <1>32, <1>33, <1>34, <1>35, <1>36, <1>37, <1>38, <1>39, <1>40,
     <1>41, <1>42, <1>43, <1>44, <1>45, <1>46, <1>47, <1>48, <1>49, <1>50, <1>51, <1>52
     DEF Next, Own, Serve, Environment

-----------------------------------------------------------------------------
\* A conversation without calls.
LEMMA StateInitial == ASSUME CallsAssumption, Init PROVE StateInv
<1>. USE DEF Init, Closed, Serial, AtCall, Synced, Quiet, Busy, InPrefix, InBatch, Awaiting,
   Resolved,
           Stale, CallsAssumption
<1>1. WriteInv
  BY DEF WriteInv, OthersWritten, OwnWritten, FlipAlone, NoBatch, InHand, Opened, Kept
<1>2. OrderInv
  BY DEF OrderInv, Waits, TailInOrder, AtIsNext, HeadPending, AtResume, Unanswered, Ready
<1>3. PrefixInv
  BY DEF PrefixInv, PrefixOwn, PrefixLeads, PrefixPlace, PrefixStates, PrefixUnasked, TakenStays,
         TasksBegun, BegunTasks
<1>4. BegunInv
  BY DEF BegunInv, UnaskedInv, NoneAsked, OnceInv, BegunResolved, BegunOpened, Once
<1>. QED
  BY <1>1, <1>2, <1>3, <1>4 DEF StateInv

\* Nothing changes where nothing happens.
LEMMA StateStutters == ASSUME StateInv, UNCHANGED vars PROVE StateInv'
<1>. USE DEF vars, hand, guard, owner, durable, gate, history, StateInv, Closed, Serial, AtCall,
           Synced, Quiet, Busy, InPrefix, InBatch
<1>1. WriteInv'
  BY DEF WriteInv, OthersWritten, OwnWritten, FlipAlone, NoBatch, InHand, Opened, Kept
<1>2. OrderInv'
  BY DEF OrderInv, Waits, TailInOrder, OneByOne, AtIsNext, HeadPending, AtResume, Unanswered, Ready
<1>3. PrefixInv'
  BY DEF PrefixInv, PrefixOwn, PrefixLeads, PrefixPlace, PrefixStates, PrefixUnasked, TakenStays,
         TasksBegun, BegunTasks
<1>4. BegunInv'
  BY DEF BegunInv, UnaskedInv, NoneAsked, OnceInv, BegunResolved, BegunOpened, Once
<1>. QED
  BY <1>1, <1>2, <1>3, <1>4

\* How the calls' states move is kept in every reachable state.
THEOREM StateInvariant == Spec => []StateInv
<1>1. Init => StateInv
  BY StateInitial, CallsAssumption
<1>2. TypeInv /\ ConsentInv /\ StateInv /\ [Next]_vars => StateInv'
  <2>. SUFFICES ASSUME TypeInv, ConsentInv, StateInv, [Next]_vars PROVE StateInv'
    OBVIOUS
  <2>1. CASE Next
    BY <2>1, WriteKept, OrderKept, PrefixKept, UnaskedKept, OnceKept, CallsAssumption
       DEF StateInv, BegunInv
  <2>2. CASE UNCHANGED vars
    BY <2>2, StateStutters
  <2>. QED
    BY <2>1, <2>2
<1>. QED
  BY <1>1, <1>2, ConsentInvariant, PTL DEF Spec

\* A call that was let through to its tool is never resumable again: while its outcome is not on
\* record no call of its message awaits the owner, so no Stop, failed audit or crash leaves a
\* bubble whose Allow would repeat it (C4-H1, session.py's RUNNING flip).
THEOREM NeverReplayable == Spec => []EffectNotReplayable
<1>1. TypeInv /\ StateInv => EffectNotReplayable
  BY DEF TypeInv, StateInv, BegunInv, UnaskedInv, NoneAsked, EffectNotReplayable, InBatch
<1>. QED
  BY <1>1, ConsentInvariant, StateInvariant, PTL

\* Every step is a step of the ledger or leaves what it sees as it is.
THEOREM StepKeepsLedger ==
  TypeInv /\ ConsentInv /\ StateInv /\ [Next]_vars =>
    [Ledger!Next]_<<[c \in Calls |-> Status(disk[c])], begun, effects>>
<1>. SUFFICES ASSUME TypeInv, ConsentInv, StateInv, [Next]_vars
              PROVE  Ledger!Next \/ UNCHANGED <<[c \in Calls |-> Status(disk[c])], begun, effects>>
  OBVIOUS
<1>1. CASE Next
  BY <1>1, ActionRefines, CallsAssumption DEF StateInv
<1>2. CASE UNCHANGED vars
  BY <1>2 DEF vars, durable, history
<1>. QED
  BY <1>1, <1>2

\* For every conversation, what the database and the tools show of each call is what the ledger
\* promises: opened once and closed for good, begun and in effect at most once, and never put to
\* the owner again once begun.
THEOREM LedgerKept == Spec => KeepsLedger
<1>1. Init => Ledger!Init
  BY DEF Init, Ledger!Init, Status, Stale, Awaiting, Resolved
<1>. QED
  BY <1>1, ConsentInvariant, StateInvariant, StepKeepsLedger, PTL DEF Spec, KeepsLedger, Ledger!Spec

=============================================================================
