-------------------------- MODULE DictationProofs --------------------------
(***************************************************************************)
(* One ear, one owner (OneEar) for every number of recordings, phrases and *)
(* retries.  DictationEarProofs defines the inductive invariant, Good, and *)
(* proves what the helpers keep of it; the lemmas below take the handlers  *)
(* that make several of its steps one after another (a leg's sockets, the  *)
(* recorder's last blob, the uploads), and then the specification's step.  *)
(***************************************************************************)
EXTENDS DictationEarProofs, WellFoundedInduction

LEMMA MinOf ==
  ASSUME NEW S \in SUBSET Nat, S # {}
  PROVE  Min(S) \in S /\ \A y \in S : Min(S) <= y
<1>. DEFINE R == {ss \in Nat \X Nat : ss[1] < ss[2]}
<1>1. IsWellFoundedOn(R, Nat)
  BY NatLessThanWellFounded DEF OpToRel
<1>2. \E x \in S : \A y \in S : <<y, x>> \notin R
  BY <1>1, WFMin
<1>3. \E x \in S : \A y \in S : x <= y
  <2>1. PICK x \in S : \A y \in S : <<y, x>> \notin R
    BY <1>2
  <2>2. ASSUME NEW y \in S PROVE x <= y
    <3>1. <<y, x>> \in Nat \X Nat /\ <<y, x>>[1] = y /\ <<y, x>>[2] = x
      OBVIOUS
    <3>2. ~(y < x)
      BY <2>1, <3>1
    <3>. QED
      BY <3>2
  <2>. QED
    BY <2>2
<1>. QED
  BY <1>3 DEF Min

LEMMA GoodLeg ==
  ASSUME NEW t, Good(t), NEW l \in Recs, NEW y \in LegSet, CalmLeg(t.leg[l], y)
  PROVE  Good([t EXCEPT !.leg[l] = y])
<1>. DEFINE s == [t EXCEPT !.leg[l] = y]
<1>1. Typed(t)
  BY DEF Good
<1>2. Typed(s) /\ SameButLeg(t, s, l) /\ s.leg[l] = y
  BY <1>1, LegPut DEF SameButLeg
<1>. HIDE DEF s
<1>3. Calm(t, s) /\ s.call = t.call
  BY <1>2, CalmButLeg DEF SameButLeg
<1>4. Good(s)
  BY <1>2, <1>3, GoodCalm
<1>. QED BY <1>4 DEF s

LEMMA GoodRec ==
  ASSUME NEW t, Good(t), NEW r \in Recs, NEW x \in RecSet, CalmRec(t.rec[r], x)
  PROVE  Good([t EXCEPT !.rec[r] = x])
<1>. DEFINE s == [t EXCEPT !.rec[r] = x]
<1>1. Typed(t)
  BY DEF Good
<1>2. Typed(s) /\ s.call = t.call
  BY <1>1, RecPut
<1>3. Calm(t, s)
  BY <1>1, CalmButRec
<1>. HIDE DEF s
<1>. QED BY <1>2, <1>3, GoodCalm DEF s

-----------------------------------------------------------------------------
\* An ask begins where nobody has the ear; a call, when there is one, covers the composer.
LEMMA StartStep ==
  ASSUME Good(tab), NEW r \in Recs, Start(r)
  PROVE  Good(tab')
<1>. DEFINE i == tab.mount
            x == [NoRec EXCEPT !.inst = i, !.slot = tab.slot, !.ask = "asked"]
            h == [tab.hook[i] EXCEPT !.arm = r]
            s == [tab EXCEPT !.rec[r] = x, !.hook[i] = h, !.owners = @ \cup {<<"rec", r>>}]
<1>1. /\ Typed(tab) /\ EarCore(tab) /\ CallOf(tab) /\ tab.rec[r].ask = "none" /\ i # 0
      /\ tab.owners = {} /\ tab.closing = 0 /\ tab.call.st = "no" /\ tab.hook[i].rec = 0
  BY DEF Start, MayStart, Good, EarInv
<1>2. i \in Instances /\ tab.slot \in Slots
  BY <1>1 DEF Typed, Instances
<1>3. tab' = s
  BY DEF Start
<1>4. tab.hook[i] \in HookSet
  BY <1>1, <1>2, PartsTyped
<1>. HIDE DEF i
<1>5. h \in HookSet /\ h.arm = r /\ h.rec = 0 /\ h.stream = tab.hook[i].stream /\ h.phase = tab.hook[i].phase
      /\ h.free = tab.hook[i].free
  BY <1>1, <1>4 DEF HookSet, Ids
<1>6. /\ x \in RecSet /\ x.inst = i /\ x.ask = "asked" /\ x.st = "none" /\ ~x.mic /\ ~x.discard
      /\ x.detector = "none"
  <2>1. i \in 0 .. 2 /\ 0 \in 0 .. MaxSaid
    BY <1>2, BoundsAssumption DEF Instances, BoundsAssumption
  <2>. QED BY <1>2, <2>1 DEF RecSet, NoRec
<1>. HIDE DEF x, h
<1>7. /\ Typed(s) /\ s.rec[r] = x /\ (\A q \in Recs \ {r} : s.rec[q] = tab.rec[q])
      /\ s.hook[i] = h /\ (\A j \in Instances \ {i} : s.hook[j] = tab.hook[j])
      /\ s.leg = tab.leg /\ s.clip = tab.clip /\ s.owners = tab.owners \cup {<<"rec", r>>}
      /\ s.closing = tab.closing /\ s.mount = tab.mount /\ s.live = tab.live /\ s.call = tab.call
  BY <1>1, <1>2, <1>5, <1>6 DEF Typed, Fields
<1>. HIDE DEF s
<1>8. \A q \in Recs : ~Active(tab, q) /\ tab.rec[q].ask # "asked" /\ ~tab.rec[q].mic /\ ~Posting(tab, q)
  BY <1>1 DEF EarCore, OwnersOf, RecsKnown
<1>9. tab.rec[r].st = "none" /\ tab.clip[r].st = "none"
  BY <1>1 DEF EarCore, RecsKnown
<1>10. \A q \in Recs : ~Active(s, q)
  BY <1>6, <1>7, <1>8 DEF Active
<1>11. \A j \in Instances : tab.hook[j].rec = 0 /\ tab.hook[j].arm = 0
  <2>1. \A j \in Instances : tab.hook[j].arm \in Ids /\ tab.hook[j].rec \in Ids
    BY <1>1, PartsTyped, ValuesTyped
  <2>. QED BY <1>1, <1>8, <2>1 DEF EarCore, HooksOf, HookRec, HookAsk, Ids
<1>12. RecsKnown(s)
  <2>1. \A q \in Recs : s.rec[q].ask # "none" => s.rec[q].inst \in Instances
    BY <1>1, <1>2, <1>6, <1>7 DEF EarCore, RecsKnown
  <2>2. \A q \in Recs : s.rec[q].ask # "none" /\ s.rec[q].inst = 2 => s.mount = 2
    BY <1>1, <1>6, <1>7 DEF EarCore, RecsKnown, i
  <2>3. \A q \in Recs : s.rec[q].st # "none" => s.rec[q].ask = "done"
    BY <1>1, <1>6, <1>7 DEF EarCore, RecsKnown
  <2>4. \A q \in Recs : s.clip[q].st # "none" => s.rec[q].st = "over"
    BY <1>1, <1>7, <1>9 DEF EarCore, RecsKnown
  <2>5. \A q \in Recs : ~s.rec[q].mic /\ s.rec[q].detector # "arming"
    BY <1>1, <1>6, <1>7, <1>8 DEF EarCore, RecsKnown
  <2>6. \A q \in Recs : s.rec[q].discard => s.rec[q].st \in {"stopping", "over"}
    BY <1>1, <1>6, <1>7 DEF EarCore, RecsKnown
  <2>. QED BY <1>10, <2>1, <2>2, <2>3, <2>4, <2>5, <2>6 DEF RecsKnown
<1>13. LegsKnown(s)
  <2>1. \A l \in Recs : s.leg[l].fin # "no" =>
          s.leg[l].clip \in Recs /\ s.rec[s.leg[l].clip].st = "over" /\ s.leg[l].inst \in Instances
    BY <1>1, <1>7, <1>9 DEF EarCore, LegsKnown, LegClip
  <2>2. \A j \in Instances : s.hook[j].stream = tab.hook[j].stream
    BY <1>5, <1>7
  <2>. QED BY <1>1, <1>7, <2>1, <2>2 DEF EarCore, LegsKnown, LegInst, LegClip, StreamInst, LiveInst
<1>14. OwnersOf(s)
  <2>1. s.owners = {<<"rec", r>>}
    BY <1>1, <1>7
  <2>2. \A q \in Recs : s.rec[q].ask = "asked" <=> q = r
    BY <1>6, <1>7, <1>8
  <2>3. \A q \in Recs : ~Posting(s, q)
    BY <1>7, <1>8 DEF Posting
  <2>. QED BY <1>1, <1>7, <1>10, <2>1, <2>2, <2>3 DEF EarCore, OwnersOf
<1>15. HooksOf(s)
  <2>1. \A j \in Instances : s.hook[j].rec = 0 /\ (s.hook[j].arm # 0 => s.hook[j].arm = r /\ j = i)
    BY <1>5, <1>7, <1>11
  <2>2. \A q \in Recs : ~s.rec[q].mic /\ (s.rec[q].ask = "asked" => q = r)
    BY <1>6, <1>7, <1>8
  <2>. QED BY <1>2, <1>5, <1>6, <1>7, <1>10, <2>1, <2>2 DEF HooksOf, HookRec, RecHook, HookAsk, AskHook, MicShown, i
<1>16. StreamsOf(s)
  <2>1. \A j \in Instances : tab.hook[j].stream # 0 => j = i /\ ~tab.leg[tab.hook[j].stream].finishing
    BY <1>1, <1>11 DEF EarCore, StreamsOf, StreamLeft, StreamEnds, i
  <2>2. \A q \in Recs : s.rec[q].ask = "asked" => s.rec[q].inst = i
    BY <1>6, <1>7, <1>8
  <2>3. \A j \in Instances : s.hook[j].stream = tab.hook[j].stream
    BY <1>5, <1>7
  <2>. QED BY <1>1, <1>7, <1>10, <2>1, <2>2, <2>3 DEF StreamsOf, StreamLeft, StreamEnds, StreamAlone, StreamClosed, i
<1>17. CallOf(s)
  <2>1. \A j \in Instances : ~tab.hook[j].free
    BY <1>1 DEF CallOf, FreeOf
  <2>2. \A j \in Instances : ~s.hook[j].free
    BY <1>2, <1>5, <1>7, <2>1
  <2>. QED BY <1>1, <1>7, <2>2 DEF CallOf, CallLeg, FreeOf
<1>. QED BY <1>3, <1>7, <1>12, <1>13, <1>14, <1>15, <1>16, <1>17 DEF Good, EarInv, EarCore

\* An abandoned ask is answered, or one that is answered gives nothing: the ear is as free as it was.
LEMMA AskOver ==
  ASSUME NEW t, NEW s, Typed(t), Typed(s), EarCore(t), CallOf(t), NEW r \in Recs,
         t.rec[r].ask \in {"asked", "aborted"}, s.rec[r].ask = "returned",
         s.rec[r].inst = t.rec[r].inst, s.rec[r].st = t.rec[r].st, s.rec[r].mic = t.rec[r].mic,
         s.rec[r].discard = t.rec[r].discard, s.rec[r].detector = t.rec[r].detector,
         \A q \in Recs \ {r} : s.rec[q] = t.rec[q],
         \A j \in Instances : /\ s.hook[j].rec = t.hook[j].rec /\ s.hook[j].stream = t.hook[j].stream
                              /\ s.hook[j].phase = t.hook[j].phase /\ s.hook[j].free = t.hook[j].free
                              /\ s.hook[j].arm = IF t.hook[j].arm = r THEN 0 ELSE t.hook[j].arm,
         s.leg = t.leg, s.clip = t.clip, s.owners = t.owners \ {<<"rec", r>>},
         s.closing = t.closing, s.mount = t.mount, s.live = t.live,
         s.call.st = t.call.st, s.call.on = t.call.on, t.call.early => s.call.early
  PROVE  EarCore(s) /\ CallOf(s)
<1>1. t.rec[r].st = "none" /\ ~Active(t, r)
  BY DEF EarCore, RecsKnown, Active
<1>2. \A q \in Recs : /\ s.rec[q].inst = t.rec[q].inst /\ s.rec[q].st = t.rec[q].st
                      /\ s.rec[q].mic = t.rec[q].mic /\ s.rec[q].discard = t.rec[q].discard
                      /\ s.rec[q].detector = t.rec[q].detector
                      /\ s.rec[q].ask = IF q = r THEN "returned" ELSE t.rec[q].ask
  OBVIOUS
<1>3. \A q \in Recs : Active(s, q) <=> Active(t, q)
  BY <1>2 DEF Active
<1>4. \A j \in Instances : t.hook[j].arm \in Ids /\ t.hook[j].rec \in Ids /\ t.hook[j].stream \in Ids
  BY PartsTyped, ValuesTyped
<1>5. RecsKnown(s)
  BY <1>1, <1>2, <1>3 DEF EarCore, RecsKnown
<1>6. LegsKnown(s)
  <2>1. LegInst(s)
    BY <1>2 DEF EarCore, LegsKnown, LegInst
  <2>2. LegClip(s)
    BY <1>2 DEF EarCore, LegsKnown, LegClip
  <2>3. StreamInst(s)
    BY <1>2 DEF EarCore, LegsKnown, StreamInst
  <2>4. LiveInst(s)
    BY <1>2 DEF EarCore, LegsKnown, LiveInst
  <2>. QED BY <2>1, <2>2, <2>3, <2>4 DEF LegsKnown
<1>7. OwnersOf(s)
  <2>1. \A q \in Recs : <<"rec", q>> \in s.owners <=> Active(s, q) \/ s.rec[q].ask = "asked"
    <3>1. <<"rec", r>> \notin s.owners /\ ~Active(s, r) /\ s.rec[r].ask # "asked"
      BY <1>1, <1>3
    <3>2. ASSUME NEW q \in Recs, q # r
          PROVE  <<"rec", q>> \in s.owners <=> <<"rec", q>> \in t.owners
      BY <3>2
    <3>3. ASSUME NEW q \in Recs, q # r
          PROVE  <<"rec", q>> \in s.owners <=> Active(s, q) \/ s.rec[q].ask = "asked"
      BY <1>2, <1>3, <3>2, <3>3 DEF EarCore, OwnersOf
    <3>. QED BY <3>1, <3>3
  <2>2. \A q \in Recs : <<"clip", q>> \in s.owners <=> Posting(s, q)
    BY DEF EarCore, OwnersOf, Posting
  <2>. QED BY <2>1, <2>2 DEF EarCore, OwnersOf
<1>8. HooksOf(s)
  <2>1. \A j \in Instances : s.hook[j].arm # 0 =>
          s.rec[s.hook[j].arm].ask = "asked" /\ s.rec[s.hook[j].arm].inst = j
    BY <1>2, <1>4 DEF EarCore, HooksOf, HookAsk, Ids
  <2>2. \A q \in Recs : s.rec[q].ask = "asked" => s.rec[q].inst = s.mount /\ s.hook[s.mount].arm = q
    <3>1. \A q \in Recs : t.rec[q].ask = "asked" => t.mount \in Instances /\ t.rec[q].inst = t.mount
                                                   /\ t.hook[t.mount].arm = q
      BY DEF EarCore, HooksOf, AskHook, RecsKnown
    <3>. QED BY <1>2, <3>1
  <2>3. ASSUME NEW q \in Recs, s.rec[q].mic
        PROVE  s.hook[s.rec[q].inst].phase # "idle"
    <3>. DEFINE k == t.rec[q].inst
    <3>1. t.rec[q].mic /\ s.rec[q].inst = k
      BY <1>2, <2>3
    <3>2. k \in Instances /\ t.hook[k].phase # "idle"
      BY <3>1 DEF EarCore, RecsKnown, Active, HooksOf, MicShown
    <3>. HIDE DEF k
    <3>. QED BY <3>1, <3>2
  <2>4. \A j \in Instances : s.hook[j].rec # 0 => Active(s, s.hook[j].rec) /\ s.rec[s.hook[j].rec].inst = j
    BY <1>2, <1>3, <1>4 DEF EarCore, HooksOf, HookRec, Ids
  <2>5. \A q \in Recs : Active(s, q) => s.hook[s.rec[q].inst].rec = q
    <3>1. \A q \in Recs : Active(t, q) => t.rec[q].inst \in Instances
      BY DEF EarCore, RecsKnown, Active
    <3>2. \A q \in Recs : Active(t, q) => t.hook[t.rec[q].inst].rec = q
      BY DEF EarCore, HooksOf, RecHook
    <3>. QED BY <1>2, <1>3, <3>1, <3>2
  <2>. QED BY <2>1, <2>2, <2>3, <2>4, <2>5 DEF HooksOf, HookRec, RecHook, HookAsk, AskHook, MicShown
<1>9. StreamsOf(s)
  <2>1. \A j \in Instances : t.hook[j].rec # 0 =>
          /\ s.rec[t.hook[j].rec].st = t.rec[t.hook[j].rec].st
          /\ s.rec[t.hook[j].rec].discard = t.rec[t.hook[j].rec].discard
    BY <1>2, <1>4 DEF Ids
  <2>0. \A j \in Instances : s.hook[j].rec = t.hook[j].rec /\ s.hook[j].stream = t.hook[j].stream
    OBVIOUS
  <2>2. ASSUME NEW j \in Instances, s.hook[j].stream # 0,
               j # s.mount \/ s.leg[s.hook[j].stream].finishing
        PROVE  s.hook[j].rec # 0 /\ s.rec[s.hook[j].rec].st = "stopping" /\ ~s.rec[s.hook[j].rec].discard
    <3>1. t.hook[j].stream # 0 /\ (j # t.mount \/ t.leg[t.hook[j].stream].finishing)
      BY <2>0, <2>2
    <3>2. t.hook[j].rec # 0 /\ t.rec[t.hook[j].rec].st = "stopping" /\ ~t.rec[t.hook[j].rec].discard
      BY <3>1 DEF EarCore, StreamsOf, StreamLeft, StreamEnds
    <3>. QED BY <2>0, <2>1, <3>2
  <2>4. \A q \in Recs : \A j \in Instances :
          (Active(s, q) \/ s.rec[q].ask = "asked") /\ j # s.rec[q].inst => s.hook[j].stream = 0
    BY <1>2, <1>3 DEF EarCore, StreamsOf, StreamAlone
  <2>5. StreamLeft(s) /\ StreamEnds(s)
    BY <2>2 DEF StreamLeft, StreamEnds
  <2>6. StreamAlone(s) /\ StreamClosed(s)
    BY <2>0, <2>4 DEF EarCore, StreamsOf, StreamAlone, StreamClosed
  <2>. QED BY <2>5, <2>6 DEF StreamsOf
<1>10. CallLeg(s)
  BY <1>2 DEF CallOf, CallLeg
<1>11. FreeOf(s)
  BY <1>2, <1>3 DEF CallOf, FreeOf
<1>. QED BY <1>5, <1>6, <1>7, <1>8, <1>9, <1>10, <1>11 DEF EarCore, CallOf

\* The attempt that was abandoned says that the ear is free; a recording begun since has it.
LEMMA ReturnedKeeps ==
  ASSUME Good(tab), NEW r \in Recs, tab.rec[r].ask = "aborted"
  PROVE  Good(Returned(tab, r))
<1>. DEFINE i == tab.rec[r].inst
            x == [tab.rec[r] EXCEPT !.ask = "returned"]
            e == tab.call.early \/ (tab.hook[i].free /\ tab.hook[i].rec # 0)
            c == [tab.call EXCEPT !.early = e]
            s == [tab EXCEPT !.rec[r] = x, !.call = c]
<1>1. /\ Typed(tab) /\ EarCore(tab) /\ CallOf(tab) /\ tab.rec[r] \in RecSet /\ i \in Instances
      /\ tab.call \in CallSet
  BY PartsTyped DEF Good, EarInv, EarCore, RecsKnown, Typed
<1>2. Returned(tab, r) = EarFreed(s, i)
  <2>1. [tab EXCEPT !.rec[r].ask = "returned",
                    !.call.early = @ \/ (tab.hook[i].free /\ tab.hook[i].rec # 0)] = s
    OBVIOUS
  <2>. QED BY <2>1 DEF Returned
<1>. HIDE DEF i, e
<1>3. /\ x \in RecSet /\ x.ask = "returned" /\ x.inst = tab.rec[r].inst /\ x.st = tab.rec[r].st
      /\ x.mic = tab.rec[r].mic /\ x.discard = tab.rec[r].discard /\ x.detector = tab.rec[r].detector
  BY <1>1 DEF RecSet
<1>4. c \in CallSet /\ c.st = tab.call.st /\ c.on = tab.call.on /\ c.early = e
  BY <1>1 DEF CallSet, e
<1>. HIDE DEF x, c
<1>5. /\ Typed(s) /\ s.rec[r] = x /\ (\A q \in Recs \ {r} : s.rec[q] = tab.rec[q])
      /\ s.hook = tab.hook /\ s.leg = tab.leg /\ s.clip = tab.clip /\ s.owners = tab.owners
      /\ s.closing = tab.closing /\ s.call = c /\ s.mount = tab.mount /\ s.live = tab.live
  BY <1>1, <1>3, <1>4 DEF Typed, Fields
<1>. HIDE DEF s
<1>6. \A j \in Instances : tab.hook[j].arm # r
  BY <1>1 DEF EarCore, HooksOf, HookAsk, Recs
<1>7. <<"rec", r>> \notin tab.owners
  BY <1>1 DEF EarCore, OwnersOf, RecsKnown, Active
<1>8. EarCore(s) /\ CallOf(s)
  BY <1>1, <1>3, <1>4, <1>5, <1>6, <1>7, AskOver DEF e
<1>9. s.hook[i].free => s.call.early \/ \A q \in Recs : ~s.rec[q].mic
  <2>1. ASSUME NEW q \in Recs, s.rec[q].mic, tab.hook[i].free
        PROVE  tab.hook[i].rec # 0
    <3>1. tab.rec[q].mic
      BY <1>3, <1>5, <2>1
    <3>2. Active(tab, q)
      BY <1>1, <3>1 DEF EarCore, RecsKnown
    <3>3. tab.rec[q].inst = i
      BY <1>1, <2>1, <3>2 DEF CallOf, FreeOf
    <3>4. tab.hook[i].rec = q
      BY <1>1, <3>2, <3>3 DEF EarCore, HooksOf, RecHook
    <3>. QED BY <3>4 DEF Recs
  <2>. QED BY <1>4, <1>5, <2>1 DEF e
<1>. QED BY <1>1, <1>2, <1>5, <1>8, <1>9, FreedKeeps

LEMMA AskGrantedStep ==
  ASSUME Good(tab), NEW r \in Recs, AskGranted(r)
  PROVE  Good(tab')
<1>. DEFINE i == tab.rec[r].inst
            y == [tab.rec[r] EXCEPT !.ask = "done", !.st = "live", !.mic = TRUE,
                                    !.detector = "arming", !.go = "owed"]
            h == [tab.hook[i] EXCEPT !.arm = 0, !.rec = r, !.phase = "recording"]
            z == [tab EXCEPT !.rec[r] = y, !.hook[i] = h]
<1>1. Typed(tab) /\ EarCore(tab) /\ CallOf(tab) /\ tab.rec[r] \in RecSet
  BY PartsTyped DEF Good, EarInv
<1>2. tab.rec[r].ask \in {"asked", "aborted"}
  BY DEF AskGranted
<1>3. i \in Instances
  BY <1>1, <1>2 DEF EarCore, RecsKnown
<1>4. CASE tab.rec[r].ask = "aborted"
  <2>1. tab' = Returned(tab, r)
    BY <1>4 DEF AskGranted
  <2>. QED BY <1>4, <2>1, ReturnedKeeps
<1>5. CASE tab.rec[r].ask = "asked"
  <2>1. tab' = z
    BY <1>5 DEF AskGranted
  <2>2. /\ i = tab.mount /\ tab.hook[i].arm = r /\ tab.rec[r].st = "none" /\ ~tab.rec[r].discard
        /\ <<"rec", r>> \in tab.owners
    BY <1>1, <1>5 DEF EarCore, HooksOf, AskHook, RecsKnown, OwnersOf
  <2>3. tab.owners = {<<"rec", r>>}
    <3>1. \A a, b \in tab.owners : a = b
      BY <1>1 DEF EarCore, OwnersOf
    <3>. QED BY <2>2, <3>1
  <2>4. \A q \in Recs : /\ ~Active(tab, q) /\ ~tab.rec[q].mic /\ ~Posting(tab, q)
                        /\ q # r => tab.rec[q].ask # "asked"
    <3>1. \A q \in Recs : ~Active(tab, q)
      <4>1. \A q \in Recs : q # r => <<"rec", q>> \notin tab.owners
        BY <2>3
      <4>. QED BY <1>1, <2>2, <4>1 DEF EarCore, OwnersOf, Active
    <3>. QED BY <1>1, <2>3, <3>1 DEF EarCore, OwnersOf, RecsKnown
  <2>5. tab.closing = 0 /\ tab.clip[r].st = "none"
    BY <1>1, <2>2 DEF EarCore, OwnersOf, RecsKnown
  <2>6. \A j \in Instances : tab.hook[j].rec = 0 /\ (j # i => tab.hook[j].arm = 0)
    <3>1. \A j \in Instances : tab.hook[j].arm \in Ids /\ tab.hook[j].rec \in Ids
      BY <1>1, PartsTyped, ValuesTyped
    <3>. QED BY <1>1, <2>4, <3>1 DEF EarCore, HooksOf, HookRec, HookAsk, Ids
  <2>7. tab.hook[i] \in HookSet
    BY <1>1, <1>3, PartsTyped
  <2>. HIDE DEF i
  <2>8. /\ h \in HookSet /\ h.arm = 0 /\ h.rec = r /\ h.phase = "recording"
        /\ h.stream = tab.hook[i].stream /\ h.free = tab.hook[i].free
    BY <2>7 DEF HookSet, Ids
  <2>9. /\ y \in RecSet /\ y.ask = "done" /\ y.st = "live" /\ y.mic /\ y.detector = "arming"
        /\ y.inst = tab.rec[r].inst /\ y.discard = tab.rec[r].discard
    BY <1>1 DEF RecSet
  <2>. HIDE DEF h, y
  <2>10. /\ Typed(z) /\ z.rec[r] = y /\ (\A q \in Recs \ {r} : z.rec[q] = tab.rec[q])
         /\ z.hook[i] = h /\ (\A j \in Instances \ {i} : z.hook[j] = tab.hook[j])
         /\ z.leg = tab.leg /\ z.clip = tab.clip /\ z.owners = tab.owners
         /\ z.closing = tab.closing /\ z.call = tab.call /\ z.mount = tab.mount /\ z.live = tab.live
    BY <1>1, <1>3, <2>8, <2>9 DEF Typed, Fields
  <2>. HIDE DEF z
  <2>11. \A q \in Recs : (Active(z, q) <=> q = r) /\ (z.rec[q].mic <=> q = r) /\ z.rec[q].ask # "asked"
    BY <2>4, <2>9, <2>10 DEF Active
  <2>12. RecsKnown(z)
    <3>1. \A q \in Recs : z.rec[q].ask # "none" => z.rec[q].inst \in Instances
      BY <1>1, <1>3, <2>9, <2>10 DEF EarCore, RecsKnown, i
    <3>2. \A q \in Recs : z.rec[q].ask # "none" /\ z.rec[q].inst = 2 => z.mount = 2
      BY <1>1, <2>2, <2>9, <2>10 DEF EarCore, RecsKnown, i
    <3>3. \A q \in Recs : z.rec[q].st # "none" => z.rec[q].ask = "done"
      BY <1>1, <2>9, <2>10 DEF EarCore, RecsKnown
    <3>4. \A q \in Recs : z.clip[q].st # "none" => z.rec[q].st = "over"
      BY <1>1, <2>5, <2>10 DEF EarCore, RecsKnown
    <3>5. \A q \in Recs : z.rec[q].detector = "arming" => Active(z, q) /\ z.rec[q].inst = z.mount
      BY <1>1, <2>2, <2>4, <2>9, <2>10, <2>11 DEF EarCore, RecsKnown, i
    <3>6. \A q \in Recs : z.rec[q].discard => z.rec[q].st \in {"stopping", "over"}
      BY <1>1, <2>2, <2>9, <2>10 DEF EarCore, RecsKnown
    <3>. QED BY <2>11, <3>1, <3>2, <3>3, <3>4, <3>5, <3>6 DEF RecsKnown
  <2>13. LegsKnown(z)
    <3>1. \A l \in Recs : z.leg[l].fin # "no" =>
            z.leg[l].clip \in Recs /\ z.rec[z.leg[l].clip].st = "over" /\ z.leg[l].inst \in Instances
      BY <1>1, <2>2, <2>10 DEF EarCore, LegsKnown, LegClip
    <3>2. \A j \in Instances : z.hook[j].stream = tab.hook[j].stream
      BY <2>8, <2>10
    <3>. QED BY <1>1, <2>10, <3>1, <3>2 DEF EarCore, LegsKnown, LegInst, LegClip, StreamInst, LiveInst
  <2>14. OwnersOf(z)
    <3>1. \A q \in Recs : ~Posting(z, q)
      BY <2>4, <2>10 DEF Posting
    <3>. QED BY <1>1, <2>3, <2>10, <2>11, <3>1 DEF EarCore, OwnersOf
  <2>15. HooksOf(z)
    <3>1. \A j \in Instances : z.hook[j].arm = 0 /\ (z.hook[j].rec # 0 => j = i /\ z.hook[j].rec = r)
      BY <2>6, <2>8, <2>10
    <3>2. z.hook[i].rec = r /\ z.rec[r].inst = i /\ z.hook[i].phase # "idle"
      BY <1>3, <2>8, <2>9, <2>10 DEF i
    <3>3. HookRec(z) /\ HookAsk(z)
      BY <2>11, <3>1, <3>2 DEF HookRec, HookAsk
    <3>4. RecHook(z) /\ AskHook(z) /\ MicShown(z)
      BY <2>11, <3>2 DEF RecHook, AskHook, MicShown
    <3>. QED BY <3>3, <3>4 DEF HooksOf
  <2>16. StreamsOf(z)
    <3>1. \A j \in Instances : tab.hook[j].stream # 0 => j = i /\ ~tab.leg[tab.hook[j].stream].finishing
      BY <1>1, <2>2, <2>6 DEF EarCore, StreamsOf, StreamLeft, StreamEnds
    <3>2. \A j \in Instances : z.hook[j].stream = tab.hook[j].stream
      BY <2>8, <2>10
    <3>3. StreamLeft(z) /\ StreamEnds(z)
      BY <2>2, <2>10, <3>1, <3>2 DEF StreamLeft, StreamEnds
    <3>4. StreamAlone(z) /\ StreamClosed(z)
      BY <2>2, <2>5, <2>9, <2>10, <2>11, <3>1, <3>2 DEF StreamAlone, StreamClosed, i
    <3>. QED BY <3>3, <3>4 DEF StreamsOf
  <2>17. CallOf(z)
    <3>1. tab.call.st = "no"
      BY <1>1, <1>5 DEF CallOf, CallLeg
    <3>2. \A j \in Instances : ~tab.hook[j].free
      BY <1>1, <3>1 DEF CallOf, FreeOf
    <3>3. \A j \in Instances : ~z.hook[j].free
      BY <2>8, <2>10, <3>2
    <3>. QED BY <2>10, <3>1, <3>3 DEF CallOf, CallLeg, FreeOf
  <2>. QED BY <2>1, <2>10, <2>12, <2>13, <2>14, <2>15, <2>16, <2>17 DEF Good, EarInv, EarCore
<1>. QED BY <1>2, <1>4, <1>5

LEMMA AskFailsStep ==
  ASSUME Good(tab), NEW r \in Recs, AskFails(r)
  PROVE  Good(tab')
<1>1. /\ Typed(tab) /\ EarCore(tab) /\ CallOf(tab) /\ tab.rec[r] \in RecSet /\ tab.call \in CallSet
      /\ tab.rec[r].ask \in {"asked", "aborted"}
  BY PartsTyped DEF Good, EarInv, Typed, AskFails
<1>2. CASE tab.rec[r].ask = "aborted"
  <2>1. tab' = Returned(tab, r)
    BY <1>2 DEF AskFails
  <2>. QED BY <1>2, <2>1, ReturnedKeeps
<1>3. CASE tab.rec[r].ask = "asked"
  <2>. DEFINE i == tab.rec[r].inst
              x == [tab.rec[r] EXCEPT !.ask = "returned"]
              e == tab.call.early \/ (tab.hook[i].free /\ tab.hook[i].rec # 0)
              c == [tab.call EXCEPT !.early = e]
              s == [tab EXCEPT !.rec[r] = x, !.call = c]
              h == [tab.hook[i] EXCEPT !.arm = 0]
              o == tab.owners \ {<<"rec", r>>}
              z == [tab EXCEPT !.rec[r] = x, !.call = c, !.hook[i] = h, !.owners = o]
  <2>1. i \in Instances /\ tab.hook[i] \in HookSet
    BY <1>1, PartsTyped DEF EarCore, RecsKnown
  <2>2. ~tab.hook[i].free
    BY <1>1, <1>3, <2>1 DEF CallOf, CallLeg, FreeOf
  <2>3. Returned(tab, r) = s
    <3>1. [tab EXCEPT !.rec[r].ask = "returned",
                      !.call.early = @ \/ (tab.hook[i].free /\ tab.hook[i].rec # 0)] = s
      OBVIOUS
    <3>2. Returned(tab, r) = EarFreed(s, i)
      BY <3>1 DEF Returned
    <3>3. s.hook = tab.hook
      BY <1>1 DEF Typed, Fields
    <3>. HIDE DEF s
    <3>. QED BY <2>2, <3>2, <3>3 DEF EarFreed
  <2>4. tab' = z
    <3>1. tab' = [Returned(tab, r) EXCEPT !.hook[i].arm = 0, !.owners = @ \ {<<"rec", r>>}]
      BY <1>3 DEF AskFails
    <3>2. s.hook[i] = tab.hook[i] /\ s.owners = tab.owners
      BY <1>1 DEF Typed, Fields
    <3>3. tab' = [s EXCEPT !.hook[i] = h, !.owners = o]
      <4>. HIDE DEF s
      <4>. QED BY <2>3, <3>1, <3>2
    <3>. HIDE DEF i, x, c, h, o
    <3>. QED BY <1>1, <3>3 DEF Typed, Fields
  <2>. HIDE DEF i, e
  <2>5. /\ x \in RecSet /\ x.ask = "returned" /\ x.inst = tab.rec[r].inst /\ x.st = tab.rec[r].st
        /\ x.mic = tab.rec[r].mic /\ x.discard = tab.rec[r].discard /\ x.detector = tab.rec[r].detector
    BY <1>1 DEF RecSet
  <2>6. /\ h \in HookSet /\ h.arm = 0 /\ h.rec = tab.hook[i].rec /\ h.stream = tab.hook[i].stream
        /\ h.phase = tab.hook[i].phase /\ h.free = tab.hook[i].free
    BY <2>1 DEF HookSet, Ids
  <2>7. c \in CallSet /\ c.st = tab.call.st /\ c.on = tab.call.on /\ (tab.call.early => c.early)
    BY <1>1 DEF CallSet, e
  <2>. HIDE DEF x, h, c
  <2>8. /\ Typed(z) /\ z.rec[r] = x /\ (\A q \in Recs \ {r} : z.rec[q] = tab.rec[q])
        /\ z.hook[i] = h /\ (\A j \in Instances \ {i} : z.hook[j] = tab.hook[j])
        /\ z.leg = tab.leg /\ z.clip = tab.clip /\ z.owners = tab.owners \ {<<"rec", r>>}
        /\ z.closing = tab.closing /\ z.call = c /\ z.mount = tab.mount /\ z.live = tab.live
    BY <1>1, <2>1, <2>5, <2>6, <2>7 DEF Typed, Fields
  <2>. HIDE DEF z, o
  <2>9. tab.hook[i].arm = r /\ \A j \in Instances \ {i} : tab.hook[j].arm # r
    BY <1>1, <1>3 DEF EarCore, HooksOf, HookAsk, AskHook, Recs, i
  <2>10. \A j \in Instances : /\ z.hook[j].rec = tab.hook[j].rec /\ z.hook[j].stream = tab.hook[j].stream
                               /\ z.hook[j].phase = tab.hook[j].phase /\ z.hook[j].free = tab.hook[j].free
                               /\ z.hook[j].arm = IF tab.hook[j].arm = r THEN 0 ELSE tab.hook[j].arm
    BY <2>6, <2>8, <2>9
  <2>11. EarCore(z) /\ CallOf(z)
    BY <1>1, <2>5, <2>7, <2>8, <2>10, AskOver
  <2>. QED BY <2>4, <2>8, <2>11 DEF Good, EarInv
<1>. QED BY <1>1, <1>2, <1>3

-----------------------------------------------------------------------------
\* A leg opens for the recording its detector was armed for, which has the ear.
LEMMA LegOpens ==
  ASSUME NEW t, Typed(t), EarCore(t), CallOf(t), NEW r \in Recs, t.rec[r].detector = "arming",
         NEW x \in RecSet, CalmRec(t.rec[r], x), NEW y \in LegSet, y.inst = t.rec[r].inst, y.fin = "no",
         ~y.finishing, NEW h \in HookSet, h.stream = r, h.arm = t.hook[t.rec[r].inst].arm,
         h.rec = t.hook[t.rec[r].inst].rec, h.phase = t.hook[t.rec[r].inst].phase,
         h.free = t.hook[t.rec[r].inst].free
  PROVE  Good([t EXCEPT !.rec[r] = x, !.leg[r] = y, !.hook[t.rec[r].inst] = h, !.live = r])
<1>. DEFINE i == t.rec[r].inst
            s == [t EXCEPT !.rec[r] = x, !.leg[r] = y, !.hook[i] = h, !.live = r]
<1>1. /\ Active(t, r) /\ i = t.mount /\ i \in Instances /\ t.hook[i].rec = r
  BY DEF EarCore, RecsKnown, HooksOf, RecHook, Active
<1>2. r # 0 /\ r \in Ids
  BY DEF Recs, Ids
<1>. HIDE DEF i
<1>3. /\ Typed(s) /\ s.rec[r] = x /\ (\A q \in Recs \ {r} : s.rec[q] = t.rec[q])
      /\ s.leg[r] = y /\ (\A q \in Recs \ {r} : s.leg[q] = t.leg[q])
      /\ s.hook[i] = h /\ (\A j \in Instances \ {i} : s.hook[j] = t.hook[j])
      /\ s.clip = t.clip /\ s.owners = t.owners /\ s.closing = t.closing /\ s.call = t.call
      /\ s.mount = t.mount /\ s.live = r
  BY <1>1, <1>2 DEF Typed, Fields
<1>. HIDE DEF s
<1>4. \A q \in Recs : CalmRec(t.rec[q], s.rec[q])
  BY <1>3 DEF CalmRec
<1>5. \A q \in Recs : Active(s, q) <=> Active(t, q)
  BY <1>4 DEF CalmRec, Active
<1>6. t.closing = 0 /\ \A l \in Recs : t.leg[l].fin \notin Holding
  <2>1. <<"rec", r>> \in t.owners
    BY <1>1 DEF EarCore, OwnersOf
  <2>. QED BY <2>1 DEF EarCore, OwnersOf, Recs
<1>7. \A j \in Instances : s.hook[j].stream = IF j = i THEN r ELSE 0
  <2>1. \A j \in Instances : j # i => t.hook[j].stream = 0
    BY <1>1 DEF EarCore, StreamsOf, StreamAlone, i
  <2>. QED BY <1>3, <2>1 DEF i
<1>k. \A j \in Instances : /\ s.hook[j].arm = t.hook[j].arm /\ s.hook[j].rec = t.hook[j].rec
                           /\ s.hook[j].phase = t.hook[j].phase /\ s.hook[j].free = t.hook[j].free
  BY <1>3 DEF i
<1>8. \A j \in Instances : t.hook[j].arm \in Ids /\ t.hook[j].rec \in Ids
  BY PartsTyped, ValuesTyped
<1>9. RecsKnown(s)
  <2>1. \A q \in Recs : s.rec[q].ask # "none" =>
          s.rec[q].inst \in Instances /\ (s.rec[q].inst = 2 => s.mount = 2)
    BY <1>3, <1>4 DEF EarCore, RecsKnown, CalmRec
  <2>2. \A q \in Recs : s.rec[q].st # "none" => s.rec[q].ask = "done"
    BY <1>4 DEF EarCore, RecsKnown, CalmRec
  <2>3. \A q \in Recs : s.clip[q].st # "none" => s.rec[q].st = "over"
    BY <1>3, <1>4 DEF EarCore, RecsKnown, CalmRec
  <2>4. \A q \in Recs : /\ s.rec[q].mic => Active(s, q)
                        /\ Active(s, q) /\ ~s.rec[q].discard => s.rec[q].mic
    BY <1>4, <1>5 DEF EarCore, RecsKnown, CalmRec
  <2>5. \A q \in Recs : s.rec[q].discard => s.rec[q].st \in {"stopping", "over"}
    BY <1>4 DEF EarCore, RecsKnown, CalmRec
  <2>6. \A q \in Recs : s.rec[q].detector = "arming" => Active(s, q) /\ s.rec[q].inst = s.mount
    BY <1>3, <1>4, <1>5 DEF EarCore, RecsKnown, CalmRec
  <2>. QED BY <2>1, <2>2, <2>3, <2>4, <2>5, <2>6 DEF RecsKnown
<1>10. LegsKnown(s)
  <2>1. \A l \in Recs : s.leg[l].fin # "no" =>
          s.leg[l].clip \in Recs /\ s.rec[s.leg[l].clip].st = "over" /\ s.leg[l].inst \in Instances
    <3>1. \A l \in Recs : s.leg[l].fin # "no" => l # r
      BY <1>3
    <3>2. \A q \in Recs : t.rec[q].st = "over" => s.rec[q].st = "over"
      BY <1>4 DEF CalmRec
    <3>. QED BY <1>3, <3>1, <3>2 DEF EarCore, LegsKnown, LegClip
  <2>. QED BY <1>1, <1>2, <1>3, <1>7, <2>1 DEF EarCore, LegsKnown, LegInst, LegClip, StreamInst, LiveInst, i
<1>11. OwnersOf(s)
  <2>1. \A q \in Recs : Posting(s, q) <=> Posting(t, q)
    BY <1>3 DEF Posting
  <2>2. \A l \in Recs : s.leg[l].fin \notin Holding
    BY <1>3, <1>6 DEF Holding
  <2>3. \A q \in Recs : s.rec[q].ask = t.rec[q].ask
    BY <1>4 DEF CalmRec
  <2>. QED BY <1>3, <1>5, <1>6, <2>1, <2>2, <2>3 DEF EarCore, OwnersOf, Recs
<1>h. HooksOf(t) /\ RecsKnown(t)
  BY DEF EarCore
<1>12. HooksOf(s)
  <2>1. \A q \in Recs : Active(t, q) \/ t.rec[q].ask = "asked" => t.rec[q].inst \in Instances
    BY <1>h DEF RecsKnown, Active
  <2>2. \A q \in Recs : s.rec[q].inst = t.rec[q].inst /\ s.rec[q].ask = t.rec[q].ask /\ s.rec[q].mic = t.rec[q].mic
    BY <1>4 DEF CalmRec
  <2>3. ASSUME NEW q \in Recs, s.rec[q].mic
        PROVE  s.hook[s.rec[q].inst].phase # "idle"
    <3>1. t.rec[q].mic /\ t.rec[q].inst \in Instances /\ s.rec[q].inst = t.rec[q].inst
      BY <1>h, <2>1, <2>2, <2>3 DEF RecsKnown
    <3>2. t.hook[t.rec[q].inst].phase # "idle"
      BY <1>h, <3>1 DEF HooksOf, MicShown
    <3>. QED BY <1>k, <3>1, <3>2
  <2>4. ASSUME NEW q \in Recs, s.rec[q].ask = "asked"
        PROVE  s.rec[q].inst = s.mount /\ s.hook[s.mount].arm = q
    <3>1. t.rec[q].ask = "asked" /\ t.rec[q].inst \in Instances /\ s.rec[q].inst = t.rec[q].inst
      BY <2>1, <2>2, <2>4
    <3>2. t.rec[q].inst = t.mount /\ t.hook[t.mount].arm = q
      BY <1>h, <3>1 DEF HooksOf, AskHook
    <3>3. s.mount = t.mount
      BY <1>3
    <3>. QED BY <1>k, <3>1, <3>2, <3>3
  <2>5. ASSUME NEW q \in Recs, Active(s, q)
        PROVE  s.hook[s.rec[q].inst].rec = q
    <3>1. Active(t, q) /\ t.rec[q].inst \in Instances /\ s.rec[q].inst = t.rec[q].inst
      BY <1>5, <2>1, <2>2, <2>5
    <3>2. t.hook[t.rec[q].inst].rec = q
      BY <1>h, <3>1 DEF HooksOf, RecHook
    <3>. QED BY <1>k, <3>1, <3>2
  <2>6. ASSUME NEW j \in Instances, s.hook[j].rec # 0
        PROVE  Active(s, s.hook[j].rec) /\ s.rec[s.hook[j].rec].inst = j
    <3>1. s.hook[j].rec = t.hook[j].rec /\ t.hook[j].rec \in Recs
      BY <1>8, <1>k, <2>6 DEF Ids
    <3>2. Active(t, t.hook[j].rec) /\ t.rec[t.hook[j].rec].inst = j
      BY <1>h, <2>6, <3>1 DEF HooksOf, HookRec
    <3>. QED BY <1>5, <2>2, <3>1, <3>2
  <2>7. ASSUME NEW j \in Instances, s.hook[j].arm # 0
        PROVE  s.rec[s.hook[j].arm].ask = "asked" /\ s.rec[s.hook[j].arm].inst = j
    <3>1. s.hook[j].arm = t.hook[j].arm /\ t.hook[j].arm \in Recs
      BY <1>8, <1>k, <2>7 DEF Ids
    <3>2. t.rec[t.hook[j].arm].ask = "asked" /\ t.rec[t.hook[j].arm].inst = j
      BY <1>h, <2>7, <3>1 DEF HooksOf, HookAsk
    <3>. QED BY <2>2, <3>1, <3>2
  <2>. QED BY <2>3, <2>4, <2>5, <2>6, <2>7 DEF HooksOf, HookRec, RecHook, HookAsk, AskHook, MicShown
<1>13. StreamsOf(s)
  <2>1. \A q \in Recs : Active(s, q) \/ s.rec[q].ask = "asked" => q = r
    <3>1. \A q \in Recs : Active(s, q) \/ s.rec[q].ask = "asked" => <<"rec", q>> \in t.owners
      BY <1>4, <1>5 DEF EarCore, OwnersOf, CalmRec
    <3>2. \A a, b \in t.owners : a = b
      BY DEF EarCore, OwnersOf
    <3>3. <<"rec", r>> \in t.owners
      BY <1>1 DEF EarCore, OwnersOf
    <3>4. ASSUME NEW q \in Recs, <<"rec", q>> \in t.owners PROVE q = r
      <4>1. <<"rec", q>> = <<"rec", r>>
        BY <3>2, <3>3, <3>4
      <4>. QED BY <4>1
    <3>. QED BY <3>1, <3>4
  <2>2. s.rec[r].inst = i
    BY <1>4 DEF CalmRec, i
  <2>. QED BY <1>1, <1>3, <1>6, <1>7, <2>1, <2>2 DEF StreamsOf, StreamLeft, StreamEnds, StreamAlone, StreamClosed
<1>14. CallOf(s)
  <2>1. \A q \in Recs : /\ s.rec[q].inst = t.rec[q].inst /\ s.rec[q].ask = t.rec[q].ask
                         /\ s.rec[q].mic = t.rec[q].mic
    BY <1>4 DEF CalmRec
  <2>. QED BY <1>3, <1>5, <1>k, <2>1, CallKept
<1>15. Good(s)
  BY <1>3, <1>9, <1>10, <1>11, <1>12, <1>13, <1>14 DEF Good, EarInv, EarCore
<1>. QED BY <1>15 DEF s, i

LEMMA ArmDetectorStep ==
  ASSUME Good(tab), NEW r \in Recs, ArmDetector(r)
  PROVE  Good(tab')
<1>. DEFINE i == tab.rec[r].inst
            x == [tab.rec[r] EXCEPT !.detector = "on"]
            s == [tab EXCEPT !.rec[r] = x]
            y == [NoLeg EXCEPT !.inst = i, !.slot = tab.rec[r].slot, !.st = "open", !.uplink = "opening"]
            h == [tab.hook[i] EXCEPT !.stream = r, !.leg = r]
            z == [tab EXCEPT !.rec[r] = x, !.leg[r] = y, !.hook[i] = h, !.live = r]
<1>1. Typed(tab) /\ EarCore(tab) /\ CallOf(tab) /\ tab.rec[r] \in RecSet /\ tab.rec[r].detector = "arming"
  BY PartsTyped DEF Good, EarInv, ArmDetector
<1>2. i \in Instances /\ i \in 0 .. 2 /\ tab.rec[r].slot \in Slots
  BY <1>1, ValuesTyped DEF EarCore, RecsKnown, Active
<1>3. tab.hook[i] \in HookSet
  BY <1>1, <1>2, PartsTyped
<1>4. x \in RecSet /\ CalmRec(tab.rec[r], x)
  BY <1>1 DEF RecSet, CalmRec
<1>5. Good(s)
  <2>. HIDE DEF x
  <2>. QED BY <1>4, GoodRec
<1>6. tab' = s \/ tab' = [tab EXCEPT !.rec[r].detector = "on",
                      !.leg[r] = y, !.hook[i] = [@ EXCEPT !.stream = r, !.leg = r], !.live = r]
  <2>1. [tab EXCEPT !.rec[r].detector = "on"] = s
    OBVIOUS
  <2>. QED BY <2>1 DEF ArmDetector
<1>. HIDE DEF i
<1>7. [tab EXCEPT !.rec[r].detector = "on", !.leg[r] = y,
                  !.hook[i] = [@ EXCEPT !.stream = r, !.leg = r], !.live = r] = z
  <2>. HIDE DEF y
  <2>. QED OBVIOUS
<1>8. y \in LegSet /\ y.inst = i /\ y.fin = "no" /\ ~y.finishing
  BY <1>2, NoLegTyped DEF LegSet, NoLeg
<1>9. /\ h \in HookSet /\ h.stream = r /\ h.arm = tab.hook[i].arm /\ h.rec = tab.hook[i].rec
      /\ h.phase = tab.hook[i].phase /\ h.free = tab.hook[i].free
  BY <1>3 DEF HookSet, Ids
<1>. HIDE DEF x, y, h
<1>10. Good(z)
  BY <1>1, <1>4, <1>8, <1>9, LegOpens DEF i
<1>. HIDE DEF z
<1>. QED BY <1>5, <1>6, <1>7, <1>10

-----------------------------------------------------------------------------
\* What a leg does that neither opens nor closes it.
LEMMA LegSteps ==
  ASSUME Good(tab), NEW l \in Recs
  PROVE  /\ UplinkUp(l) => Good(tab')
         /\ UplinkFails(l) => Good(tab')
         /\ RelayReady(l) => Good(tab')
         /\ Pump(l) => Good(tab')
         /\ Backlogged(l) => Good(tab')
<1>1. Typed(tab) /\ EarCore(tab) /\ tab.leg[l] \in LegSet
  BY PartsTyped DEF Good, EarInv
<1>2. Mine(tab, l) => tab.leg[l].inst \in Instances
  BY <1>1 DEF Mine, EarCore, LegsKnown, LegInst
<1>3. Mine(tab, l) => Good(DropStream(tab, l))
  <2>1. tab.leg[l].inst \in Instances =>
           Typed(DropStream(tab, l)) /\ Calm(tab, DropStream(tab, l)) /\ DropStream(tab, l).call = tab.call
    BY <1>1, DropCalm
  <2>. QED BY <1>2, <2>1, GoodCalm
<1>4. ASSUME UplinkUp(l) PROVE Good(tab')
  <2>. DEFINE v == IF tab.leg[l].dead \/ tab.leg[l].fin # "no" THEN "none" ELSE "up"
              y == [tab.leg[l] EXCEPT !.uplink = v]
  <2>1. tab' = [tab EXCEPT !.leg[l] = y]
    BY <1>4 DEF UplinkUp
  <2>2. v \in {"none", "up"}
    OBVIOUS
  <2>. HIDE DEF v
  <2>3. y \in LegSet /\ CalmLeg(tab.leg[l], y)
    BY <1>1, <2>2 DEF LegSet, CalmLeg
  <2>. HIDE DEF y
  <2>. QED BY <2>1, <2>3, GoodLeg
<1>5. ASSUME RelayReady(l) PROVE Good(tab')
  <2>. DEFINE y == [tab.leg[l] EXCEPT !.ready = TRUE]
  <2>1. tab' = [tab EXCEPT !.leg[l] = y]
    BY <1>5 DEF RelayReady
  <2>2. y \in LegSet /\ CalmLeg(tab.leg[l], y)
    BY <1>1 DEF LegSet, CalmLeg
  <2>. HIDE DEF y
  <2>. QED BY <2>1, <2>2, GoodLeg
<1>6. ASSUME Pump(l) PROVE Good(tab')
  <2>. DEFINE k == Min(tab.leg[l].queue)
              v == IF tab.leg[l].ready THEN tab.leg[l].heard \cup {k} ELSE tab.leg[l].heard
              e == IF tab.leg[l].ready THEN tab.eaten ELSE tab.eaten \cup {<<l, k>>}
              q == tab.leg[l].queue \ {k}
              y == [tab.leg[l] EXCEPT !.queue = q, !.heard = v]
              s == [tab EXCEPT !.leg[l] = y]
              z == [s EXCEPT !.eaten = e]
  <2>1. tab.leg[l].queue \subseteq Nums /\ tab.leg[l].heard \subseteq Nums
    BY <1>1 DEF LegSet
  <2>2. k \in Nums
    <3>1. tab.leg[l].queue \in SUBSET Nat /\ tab.leg[l].queue # {}
      BY <1>6, <2>1 DEF Nums, Pump
    <3>. QED BY <2>1, <3>1, MinOf
  <2>3. tab' = [tab EXCEPT !.leg[l] = y, !.eaten = e]
    <3>1. y = [tab.leg[l] EXCEPT !.queue = @ \ {k},
                                 !.heard = IF tab.leg[l].ready THEN @ \cup {k} ELSE @]
      OBVIOUS
    <3>. QED BY <1>6, <3>1 DEF Pump
  <2>. HIDE DEF k
  <2>4. tab' = z
    <3>. HIDE DEF y, e
    <3>. QED BY <1>1, <2>3 DEF Typed, Fields
  <2>5. q \subseteq Nums /\ v \subseteq Nums /\ e \subseteq PhraseSet
    BY <1>1, <2>1, <2>2 DEF Typed, PhraseSet
  <2>. HIDE DEF v, e, q
  <2>6. y \in LegSet /\ CalmLeg(tab.leg[l], y)
    BY <1>1, <2>5 DEF LegSet, CalmLeg
  <2>. HIDE DEF y
  <2>7. Good(s)
    BY <2>6, GoodLeg
  <2>. HIDE DEF s
  <2>8. Typed(z) /\ SameButDrafts(s, z)
    BY <2>5, <2>7 DEF Good, Typed, Fields, SameButDrafts
  <2>. HIDE DEF z
  <2>. QED BY <2>4, <2>7, <2>8, GoodSame
<1>7. UplinkFails(l) => Good(tab')
  BY <1>3 DEF UplinkFails
<1>8. Backlogged(l) => Good(tab')
  BY <1>3 DEF Backlogged
<1>. QED BY <1>4, <1>5, <1>6, <1>7, <1>8

\* The owner's words, and the moment they may begin.
LEMMA SayingSteps ==
  ASSUME Good(tab), NEW r \in Recs, setup \in Setups
  PROVE  /\ GoLive(r) => Good(tab')
         /\ Say(r) => Good(tab')
<1>1. Typed(tab) /\ tab.rec[r] \in RecSet /\ tab.leg[r] \in LegSet
  BY PartsTyped DEF Good
<1>2. ASSUME GoLive(r) PROVE Good(tab')
  <2>. DEFINE x == [tab.rec[r] EXCEPT !.go = "gone"]
  <2>1. tab' = [tab EXCEPT !.rec[r] = x]
    BY <1>2 DEF GoLive
  <2>2. x \in RecSet /\ CalmRec(tab.rec[r], x)
    BY <1>1 DEF RecSet, CalmRec
  <2>. HIDE DEF x
  <2>. QED BY <2>1, <2>2, GoodRec
<1>3. ASSUME Say(r) PROVE Good(tab')
  <2>. DEFINE k == tab.rec[r].said + 1
              v == IF tab.leg[r].uplink = "up" /\ ~tab.leg[r].dead THEN tab.leg[r].queue \cup {k}
                   ELSE tab.leg[r].queue
              x == [tab.rec[r] EXCEPT !.said = k]
              y == [tab.leg[r] EXCEPT !.queue = v]
              s == [tab EXCEPT !.rec[r] = x]
              z == [s EXCEPT !.leg[r] = y]
  <2>1. tab.rec[r].said \in 0 .. MaxSaid /\ tab.leg[r].queue \subseteq Nums
    BY <1>1 DEF RecSet, LegSet
  <2>2. tab.rec[r].said < setup.said
    BY <1>3 DEF Say
  <2>3. setup \in Setup
    BY BoundsAssumption DEF BoundsAssumption
  <2>4. MaxSaid \in Nat /\ setup.said \in 1 .. MaxSaid
    BY <2>3, BoundsAssumption DEF Setup, BoundsAssumption
  <2>5. k \in 0 .. MaxSaid /\ k \in Nums
    BY <2>1, <2>2, <2>4 DEF Nums
  <2>6. tab' = [tab EXCEPT !.rec[r].said = k,
                           !.leg[r].queue = IF tab.leg[r].uplink = "up" /\ ~tab.leg[r].dead
                                            THEN @ \cup {k} ELSE @]
    BY <1>3 DEF Say
  <2>. HIDE DEF k
  <2>7. tab' = z
    BY <1>1, <2>6 DEF Typed, Fields
  <2>8. v \subseteq Nums
    BY <2>1, <2>5
  <2>. HIDE DEF v
  <2>9. x \in RecSet /\ CalmRec(tab.rec[r], x)
    BY <1>1, <2>5 DEF RecSet, CalmRec
  <2>10. y \in LegSet /\ CalmLeg(tab.leg[r], y)
    BY <1>1, <2>8 DEF LegSet, CalmLeg
  <2>. HIDE DEF x, y
  <2>11. Good(s) /\ s.leg = tab.leg
    BY <1>1, <2>9, GoodRec, RecPut
  <2>. HIDE DEF s
  <2>12. Good(z)
    BY <2>10, <2>11, GoodLeg
  <2>. QED BY <2>7, <2>12
<1>. QED BY <1>2, <1>3

-----------------------------------------------------------------------------
LEMMA PhraseGood ==
  ASSUME NEW t, Good(t), NEW l \in Recs, NEW ps \in SUBSET PhraseSet
  PROVE  Good(AppendPhrase(t, l, ps))
<1>. DEFINE s == AppendPhrase(t, l, ps)
<1>1. Typed(s) /\ SameButLeg(t, s, l) /\ Calm(t, s)
  BY PhraseCalm DEF Good
<1>. HIDE DEF s
<1>2. Good(s)
  BY <1>1, GoodCalm DEF SameButLeg
<1>. QED BY <1>2 DEF s

\* A final lands, waits, or is lost: nothing of the ear is in it.
LEMMA FinalStep ==
  ASSUME Good(tab), NEW l \in Recs, NEW kind \in {"words", "cut", "error"}, Final(l, kind)
  PROVE  Good(tab')
<1>. DEFINE owed == tab.leg[l].heard \ tab.leg[l].got
            k == Min(owed)
            y == [tab.leg[l] EXCEPT !.got = @ \cup {k}]
            got == [tab EXCEPT !.leg[l] = y]
            said == Said(l, {k})
            z == [got.leg[l] EXCEPT !.held = @ \cup said]
            a == AppendPhrase(got, l, {})
            u == [a EXCEPT !.unheard = @ \cup {<<l, k>>}]
<1>1. Typed(tab) /\ tab.leg[l] \in LegSet
  BY PartsTyped DEF Good
<1>2. k \in Nums
  <2>1. owed \in SUBSET Nat /\ owed \subseteq Nums /\ owed # {}
    BY <1>1 DEF LegSet, Nums, Final
  <2>. QED BY <2>1, MinOf
<1>3. tab' = CASE kind = "words" -> AppendPhrase(got, l, said)
               [] kind = "cut" -> [got EXCEPT !.leg[l] = z]
               [] kind = "error" -> u
  <2>1. [tab EXCEPT !.leg[l].got = @ \cup {k}] = got
    OBVIOUS
  <2>2. [got EXCEPT !.leg[l].held = @ \cup said] = [got EXCEPT !.leg[l] = z]
    OBVIOUS
  <2>. QED BY <2>1, <2>2 DEF Final
<1>. HIDE DEF k
<1>4. y \in LegSet /\ CalmLeg(tab.leg[l], y)
  BY <1>1, <1>2 DEF LegSet, CalmLeg
<1>. HIDE DEF y
<1>5. Good(got)
  BY <1>4, GoodLeg
<1>6. said \subseteq PhraseSet /\ <<l, k>> \in PhraseSet
  BY <1>2 DEF Said, PhraseSet
<1>. HIDE DEF got, said
<1>7. CASE kind = "words"
  <2>1. tab' = AppendPhrase(got, l, said)
    BY <1>3, <1>7
  <2>. QED BY <1>5, <1>6, <2>1, PhraseGood
<1>8. CASE kind = "cut"
  <2>1. tab' = [got EXCEPT !.leg[l] = z]
    BY <1>3, <1>8
  <2>2. got.leg[l] \in LegSet
    BY <1>5, PartsTyped DEF Good
  <2>3. z \in LegSet /\ CalmLeg(got.leg[l], z)
    BY <1>6, <2>2 DEF LegSet, CalmLeg
  <2>. HIDE DEF z
  <2>. QED BY <1>5, <2>1, <2>3, GoodLeg
<1>9. CASE kind = "error"
  <2>1. tab' = u
    BY <1>3, <1>9
  <2>2. Good(a)
    BY <1>5, PhraseGood
  <2>. HIDE DEF a
  <2>3. Typed(u) /\ SameButDrafts(a, u)
    BY <1>6, <2>2 DEF Good, Typed, Fields, SameButDrafts
  <2>. HIDE DEF u
  <2>. QED BY <2>1, <2>2, <2>3, GoodSame
<1>. QED BY <1>7, <1>8, <1>9

\* A socket that closes frees the leg, or stops the recording that had landed words on it.
LEMMA SocketClosesStep ==
  ASSUME Good(tab), NEW l \in Recs, SocketCloses(l)
  PROVE  Good(tab')
<1>. DEFINE i == tab.leg[l].inst
            a == AppendPhrase(tab, l, {})
            f == IF tab.leg[l].fin = "tail" THEN "end" ELSE tab.leg[l].fin
            y == [tab.leg[l] EXCEPT !.dead = TRUE, !.fin = f]
            u == [tab EXCEPT !.leg[l] = y]
            x == [a.leg[l] EXCEPT !.dead = TRUE, !.uplink = "none"]
            v == [a EXCEPT !.leg[l] = x]
            w == [v EXCEPT !.told = @ \cup {l}]
<1>1. Typed(tab) /\ EarCore(tab) /\ tab.leg[l] \in LegSet
  BY PartsTyped DEF Good, EarInv
<1>2. i \in Instances
  BY <1>1 DEF SocketCloses, Mine, EarCore, LegsKnown, LegInst
<1>3. tab' = CASE tab.leg[l].finishing -> TellIfHeard(u, l)
               [] ~tab.leg[l].finishing /\ (~tab.leg[l].ready \/ ~a.leg[l].finals) -> DropStream(a, l)
               [] ~tab.leg[l].finishing /\ tab.leg[l].ready /\ a.leg[l].finals -> StopRec(w, i, "lost")
  <2>0. Typed(a)
    BY <1>1, PhraseTyped
  <2>1. [tab EXCEPT !.leg[l] = [tab.leg[l] EXCEPT !.dead = TRUE, !.fin = IF @ = "tail" THEN "end" ELSE @]] = u
    OBVIOUS
  <2>2. [a EXCEPT !.leg[l] = x, !.told = @ \cup {l}] = w
    <3>. HIDE DEF a, x
    <3>. QED BY <2>0 DEF Typed, Fields
  <2>3. tab' = OnClose(tab, l)
    BY DEF SocketCloses
  <2>. HIDE DEF u, w, a
  <2>. QED BY <2>1, <2>2, <2>3 DEF OnClose, a
<1>4. Good(a) /\ a.leg[l].inst = i
  BY <1>1, PhraseGood, PhraseCalm
<1>5. Good(TellIfHeard(u, l))
  <2>1. f \in {"no", "drain", "tail", "end", "upload"} /\ (f \in Holding <=> tab.leg[l].fin \in Holding)
        /\ (f = "no" <=> tab.leg[l].fin = "no")
    BY <1>1 DEF LegSet, Holding
  <2>. HIDE DEF f
  <2>2. y \in LegSet /\ CalmLeg(tab.leg[l], y)
    BY <1>1, <2>1 DEF LegSet, CalmLeg
  <2>. HIDE DEF y
  <2>3. Good(u)
    BY <2>2, GoodLeg
  <2>. HIDE DEF u
  <2>4. Typed(TellIfHeard(u, l)) /\ SameButDrafts(u, TellIfHeard(u, l))
    BY <2>3, TellSame DEF Good
  <2>. QED BY <2>3, <2>4, GoodSame
<1>. HIDE DEF a
<1>6. Good(DropStream(a, l))
  <2>1. Typed(DropStream(a, l)) /\ Calm(a, DropStream(a, l)) /\ DropStream(a, l).call = a.call
    BY <1>2, <1>4, DropCalm DEF Good
  <2>. QED BY <1>4, <2>1, GoodCalm
<1>7. Good(StopRec(w, i, "lost"))
  <2>1. a.leg[l] \in LegSet
    BY <1>4, PartsTyped DEF Good
  <2>2. x \in LegSet /\ CalmLeg(a.leg[l], x)
    BY <2>1 DEF LegSet, CalmLeg
  <2>. HIDE DEF x
  <2>3. Good(v)
    BY <1>4, <2>2, GoodLeg
  <2>. HIDE DEF v
  <2>4. Typed(w) /\ SameButDrafts(v, w)
    BY <2>3 DEF Good, Typed, Fields, SameButDrafts
  <2>. HIDE DEF w
  <2>5. Good(w)
    BY <2>3, <2>4, GoodSame
  <2>6. "lost" \in Reasons
    BY DEF Reasons
  <2>. QED BY <1>2, <2>5, <2>6, GoodStop
<1>. HIDE DEF u, w, i
<1>. QED BY <1>3, <1>5, <1>6, <1>7

-----------------------------------------------------------------------------
\* A clip's attempt that keeps, or never had, the tab.
LEMMA ClipMoves ==
  ASSUME NEW t, Good(t), NEW r \in Recs, NEW c \in ClipSet, t.clip[r].st # "none",
         c.st \in {"post", "backoff", "offline"} <=> Posting(t, r)
  PROVE  Good([t EXCEPT !.clip[r] = c])
<1>. DEFINE s == [t EXCEPT !.clip[r] = c]
<1>1. /\ Typed(s) /\ s.clip[r] = c /\ (\A q \in Recs \ {r} : s.clip[q] = t.clip[q])
      /\ s.rec = t.rec /\ s.leg = t.leg /\ s.hook = t.hook /\ s.owners = t.owners
      /\ s.closing = t.closing /\ s.call = t.call /\ s.mount = t.mount /\ s.live = t.live
  BY DEF Good, Typed, Fields
<1>. HIDE DEF s
<1>2. CalmClips(t, s)
  BY <1>1 DEF CalmClips, Posting
<1>3. Calm(t, s)
  BY <1>1, <1>2 DEF Calm, CalmHooks, CalmRecs, CalmLegs, CalmLeg
<1>4. Good(s)
  BY <1>1, <1>3, GoodCalm
<1>. QED BY <1>4 DEF s

LEMMA ToldGood ==
  ASSUME NEW t, Good(t), NEW r \in Recs
  PROVE  Good([t EXCEPT !.told = @ \cup {r}])
<1>. DEFINE s == [t EXCEPT !.told = @ \cup {r}]
<1>1. Typed(s) /\ SameButDrafts(t, s)
  BY DEF Good, Typed, Fields, SameButDrafts
<1>. HIDE DEF s
<1>2. Good(s)
  BY <1>1, GoodSame
<1>. QED BY <1>2 DEF s

LEMMA UploadSteps ==
  ASSUME Good(tab), NEW r \in Recs, BoundsAssumption
  PROVE  /\ Transcribed(r) => Good(tab')
         /\ Refused(r) => Good(tab')
         /\ Parks(r) => Good(tab')
         /\ TransportFails(r) => Good(tab')
         /\ TryAgain(r) => Good(tab')
         /\ GivesUp(r) => Good(tab')
         /\ Retry(r) => Good(tab')
         /\ Discard(r) => Good(tab')
<1>1. Typed(tab) /\ EarCore(tab) /\ tab.clip[r] \in ClipSet /\ tab.rec[r] \in RecSet
  BY PartsTyped DEF Good, EarInv
<1>2. ASSUME Transcribed(r) PROVE Good(tab')
  <2>. DEFINE c == tab.clip[r]
              k == c.slot
              own == Said(r, 1 .. tab.rec[r].said)
              s == AppendDraft(tab, own, k)
              z == IF c.send /\ tab.rec[r].said > 0 THEN AutoSend(s, r, k) ELSE s
  <2>1. k \in Slots /\ own \subseteq PhraseSet
    BY <1>1 DEF ClipSet, RecSet, Said, PhraseSet, Nums
  <2>2. tab' = LeaveLoop(z, r, "gone") /\ c.st = "post"
    BY <1>2 DEF Transcribed
  <2>. HIDE DEF own, k
  <2>3. Typed(s) /\ SameButDrafts(tab, s)
    BY <1>1, <2>1, AppendTyped, DraftsSame
  <2>4. Good(s)
    BY <2>3, GoodSame
  <2>. HIDE DEF s
  <2>5. Good(z) /\ z.clip = tab.clip
    <3>1. Typed(AutoSend(s, r, k)) /\ SameButDrafts(s, AutoSend(s, r, k))
      BY <2>1, <2>3, SendTyped, DraftsSame
    <3>2. Good(AutoSend(s, r, k))
      BY <2>4, <3>1, GoodSame
    <3>. QED BY <2>3, <2>4, <3>1, <3>2 DEF SameButDrafts
  <2>6. Posting(z, r)
    BY <2>2, <2>5 DEF Posting
  <2>. HIDE DEF z
  <2>. QED BY <2>2, <2>5, <2>6, LeaveKeeps
<1>3. ASSUME Refused(r) PROVE Good(tab')
  <2>. DEFINE s == [tab EXCEPT !.told = @ \cup {r}]
  <2>1. tab' = LeaveLoop(s, r, "gone") /\ tab.clip[r].st = "post"
    BY <1>3 DEF Refused
  <2>2. Good(s) /\ s.clip = tab.clip
    BY <1>1, ToldGood DEF Typed, Fields
  <2>. HIDE DEF s
  <2>. QED BY <2>1, <2>2, LeaveKeeps DEF Posting
<1>4. Parks(r) => Good(tab')
  BY LeaveKeeps DEF Parks, Posting
<1>5. ASSUME TransportFails(r) PROVE Good(tab')
  <2>. DEFINE c == [tab.clip[r] EXCEPT !.st = "offline"]
              d == [st |-> "backoff", slot |-> tab.clip[r].slot, send |-> tab.clip[r].send,
                    attempt |-> tab.clip[r].attempt + 1]
  <2>1. tab.clip[r].st = "post" /\ Posting(tab, r)
    BY <1>5 DEF TransportFails, Posting
  <2>2. \/ tab' = [tab EXCEPT !.clip[r] = c]
        \/ tab' = LeaveLoop(tab, r, "parked")
        \/ tab' = [tab EXCEPT !.clip[r] = d] /\ ~(tab.clip[r].attempt >= Attempts)
    BY <1>5 DEF TransportFails
  <2>3. c \in ClipSet /\ c.st = "offline"
    BY <1>1 DEF ClipSet
  <2>4. ~(tab.clip[r].attempt >= Attempts) => d \in ClipSet
    BY <1>1, BoundsAssumption DEF ClipSet, BoundsAssumption
  <2>5. d.st = "backoff"
    OBVIOUS
  <2>. HIDE DEF c, d
  <2>. QED BY <2>1, <2>2, <2>3, <2>4, <2>5, ClipMoves, LeaveKeeps
<1>6. ASSUME TryAgain(r) PROVE Good(tab')
  <2>. DEFINE v == IF world.online THEN "post" ELSE "offline"
              c == [tab.clip[r] EXCEPT !.st = v]
  <2>1. tab' = [tab EXCEPT !.clip[r] = c] /\ Posting(tab, r) /\ tab.clip[r].st # "none"
    BY <1>6 DEF TryAgain, Posting
  <2>2. v \in {"post", "offline"}
    OBVIOUS
  <2>. HIDE DEF v
  <2>3. c \in ClipSet /\ c.st = v
    BY <1>1, <2>2 DEF ClipSet
  <2>. HIDE DEF c
  <2>. QED BY <2>1, <2>2, <2>3, ClipMoves
<1>7. GivesUp(r) => Good(tab')
  BY LeaveKeeps DEF GivesUp, Posting
<1>8. ASSUME Retry(r) PROVE Good(tab')
  <2>1. tab.owners = {} /\ tab.closing = 0 /\ tab.clip[r].st # "none" /\ tab' = SendClip(tab, r)
    BY <1>8 DEF Retry, MayRetry
  <2>2. tab.rec[r].st = "over"
    BY <1>1, <2>1 DEF EarCore, RecsKnown
  <2>. QED BY <2>1, <2>2, SendKeeps
<1>9. ASSUME Discard(r) PROVE Good(tab')
  <2>. DEFINE c == [tab.clip[r] EXCEPT !.st = "gone"]
              s == [tab EXCEPT !.clip[r] = c]
              z == [s EXCEPT !.told = @ \cup {r}]
  <2>1. tab' = [tab EXCEPT !.clip[r] = c, !.told = @ \cup {r}] /\ tab.clip[r].st = "parked"
    BY <1>9 DEF Discard
  <2>2. c \in ClipSet /\ c.st = "gone" /\ ~Posting(tab, r)
    BY <1>1, <2>1 DEF ClipSet, Posting
  <2>. HIDE DEF c
  <2>3. tab' = z
    BY <1>1, <2>1 DEF Typed, Fields
  <2>4. Good(s)
    BY <2>1, <2>2, ClipMoves
  <2>. HIDE DEF s
  <2>. QED BY <2>3, <2>4, ToldGood
<1>. QED BY <1>2, <1>3, <1>4, <1>5, <1>6, <1>7, <1>8, <1>9

-----------------------------------------------------------------------------
LEMMA FreshGood ==
  ASSUME NEW start \in {0, 1}, BoundsAssumption
  PROVE  Good(Fresh(start))
<1>. DEFINE t == Fresh(start)
<1>1. /\ 0 \in Ids /\ 0 \in Slots /\ 1 \in Slots /\ -1 \in Slots \cup {-1} /\ 0 \in 0 .. 2 /\ 1 \in 0 .. 2
      /\ 0 \in 0 .. MaxSaid /\ 0 \in 0 .. Attempts /\ start \in Slots /\ "none" \in Reasons
  BY DEF Ids, Slots, BoundsAssumption, Reasons
<1>2. NoHook \in HookSet /\ NoRec \in RecSet /\ NoClip \in ClipSet /\ NoLeg \in LegSet
  BY <1>1, NoLegTyped DEF NoHook, HookSet, NoRec, RecSet, NoClip, ClipSet
<1>3. /\ [st |-> "no", on |-> 0, early |-> FALSE] \in CallSet
      /\ [st |-> "no", from |-> 0, to |-> 0, on |-> 0] \in CarrySet
  BY <1>1 DEF CallSet, CarrySet
<1>4. Typed(t)
  <2>. HIDE DEF NoHook, NoRec, NoClip, NoLeg
  <2>1. DOMAIN t = Fields
    BY DEF Fresh, Fields
  <2>2. /\ t.hook \in [Instances -> HookSet] /\ t.rec \in [Recs -> RecSet] /\ t.leg \in [Recs -> LegSet]
        /\ t.clip \in [Recs -> ClipSet]
    BY <1>2 DEF Fresh
  <2>3. /\ t.mount \in 0 .. 2 /\ t.owners \subseteq {"rec", "clip"} \X Recs /\ t.closing \in Ids
        /\ t.call \in CallSet /\ t.slot \in Slots /\ t.mint \in Slots \cup {-1}
        /\ t.dead \subseteq Slots /\ t.live \in Ids /\ t.carry \in CarrySet
    BY <1>1, <1>3 DEF Fresh
  <2>4. /\ t.moved \in [Slots -> Slots] /\ t.draft \in [Slots -> SUBSET PhraseSet]
        /\ t.sent \subseteq PhraseSet \X Slots \X Ids
        /\ t.told \subseteq Recs /\ t.unheard \subseteq PhraseSet /\ t.eaten \subseteq PhraseSet
    BY DEF Fresh
  <2>. QED BY <2>1, <2>2, <2>3, <2>4 DEF Typed
<1>5. /\ t.owners = {} /\ t.closing = 0 /\ t.mount = 1 /\ t.live = 0 /\ t.call.st = "no"
      /\ \A i \in Instances : t.hook[i] = NoHook
      /\ \A r \in Recs : t.rec[r] = NoRec /\ t.leg[r] = NoLeg /\ t.clip[r] = NoClip
  BY DEF Fresh
<1>. HIDE DEF t
<1>6. \A r \in Recs : ~Active(t, r) /\ ~Posting(t, r) /\ t.rec[r].ask = "none" /\ ~t.rec[r].mic
  BY <1>5 DEF Active, Posting, NoRec, NoClip
<1>7. RecsKnown(t) /\ LegsKnown(t)
  BY <1>5, <1>6 DEF RecsKnown, LegsKnown, LegInst, LegClip, StreamInst, LiveInst, NoRec, NoLeg,
     NoClip, NoHook
<1>8. OwnersOf(t)
  BY <1>5, <1>6 DEF OwnersOf, NoLeg, Holding, Recs
<1>9. HooksOf(t) /\ StreamsOf(t) /\ CallOf(t)
  BY <1>5, <1>6 DEF HooksOf, HookRec, RecHook, HookAsk, AskHook, MicShown, StreamsOf, StreamLeft,
     StreamEnds, StreamAlone, StreamClosed, CallOf, CallLeg, FreeOf, NoHook
<1>. QED BY <1>4, <1>7, <1>8, <1>9 DEF Good, EarInv, EarCore, t

LEMMA OwnerSteps ==
  ASSUME Good(tab), setup \in Setups, Owner, BoundsAssumption
  PROVE  Good(tab')
<1>1. CASE Release \/ RunsOut
  BY <1>1, StopSteps
<1>2. CASE Cancel \/ Hide
  BY <1>2, CancelStep, HideStep
<1>3. CASE Unmount \/ Mount
  BY <1>3, UnmountStep, MountStep
<1>4. CASE MintWire \/ DeletedElsewhere \/ \E next \in Slots : Navigate(next)
  BY <1>4, SlotsSteps
<1>5. CASE CallStarts \/ CallEnds
  BY <1>5, CallStartsStep, CallEndsStep
<1>6. CASE LinkFalls \/ LinkReturns
  <2>1. tab' = tab
    BY <1>6 DEF LinkFalls, LinkReturns
  <2>. QED BY <2>1
<1>7. CASE \E r \in Recs : Start(r) \/ Say(r) \/ Retry(r) \/ Discard(r)
  BY <1>7, StartStep, SayingSteps, UploadSteps
<1>. QED BY <1>1, <1>2, <1>3, <1>4, <1>5, <1>6, <1>7 DEF Owner

LEMMA PageSteps ==
  ASSUME Good(tab), setup \in Setups, NEW r \in Recs, BoundsAssumption
  PROVE  /\ Runs(r) => Good(tab')
         /\ RunsBrief(r) => Good(tab')
         /\ Relays(r) => Good(tab')
         /\ Serves(r) => Good(tab')
<1>1. TRUE \in BOOLEAN /\ FALSE \in BOOLEAN
  OBVIOUS
<1>2. Runs(r) => Good(tab')
  BY <1>1, ArmDetectorStep, LegSteps, SayingSteps, TailEndsStep, FinishSteps, OnStopStep,
     UploadSteps
  DEF Runs
<1>3. RunsBrief(r) => Good(tab')
  BY <1>1, FinishSteps, OnStopStep DEF RunsBrief
<1>4. Relays(r) => Good(tab')
  BY LegSteps, SocketClosesStep, FinalStep, FinishSteps DEF Relays
<1>5. Serves(r) => Good(tab')
  BY AskGrantedStep, AskFailsStep, RecorderFailsStep, UploadSteps DEF Serves
<1>. QED BY <1>2, <1>3, <1>4, <1>5

LEMMA SetupStays ==
  ASSUME [Next]_vars
  PROVE  setup' = setup
<1>1. CarryLands => setup' = setup
  BY DEF CarryLands
<1>2. Owner => setup' = setup
  BY DEF Owner, Release, RunsOut, Cancel, Hide, Unmount, Mount, MintWire, DeletedElsewhere,
     CallStarts,
         CallEnds, LinkFalls, LinkReturns, Navigate, Start, Say, Retry, Discard
<1>3. ASSUME NEW r \in Recs
      PROVE  Runs(r) \/ RunsBrief(r) => setup' = setup
  BY DEF Runs, RunsBrief, ArmDetector, UplinkUp, GoLive, Pump, TailEnds, TailRunsOut, TailEnded,
     Drained,
         OnStop, TryAgain, GivesUp
<1>4. ASSUME NEW r \in Recs
      PROVE  Relays(r) \/ Serves(r) => setup' = setup
  BY DEF Relays, Serves, RelayReady, SocketCloses, UplinkFails, Backlogged, Final, Flushed,
     DrainRunsOut,
         AskGranted, AskFails, RecorderFails, Transcribed, Refused, Parks, TransportFails
<1>. QED BY <1>1, <1>2, <1>3, <1>4 DEF Next, vars

EarState == setup \in Setups /\ Good(tab)

LEMMA EarStep ==
  ASSUME EarState, [Next]_vars
  PROVE  EarState'
<1>1. setup' = setup
  BY SetupStays
<1>2. Good(tab) /\ setup \in Setups
  BY DEF EarState
<1>3. Good(tab')
  <2>1. CASE CarryLands
    BY <1>2, <2>1, SlotsSteps
  <2>2. CASE Owner
    BY <1>2, <2>2, OwnerSteps, BoundsAssumption
  <2>3. CASE \E r \in Recs : Runs(r) \/ RunsBrief(r) \/ Relays(r) \/ Serves(r)
    BY <1>2, <2>3, PageSteps, BoundsAssumption
  <2>4. CASE UNCHANGED vars
    <3>1. tab' = tab
      BY <2>4 DEF vars
    <3>. QED BY <1>2, <3>1
  <2>. QED BY <2>1, <2>2, <2>3, <2>4 DEF Next
<1>. QED BY <1>1, <1>2, <1>3 DEF EarState

\* Whatever the owner, the page, the relay and the upload do, and in which order: who has the
\* ear is who is recording or uploading, and each leg, hook and call agrees with it.
THEOREM EarInductive == Spec => []EarState
<1>1. Init => EarState
  BY FreshGood, BoundsAssumption DEF Init, EarState
<1>2. EarState /\ [Next]_vars => EarState'
  BY EarStep
<1>. QED BY <1>1, <1>2, PTL DEF Spec

-----------------------------------------------------------------------------
LEMMA OneOwner ==
  ASSUME EarInv(tab)
  PROVE  LET open == {r \in Recs : tab.rec[r].mic}
             posting == {r \in Recs : Uploading(r)}
         IN Cardinality(open) + Cardinality(posting) <= 1
<1>. DEFINE open == {r \in Recs : tab.rec[r].mic}
            posting == {r \in Recs : Uploading(r)}
<1>1. \A r \in Recs : Uploading(r) <=> Posting(tab, r)
  BY DEF Uploading, Posting
<1>2. /\ \A r \in open : <<"rec", r>> \in tab.owners
      /\ \A r \in posting : <<"clip", r>> \in tab.owners
      /\ \A a, b \in tab.owners : a = b
  BY <1>1 DEF EarInv, EarCore, RecsKnown, OwnersOf
<1>3. Cardinality({}) = 0
  BY FS_EmptySet
<1>4. CASE open = {} /\ posting = {}
  <2>1. Cardinality(open) = 0 /\ Cardinality(posting) = 0
    <3>. HIDE DEF open, posting
    <3>. QED BY <1>3, <1>4
  <2>2. Cardinality(open) + Cardinality(posting) <= 1
    <3>. HIDE DEF open, posting
    <3>. QED BY <2>1
  <2>. QED BY <2>2
<1>5. ASSUME NEW r \in open
      PROVE  Cardinality(open) + Cardinality(posting) <= 1
  <2>1. ASSUME NEW q \in open PROVE q = r
    <3>1. <<"rec", q>> = <<"rec", r>>
      BY <1>2
    <3>. QED BY <3>1
  <2>2. ASSUME NEW q \in posting PROVE FALSE
    <3>1. <<"clip", q>> = <<"rec", r>>
      BY <1>2
    <3>. QED BY <3>1
  <2>3. open = {r} /\ posting = {}
    BY <2>1, <2>2
  <2>4. Cardinality(open) = 1 /\ Cardinality(posting) = 0
    BY <1>3, <2>3, FS_Singleton
  <2>. HIDE DEF open, posting
  <2>. QED BY <2>4
<1>6. ASSUME NEW r \in posting
      PROVE  Cardinality(open) + Cardinality(posting) <= 1
  <2>1. ASSUME NEW q \in posting PROVE q = r
    <3>1. <<"clip", q>> = <<"clip", r>>
      BY <1>2
    <3>. QED BY <3>1
  <2>2. ASSUME NEW q \in open PROVE FALSE
    <3>1. <<"rec", q>> = <<"clip", r>>
      BY <1>2
    <3>. QED BY <3>1
  <2>3. posting = {r} /\ open = {}
    BY <2>1, <2>2
  <2>4. Cardinality(open) = 0 /\ Cardinality(posting) = 1
    BY <1>3, <2>3, FS_Singleton
  <2>. HIDE DEF open, posting
  <2>. QED BY <2>4
<1>. QED BY <1>4, <1>5, <1>6

LEMMA OneLeg ==
  ASSUME EarInv(tab), Typed(tab)
  PROVE  Cardinality(Wanted) <= 1
<1>1. \E v : Wanted \subseteq {v}
  <2>1. CASE tab.closing # 0
    <3>1. \A i \in Instances : tab.hook[i].stream = 0
      BY <2>1 DEF EarInv, EarCore, StreamsOf, StreamClosed
    <3>. QED BY <3>1 DEF Wanted
  <2>2. CASE tab.closing = 0 /\ tab.hook[1].stream # 0
    <3>1. tab.hook[2].stream = 0
      <4>1. SUFFICES ASSUME tab.hook[2].stream # 0 PROVE FALSE
        OBVIOUS
      <4>2. 1 \in Instances /\ 2 \in Instances
        BY DEF Instances
      <4>3. PICK i \in Instances : i # tab.mount
        BY <4>2
      <4>4. tab.hook[i].rec # 0 /\ tab.hook[i].stream # 0
        BY <2>2, <4>1, <4>3 DEF EarInv, EarCore, StreamsOf, StreamLeft, Instances
      <4>5. tab.hook[i].rec \in Recs
        BY <4>4, PartsTyped, ValuesTyped DEF Ids
      <4>6. Active(tab, tab.hook[i].rec) /\ tab.rec[tab.hook[i].rec].inst = i
        BY <4>4 DEF EarInv, EarCore, HooksOf, HookRec
      <4>7. \A j \in Instances : j # i => tab.hook[j].stream = 0
        BY <4>5, <4>6 DEF EarInv, EarCore, StreamsOf, StreamAlone
      <4>. QED BY <2>2, <4>1, <4>2, <4>7 DEF Instances
    <3>. QED BY <2>2, <3>1 DEF Wanted, Instances
  <2>3. CASE tab.closing = 0 /\ tab.hook[1].stream = 0
    BY <2>3 DEF Wanted, Instances
  <2>. QED BY <2>1, <2>2, <2>3
<1>2. PICK v : Wanted \subseteq {v}
  BY <1>1
<1>3. Wanted = {} \/ Wanted = {v}
  BY <1>2
<1>4. Cardinality({}) = 0 /\ Cardinality({v}) = 1
  BY FS_EmptySet, FS_Singleton
<1>. QED BY <1>3, <1>4

\* One ear for the tab, always: at most one open microphone or upload, one leg wanted, a composer
\* that listens never looks idle, and a call that is up has both the microphone and the leg,
\* unless it was told early that the ear is free (OneEar says when).
THEOREM OneEarAlways == Spec => []OneEar
<1>1. ASSUME Good(tab) PROVE OneEar
  <2>. DEFINE open == {r \in Recs : tab.rec[r].mic}
              posting == {r \in Recs : Uploading(r)}
  <2>1. Cardinality(open) + Cardinality(posting) <= 1 /\ Cardinality(Wanted) <= 1
    BY <1>1, OneOwner, OneLeg DEF Good
  <2>2. posting # {} => tab.closing = 0
    BY <1>1 DEF Good, EarInv, EarCore, OwnersOf, Uploading, Posting
  <2>3. \A r \in open : tab.rec[r].inst = tab.mount => tab.hook[tab.mount].phase # "idle"
    BY <1>1 DEF Good, EarInv, EarCore, HooksOf, MicShown
  <2>4. tab.call.st = "up" /\ ~tab.call.early => open = {} /\ tab.closing = 0
    BY <1>1 DEF Good, EarInv, CallOf, CallLeg
  <2>. HIDE DEF open, posting
  <2>. QED BY <2>1, <2>2, <2>3, <2>4 DEF OneEar, open, posting
<1>2. EarState => OneEar
  BY <1>1 DEF EarState
<1>. QED BY <1>2, EarInductive, PTL

=============================================================================
