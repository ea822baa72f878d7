------------------------- MODULE DictationEarProofs -------------------------
(***************************************************************************)
(* What the helpers of the dictation hook keep of one ear, one owner.      *)
(* The state is one record, tab; Typed is its shape.  EarInv says who may  *)
(* be active at all: the owner of the lease, the recordings the owners'    *)
(* list names, and no other.  The streams of an unmounted composer last    *)
(* only while its recording is being stopped; a leg on its way down        *)
(* excludes every other holder, and the lease is free again only when the  *)
(* last of them is done.                                                   *)
(*                                                                         *)
(* The steps are built of helpers (StopRec, CloseStream, Upload ...): here *)
(* is a lemma for what each of them keeps, and one for each handler that   *)
(* is one helper deep.  DictationProofs goes on with the rest.             *)
(***************************************************************************)
EXTENDS Dictation, FiniteSetTheorems, TLAPS

Reasons == {"none", "user", "idle", "call", "cancel", "hidden", "unmount", "navigated", "lost"}
Ids == {0} \cup Recs
Nums == 1 .. MaxSaid
PhraseSet == Recs \X Nums
HookSet == [phase : {"idle", "recording", "sending"}, arm : Ids, rec : Ids, stream : Ids, leg : Ids,
            free : BOOLEAN]
RecSet == [inst : 0 .. 2, slot : Slots, ask : {"none", "asked", "aborted", "done", "returned"},
           st : {"none", "live", "settling", "stopping", "over"}, mic : BOOLEAN,
           detector : {"none", "arming", "on", "off"}, go : {"no", "owed", "gone"},
           released : BOOLEAN, discard : BOOLEAN, said : 0 .. MaxSaid]
LegSet == [inst : 0 .. 2, slot : Slots, clip : Ids, st : {"none", "open", "closed"},
           ready : BOOLEAN, dead : BOOLEAN, finishing : BOOLEAN, uplink : {"none", "opening", "up"},
           queue : SUBSET Nums, heard : SUBSET Nums, got : SUBSET Nums, held : SUBSET PhraseSet,
           finals : BOOLEAN, fin : {"no", "drain", "tail", "end", "upload"},
           reason : Reasons,
           ended : BOOLEAN]
ClipSet == [st : {"none", "post", "offline", "backoff", "parked", "gone"}, slot : Slots,
            send : BOOLEAN, attempt : 0 .. Attempts]

Fields == {"hook", "mount", "rec", "leg", "clip", "owners", "closing", "call", "slot", "mint", "moved",
           "dead", "live", "carry", "draft", "sent", "told", "unheard", "eaten"}
CallSet == [st : {"no", "ear", "leg", "up"}, on : Ids, early : BOOLEAN]
CarrySet == [st : {"no", "waiting", "done"}, from : Slots, to : Slots, on : Ids]
Typed(t) ==
    /\ DOMAIN t = Fields
    /\ t.hook \in [Instances -> HookSet] /\ t.mount \in 0 .. 2
    /\ t.rec \in [Recs -> RecSet] /\ t.leg \in [Recs -> LegSet] /\ t.clip \in [Recs -> ClipSet]
    /\ t.owners \subseteq {"rec", "clip"} \X Recs /\ t.closing \in Ids /\ t.call \in CallSet
    /\ t.slot \in Slots /\ t.mint \in Slots \cup {-1} /\ t.moved \in [Slots -> Slots]
    /\ t.dead \subseteq Slots /\ t.live \in Ids /\ t.carry \in CarrySet
    /\ t.draft \in [Slots -> SUBSET PhraseSet] /\ t.sent \subseteq PhraseSet \X Slots \X Ids
    /\ t.told \subseteq Recs /\ t.unheard \subseteq PhraseSet /\ t.eaten \subseteq PhraseSet


-----------------------------------------------------------------------------
Active(t, r) == t.rec[r].st \in {"live", "settling", "stopping"}
Posting(t, r) == t.clip[r].st \in {"post", "backoff", "offline"}
Holding == {"drain", "tail", "end"}

\* A recording is of a composer that was mounted, and nothing of it is before its ask.
RecsKnown(t) ==
    /\ \A r \in Recs : t.rec[r].ask # "none" => t.rec[r].inst \in Instances
    /\ \A r \in Recs : t.rec[r].ask # "none" /\ t.rec[r].inst = 2 => t.mount = 2
    /\ \A r \in Recs : t.rec[r].st # "none" => t.rec[r].ask = "done"
    /\ \A r \in Recs : t.clip[r].st # "none" => t.rec[r].st = "over"
    /\ \A r \in Recs : t.rec[r].mic => Active(t, r)
    /\ \A r \in Recs : Active(t, r) /\ ~t.rec[r].discard => t.rec[r].mic
    /\ \A r \in Recs : t.rec[r].discard => t.rec[r].st \in {"stopping", "over"}
    /\ \A r \in Recs : t.rec[r].detector = "arming" => Active(t, r) /\ t.rec[r].inst = t.mount

LegInst(t) ==
    \A l \in Recs : t.leg[l].st # "none" => t.leg[l].inst \in Instances
LegClip(t) ==
    \A l \in Recs : t.leg[l].fin # "no" =>
          t.leg[l].clip \in Recs /\ t.rec[t.leg[l].clip].st = "over" /\ t.leg[l].inst \in Instances
StreamInst(t) ==
    \A i \in Instances : t.hook[i].stream # 0 => t.leg[t.hook[i].stream].inst = i
LiveInst(t) ==
    t.live # 0 => t.leg[t.live].inst \in Instances
LegsKnown(t) == LegInst(t) /\ LegClip(t) /\ StreamInst(t) /\ LiveInst(t)

OwnersOf(t) ==
    /\ \A r \in Recs : <<"rec", r>> \in t.owners <=> Active(t, r) \/ t.rec[r].ask = "asked"
    /\ \A r \in Recs : <<"clip", r>> \in t.owners <=> Posting(t, r)
    /\ \A a, b \in t.owners : a = b
    /\ t.closing # 0 => t.owners = {}
    /\ \A l \in Recs : t.leg[l].fin \in Holding <=> t.closing = l

HookRec(t) ==
    \A i \in Instances : t.hook[i].rec # 0 => Active(t, t.hook[i].rec) /\ t.rec[t.hook[i].rec].inst = i
RecHook(t) ==
    \A r \in Recs : Active(t, r) => t.hook[t.rec[r].inst].rec = r
HookAsk(t) ==
    \A i \in Instances : t.hook[i].arm # 0 =>
          t.rec[t.hook[i].arm].ask = "asked" /\ t.rec[t.hook[i].arm].inst = i
AskHook(t) ==
    \A r \in Recs : t.rec[r].ask = "asked" => t.rec[r].inst = t.mount /\ t.hook[t.mount].arm = r
MicShown(t) ==
    \A r \in Recs : t.rec[r].mic => t.hook[t.rec[r].inst].phase # "idle"
HooksOf(t) == HookRec(t) /\ RecHook(t) /\ HookAsk(t) /\ AskHook(t) /\ MicShown(t)

StreamLeft(t) ==
    \A i \in Instances : t.hook[i].stream # 0 /\ i # t.mount =>
          t.hook[i].rec # 0 /\ t.rec[t.hook[i].rec].st = "stopping" /\ ~t.rec[t.hook[i].rec].discard
StreamEnds(t) ==
    \A i \in Instances : t.hook[i].stream # 0 /\ t.leg[t.hook[i].stream].finishing =>
          t.hook[i].rec # 0 /\ t.rec[t.hook[i].rec].st = "stopping" /\ ~t.rec[t.hook[i].rec].discard
StreamAlone(t) ==
    \A r \in Recs : \A i \in Instances :
          (Active(t, r) \/ t.rec[r].ask = "asked") /\ i # t.rec[r].inst => t.hook[i].stream = 0
StreamClosed(t) ==
    t.closing # 0 => \A i \in Instances : t.hook[i].stream = 0
StreamsOf(t) == StreamLeft(t) /\ StreamEnds(t) /\ StreamAlone(t) /\ StreamClosed(t)

CallLeg(t) ==
    /\ t.call.st = "leg" => t.call.on = t.closing /\ t.closing # 0
    /\ t.call.st \in {"leg", "up"} /\ ~t.call.early => \A r \in Recs : ~t.rec[r].mic
    /\ t.call.st = "up" /\ ~t.call.early => t.closing = 0
    /\ t.call.st # "no" => \A r \in Recs : t.rec[r].ask # "asked"

\* Whoever is asked to let go is one composer, and the recording that ends is its own.
FreeOf(t) ==
    \A i \in Instances : t.hook[i].free =>
       /\ t.call.st = "ear" /\ \A j \in Instances \ {i} : ~t.hook[j].free
       /\ \A r \in Recs : Active(t, r) => t.rec[r].inst = i
CallOf(t) == CallLeg(t) /\ FreeOf(t)

EarCore(t) == RecsKnown(t) /\ LegsKnown(t) /\ OwnersOf(t) /\ HooksOf(t) /\ StreamsOf(t)
EarInv(t) == EarCore(t) /\ CallOf(t)

CalmHooks(t, s) == \A i \in Instances :
    /\ s.hook[i].arm = t.hook[i].arm /\ s.hook[i].rec = t.hook[i].rec
    /\ s.hook[i].stream \in {t.hook[i].stream, 0} /\ s.hook[i].free = t.hook[i].free
    /\ t.hook[i].phase # "idle" => s.hook[i].phase # "idle"
CalmRecs(t, s) == \A r \in Recs :
    /\ s.rec[r].inst = t.rec[r].inst /\ s.rec[r].ask = t.rec[r].ask
    /\ \/ s.rec[r].st = t.rec[r].st
       \/ s.rec[r].st \in {"live", "settling"} /\ t.rec[r].st \in {"live", "settling"}
    /\ s.rec[r].mic = t.rec[r].mic /\ s.rec[r].discard = t.rec[r].discard
    /\ s.rec[r].detector = "arming" => t.rec[r].detector = "arming"
CalmClips(t, s) == \A r \in Recs :
    /\ Posting(s, r) <=> Posting(t, r)
    /\ s.clip[r].st # "none" => t.clip[r].st # "none"
CalmLeg(x, y) ==
    /\ y.inst = x.inst
    /\ y.st # "none" => x.st # "none" \/ x.inst \in Instances
    /\ y.fin \in Holding <=> x.fin \in Holding
    /\ y.fin # "no" => x.fin # "no" /\ y.clip = x.clip
    /\ y.finishing => x.finishing
CalmLegs(t, s) == \A l \in Recs : CalmLeg(t.leg[l], s.leg[l])
Calm(t, s) ==
    /\ s.owners = t.owners /\ s.closing = t.closing /\ s.mount = t.mount /\ s.live \in {t.live, 0}
    /\ CalmHooks(t, s) /\ CalmRecs(t, s) /\ CalmClips(t, s) /\ CalmLegs(t, s)
-----------------------------------------------------------------------------
LEMMA PartsTyped ==
  ASSUME NEW t, Typed(t)
  PROVE  /\ \A r \in Recs : t.rec[r] \in RecSet /\ t.leg[r] \in LegSet /\ t.clip[r] \in ClipSet
         /\ \A i \in Instances : t.hook[i] \in HookSet
  BY DEF Typed

LEMMA ValuesTyped ==
  /\ \A x \in HookSet : {x.arm, x.rec, x.stream, x.leg} \subseteq Ids
  /\ \A x \in RecSet : x.inst \in 0 .. 2 /\ x.slot \in Slots
  /\ \A x \in LegSet : x.inst \in 0 .. 2 /\ x.slot \in Slots /\ x.clip \in Ids /\ x.held \subseteq PhraseSet
  BY DEF HookSet, RecSet, LegSet

LEMMA AppendTyped ==
  ASSUME NEW t, Typed(t), NEW k \in Slots, NEW ps \in SUBSET PhraseSet
  PROVE  Typed(AppendDraft(t, ps, k)) /\ Follow(t, k) \in Slots
<1>1. Follow(t, k) \in Slots
  BY DEF Follow, Typed
<1>. DEFINE f == Follow(t, k)
<1>2. Typed([t EXCEPT !.draft[f] = @ \cup ps])
  <2>. HIDE DEF f
  <2>. QED BY <1>1 DEF Typed, Fields, f
<1>. QED BY <1>1, <1>2 DEF AppendDraft

LEMMA MoveTyped ==
  ASSUME NEW t, Typed(t), NEW a \in Slots, NEW b \in Slots
  PROVE  Typed(MoveSlots(t, a, b))
<1>1. Follow(t, b) \in Slots
  BY DEF Follow, Typed
<1>. DEFINE f == Follow(t, b)
            s == [t EXCEPT !.moved[a] = f, !.draft[a] = {}, !.draft[f] = @ \cup t.draft[a]]
<1>2. Typed(s)
  <2>. HIDE DEF f
  <2>1. s.moved \in [Slots -> Slots] /\ s.draft \in [Slots -> SUBSET PhraseSet]
    BY <1>1 DEF Typed, Fields, f
  <2>. QED BY <2>1 DEF Typed, Fields
<1>. QED BY <1>2 DEF MoveSlots

LEMMA SendTyped ==
  ASSUME NEW t, Typed(t), NEW r \in Recs, NEW k \in Slots
  PROVE  Typed(AutoSend(t, r, k))
<1>. DEFINE v == t.draft[t.slot] \X {t.slot} \X {r}
            s == [t EXCEPT !.sent = @ \cup v, !.draft[t.slot] = {}]
<1>1. v \subseteq PhraseSet \X Slots \X Ids
  BY DEF Typed, Ids
<1>2. Typed(s)
  <2>. HIDE DEF v
  <2>. QED BY <1>1 DEF Typed, Fields
<1>. QED BY <1>2 DEF AutoSend

LEMMA LegPut ==
  ASSUME NEW t, Typed(t), NEW l \in Recs, NEW y \in LegSet
  PROVE  LET s == [t EXCEPT !.leg[l] = y] IN
         /\ Typed(s) /\ s.leg[l] = y /\ \A m \in Recs \ {l} : s.leg[m] = t.leg[m]
         /\ s.hook = t.hook /\ s.rec = t.rec /\ s.clip = t.clip /\ s.owners = t.owners
         /\ s.closing = t.closing /\ s.call = t.call /\ s.mount = t.mount /\ s.live = t.live
         /\ s.draft = t.draft /\ s.moved = t.moved
  BY DEF Typed, Fields

LEMMA PhraseTyped ==
  ASSUME NEW t, Typed(t), NEW l \in Recs, NEW ps \in SUBSET PhraseSet
  PROVE  Typed(AppendPhrase(t, l, ps))
<1>. DEFINE all == t.leg[l].held \cup ps
            a == AppendDraft(t, all, t.leg[l].slot)
            y == [a.leg[l] EXCEPT !.held = {}, !.finals = a.leg[l].finals \/ all # {}]
<1>1. all \subseteq PhraseSet /\ t.leg[l].slot \in Slots
  BY PartsTyped, ValuesTyped
<1>2. Typed(a)
  BY <1>1, AppendTyped
<1>3. a.leg[l] \in LegSet
  BY <1>2, PartsTyped
<1>4. y \in LegSet
  <2>. HIDE DEF a, all
  <2>. QED BY <1>3 DEF LegSet
<1>5. Typed([a EXCEPT !.leg[l] = y])
  BY <1>2, <1>4, LegPut
<1>. QED BY <1>5 DEF AppendPhrase
-----------------------------------------------------------------------------
LEMMA CallKept ==
  ASSUME NEW t, NEW s, s.call = t.call, s.closing = t.closing,
         \A q \in Recs : /\ s.rec[q].inst = t.rec[q].inst /\ (Active(s, q) => Active(t, q))
                         /\ s.rec[q].mic => t.rec[q].mic
                         /\ s.rec[q].ask = "asked" => t.rec[q].ask = "asked",
         \A j \in Instances : s.hook[j].free = t.hook[j].free
  PROVE  (CallOf(t) => CallOf(s)) /\ (FreeOf(t) => FreeOf(s))
<1>1. CallLeg(t) => CallLeg(s)
  BY DEF CallLeg
<1>2. FreeOf(t) => FreeOf(s)
  BY DEF FreeOf
<1>. QED BY <1>1, <1>2 DEF CallOf

LEMMA CalmKeeps ==
  ASSUME NEW t, NEW s, Typed(t), Typed(s), EarCore(t), Calm(t, s)
  PROVE  EarCore(s) /\ (s.call = t.call => (CallOf(t) => CallOf(s)) /\ (FreeOf(t) => FreeOf(s)))
<1>i. \A i \in Instances : {t.hook[i].arm, t.hook[i].rec, t.hook[i].stream} \subseteq Ids
  BY PartsTyped, ValuesTyped
<1>r. \A r \in Recs : /\ t.rec[r].inst \in 0 .. 2
                      /\ Active(s, r) <=> Active(t, r)
  BY PartsTyped, ValuesTyped DEF Active, Calm, CalmRecs
<1>1. RecsKnown(s)
  BY <1>r DEF EarCore, RecsKnown, Calm, CalmRecs, CalmClips
<1>2. LegsKnown(s)
  <2>1. \A l \in Recs : s.leg[l].st # "none" => s.leg[l].inst \in Instances
    BY DEF EarCore, LegsKnown, LegInst, Calm, CalmLegs, CalmLeg
  <2>2. \A l \in Recs : s.leg[l].fin # "no" =>
          s.leg[l].clip \in Recs /\ s.rec[s.leg[l].clip].st = "over" /\ s.leg[l].inst \in Instances
    BY DEF EarCore, LegsKnown, LegClip, Calm, CalmLegs, CalmLeg, CalmRecs
  <2>3. \A i \in Instances : s.hook[i].stream # 0 => s.leg[s.hook[i].stream].inst = i
    BY <1>i DEF EarCore, LegsKnown, StreamInst, Calm, CalmLegs, CalmLeg, CalmHooks, Ids
  <2>4. s.live # 0 => s.leg[s.live].inst \in Instances
    <3>1. t.live \in Ids
      BY DEF Typed
    <3>. QED BY <3>1 DEF EarCore, LegsKnown, LiveInst, Calm, CalmLegs, CalmLeg, Ids
  <2>. QED BY <2>1, <2>2, <2>3, <2>4 DEF LegsKnown, LegInst, LegClip, StreamInst, LiveInst
<1>3. OwnersOf(s)
  BY <1>r DEF EarCore, OwnersOf, Calm, CalmRecs, CalmClips, CalmLegs, CalmLeg
<1>4. HooksOf(s)
  <2>1. \A r \in Recs : s.rec[r].ask = "asked" => s.rec[r].inst = s.mount /\ s.hook[s.mount].arm = r
    BY DEF EarCore, HooksOf, AskHook, RecsKnown, Calm, CalmHooks, CalmRecs
  <2>2. \A i \in Instances : s.hook[i].rec # 0 => Active(s, s.hook[i].rec) /\ s.rec[s.hook[i].rec].inst = i
    BY <1>i, <1>r DEF EarCore, HooksOf, HookRec, Calm, CalmHooks, CalmRecs, Ids
  <2>3. ASSUME NEW i \in Instances, s.hook[i].arm # 0
        PROVE  s.rec[s.hook[i].arm].ask = "asked" /\ s.rec[s.hook[i].arm].inst = i
    <3>. DEFINE a == t.hook[i].arm
    <3>1. s.hook[i].arm = a /\ a # 0
      BY <2>3 DEF Calm, CalmHooks
    <3>2. a \in Recs
      BY <3>1, <1>i DEF Ids
    <3>3. t.rec[a].ask = "asked" /\ t.rec[a].inst = i
      BY <3>1 DEF EarCore, HooksOf, HookAsk
    <3>. QED BY <3>1, <3>2, <3>3 DEF Calm, CalmRecs
  <2>4. \A r \in Recs : Active(t, r) => t.rec[r].inst \in Instances
    BY DEF EarCore, RecsKnown, Active
  <2>5. \A r \in Recs : Active(s, r) => s.hook[s.rec[r].inst].rec = r
    BY <1>r, <2>4 DEF EarCore, HooksOf, RecHook, Calm, CalmHooks, CalmRecs
  <2>6. \A r \in Recs : s.rec[r].mic => s.hook[s.rec[r].inst].phase # "idle"
    BY <1>r, <2>4 DEF EarCore, HooksOf, MicShown, RecsKnown, Calm, CalmHooks, CalmRecs
  <2>. QED BY <2>1, <2>2, <2>3, <2>5, <2>6 DEF HooksOf, HookRec, RecHook, HookAsk, AskHook, MicShown
<1>5. StreamsOf(s)
  <2>1. \A i \in Instances : s.hook[i].stream # 0 =>
           s.hook[i].stream = t.hook[i].stream /\ s.hook[i].stream \in Recs /\ s.hook[i].rec = t.hook[i].rec
           /\ t.hook[i].rec \in Ids
    BY <1>i DEF Calm, CalmHooks, Ids
  <2>4. ASSUME NEW i \in Instances, s.hook[i].stream # 0,
               t.hook[i].rec # 0, t.rec[t.hook[i].rec].st = "stopping", ~t.rec[t.hook[i].rec].discard
        PROVE  s.hook[i].rec # 0 /\ s.rec[s.hook[i].rec].st = "stopping" /\ ~s.rec[s.hook[i].rec].discard
    <3>1. t.hook[i].rec \in Recs
      BY <2>4, <2>1 DEF Ids
    <3>2. /\ s.rec[t.hook[i].rec].discard = t.rec[t.hook[i].rec].discard
          /\ \/ s.rec[t.hook[i].rec].st = t.rec[t.hook[i].rec].st
             \/ t.rec[t.hook[i].rec].st \in {"live", "settling"}
      BY <3>1 DEF Calm, CalmRecs
    <3>3. s.rec[t.hook[i].rec].st = "stopping"
      BY <3>2, <2>4
    <3>. QED BY <2>4, <2>1, <3>2, <3>3
  <2>2. \A i \in Instances : s.hook[i].stream # 0 /\ i # s.mount =>
          s.hook[i].rec # 0 /\ s.rec[s.hook[i].rec].st = "stopping" /\ ~s.rec[s.hook[i].rec].discard
    BY <2>1, <2>4 DEF EarCore, StreamsOf, StreamLeft, Calm
  <2>3. \A i \in Instances : s.hook[i].stream # 0 /\ s.leg[s.hook[i].stream].finishing =>
          s.hook[i].rec # 0 /\ s.rec[s.hook[i].rec].st = "stopping" /\ ~s.rec[s.hook[i].rec].discard
    BY <2>1, <2>4 DEF EarCore, StreamsOf, StreamEnds, Calm, CalmLegs, CalmLeg
  <2>. QED BY <2>1, <2>2, <2>3, <1>r DEF EarCore, StreamsOf, StreamLeft, StreamEnds, StreamAlone, StreamClosed, Calm, CalmHooks, CalmRecs
<1>6. s.call = t.call => (CallOf(t) => CallOf(s)) /\ (FreeOf(t) => FreeOf(s))
  BY <1>r, CallKept DEF Calm, CalmRecs, CalmHooks
<1>. QED BY <1>1, <1>2, <1>3, <1>4, <1>5, <1>6 DEF EarCore
-----------------------------------------------------------------------------
\* Nothing the ear depends on differs.
SameButDrafts(t, s) ==
    /\ s.hook = t.hook /\ s.rec = t.rec /\ s.leg = t.leg /\ s.clip = t.clip /\ s.owners = t.owners
    /\ s.closing = t.closing /\ s.call = t.call /\ s.mount = t.mount /\ s.live = t.live
SameButLeg(t, s, l) ==
    /\ s.hook = t.hook /\ s.rec = t.rec /\ s.clip = t.clip /\ s.owners = t.owners
    /\ s.closing = t.closing /\ s.call = t.call /\ s.mount = t.mount /\ s.live \in {t.live, 0}
    /\ \A m \in Recs \ {l} : s.leg[m] = t.leg[m]

LEMMA CalmSame ==
  ASSUME NEW t, NEW s, SameButDrafts(t, s)
  PROVE  Calm(t, s)
  BY DEF SameButDrafts, Calm, CalmHooks, CalmRecs, CalmClips, CalmLegs, CalmLeg, Posting

LEMMA CalmButLeg ==
  ASSUME NEW t, NEW s, NEW l \in Recs, SameButLeg(t, s, l), CalmLeg(t.leg[l], s.leg[l])
  PROVE  Calm(t, s)
<1>1. CalmLegs(t, s)
  <2>1. \A m \in Recs \ {l} : CalmLeg(t.leg[m], s.leg[m])
    BY DEF SameButLeg, CalmLeg
  <2>. QED BY <2>1 DEF CalmLegs
<1>. QED BY <1>1 DEF SameButLeg, Calm, CalmHooks, CalmRecs, CalmClips, Posting

LEMMA CalmTwice ==
  ASSUME NEW t, NEW u, NEW s, Calm(t, u), Calm(u, s)
  PROVE  Calm(t, s)
<1>1. CalmHooks(t, s) /\ CalmRecs(t, s) /\ CalmClips(t, s)
  BY DEF Calm, CalmHooks, CalmRecs, CalmClips
<1>2. \A l \in Recs : CalmLeg(t.leg[l], s.leg[l])
  BY DEF Calm, CalmLegs, CalmLeg
<1>. QED BY <1>1, <1>2 DEF Calm, CalmLegs

LEMMA DraftsSame ==
  ASSUME NEW t, Typed(t), NEW k, NEW ps, NEW a, NEW b, NEW r
  PROVE  /\ SameButDrafts(t, AppendDraft(t, ps, k))
         /\ SameButDrafts(t, MoveSlots(t, a, b))
         /\ SameButDrafts(t, AutoSend(t, r, k))
  BY DEF Typed, Fields, SameButDrafts, AppendDraft, MoveSlots, AutoSend

LEMMA PhraseCalm ==
  ASSUME NEW t, Typed(t), NEW l \in Recs, NEW ps \in SUBSET PhraseSet
  PROVE  LET s == AppendPhrase(t, l, ps) IN
         /\ Typed(s) /\ SameButLeg(t, s, l) /\ Calm(t, s)
         /\ s.leg[l].inst = t.leg[l].inst /\ s.leg[l].st = t.leg[l].st /\ s.leg[l].fin = t.leg[l].fin
         /\ s.leg[l].clip = t.leg[l].clip /\ s.leg[l].finishing = t.leg[l].finishing
         /\ s.leg[l].slot = t.leg[l].slot /\ s.leg[l].held = {}
<1>. DEFINE all == t.leg[l].held \cup ps
            a == AppendDraft(t, all, t.leg[l].slot)
            v == a.leg[l].finals \/ all # {}
            y == [a.leg[l] EXCEPT !.held = {}, !.finals = v]
            s == AppendPhrase(t, l, ps)
<1>1. Typed(s)
  BY PhraseTyped
<1>2. all \subseteq PhraseSet /\ t.leg[l].slot \in Slots
  BY PartsTyped, ValuesTyped
<1>3. Typed(a) /\ SameButDrafts(t, a)
  BY <1>2, AppendTyped, DraftsSame
<1>4. s.leg = [a.leg EXCEPT ![l] = y] /\ SameButLeg(t, s, l)
  <2>1. s = [a EXCEPT !.leg[l] = y]
    BY <1>3 DEF AppendPhrase, Typed, Fields
  <2>. HIDE DEF y, s
  <2>. QED BY <1>3, <2>1 DEF Typed, Fields, SameButDrafts, SameButLeg
<1>5. a.leg[l] \in LegSet /\ a.leg[l] = t.leg[l] /\ s.leg[l] = y
  BY <1>3, <1>4, PartsTyped DEF SameButDrafts, Typed
<1>. HIDE DEF a, s, all, v
<1>6. /\ y.inst = t.leg[l].inst /\ y.st = t.leg[l].st /\ y.fin = t.leg[l].fin
      /\ y.clip = t.leg[l].clip /\ y.finishing = t.leg[l].finishing
      /\ y.slot = t.leg[l].slot /\ y.held = {}
  BY <1>5 DEF LegSet
<1>7. CalmLeg(t.leg[l], s.leg[l])
  BY <1>5, <1>6 DEF CalmLeg
<1>. QED BY <1>1, <1>4, <1>5, <1>6, <1>7, CalmButLeg DEF s

LEMMA NoLegTyped == NoLeg \in LegSet
  BY DEF NoLeg, LegSet, Slots, Ids, Reasons

LEMMA EndedCalm ==
  ASSUME NEW t, Typed(t), NEW l \in Recs, t.leg[l].inst \in Instances
  PROVE  LET s == Ended(t, l) IN
         /\ Typed(s) /\ SameButLeg(t, s, l) /\ Calm(t, s)
         /\ s.leg[l].inst = t.leg[l].inst /\ s.leg[l].fin = t.leg[l].fin
         /\ s.leg[l].finishing => t.leg[l].finishing
<1>. DEFINE i == t.leg[l].inst
            x == [t.leg[l] EXCEPT !.ended = TRUE]
            z == [NoLeg EXCEPT !.inst = i, !.st = "closed", !.dead = TRUE, !.ended = TRUE]
            y == IF t.leg[l].fin # "no" THEN x ELSE z
            v == IF t.live = l THEN 0 ELSE t.live
            s == Ended(t, l)
<1>1. t.leg[l] \in LegSet /\ i \in 0 .. 2
  BY PartsTyped, ValuesTyped
<1>2. /\ x \in LegSet /\ x.inst = i /\ x.st = t.leg[l].st /\ x.fin = t.leg[l].fin
      /\ x.clip = t.leg[l].clip /\ x.finishing = t.leg[l].finishing
  BY <1>1 DEF LegSet
<1>3. z \in LegSet /\ z.inst = i /\ z.fin = "no" /\ ~z.finishing
  <2>1. NoLeg.fin = "no" /\ ~NoLeg.finishing
    BY DEF NoLeg
  <2>. HIDE DEF NoLeg
  <2>. QED BY <1>1, <2>1, NoLegTyped DEF LegSet
<1>4. s = [t EXCEPT !.leg[l] = y, !.live = v]
  BY DEF Ended, Typed, Fields
<1>. HIDE DEF x, z
<1>5. y \in LegSet /\ CalmLeg(t.leg[l], y)
  BY <1>1, <1>2, <1>3 DEF CalmLeg, Holding
<1>6. y.inst = i /\ y.fin = t.leg[l].fin /\ (y.finishing => t.leg[l].finishing)
  BY <1>2, <1>3
<1>7. v \in {t.live, 0}
  OBVIOUS
<1>. HIDE DEF y, s, v
<1>8. Typed(s) /\ SameButLeg(t, s, l) /\ s.leg[l] = y
  BY <1>4, <1>5, <1>7 DEF Typed, Fields, SameButLeg, Ids
<1>. QED BY <1>5, <1>6, <1>8, CalmButLeg DEF s

LEMMA CloseCalm ==
  ASSUME NEW t, Typed(t), NEW l \in Recs, t.leg[l].inst \in Instances
  PROVE  LET s == CloseStream(t, l) IN
         /\ Typed(s) /\ SameButLeg(t, s, l) /\ Calm(t, s)
         /\ s.leg[l].inst = t.leg[l].inst
<1>. DEFINE a == AppendPhrase(t, l, {})
            f == IF a.leg[l].fin = "tail" THEN "end" ELSE a.leg[l].fin
            y == [a.leg[l] EXCEPT !.st = "closed", !.dead = TRUE, !.uplink = "none", !.fin = f]
            u == [a EXCEPT !.leg[l] = y]
            s == Ended(u, l)
<1>1. Typed(a) /\ SameButLeg(t, a, l) /\ Calm(t, a) /\ a.leg[l].inst = t.leg[l].inst
  BY PhraseCalm
<1>2. a.leg[l] \in LegSet
  BY <1>1, PartsTyped
<1>. HIDE DEF a
<1>3. f \in {"no", "drain", "tail", "end", "upload"} /\ (f \in Holding <=> a.leg[l].fin \in Holding)
      /\ (f = "no" <=> a.leg[l].fin = "no")
  BY <1>2 DEF LegSet, Holding
<1>. HIDE DEF f
<1>4. /\ y \in LegSet /\ y.inst = a.leg[l].inst /\ y.fin = f /\ y.clip = a.leg[l].clip
      /\ y.finishing = a.leg[l].finishing
  BY <1>2, <1>3 DEF LegSet
<1>. HIDE DEF y
<1>5. Typed(u) /\ SameButLeg(a, u, l) /\ u.leg[l] = y
  BY <1>1, <1>4, LegPut DEF SameButLeg
<1>6. Calm(a, u)
  BY <1>1, <1>3, <1>4, <1>5, CalmButLeg DEF CalmLeg
<1>. HIDE DEF u
<1>7. Typed(s) /\ SameButLeg(u, s, l) /\ Calm(u, s) /\ s.leg[l].inst = t.leg[l].inst
  BY <1>1, <1>4, <1>5, EndedCalm
<1>8. Calm(t, s)
  BY <1>1, <1>6, <1>7, CalmTwice
<1>9. SameButLeg(t, s, l)
  BY <1>1, <1>5, <1>7 DEF SameButLeg
<1>10. t.leg[l].st # "closed" => CloseStream(t, l) = s
  BY DEF CloseStream, a, u, y, f
<1>11. t.leg[l].st = "closed" => CloseStream(t, l) = t
  BY DEF CloseStream
<1>12. Calm(t, t) /\ SameButLeg(t, t, l)
  BY CalmSame DEF SameButDrafts, SameButLeg
<1>. QED BY <1>7, <1>8, <1>9, <1>10, <1>11, <1>12

LEMMA DropCalm ==
  ASSUME NEW t, Typed(t), NEW l \in Recs, t.leg[l].inst \in Instances
  PROVE  LET s == DropStream(t, l)
             i == t.leg[l].inst
         IN
         /\ Typed(s) /\ Calm(t, s) /\ s.call = t.call /\ s.rec = t.rec /\ s.clip = t.clip
         /\ (t.hook[i].stream = l => s.hook[i].stream = 0)
         /\ \A j \in Instances : s.hook[j].free = t.hook[j].free /\ s.hook[j].phase = t.hook[j].phase
<1>. DEFINE i == t.leg[l].inst
            c == CloseStream(t, l)
            v == IF c.hook[i].stream = l THEN 0 ELSE c.hook[i].stream
            y == [c.hook[i] EXCEPT !.stream = v]
            s == [c EXCEPT !.hook[i] = y]
<1>1. Typed(c) /\ SameButLeg(t, c, l) /\ Calm(t, c)
  BY CloseCalm
<1>2. c.hook[i] \in HookSet
  BY <1>1, PartsTyped
<1>3. v \in Ids
  BY <1>2, ValuesTyped DEF Ids
<1>4. DropStream(t, l) = s
  <2>. HIDE DEF c
  <2>. QED BY <1>1, <1>2 DEF DropStream, Typed, Fields, HookSet, c
<1>. HIDE DEF c, v
<1>5. /\ y \in HookSet /\ y.stream = v /\ y.arm = c.hook[i].arm /\ y.rec = c.hook[i].rec
      /\ y.phase = c.hook[i].phase /\ y.free = c.hook[i].free
  BY <1>2, <1>3 DEF HookSet
<1>. HIDE DEF y
<1>6. /\ Typed(s) /\ s.hook[i] = y /\ \A j \in Instances \ {i} : s.hook[j] = c.hook[j]
      /\ s.rec = c.rec /\ s.clip = c.clip /\ s.owners = c.owners /\ s.closing = c.closing
      /\ s.mount = c.mount /\ s.call = c.call /\ s.leg = c.leg /\ s.live = c.live
  BY <1>1, <1>5 DEF Typed, Fields
<1>. HIDE DEF s
<1>7. Calm(c, s)
  <2>1. CalmHooks(c, s)
    BY <1>5, <1>6 DEF CalmHooks, v
  <2>. QED BY <1>6, <2>1 DEF Calm, CalmRecs, CalmClips, CalmLegs, CalmLeg, Posting
<1>8. Calm(t, s)
  BY <1>1, <1>7, CalmTwice
<1>9. t.hook[i].stream = l => s.hook[i].stream = 0
  BY <1>1, <1>5, <1>6 DEF v, SameButLeg
<1>. QED BY <1>1, <1>4, <1>5, <1>6, <1>8, <1>9 DEF SameButLeg

LEMMA TellSame ==
  ASSUME NEW t, Typed(t), NEW l \in Recs
  PROVE  Typed(TellIfHeard(t, l)) /\ SameButDrafts(t, TellIfHeard(t, l))
  BY DEF TellIfHeard, Typed, Fields, SameButDrafts

LEMMA ClipDoneCalm ==
  ASSUME NEW t, Typed(t), LegsKnown(t), NEW r \in Recs
  PROVE  LET s == ClipDone(t, r) IN Typed(s) /\ Calm(t, s) /\ s.call = t.call
<1>. DEFINE w == {l \in Recs : t.leg[l].fin = "upload" /\ t.leg[l].clip = r}
            l == CHOOSE x \in w : TRUE
            y == [t.leg[l] EXCEPT !.fin = "no"]
            u == [t EXCEPT !.leg[l] = y]
            s == Ended(u, l)
<1>1. CASE w = {}
  BY <1>1, CalmSame DEF ClipDone, SameButDrafts
<1>2. CASE w # {}
  <2>1. l \in Recs /\ t.leg[l].fin = "upload"
    BY <1>2
  <2>2. t.leg[l].inst \in Instances /\ t.leg[l] \in LegSet
    BY <2>1, PartsTyped DEF LegsKnown, LegClip
  <2>3. ClipDone(t, r) = s
    <3>1. u = [t EXCEPT !.leg[l].fin = "no"]
      OBVIOUS
    <3>. QED BY <1>2, <3>1 DEF ClipDone
  <2>. HIDE DEF l
  <2>4. y \in LegSet /\ y.inst = t.leg[l].inst /\ y.fin = "no" /\ y.st = t.leg[l].st
        /\ y.finishing = t.leg[l].finishing
    BY <2>2 DEF LegSet
  <2>. HIDE DEF y
  <2>5. Typed(u) /\ SameButLeg(t, u, l) /\ u.leg[l] = y
    BY <2>1, <2>4, LegPut DEF SameButLeg
  <2>6. Calm(t, u)
    BY <2>1, <2>4, <2>5, CalmButLeg DEF CalmLeg, Holding
  <2>. HIDE DEF u
  <2>7. Typed(s) /\ SameButLeg(u, s, l) /\ Calm(u, s)
    BY <2>1, <2>2, <2>4, <2>5, EndedCalm
  <2>. QED BY <2>3, <2>5, <2>6, <2>7, CalmTwice DEF SameButLeg
<1>. QED BY <1>1, <1>2

-----------------------------------------------------------------------------
LEMMA StopNowKeeps ==
  ASSUME NEW t, Typed(t), EarCore(t), NEW i \in Instances, NEW r \in Recs,
         t.hook[i].rec = r, Recording(t, r)
  PROVE  LET s == StopNow(t, i, r) IN
         /\ Typed(s) /\ EarCore(s) /\ (CallOf(t) => CallOf(s)) /\ (FreeOf(t) => FreeOf(s))
         /\ s.hook = t.hook /\ s.call = t.call /\ s.mount = t.mount /\ s.live = t.live /\ s.closing = t.closing
         /\ \A q \in Recs : /\ s.rec[q].ask = t.rec[q].ask /\ s.rec[q].inst = t.rec[q].inst
                            /\ s.rec[q].mic = t.rec[q].mic
         /\ \A l \in Recs : s.leg[l].inst = t.leg[l].inst
<1>. DEFINE l == t.hook[i].stream
            x == [t.rec[r] EXCEPT !.st = "stopping"]
            y == [t.leg[l] EXCEPT !.finishing = TRUE]
            s == StopNow(t, i, r)
<1>1. /\ l \in Ids /\ t.rec[r] \in RecSet
      /\ \A j \in Instances : {t.hook[j].arm, t.hook[j].rec, t.hook[j].stream} \subseteq Ids
      /\ \A q \in Recs : t.rec[q].inst \in 0 .. 2
  BY PartsTyped, ValuesTyped
<1>2. /\ x \in RecSet /\ x.inst = t.rec[r].inst /\ x.ask = t.rec[r].ask /\ x.mic = t.rec[r].mic
      /\ x.st = "stopping" /\ x.discard = t.rec[r].discard /\ x.detector = t.rec[r].detector
  BY <1>1 DEF RecSet
<1>3. ASSUME l # 0
      PROVE  /\ l \in Recs /\ y \in LegSet /\ y.inst = t.leg[l].inst /\ y.st = t.leg[l].st
             /\ y.fin = t.leg[l].fin /\ y.clip = t.leg[l].clip
  <2>1. l \in Recs
    BY <1>1, <1>3 DEF Ids
  <2>2. t.leg[l] \in LegSet
    BY <2>1, PartsTyped
  <2>. HIDE DEF l
  <2>. QED BY <2>1, <2>2 DEF LegSet
<1>4. /\ Typed(s) /\ s.rec = [t.rec EXCEPT ![r] = x] /\ s.hook = t.hook /\ s.clip = t.clip
      /\ s.owners = t.owners /\ s.closing = t.closing /\ s.call = t.call /\ s.mount = t.mount
      /\ s.live = t.live
      /\ s.leg = IF l = 0 THEN t.leg ELSE [t.leg EXCEPT ![l] = y]
  <2>. HIDE DEF x
  <2>1. CASE l = 0
    <3>1. s = [t EXCEPT !.rec[r] = x]
      BY <2>1 DEF StopNow, x
    <3>. HIDE DEF l, s
    <3>. QED BY <1>2, <2>1, <3>1 DEF Typed, Fields
  <2>2. CASE l # 0
    <3>1. s = [t EXCEPT !.rec[r] = x, !.leg[l] = y]
      BY <2>2 DEF StopNow, x, Typed, Fields
    <3>. HIDE DEF l, s, y
    <3>. QED BY <1>2, <1>3, <2>2, <3>1 DEF Typed, Fields
  <2>. QED BY <2>1, <2>2
<1>. HIDE DEF s, y
<1>5. /\ s.rec[r] = x /\ \A q \in Recs \ {r} : s.rec[q] = t.rec[q]
  BY <1>4 DEF Typed
<1>6. /\ \A m \in Recs \ {l} : s.leg[m] = t.leg[m]
      /\ l # 0 => s.leg[l] = y
  BY <1>3, <1>4 DEF Typed
<1>7. \A m \in Recs : /\ s.leg[m].inst = t.leg[m].inst /\ s.leg[m].st = t.leg[m].st
                      /\ s.leg[m].fin = t.leg[m].fin /\ s.leg[m].clip = t.leg[m].clip
                      /\ m # l => s.leg[m].finishing = t.leg[m].finishing
  <2>. TAKE m \in Recs
  <2>. HIDE DEF l
  <2>1. CASE l # 0 /\ m = l
    BY <2>1, <1>3, <1>6
  <2>2. CASE m # l
    BY <2>2, <1>6
  <2>3. CASE l = 0
    BY <2>3, <1>6, <1>4
  <2>. QED BY <2>1, <2>2, <2>3
<1>8. \A q \in Recs : /\ s.rec[q].inst = t.rec[q].inst /\ s.rec[q].ask = t.rec[q].ask
                      /\ s.rec[q].mic = t.rec[q].mic /\ s.rec[q].discard = t.rec[q].discard
                      /\ s.rec[q].detector = t.rec[q].detector
                      /\ q # r => s.rec[q].st = t.rec[q].st
  BY <1>2, <1>5
<1>9. s.rec[r].st = "stopping" /\ t.rec[r].st \in {"live", "settling"} /\ ~t.rec[r].discard
  BY <1>2, <1>5 DEF Recording, EarCore, RecsKnown, Active
<1>. HIDE DEF x
<1>10. \A q \in Recs : Active(s, q) <=> Active(t, q)
  BY <1>8, <1>9 DEF Active
<1>11. RecsKnown(s)
  BY <1>4, <1>8, <1>9, <1>10 DEF EarCore, RecsKnown
<1>12. LegsKnown(s)
  <2>1. \A m \in Recs : s.leg[m].fin # "no" =>
          s.leg[m].clip \in Recs /\ s.rec[s.leg[m].clip].st = "over" /\ s.leg[m].inst \in Instances
    BY <1>7, <1>8, <1>9 DEF EarCore, LegsKnown, LegClip
  <2>2. t.live \in Ids
    BY DEF Typed
  <2>3. LegInst(s)
    BY <1>7 DEF EarCore, LegsKnown, LegInst
  <2>4. StreamInst(s)
    BY <1>1, <1>4, <1>7 DEF EarCore, LegsKnown, StreamInst, Ids
  <2>5. LiveInst(s)
    BY <1>4, <1>7, <2>2 DEF EarCore, LegsKnown, LiveInst, Ids
  <2>. QED BY <2>1, <2>3, <2>4, <2>5 DEF LegsKnown, LegClip
<1>13. OwnersOf(s)
  BY <1>4, <1>7, <1>8, <1>10 DEF EarCore, OwnersOf, Posting
<1>14. HooksOf(s)
  <2>1. HookRec(s)
    BY <1>1, <1>4, <1>8, <1>10 DEF EarCore, HooksOf, HookRec, Ids
  <2>2. RecHook(s)
    BY <1>1, <1>4, <1>8, <1>10 DEF EarCore, HooksOf, RecHook, Ids
  <2>3. HookAsk(s)
    BY <1>1, <1>4, <1>8, <1>10 DEF EarCore, HooksOf, HookAsk, Ids
  <2>4. AskHook(s)
    BY <1>1, <1>4, <1>8, <1>10 DEF EarCore, HooksOf, AskHook, Ids
  <2>5. MicShown(s)
    BY <1>1, <1>4, <1>8, <1>10 DEF EarCore, HooksOf, MicShown, Ids
  <2>. QED BY <2>1, <2>2, <2>3, <2>4, <2>5 DEF HooksOf
<1>15. StreamsOf(s)
  <2>1. \A j \in Instances : t.hook[j].stream = l /\ l # 0 => j = i
    BY <1>1 DEF EarCore, LegsKnown, StreamInst
  <2>2. ASSUME NEW j \in Instances, t.hook[j].stream # 0, t.hook[j].rec # 0,
               t.rec[t.hook[j].rec].st = "stopping", ~t.rec[t.hook[j].rec].discard
        PROVE  s.rec[t.hook[j].rec].st = "stopping" /\ ~s.rec[t.hook[j].rec].discard
    BY <1>1, <1>8, <1>9, <2>2 DEF Ids
  <2>3. \A j \in Instances : s.hook[j].stream # 0 /\ j # s.mount =>
          s.hook[j].rec # 0 /\ s.rec[s.hook[j].rec].st = "stopping" /\ ~s.rec[s.hook[j].rec].discard
    BY <2>2, <1>4 DEF EarCore, StreamsOf, StreamLeft
  <2>4. s.rec[t.hook[i].rec].st = "stopping" /\ ~s.rec[t.hook[i].rec].discard
    BY <1>8, <1>9
  <2>5. ASSUME NEW j \in Instances, s.hook[j].stream # 0, s.leg[s.hook[j].stream].finishing
        PROVE  s.hook[j].rec # 0 /\ s.rec[s.hook[j].rec].st = "stopping" /\ ~s.rec[s.hook[j].rec].discard
    <3>1. CASE j = i
      BY <3>1, <2>4, <1>4, <1>1 DEF Recs
    <3>2. CASE j # i
      <4>1. t.hook[j].stream # l \/ l = 0
        BY <3>2, <2>1
      <4>2. t.hook[j].stream \in Recs
        BY <1>1, <1>4, <2>5 DEF Ids
      <4>3. t.leg[t.hook[j].stream].finishing
        BY <4>1, <4>2, <2>5, <1>4, <1>7
      <4>. QED BY <4>3, <2>2, <2>5, <1>4 DEF EarCore, StreamsOf, StreamEnds
    <3>. QED BY <3>1, <3>2
  <2>6. StreamAlone(s)
    BY <1>4, <1>8, <1>10 DEF EarCore, StreamsOf, StreamAlone
  <2>7. StreamClosed(s)
    BY <1>4 DEF EarCore, StreamsOf, StreamClosed
  <2>. QED BY <2>3, <2>5, <2>6, <2>7 DEF StreamsOf, StreamLeft, StreamEnds
<1>16. (CallOf(t) => CallOf(s)) /\ (FreeOf(t) => FreeOf(s))
  BY <1>4, <1>8, <1>10, CallKept
<1>. QED BY <1>4, <1>7, <1>8, <1>11, <1>12, <1>13, <1>14, <1>15, <1>16 DEF EarCore, s

LEMMA RecPut ==
  ASSUME NEW t, Typed(t), NEW r \in Recs, NEW x \in RecSet
  PROVE  LET s == [t EXCEPT !.rec[r] = x] IN
         /\ Typed(s) /\ s.rec[r] = x /\ \A q \in Recs \ {r} : s.rec[q] = t.rec[q]
         /\ s.hook = t.hook /\ s.leg = t.leg /\ s.clip = t.clip /\ s.owners = t.owners
         /\ s.closing = t.closing /\ s.call = t.call /\ s.mount = t.mount /\ s.live = t.live
  BY DEF Typed, Fields

CalmRec(x, y) ==
    /\ y.inst = x.inst /\ y.ask = x.ask /\ y.mic = x.mic /\ y.discard = x.discard
    /\ \/ y.st = x.st
       \/ y.st \in {"live", "settling"} /\ x.st \in {"live", "settling"}
    /\ y.detector = "arming" => x.detector = "arming"

LEMMA CalmButRec ==
  ASSUME NEW t, Typed(t), NEW r \in Recs, NEW x \in RecSet, CalmRec(t.rec[r], x)
  PROVE  Calm(t, [t EXCEPT !.rec[r] = x])
<1>. DEFINE s == [t EXCEPT !.rec[r] = x]
<1>1. /\ s.rec[r] = x /\ \A q \in Recs \ {r} : s.rec[q] = t.rec[q]
      /\ s.hook = t.hook /\ s.leg = t.leg /\ s.clip = t.clip /\ s.owners = t.owners
      /\ s.closing = t.closing /\ s.call = t.call /\ s.mount = t.mount /\ s.live = t.live
  BY DEF Typed, Fields
<1>. HIDE DEF s
<1>2. CalmRecs(t, s)
  <2>1. \A q \in Recs \ {r} : CalmRec(t.rec[q], s.rec[q])
    BY <1>1 DEF CalmRec
  <2>. QED BY <1>1, <2>1 DEF CalmRecs, CalmRec
<1>. QED BY <1>1, <1>2 DEF Calm, CalmHooks, CalmClips, CalmLegs, CalmLeg, Posting, s

\* The ask of a composer is abandoned.
AbortAsk(t, i) == [t EXCEPT !.rec[t.hook[i].arm].ask = "aborted", !.hook[i].arm = 0,
                            !.owners = @ \ {<<"rec", t.hook[i].arm>>}]

LEMMA AbortKeeps ==
  ASSUME NEW t, Typed(t), EarCore(t), NEW i \in Instances, t.hook[i].arm # 0
  PROVE  LET s == AbortAsk(t, i) IN
         /\ Typed(s) /\ EarCore(s) /\ (CallOf(t) => CallOf(s)) /\ (FreeOf(t) => FreeOf(s))
         /\ s.call = t.call /\ s.mount = t.mount /\ s.live = t.live /\ s.closing = t.closing /\ s.leg = t.leg
         /\ \A j \in Instances : s.hook[j].stream = t.hook[j].stream /\ s.hook[j].rec = t.hook[j].rec
         /\ \A q \in Recs : s.rec[q].inst = t.rec[q].inst /\ s.rec[q].ask # "asked"
         /\ \A q \in Recs : s.rec[q].mic = t.rec[q].mic /\ s.rec[q].st = t.rec[q].st
<1>. DEFINE a == t.hook[i].arm
            x == [t.rec[a] EXCEPT !.ask = "aborted"]
            h == [t.hook[i] EXCEPT !.arm = 0]
            s == AbortAsk(t, i)
<1>1. /\ a \in Recs /\ t.hook[i] \in HookSet
      /\ \A j \in Instances : {t.hook[j].arm, t.hook[j].rec, t.hook[j].stream} \subseteq Ids
      /\ \A q \in Recs : t.rec[q].inst \in 0 .. 2
  BY PartsTyped, ValuesTyped DEF Ids
<1>2. t.rec[a].ask = "asked" /\ t.rec[a].inst = i /\ t.rec[a].st = "none" /\ i = t.mount
  BY <1>1 DEF EarCore, HooksOf, HookAsk, AskHook, RecsKnown
<1>3. \A q \in Recs : t.rec[q].ask = "asked" => q = a
  BY <1>2 DEF EarCore, HooksOf, AskHook
<1>4. t.rec[a] \in RecSet
  BY <1>1, PartsTyped
<1>. HIDE DEF a
<1>5. /\ x \in RecSet /\ x.inst = t.rec[a].inst /\ x.ask = "aborted" /\ x.mic = t.rec[a].mic
      /\ x.st = t.rec[a].st /\ x.discard = t.rec[a].discard /\ x.detector = t.rec[a].detector
  BY <1>4 DEF RecSet
<1>6. /\ h \in HookSet /\ h.arm = 0 /\ h.rec = t.hook[i].rec /\ h.stream = t.hook[i].stream
      /\ h.phase = t.hook[i].phase /\ h.free = t.hook[i].free
  BY <1>1 DEF HookSet, Ids
<1>7. s = [t EXCEPT !.rec[a] = x, !.hook[i] = h, !.owners = @ \ {<<"rec", a>>}]
  BY DEF AbortAsk, a
<1>. HIDE DEF x, h, s
<1>8. /\ Typed(s) /\ s.rec[a] = x /\ (\A q \in Recs \ {a} : s.rec[q] = t.rec[q])
      /\ s.hook[i] = h /\ (\A j \in Instances \ {i} : s.hook[j] = t.hook[j])
      /\ s.owners = t.owners \ {<<"rec", a>>} /\ s.leg = t.leg /\ s.clip = t.clip
      /\ s.closing = t.closing /\ s.call = t.call /\ s.mount = t.mount /\ s.live = t.live /\ s.closing = t.closing
  BY <1>1, <1>5, <1>6, <1>7 DEF Typed, Fields
<1>9. \A q \in Recs : /\ s.rec[q].inst = t.rec[q].inst /\ s.rec[q].st = t.rec[q].st
                      /\ s.rec[q].mic = t.rec[q].mic /\ s.rec[q].discard = t.rec[q].discard
                      /\ s.rec[q].detector = t.rec[q].detector
                      /\ s.rec[q].ask = IF q = a THEN "aborted" ELSE t.rec[q].ask
  BY <1>5, <1>8
<1>10. \A j \in Instances : /\ s.hook[j].rec = t.hook[j].rec /\ s.hook[j].stream = t.hook[j].stream
                            /\ s.hook[j].phase = t.hook[j].phase /\ s.hook[j].free = t.hook[j].free
                            /\ s.hook[j].arm = IF j = i THEN 0 ELSE t.hook[j].arm
  BY <1>6, <1>8
<1>11. \A q \in Recs : Active(s, q) <=> Active(t, q)
  BY <1>9 DEF Active
<1>12. RecsKnown(s)
  BY <1>2, <1>8, <1>9, <1>11 DEF EarCore, RecsKnown
<1>13. LegsKnown(s)
  BY <1>1, <1>8, <1>9, <1>10 DEF EarCore, LegsKnown, LegInst, LegClip, StreamInst, LiveInst
<1>14. OwnersOf(s)
  <2>1. ~Active(t, a)
    BY <1>2 DEF Active
  <2>2. \A q \in Recs : <<"rec", q>> \in s.owners <=> Active(s, q) \/ s.rec[q].ask = "asked"
    BY <1>3, <1>8, <1>9, <1>11, <2>1 DEF EarCore, OwnersOf
  <2>. QED BY <1>8, <2>2 DEF EarCore, OwnersOf, Posting
<1>15. HooksOf(s)
  <2>1. \A q \in Recs : s.rec[q].ask # "asked"
    BY <1>3, <1>9
  <2>2. \A j \in Instances : s.hook[j].arm = 0
    BY <1>1, <1>3, <1>10 DEF EarCore, HooksOf, HookAsk, Ids
  <2>3. \A q \in Recs : Active(t, q) => t.rec[q].inst \in Instances
    BY DEF Active, EarCore, RecsKnown
  <2>4. \A j \in Instances : s.hook[j].rec # 0 => Active(s, s.hook[j].rec) /\ s.rec[s.hook[j].rec].inst = j
    BY <1>1, <1>9, <1>10, <1>11 DEF EarCore, HooksOf, HookRec, Ids
  <2>5. \A q \in Recs : Active(s, q) => s.hook[s.rec[q].inst].rec = q
    BY <1>9, <1>10, <1>11, <2>3 DEF EarCore, HooksOf, RecHook
  <2>6. \A q \in Recs : s.rec[q].mic => s.hook[s.rec[q].inst].phase # "idle"
    BY <1>9, <1>10, <2>3 DEF EarCore, HooksOf, MicShown, RecsKnown
  <2>. QED BY <2>1, <2>2, <2>4, <2>5, <2>6 DEF HooksOf, HookRec, RecHook, HookAsk, AskHook, MicShown
<1>16. StreamsOf(s)
  <2>1. ASSUME NEW j \in Instances, t.hook[j].stream # 0, t.hook[j].rec # 0,
               t.rec[t.hook[j].rec].st = "stopping", ~t.rec[t.hook[j].rec].discard
        PROVE  s.rec[t.hook[j].rec].st = "stopping" /\ ~s.rec[t.hook[j].rec].discard
    BY <1>1, <1>9, <2>1 DEF Ids
  <2>2. \A j \in Instances : s.hook[j].stream # 0 /\ j # s.mount =>
          s.hook[j].rec # 0 /\ s.rec[s.hook[j].rec].st = "stopping" /\ ~s.rec[s.hook[j].rec].discard
    BY <2>1, <1>8, <1>10 DEF EarCore, StreamsOf, StreamLeft
  <2>3. \A j \in Instances : s.hook[j].stream # 0 /\ s.leg[s.hook[j].stream].finishing =>
          s.hook[j].rec # 0 /\ s.rec[s.hook[j].rec].st = "stopping" /\ ~s.rec[s.hook[j].rec].discard
    BY <2>1, <1>8, <1>10 DEF EarCore, StreamsOf, StreamEnds
  <2>4. \A q \in Recs : \A j \in Instances :
          (Active(s, q) \/ s.rec[q].ask = "asked") /\ j # s.rec[q].inst => s.hook[j].stream = 0
    BY <1>3, <1>9, <1>10, <1>11 DEF EarCore, StreamsOf, StreamAlone
  <2>. QED BY <2>2, <2>3, <2>4, <1>8, <1>10 DEF EarCore, StreamsOf, StreamLeft, StreamEnds, StreamAlone, StreamClosed
<1>17. (CallOf(t) => CallOf(s)) /\ (FreeOf(t) => FreeOf(s))
  BY <1>8, <1>9, <1>10, <1>11, CallKept
<1>. QED BY <1>3, <1>8, <1>9, <1>10, <1>12, <1>13, <1>14, <1>15, <1>16, <1>17 DEF EarCore, s

LEMMA StopKeeps ==
  ASSUME NEW t, Typed(t), EarCore(t), NEW i \in Instances, NEW reason \in Reasons
  PROVE  LET s == StopRec(t, i, reason) IN
         /\ Typed(s) /\ EarCore(s) /\ (CallOf(t) => CallOf(s)) /\ (FreeOf(t) => FreeOf(s))
         /\ s.call = t.call /\ s.mount = t.mount /\ s.live = t.live /\ s.closing = t.closing
         /\ \A j \in Instances : s.hook[j].stream = t.hook[j].stream /\ s.hook[j].rec = t.hook[j].rec
         /\ \A q \in Recs : s.rec[q].inst = t.rec[q].inst /\ s.rec[q].mic = t.rec[q].mic
         /\ \A q \in Recs : s.rec[q].ask = "asked" => t.rec[q].ask = "asked" /\ t.hook[i].arm = 0
         /\ \A l \in Recs : s.leg[l].inst = t.leg[l].inst
<1>. DEFINE a == t.hook[i].arm
            r == t.hook[i].rec
            l == t.hook[i].stream
            s == StopRec(t, i, reason)
<1>0. a \in Ids /\ r \in Ids /\ l \in Ids
  BY PartsTyped, ValuesTyped
<1>1. CASE a # 0
  <2>1. s = AbortAsk(t, i)
    BY <1>1 DEF StopRec, AbortAsk
  <2>2. \A q \in Recs : s.rec[q].ask # "asked" /\ s.rec[q].inst = t.rec[q].inst /\ s.rec[q].mic = t.rec[q].mic
    BY <1>1, <2>1, AbortKeeps
  <2>. QED BY <1>1, <2>1, <2>2, AbortKeeps
<1>2. CASE a = 0 /\ (r = 0 \/ ~Recording(t, r))
  <2>1. s = t
    BY <1>2 DEF StopRec
  <2>. QED BY <2>1, <1>2
<1>3. CASE a = 0 /\ r # 0 /\ Recording(t, r)
  <2>. DEFINE n == IF l # 0 /\ ~t.rec[r].released /\ t.leg[l].reason = "none"
                   THEN [t EXCEPT !.leg[l].reason = reason] ELSE t
              x == [t.rec[r] EXCEPT !.released = TRUE, !.go = IF @ = "owed" THEN "no" ELSE @]
              u == [n EXCEPT !.rec[r] = x]
              x2 == [x EXCEPT !.st = "settling"]
              h2 == [u.hook[i] EXCEPT !.phase = "sending"]
              v == [u EXCEPT !.rec[r] = x2, !.hook[i] = h2]
  <2>1. r \in Recs
    BY <1>0, <1>3 DEF Ids
  <2>2. Typed(n) /\ Calm(t, n) /\ n.rec = t.rec /\ n.hook = t.hook /\ n.call = t.call
        /\ n.mount = t.mount /\ n.live = t.live /\ n.closing = t.closing /\ \A m \in Recs : n.leg[m].inst = t.leg[m].inst
    <3>1. CASE n = t
      BY <3>1, CalmSame DEF SameButDrafts
    <3>2. CASE n # t
      <4>. DEFINE y == [t.leg[l] EXCEPT !.reason = reason]
      <4>1. n = [t EXCEPT !.leg[l] = y] /\ l \in Recs
        BY <3>2, <1>0 DEF Ids
      <4>2. t.leg[l] \in LegSet
        BY <4>1, PartsTyped
      <4>. HIDE DEF l, n
      <4>3. y \in LegSet /\ CalmLeg(t.leg[l], y) /\ y.inst = t.leg[l].inst
        BY <4>2 DEF LegSet, CalmLeg
      <4>. HIDE DEF y
      <4>4. Typed(n) /\ SameButLeg(t, n, l) /\ n.leg[l] = y /\ n.live = t.live
        BY <4>1, <4>3, LegPut DEF SameButLeg
      <4>5. n.rec = t.rec /\ n.hook = t.hook /\ n.call = t.call /\ n.mount = t.mount /\ n.closing = t.closing
        BY <4>4 DEF SameButLeg
      <4>6. \A m \in Recs : n.leg[m].inst = t.leg[m].inst
        BY <4>3, <4>4 DEF SameButLeg
      <4>. QED BY <4>1, <4>3, <4>4, <4>5, <4>6, CalmButLeg
    <3>. QED BY <3>1, <3>2
  <2>3. EarCore(n) /\ (CallOf(t) => CallOf(n)) /\ (FreeOf(t) => FreeOf(n))
    BY <2>2, CalmKeeps
  <2>4. StopRec(t, i, reason) = IF reason = "user" /\ setup.settle
              THEN [u EXCEPT !.rec[r].st = "settling", !.hook[i].phase = "sending"]
              ELSE StopNow(u, i, r)
    BY <1>3 DEF StopRec
  <2>. HIDE DEF n
  <2>5. n.rec[r] \in RecSet /\ n.hook[i] \in HookSet
    BY <2>1, <2>2, PartsTyped
  <2>. HIDE DEF r
  <2>7. x \in RecSet /\ CalmRec(n.rec[r], x) /\ x.st = n.rec[r].st
    BY <2>2, <2>5 DEF RecSet, CalmRec
  <2>. HIDE DEF x
  <2>8. /\ Typed(u) /\ Calm(n, u) /\ u.rec[r] = x /\ u.hook = n.hook /\ u.call = n.call
        /\ u.mount = n.mount /\ u.live = n.live /\ u.closing = n.closing /\ u.leg = n.leg
        /\ \A q \in Recs : u.rec[q].ask = n.rec[q].ask /\ u.rec[q].inst = n.rec[q].inst
                           /\ u.rec[q].mic = n.rec[q].mic
    <3>1. \A q \in Recs \ {r} : u.rec[q] = n.rec[q]
      BY <2>1, <2>2, <2>7, RecPut
    <3>2. Typed(u) /\ Calm(n, u) /\ u.rec[r] = x /\ u.hook = n.hook /\ u.call = n.call
        /\ u.mount = n.mount /\ u.live = n.live /\ u.closing = n.closing /\ u.leg = n.leg
      BY <2>1, <2>2, <2>7, RecPut, CalmButRec
    <3>. QED BY <3>1, <3>2, <2>7 DEF CalmRec
  <2>9. EarCore(u) /\ (CallOf(t) => CallOf(u)) /\ (FreeOf(t) => FreeOf(u))
    BY <2>2, <2>3, <2>8, CalmKeeps
  <2>10. u.hook[i].rec = r /\ Recording(u, r)
    BY <1>3, <2>2, <2>7, <2>8 DEF Recording, r
  <2>. HIDE DEF u
  <2>11. ASSUME ~(reason = "user" /\ setup.settle)
         PROVE  s = StopNow(u, i, r)
    BY <2>4, <2>11 DEF r
  <2>12. ASSUME reason = "user" /\ setup.settle
         PROVE  s = v
    <3>1. s = [u EXCEPT !.rec[r].st = "settling", !.hook[i].phase = "sending"]
      BY <2>4, <2>12 DEF r
    <3>. QED BY <3>1, <2>8
  <2>13. Typed(v) /\ Calm(u, v) /\ v.call = u.call /\ v.mount = u.mount /\ v.live = u.live /\ v.closing = u.closing /\ v.leg = u.leg
         /\ (\A q \in Recs : v.rec[q].ask = u.rec[q].ask /\ v.rec[q].inst = u.rec[q].inst
                           /\ v.rec[q].mic = u.rec[q].mic)
         /\ \A j \in Instances : v.hook[j].stream = u.hook[j].stream /\ v.hook[j].rec = u.hook[j].rec
    <3>1. x2 \in RecSet /\ CalmRec(x, x2)
      BY <2>7, <2>8, <2>10 DEF RecSet, CalmRec, Recording
    <3>2. u.hook[i] \in HookSet
      BY <2>8, PartsTyped
    <3>3. h2 \in HookSet /\ h2.arm = u.hook[i].arm /\ h2.rec = u.hook[i].rec
          /\ h2.stream = u.hook[i].stream /\ h2.phase = "sending" /\ h2.free = u.hook[i].free
      BY <3>2 DEF HookSet
    <3>. HIDE DEF x2, h2
    <3>4. /\ Typed(v) /\ v.rec[r] = x2 /\ (\A q \in Recs \ {r} : v.rec[q] = u.rec[q])
          /\ v.hook[i] = h2 /\ (\A j \in Instances \ {i} : v.hook[j] = u.hook[j])
          /\ v.leg = u.leg /\ v.clip = u.clip /\ v.owners = u.owners
          /\ v.closing = u.closing /\ v.call = u.call /\ v.mount = u.mount /\ v.live = u.live
      BY <2>1, <2>8, <3>1, <3>3 DEF Typed, Fields
    <3>. HIDE DEF v
    <3>5. CalmRecs(u, v)
      <4>1. \A q \in Recs \ {r} : CalmRec(u.rec[q], v.rec[q])
        BY <3>4 DEF CalmRec
      <4>. QED BY <2>8, <3>1, <3>4, <4>1 DEF CalmRecs, CalmRec
    <3>6. CalmHooks(u, v)
      BY <3>3, <3>4 DEF CalmHooks
    <3>7. Calm(u, v)
      BY <3>4, <3>5, <3>6 DEF Calm, CalmClips, CalmLegs, CalmLeg, Posting
    <3>. QED BY <2>8, <3>1, <3>3, <3>4, <3>7 DEF CalmRec
  <2>14. CASE reason = "user" /\ setup.settle
    <3>1. s = v
      BY <2>12, <2>14
    <3>2. EarCore(v) /\ (CallOf(u) => CallOf(v)) /\ (FreeOf(u) => FreeOf(v))
      BY <2>8, <2>9, <2>13, CalmKeeps
    <3>. HIDE DEF v, s
    <3>3. /\ Typed(s) /\ EarCore(s) /\ (CallOf(t) => CallOf(s)) /\ (FreeOf(t) => FreeOf(s))
          /\ s.call = t.call /\ s.mount = t.mount /\ s.live = t.live /\ s.closing = t.closing
      BY <3>1, <3>2, <2>2, <2>8, <2>9, <2>13
    <3>4. /\ (\A q \in Recs : s.rec[q].inst = t.rec[q].inst /\ s.rec[q].mic = t.rec[q].mic
                             /\ s.rec[q].ask = t.rec[q].ask)
          /\ \A m \in Recs : s.leg[m].inst = t.leg[m].inst
      BY <3>1, <2>2, <2>8, <2>13
    <3>5. \A j \in Instances : s.hook[j].stream = t.hook[j].stream /\ s.hook[j].rec = t.hook[j].rec
      BY <3>1, <2>2, <2>8, <2>13
    <3>. QED BY <3>3, <3>4, <3>5, <1>3 DEF s
  <2>15. CASE ~(reason = "user" /\ setup.settle)
    <3>. DEFINE z == StopNow(u, i, r)
    <3>1. s = z
      BY <2>11, <2>15
    <3>2. /\ Typed(z) /\ EarCore(z) /\ (CallOf(u) => CallOf(z)) /\ (FreeOf(u) => FreeOf(z))
          /\ z.hook = u.hook /\ z.call = u.call /\ z.mount = u.mount /\ z.live = u.live /\ z.closing = u.closing
          /\ \A q \in Recs : z.rec[q].ask = u.rec[q].ask /\ z.rec[q].inst = u.rec[q].inst
                             /\ z.rec[q].mic = u.rec[q].mic
          /\ \A m \in Recs : z.leg[m].inst = u.leg[m].inst
      BY <2>1, <2>8, <2>9, <2>10, StopNowKeeps
    <3>. HIDE DEF z, s
    <3>3. /\ Typed(s) /\ EarCore(s) /\ (CallOf(t) => CallOf(s)) /\ (FreeOf(t) => FreeOf(s))
          /\ s.call = t.call /\ s.mount = t.mount /\ s.live = t.live /\ s.closing = t.closing /\ s.hook = t.hook
          /\ (\A q \in Recs : s.rec[q].inst = t.rec[q].inst /\ s.rec[q].mic = t.rec[q].mic
                             /\ s.rec[q].ask = t.rec[q].ask)
          /\ \A m \in Recs : s.leg[m].inst = t.leg[m].inst
      BY <3>1, <3>2, <2>2, <2>8, <2>9
    <3>. QED BY <3>3, <1>3 DEF s
  <2>. QED BY <2>14, <2>15
<1>. QED BY <1>1, <1>2, <1>3

-----------------------------------------------------------------------------
Good(t) == Typed(t) /\ EarInv(t)

LEMMA GoodCalm ==
  ASSUME NEW t, NEW s, Good(t), Typed(s), Calm(t, s), s.call = t.call
  PROVE  Good(s)
  BY CalmKeeps DEF Good, EarInv

LEMMA GoodSame ==
  ASSUME NEW t, NEW s, Good(t), Typed(s), SameButDrafts(t, s)
  PROVE  Good(s)
  BY CalmSame, GoodCalm DEF SameButDrafts

LEMMA GoodStop ==
  ASSUME NEW t, Good(t), NEW i \in Instances, NEW reason \in Reasons
  PROVE  Good(StopRec(t, i, reason))
  BY StopKeeps DEF Good, EarInv

LEMMA GoodStopLive ==
  ASSUME NEW t, Good(t)
  PROVE  Good(StopLive(t))
<1>1. t.live # 0 => t.leg[t.live].inst \in Instances
  BY DEF Good, EarInv, EarCore, LegsKnown, LiveInst
<1>2. "navigated" \in Reasons
  BY DEF Reasons
<1>. QED BY <1>1, <1>2, GoodStop DEF StopLive

LEMMA GoodSetSlot ==
  ASSUME NEW t, Good(t), NEW next \in Slots, NEW mint \in BOOLEAN, NEW carried
  PROVE  Good(SetSlot(t, next, mint, carried))
<1>. DEFINE s == [t EXCEPT !.slot = next, !.mint = IF t.slot = 0 /\ mint THEN next ELSE -1,
                           !.moved[next] = next]
            m == IF t.slot = 0 /\ s.draft[next] = {} THEN MoveSlots(s, 0, next) ELSE s
            z == StopLive(m)
            y == [z EXCEPT !.carry = [st |-> "waiting", from |-> t.slot, to |-> next, on |-> m.live]]
<1>1. Good(s)
  <2>1. Typed(s) /\ SameButDrafts(t, s)
    BY DEF Good, Typed, Fields, SameButDrafts
  <2>. QED BY <2>1, GoodSame
<1>. HIDE DEF s
<1>2. Good(m)
  <2>1. 0 \in Slots
    BY DEF Slots
  <2>2. Typed(MoveSlots(s, 0, next)) /\ SameButDrafts(s, MoveSlots(s, 0, next))
    BY <1>1, <2>1, MoveTyped, DraftsSame DEF Good
  <2>. QED BY <1>1, <2>2, GoodSame
<1>. HIDE DEF m
<1>3. Good(z)
  BY <1>2, GoodStopLive
<1>. HIDE DEF z
<1>4. Good(y)
  <2>1. t.slot \in Slots /\ m.live \in Ids
    BY <1>2 DEF Good, Typed
  <2>2. [st |-> "waiting", from |-> t.slot, to |-> next, on |-> m.live] \in CarrySet
    BY <2>1 DEF CarrySet
  <2>3. Typed(y) /\ SameButDrafts(z, y)
    BY <1>3, <2>2 DEF Good, Typed, Fields, SameButDrafts
  <2>. QED BY <1>3, <2>3, GoodSame
<1>. QED BY <1>2, <1>4 DEF SetSlot, s, m, z

LEMMA SlotsSteps ==
  ASSUME Good(tab)
  PROVE  /\ \A next \in Slots : Navigate(next) => Good(tab')
         /\ MintWire => Good(tab')
         /\ DeletedElsewhere => Good(tab')
         /\ CarryLands => Good(tab')
<1>0. 0 \in Slots /\ 2 \in Slots /\ tab.slot \in Slots
  BY DEF Slots, Good, Typed
<1>1. ASSUME NEW next \in Slots, Navigate(next) PROVE Good(tab')
  BY <1>1, GoodStopLive, GoodSetSlot DEF Navigate
<1>2. ASSUME MintWire PROVE Good(tab')
  <2>. DEFINE v == tab.draft[0] \X {2} \X {0}
              s == [tab EXCEPT !.sent = @ \cup v, !.draft[0] = {}]
  <2>1. v \subseteq PhraseSet \X Slots \X Ids
    BY <1>0 DEF Good, Typed, Ids
  <2>2. Typed(s) /\ SameButDrafts(tab, s)
    <3>. HIDE DEF v
    <3>. QED BY <1>0, <2>1 DEF Good, Typed, Fields, SameButDrafts
  <2>3. Good(s)
    BY <2>2, GoodSame
  <2>4. tab' = SetSlot(s, 2, TRUE, {})
    BY <1>2 DEF MintWire
  <2>. HIDE DEF s
  <2>. QED BY <1>0, <2>3, <2>4, GoodSetSlot
<1>3. ASSUME DeletedElsewhere PROVE Good(tab')
  <2>. DEFINE s == [tab EXCEPT !.dead = @ \cup {tab.slot}]
  <2>2. Typed(s) /\ SameButDrafts(tab, s)
    BY <1>0 DEF Good, Typed, Fields, SameButDrafts
  <2>3. Good(StopLive(s))
    BY <2>2, GoodSame, GoodStopLive
  <2>4. tab' = SetSlot(StopLive(s), 0, FALSE, {tab.slot})
    BY <1>3 DEF DeletedElsewhere
  <2>. HIDE DEF s
  <2>. QED BY <1>0, <2>3, <2>4, GoodSetSlot
<1>4. ASSUME CarryLands PROVE Good(tab')
  <2>. DEFINE m == MoveSlots(tab, tab.carry.from, tab.carry.to)
              c == [m.carry EXCEPT !.st = "done"]
  <2>1. tab.carry \in CarrySet
    BY DEF Good, Typed
  <2>2. tab.carry.from \in Slots /\ tab.carry.to \in Slots
    BY <2>1 DEF CarrySet
  <2>3. Good(m)
    <3>1. Typed(m)
      BY <2>2, MoveTyped DEF Good
    <3>2. SameButDrafts(tab, m)
      BY DraftsSame DEF Good
    <3>. QED BY <3>1, <3>2, GoodSame
  <2>4. tab' = [m EXCEPT !.carry = c]
    BY <1>4 DEF CarryLands
  <2>. HIDE DEF m
  <2>5. c \in CarrySet
    BY <2>3 DEF Good, Typed, CarrySet
  <2>. HIDE DEF c
  <2>6. Typed(tab') /\ SameButDrafts(m, tab')
    BY <2>3, <2>4, <2>5 DEF Good, Typed, Fields, SameButDrafts
  <2>. QED BY <2>3, <2>6, GoodSame
<1>. QED BY <1>1, <1>2, <1>3, <1>4

LEMMA StopSteps ==
  ASSUME Good(tab)
  PROVE  /\ Release => Good(tab')
         /\ RunsOut => Good(tab')
<1>1. tab.mount # 0 => tab.mount \in Instances
  BY DEF Good, Typed, Instances
<1>2. {"user", "idle"} \subseteq Reasons
  BY DEF Reasons
<1>. QED BY <1>1, <1>2, GoodStop DEF Release, RunsOut

LEMMA HideStep ==
  ASSUME Good(tab), Hide
  PROVE  Good(tab')
<1>. DEFINE h == IF tab.mount = 0 THEN NoHook ELSE tab.hook[tab.mount]
            s == IF h.rec # 0 /\ setup.stream THEN StopRec(tab, tab.mount, "hidden") ELSE tab
            w == {l \in Recs : tab.leg[l].fin = "tail"}
            l == CHOOSE x \in w : TRUE
            y == [s.leg[l] EXCEPT !.dead = TRUE, !.fin = "end"]
            u == [s EXCEPT !.leg[l] = y]
<1>1. Good(s)
  <2>1. h.rec # 0 => tab.mount \in Instances
    BY DEF Good, Typed, Instances, NoHook
  <2>2. "hidden" \in Reasons
    BY DEF Reasons
  <2>. QED BY <2>1, <2>2, GoodStop
<1>2. CASE w = {}
  BY <1>1, <1>2 DEF Hide
<1>3. CASE w # {}
  <2>1. l \in Recs /\ tab.leg[l].fin = "tail"
    BY <1>3
  <2>2. s.leg[l].fin \in Holding
    <3>1. s.closing = tab.closing
      <4>1. h.rec # 0 => tab.mount \in Instances
        BY DEF Good, Typed, Instances, NoHook
      <4>2. "hidden" \in Reasons
        BY DEF Reasons
      <4>. QED BY <4>1, <4>2, StopKeeps DEF Good, EarInv
    <3>2. tab.closing = l
      BY <2>1 DEF Good, EarInv, EarCore, OwnersOf, Holding
    <3>. HIDE DEF s, l
    <3>. QED BY <1>1, <2>1, <3>1, <3>2 DEF Good, EarInv, EarCore, OwnersOf
  <2>3. tab' = TellIfHeard([s EXCEPT !.leg[l] = [@ EXCEPT !.dead = TRUE, !.fin = "end"]], l)
    BY <1>3 DEF Hide
  <2>. HIDE DEF s, l
  <2>4. s.leg[l] \in LegSet
    BY <1>1, <2>1, PartsTyped DEF Good
  <2>5. tab' = TellIfHeard(u, l)
    <3>1. Typed(s)
      BY <1>1 DEF Good
    <3>2. [s EXCEPT !.leg[l] = [@ EXCEPT !.dead = TRUE, !.fin = "end"]] = u
      OBVIOUS
    <3>. HIDE DEF u
    <3>. QED BY <2>3, <3>2
  <2>6. y \in LegSet /\ CalmLeg(s.leg[l], y)
    BY <2>2, <2>4 DEF LegSet, CalmLeg, Holding
  <2>. HIDE DEF y
  <2>7. Typed(u) /\ SameButLeg(s, u, l) /\ u.leg[l] = y
    BY <1>1, <2>1, <2>6, LegPut DEF SameButLeg, Good
  <2>. HIDE DEF u
  <2>8. Good(u)
    BY <1>1, <2>1, <2>6, <2>7, CalmButLeg, GoodCalm DEF SameButLeg
  <2>. QED BY <2>1, <2>5, <2>8, TellSame, GoodSame DEF Good
<1>. QED BY <1>2, <1>3

-----------------------------------------------------------------------------
LEMMA UnmountStep ==
  ASSUME Good(tab), Unmount
  PROVE  Good(tab')
<1>. DEFINE s == StopRec(tab, tab.mount, "unmount")
            r == tab.hook[tab.mount].rec
            l == tab.hook[tab.mount].stream
            d == DropStream(s, l)
            z == UnmountStops
            y == [q \in Recs |-> IF q = r THEN [z.rec[q] EXCEPT !.detector = "off"] ELSE z.rec[q]]
<1>1. tab.mount = 1 /\ tab' = [z EXCEPT !.mount = 0, !.rec = y] /\ 1 \in Instances
  BY DEF Unmount, Instances
<1>2. /\ Good(s) /\ s.mount = 1 /\ s.hook[1].stream = l /\ s.hook[1].rec = r
      /\ \A q \in Recs : s.rec[q].ask # "asked"
  <2>1. "unmount" \in Reasons
    BY DEF Reasons
  <2>2. /\ Good(s) /\ s.mount = 1 /\ s.hook[1].stream = l /\ s.hook[1].rec = r
        /\ \A q \in Recs : s.rec[q].ask = "asked" => tab.rec[q].ask = "asked" /\ tab.hook[1].arm = 0
    BY <1>1, <2>1, StopKeeps DEF Good, EarInv
  <2>3. \A q \in Recs : tab.rec[q].ask = "asked" => tab.hook[1].arm = q
    BY <1>1 DEF Good, EarInv, EarCore, HooksOf, AskHook
  <2>4. \A q \in Recs : s.rec[q].ask # "asked"
    BY <2>2, <2>3 DEF Recs
  <2>. QED BY <2>2, <2>4
<1>. HIDE DEF s
<1>3. l \in Ids /\ r \in Ids
  BY <1>1, PartsTyped, ValuesTyped DEF Good
<1>4. /\ Good(z) /\ z.mount = 1 /\ z.hook[1].rec = r
      /\ \A q \in Recs : z.rec[q].ask # "asked"
      /\ z.hook[1].stream # 0 => r # 0 /\ z.rec[r].st = "stopping" /\ ~z.rec[r].discard
  <2>. HIDE DEF l, r
  <2>1. CASE l = 0
    <3>1. z = s
      BY <2>1 DEF UnmountStops, s, l
    <3>. QED BY <3>1, <1>2, <2>1
  <2>2. CASE l # 0 /\ s.leg[l].finishing
    <3>1. z = s
      BY <2>2 DEF UnmountStops, s, l
    <3>2. s.hook[1].rec # 0 /\ s.rec[s.hook[1].rec].st = "stopping" /\ ~s.rec[s.hook[1].rec].discard
      BY <1>1, <1>2, <2>2 DEF Good, EarInv, EarCore, StreamsOf, StreamEnds
    <3>. QED BY <3>1, <3>2, <1>2
  <2>3. CASE l # 0 /\ ~s.leg[l].finishing
    <3>1. z = d
      BY <2>3 DEF UnmountStops, s, l
    <3>2. l \in Recs
      BY <1>3, <2>3 DEF Ids
    <3>3. s.leg[l].inst = 1
      BY <1>1, <1>2, <2>3 DEF Good, EarInv, EarCore, LegsKnown, StreamInst
    <3>4. /\ Typed(d) /\ Calm(s, d) /\ d.call = s.call /\ d.rec = s.rec
          /\ d.hook[1].stream = 0
      BY <1>1, <1>2, <3>2, <3>3, DropCalm DEF Good
    <3>5. Good(d)
      BY <1>2, <3>4, GoodCalm
    <3>. QED BY <1>1, <1>2, <3>1, <3>4, <3>5 DEF Calm, CalmHooks
  <2>. QED BY <2>1, <2>2, <2>3
<1>. HIDE DEF z
<1>5. \A q \in Recs : /\ y[q] \in RecSet
                      /\ y[q].inst = z.rec[q].inst /\ y[q].ask = z.rec[q].ask /\ y[q].st = z.rec[q].st
                      /\ y[q].mic = z.rec[q].mic /\ y[q].discard = z.rec[q].discard
                      /\ y[q].detector = IF q = r THEN "off" ELSE z.rec[q].detector
  <2>. TAKE q \in Recs
  <2>1. z.rec[q] \in RecSet
    BY <1>4, PartsTyped DEF Good
  <2>. HIDE DEF r
  <2>. QED BY <2>1 DEF RecSet
<1>6. y \in [Recs -> RecSet]
  BY <1>5
<1>. HIDE DEF y, r
<1>7. /\ Typed(tab') /\ tab'.rec = y /\ tab'.hook = z.hook /\ tab'.leg = z.leg /\ tab'.clip = z.clip
      /\ tab'.owners = z.owners /\ tab'.closing = z.closing /\ tab'.call = z.call /\ tab'.mount = 0
      /\ tab'.live = z.live
  BY <1>1, <1>4, <1>6 DEF Good, Typed, Fields
<1>8. EarCore(z) /\ CallOf(z) /\ Typed(z)
  BY <1>4 DEF Good, EarInv
<1>9. \A q \in Recs : Active(tab', q) <=> Active(z, q)
  BY <1>5, <1>7 DEF Active
<1>10. RecsKnown(tab')
  <2>1. \A q \in Recs : Active(z, q) => z.rec[q].inst \in Instances
    BY <1>8 DEF EarCore, RecsKnown, Active
  <2>2. \A q \in Recs : z.rec[q].detector = "arming" => q = r
    BY <1>4, <1>8, <2>1 DEF EarCore, RecsKnown, HooksOf, RecHook
  <2>3. \A q \in Recs : tab'.rec[q].detector # "arming"
    BY <1>5, <1>7, <2>2
  <2>4. \A q \in Recs : z.rec[q].ask # "none" => z.rec[q].inst # 2
    BY <1>4, <1>8 DEF EarCore, RecsKnown
  <2>. QED BY <1>5, <1>7, <1>8, <1>9, <2>3, <2>4 DEF EarCore, RecsKnown
<1>11. LegsKnown(tab')
  BY <1>5, <1>7, <1>8 DEF EarCore, LegsKnown, LegInst, LegClip, StreamInst, LiveInst
<1>12. OwnersOf(tab')
  BY <1>5, <1>7, <1>8, <1>9 DEF EarCore, OwnersOf, Posting
<1>13. HooksOf(tab')
  <2>1. \A j \in Instances : z.hook[j].arm \in Ids /\ z.hook[j].rec \in Ids
    BY <1>8, PartsTyped, ValuesTyped
  <2>. QED BY <1>4, <1>5, <1>7, <1>8, <1>9, <2>1 DEF EarCore, HooksOf, HookRec, RecHook, HookAsk, AskHook, MicShown, Ids
<1>14. StreamsOf(tab')
  <2>1. \A j \in Instances : z.hook[j].stream \in Ids /\ z.hook[j].rec \in Ids
    BY <1>8, PartsTyped, ValuesTyped
  <2>2. \A j \in Instances : z.hook[j].stream # 0 =>
          z.hook[j].rec # 0 /\ z.rec[z.hook[j].rec].st = "stopping" /\ ~z.rec[z.hook[j].rec].discard
    BY <1>4, <1>8 DEF EarCore, StreamsOf, StreamLeft, Instances
  <2>3. \A j \in Instances : z.hook[j].stream # 0 =>
          z.hook[j].rec # 0 /\ y[z.hook[j].rec].st = "stopping" /\ ~y[z.hook[j].rec].discard
    BY <1>5, <2>1, <2>2 DEF Ids
  <2>. QED BY <1>5, <1>7, <1>8, <1>9, <2>3 DEF EarCore, StreamsOf, StreamLeft, StreamEnds, StreamAlone, StreamClosed
<1>15. CallOf(tab')
  BY <1>5, <1>7, <1>8, <1>9, CallKept
<1>. QED BY <1>7, <1>10, <1>11, <1>12, <1>13, <1>14, <1>15 DEF Good, EarInv, EarCore

LEMMA MountStep ==
  ASSUME Good(tab), Mount
  PROVE  Good(tab')
<1>1. tab.mount = 0 /\ tab' = [tab EXCEPT !.mount = 2] /\ Typed(tab) /\ EarCore(tab) /\ CallOf(tab)
  BY DEF Mount, Good, EarInv
<1>2. /\ Typed(tab') /\ tab'.rec = tab.rec /\ tab'.hook = tab.hook /\ tab'.leg = tab.leg
      /\ tab'.clip = tab.clip /\ tab'.owners = tab.owners /\ tab'.closing = tab.closing
      /\ tab'.call = tab.call /\ tab'.mount = 2 /\ tab'.live = tab.live
  BY <1>1 DEF Typed, Fields
<1>3. 0 \notin Instances
  BY DEF Instances
<1>4. \A q \in Recs : tab.rec[q].ask # "asked" /\ tab.rec[q].detector # "arming"
  BY <1>1, <1>3 DEF EarCore, HooksOf, AskHook, RecsKnown, Active
<1>5. \A j \in Instances : tab.hook[j].arm \in Ids
  BY <1>1, PartsTyped, ValuesTyped
<1>6. RecsKnown(tab')
  BY <1>1, <1>2, <1>4 DEF EarCore, RecsKnown, Active
<1>7. LegsKnown(tab') /\ OwnersOf(tab')
  BY <1>1, <1>2 DEF EarCore, LegsKnown, LegInst, LegClip, StreamInst, LiveInst, OwnersOf, Active,
     Posting
<1>8. HooksOf(tab')
  <2>1. HookRec(tab')
    BY <1>1, <1>2, <1>4, <1>5 DEF EarCore, HooksOf, HookRec, Active, Ids
  <2>2. RecHook(tab')
    BY <1>1, <1>2, <1>4, <1>5 DEF EarCore, HooksOf, RecHook, Active, Ids
  <2>3. HookAsk(tab')
    BY <1>1, <1>2, <1>4, <1>5 DEF EarCore, HooksOf, HookAsk, Active, Ids
  <2>4. AskHook(tab')
    BY <1>1, <1>2, <1>4, <1>5 DEF EarCore, AskHook, Active, Ids
  <2>5. MicShown(tab')
    BY <1>1, <1>2, <1>4, <1>5 DEF EarCore, HooksOf, MicShown, Active, Ids
  <2>. QED BY <2>1, <2>2, <2>3, <2>4, <2>5 DEF HooksOf
<1>9. StreamsOf(tab')
  <2>1. StreamLeft(tab')
    BY <1>1, <1>2, <1>3 DEF EarCore, StreamsOf, StreamLeft, Active
  <2>2. StreamEnds(tab')
    BY <1>1, <1>2, <1>3 DEF EarCore, StreamsOf, StreamEnds, Active
  <2>3. StreamAlone(tab')
    BY <1>1, <1>2, <1>3 DEF EarCore, StreamsOf, StreamAlone, Active
  <2>4. StreamClosed(tab')
    BY <1>1, <1>2, <1>3 DEF EarCore, StreamsOf, StreamClosed, Active
  <2>. QED BY <2>1, <2>2, <2>3, <2>4 DEF StreamsOf
<1>10. CallOf(tab')
  BY <1>1, <1>2, CallKept DEF Active
<1>. QED BY <1>2, <1>6, <1>7, <1>8, <1>9, <1>10 DEF Good, EarInv, EarCore

-----------------------------------------------------------------------------
\* Nobody is asked to let go any more, or somebody is: the ear itself is the same.
LEMMA FreeAside ==
  ASSUME NEW t, NEW s, EarCore(t),
         \A j \in Instances : /\ s.hook[j].arm = t.hook[j].arm /\ s.hook[j].rec = t.hook[j].rec
                              /\ s.hook[j].stream = t.hook[j].stream /\ s.hook[j].phase = t.hook[j].phase,
         s.rec = t.rec, s.leg = t.leg, s.clip = t.clip, s.owners = t.owners,
         s.closing = t.closing, s.mount = t.mount, s.live = t.live
  PROVE  EarCore(s)
<1>1. \A q \in Recs : Active(t, q) \/ t.rec[q].ask = "asked" \/ t.rec[q].mic => t.rec[q].inst \in Instances
  BY DEF EarCore, RecsKnown, Active
<1>2. RecsKnown(s)
  BY DEF EarCore, RecsKnown, Active
<1>3. LegsKnown(s)
  BY DEF EarCore, LegsKnown, LegInst, LegClip, StreamInst, LiveInst
<1>4. OwnersOf(s)
  BY DEF EarCore, OwnersOf, Active, Posting
<1>5. HooksOf(s)
  <2>1. HookRec(s) /\ HookAsk(s)
    BY DEF EarCore, HooksOf, HookRec, HookAsk, Active
  <2>2. RecHook(s) /\ AskHook(s)
    BY <1>1 DEF EarCore, HooksOf, RecHook, AskHook, Active
  <2>3. MicShown(s)
    BY <1>1 DEF EarCore, HooksOf, MicShown
  <2>. QED BY <2>1, <2>2, <2>3 DEF HooksOf
<1>6. StreamsOf(s)
  BY DEF EarCore, StreamsOf, StreamLeft, StreamEnds, StreamAlone, StreamClosed, Active
<1>. QED BY <1>2, <1>3, <1>4, <1>5, <1>6 DEF EarCore

\* The ear is given to a call: nothing of it is left on the page.
LEMMA CallTakesKeeps ==
  ASSUME NEW t, Typed(t), EarCore(t), t.call.early \/ \A q \in Recs : ~t.rec[q].mic,
         \A q \in Recs : t.rec[q].ask # "asked", \A j \in Instances : ~t.hook[j].free
  PROVE  Good(CallTakes(t))
<1>. DEFINE v == [st |-> IF t.closing = 0 THEN "up" ELSE "leg", on |-> t.closing, early |-> t.call.early]
            s == [t EXCEPT !.call = v]
<1>1. v \in CallSet
  BY DEF CallSet, Typed
<1>2. CallTakes(t) = s
  BY DEF CallTakes
<1>3. v.st = (IF t.closing = 0 THEN "up" ELSE "leg") /\ v.on = t.closing /\ v.early = t.call.early
  OBVIOUS
<1>. HIDE DEF v
<1>4. /\ Typed(s) /\ s.hook = t.hook /\ s.rec = t.rec /\ s.leg = t.leg /\ s.clip = t.clip
      /\ s.owners = t.owners /\ s.closing = t.closing /\ s.mount = t.mount /\ s.live = t.live
      /\ s.call = v
  BY <1>1 DEF Typed, Fields
<1>. HIDE DEF s
<1>5. EarCore(s)
  BY <1>4, FreeAside
<1>6. CallOf(s)
  BY <1>3, <1>4 DEF CallOf, CallLeg, FreeOf
<1>. QED BY <1>2, <1>4, <1>5, <1>6 DEF Good, EarInv

LEMMA FreedKeeps ==
  ASSUME NEW t, Typed(t), EarCore(t), CallOf(t), NEW i \in Instances,
         t.hook[i].free => t.call.early \/ \A q \in Recs : ~t.rec[q].mic
  PROVE  Good(EarFreed(t, i))
<1>. DEFINE h == [t.hook[i] EXCEPT !.free = FALSE]
            s == [t EXCEPT !.hook[i] = h]
<1>1. t.hook[i] \in HookSet
  BY PartsTyped
<1>2. h \in HookSet /\ h.arm = t.hook[i].arm /\ h.rec = t.hook[i].rec
      /\ h.stream = t.hook[i].stream /\ h.phase = t.hook[i].phase /\ ~h.free
  BY <1>1 DEF HookSet
<1>3. EarFreed(t, i) = IF ~t.hook[i].free THEN t ELSE CallTakes(s)
  BY DEF EarFreed
<1>. HIDE DEF h
<1>4. /\ Typed(s) /\ s.hook[i] = h /\ (\A j \in Instances \ {i} : s.hook[j] = t.hook[j])
      /\ s.rec = t.rec /\ s.leg = t.leg /\ s.clip = t.clip /\ s.owners = t.owners
      /\ s.closing = t.closing /\ s.mount = t.mount /\ s.live = t.live /\ s.call = t.call
  BY <1>2 DEF Typed, Fields
<1>. HIDE DEF s
<1>5. EarCore(s)
  BY <1>2, <1>4, FreeAside
<1>6. CASE t.hook[i].free
  <2>1. /\ \A q \in Recs : t.rec[q].ask # "asked"
        /\ \A j \in Instances \ {i} : ~t.hook[j].free
    BY <1>6 DEF CallOf, CallLeg, FreeOf
  <2>2. Good(CallTakes(s))
    BY <1>2, <1>4, <1>5, <1>6, <2>1, CallTakesKeeps
  <2>. QED BY <1>3, <1>6, <2>2
<1>. QED BY <1>3, <1>6 DEF Good, EarInv

LEMMA CallStartsStep ==
  ASSUME Good(tab), CallStarts
  PROVE  Good(tab')
<1>. DEFINE i == tab.mount
            h == tab.hook[i]
            asks == i # 0 /\ (h.arm # 0 \/ h.rec # 0)
            left == \E j \in Instances \ {i} : tab.hook[j].rec # 0
<1>1. i \in {0} \cup Instances /\ Typed(tab) /\ EarCore(tab) /\ CallOf(tab) /\ tab.call.st = "no"
  BY DEF CallStarts, Good, EarInv, Typed, Instances
<1>c. tab.call \in CallSet
  BY <1>1 DEF Typed
<1>f. /\ \A j \in Instances : ~tab.hook[j].free
      /\ \A q \in Recs : Active(tab, q) => tab.rec[q].inst \in Instances /\ tab.hook[tab.rec[q].inst].rec = q
      /\ \A q \in Recs : tab.rec[q].mic => Active(tab, q)
      /\ \A q \in Recs : tab.rec[q].ask = "asked" => i \in Instances /\ h.arm = q
      /\ 0 \notin Recs
  <2>1. \A j \in Instances : ~tab.hook[j].free
    BY <1>1 DEF CallOf, FreeOf
  <2>2. \A q \in Recs : Active(tab, q) \/ tab.rec[q].ask = "asked" => tab.rec[q].inst \in Instances
    BY <1>1 DEF EarCore, RecsKnown, Active
  <2>3. \A q \in Recs : Active(tab, q) => tab.hook[tab.rec[q].inst].rec = q
    BY <1>1 DEF EarCore, HooksOf, RecHook
  <2>4. \A q \in Recs : tab.rec[q].mic => Active(tab, q)
    BY <1>1 DEF EarCore, RecsKnown
  <2>5. \A q \in Recs : tab.rec[q].ask = "asked" => i \in Instances /\ h.arm = q
    BY <1>1, <2>2 DEF EarCore, HooksOf, AskHook
  <2>. QED BY <2>1, <2>2, <2>3, <2>4, <2>5 DEF Recs
<1>2. CASE ~asks
  <2>. DEFINE v == [tab.call EXCEPT !.early = left]
              u == [tab EXCEPT !.call = v]
  <2>1. tab' = CallTakes([tab EXCEPT !.call.early = left])
    BY <1>2 DEF CallStarts
  <2>2. [tab EXCEPT !.call.early = left] = u
    OBVIOUS
  <2>3. v \in CallSet /\ v.early = left
    BY <1>c DEF CallSet
  <2>4. ASSUME NEW q \in Recs
        PROVE  tab.rec[q].ask # "asked" /\ (tab.rec[q].mic => left)
    <3>1. \/ i \notin Instances
          \/ h.arm = 0 /\ h.rec = 0
      BY <1>2 DEF Instances
    <3>. QED BY <1>f, <3>1
  <2>. HIDE DEF v, left
  <2>5. /\ Typed(u) /\ u.hook = tab.hook /\ u.rec = tab.rec /\ u.leg = tab.leg /\ u.clip = tab.clip
        /\ u.owners = tab.owners /\ u.closing = tab.closing /\ u.mount = tab.mount /\ u.live = tab.live
        /\ u.call = v
    BY <1>1, <2>3 DEF Typed, Fields
  <2>. HIDE DEF u
  <2>6. EarCore(u)
    BY <1>1, <2>5, FreeAside
  <2>7. Good(CallTakes(u))
    BY <1>f, <2>3, <2>4, <2>5, <2>6, CallTakesKeeps
  <2>. QED BY <2>1, <2>2, <2>7
<1>3. CASE asks
  <2>. DEFINE y == [h EXCEPT !.free = TRUE]
              v == [tab.call EXCEPT !.st = "ear"]
              u == [tab EXCEPT !.hook[i] = y, !.call = v]
              s == StopRec(u, i, "call")
  <2>i. i \in Instances
    BY <1>1, <1>3
  <2>1. h \in HookSet
    BY <1>1, <2>i, PartsTyped
  <2>2. tab' = StopRec([tab EXCEPT !.hook[i].free = TRUE, !.call.st = "ear"], i, "call")
    BY <1>3 DEF CallStarts
  <2>3. [tab EXCEPT !.hook[i].free = TRUE, !.call.st = "ear"] = u
    OBVIOUS
  <2>o. \A q \in Recs : Active(tab, q) => tab.rec[q].inst = i
    <3>1. \A q \in Recs : Active(tab, q) \/ tab.rec[q].ask = "asked" => <<"rec", q>> \in tab.owners
      BY <1>1 DEF EarCore, OwnersOf
    <3>2. \A a, b \in tab.owners : a = b
      BY <1>1 DEF EarCore, OwnersOf
    <3>3. \A q, p \in Recs : (Active(tab, q) \/ tab.rec[q].ask = "asked") /\ Active(tab, p) => p = q
      BY <3>1, <3>2
    <3>4. h.arm \in Ids /\ h.rec \in Ids
      BY <2>1, ValuesTyped
    <3>5. CASE h.arm # 0
      <4>1. h.arm \in Recs /\ tab.rec[h.arm].ask = "asked" /\ tab.rec[h.arm].inst = i
        BY <1>1, <2>i, <3>4, <3>5 DEF Ids, EarCore, HooksOf, HookAsk
      <4>. QED BY <3>3, <4>1
    <3>6. CASE h.rec # 0
      <4>1. h.rec \in Recs /\ Active(tab, h.rec) /\ tab.rec[h.rec].inst = i
        BY <1>1, <2>i, <3>4, <3>6 DEF Ids, EarCore, HooksOf, HookRec
      <4>. QED BY <3>3, <4>1
    <3>. QED BY <1>3, <3>5, <3>6
  <2>. HIDE DEF h
  <2>4. y \in HookSet /\ y.arm = h.arm /\ y.rec = h.rec /\ y.stream = h.stream /\ y.phase = h.phase
    BY <2>1 DEF HookSet
  <2>5. v \in CallSet /\ v.st = "ear"
    BY <1>c DEF CallSet
  <2>. HIDE DEF i, y, v
  <2>6. /\ Typed(u) /\ u.hook[i] = y /\ (\A j \in Instances \ {i} : u.hook[j] = tab.hook[j])
        /\ u.rec = tab.rec /\ u.leg = tab.leg /\ u.clip = tab.clip /\ u.owners = tab.owners
        /\ u.closing = tab.closing /\ u.mount = tab.mount /\ u.live = tab.live /\ u.call = v
    BY <1>1, <2>i, <2>4, <2>5 DEF Typed, Fields
  <2>. HIDE DEF u
  <2>9. EarCore(u)
    BY <1>1, <2>4, <2>6, FreeAside DEF h
  <2>f. FreeOf(u)
    BY <1>f, <2>o, <2>5, <2>6 DEF FreeOf, Active
  <2>10. "call" \in Reasons
    BY DEF Reasons
  <2>11. /\ Typed(s) /\ EarCore(s) /\ FreeOf(s) /\ s.call = u.call
         /\ \A q \in Recs : s.rec[q].ask = "asked" => u.rec[q].ask = "asked" /\ u.hook[i].arm = 0
    BY <2>i, <2>6, <2>9, <2>f, <2>10, StopKeeps
  <2>12. \A q \in Recs : u.rec[q].ask = "asked" => u.hook[i].arm = q
    BY <2>6, <2>9 DEF EarCore, HooksOf, AskHook, i
  <2>13. \A q \in Recs : s.rec[q].ask # "asked"
    BY <2>11, <2>12 DEF Recs
  <2>14. CallOf(s)
    BY <2>5, <2>6, <2>11, <2>13 DEF CallOf, CallLeg
  <2>. QED BY <2>2, <2>3, <2>11, <2>14 DEF Good, EarInv
<1>. QED BY <1>2, <1>3

LEMMA CallEndsStep ==
  ASSUME Good(tab), CallEnds
  PROVE  Good(tab')
<1>1. /\ tab' = [tab EXCEPT !.call = [st |-> "no", on |-> 0, early |-> FALSE]]
      /\ Typed(tab) /\ EarCore(tab) /\ \A j \in Instances : ~tab.hook[j].free
  BY DEF CallEnds, Good, EarInv, CallOf, FreeOf
<1>2. [st |-> "no", on |-> 0, early |-> FALSE] \in CallSet
  BY DEF CallSet, Ids
<1>3. /\ Typed(tab') /\ tab'.rec = tab.rec /\ tab'.hook = tab.hook /\ tab'.leg = tab.leg
      /\ tab'.clip = tab.clip /\ tab'.owners = tab.owners /\ tab'.closing = tab.closing
      /\ tab'.mount = tab.mount /\ tab'.live = tab.live /\ tab'.call.st = "no"
  BY <1>1, <1>2 DEF Typed, Fields
<1>4. Calm(tab, tab')
  BY <1>3 DEF Calm, CalmHooks, CalmRecs, CalmClips, CalmLegs, CalmLeg, Posting
<1>5. CallOf(tab')
  BY <1>1, <1>3 DEF CallOf, CallLeg, FreeOf
<1>. QED BY <1>1, <1>3, <1>4, <1>5, CalmKeeps DEF Good, EarInv

-----------------------------------------------------------------------------
\* A recording is thrown away: by its owner, or by the recorder itself.
LEMMA FailKeeps ==
  ASSUME NEW t, NEW s, Typed(t), Typed(s), EarCore(t), NEW r \in Recs, Recording(t, r),
         s.rec[r].st = "stopping", s.rec[r].discard, s.rec[r].inst = t.rec[r].inst,
         s.rec[r].ask = t.rec[r].ask, s.rec[r].mic => t.rec[r].mic,
         s.rec[r].detector = "arming" => t.rec[r].detector = "arming",
         \A q \in Recs \ {r} : s.rec[q] = t.rec[q],
         \A j \in Instances : /\ s.hook[j].arm = t.hook[j].arm /\ s.hook[j].rec = t.hook[j].rec
                              /\ s.hook[j].stream = t.hook[j].stream /\ s.hook[j].free = t.hook[j].free
                              /\ \/ s.hook[j].phase = t.hook[j].phase
                                 \/ j = t.rec[r].inst /\ ~s.rec[r].mic,
         s.leg = t.leg, s.clip = t.clip, s.owners = t.owners, s.closing = t.closing,
         s.mount = t.mount, s.live = t.live
  PROVE  EarCore(s) /\ (CallOf(t) /\ s.call = t.call => CallOf(s))
<1>0. /\ Active(t, r) /\ t.rec[r].st \in {"live", "settling"} /\ t.rec[r].inst \in Instances
      /\ t.hook[t.rec[r].inst].rec = r
  BY DEF Recording, Active, EarCore, RecsKnown, HooksOf, RecHook
<1>1. \A q \in Recs : /\ s.rec[q].inst = t.rec[q].inst /\ s.rec[q].ask = t.rec[q].ask
                      /\ s.rec[q].mic => t.rec[q].mic
                      /\ s.rec[q].detector = "arming" => t.rec[q].detector = "arming"
                      /\ q # r => s.rec[q].st = t.rec[q].st /\ s.rec[q].discard = t.rec[q].discard
                                  /\ s.rec[q].mic = t.rec[q].mic
  OBVIOUS
<1>2. \A q \in Recs : Active(s, q) <=> Active(t, q)
  BY <1>0, <1>1 DEF Active
<1>3. \A j \in Instances : t.hook[j].arm \in Ids /\ t.hook[j].rec \in Ids /\ t.hook[j].stream \in Ids
  BY PartsTyped, ValuesTyped
<1>4. RecsKnown(s)
  <2>1. \A q \in Recs : s.rec[q].mic => Active(s, q)
    BY <1>1, <1>2 DEF EarCore, RecsKnown
  <2>2. \A q \in Recs : Active(s, q) /\ ~s.rec[q].discard => s.rec[q].mic
    BY <1>1, <1>2 DEF EarCore, RecsKnown
  <2>3. \A q \in Recs : s.rec[q].discard => s.rec[q].st \in {"stopping", "over"}
    BY <1>1, <1>2 DEF EarCore, RecsKnown
  <2>4. \A q \in Recs : s.rec[q].st # "none" => s.rec[q].ask = "done"
    BY <1>0, <1>1 DEF EarCore, RecsKnown
  <2>5. \A q \in Recs : s.clip[q].st # "none" => s.rec[q].st = "over"
    BY <1>0, <1>1 DEF EarCore, RecsKnown
  <2>. QED BY <1>1, <1>2, <2>1, <2>2, <2>3, <2>4, <2>5 DEF EarCore, RecsKnown
<1>5. LegsKnown(s)
  <2>1. \A m \in Recs : s.leg[m].fin # "no" =>
          s.leg[m].clip \in Recs /\ s.rec[s.leg[m].clip].st = "over" /\ s.leg[m].inst \in Instances
    BY <1>0, <1>1 DEF EarCore, LegsKnown, LegClip
  <2>. QED BY <2>1 DEF EarCore, LegsKnown, LegInst, LegClip, StreamInst, LiveInst
<1>6. OwnersOf(s)
  BY <1>1, <1>2 DEF EarCore, OwnersOf, Posting
<1>7. HooksOf(s)
  <2>1. \A q \in Recs : Active(t, q) => t.rec[q].inst \in Instances
    BY DEF EarCore, RecsKnown, Active
  <2>2. ASSUME NEW q \in Recs, s.rec[q].mic
        PROVE  s.hook[s.rec[q].inst].phase # "idle"
    <3>1. t.rec[q].mic /\ Active(t, q) /\ t.rec[q].inst \in Instances
      BY <1>1, <2>1, <2>2 DEF EarCore, RecsKnown
    <3>2. t.hook[t.rec[q].inst].phase # "idle" /\ t.hook[t.rec[q].inst].rec = q
      BY <3>1 DEF EarCore, HooksOf, RecHook, MicShown
    <3>. QED BY <1>0, <1>1, <2>2, <3>1, <3>2
  <2>3. \A q \in Recs : Active(s, q) => s.hook[s.rec[q].inst].rec = q
    BY <1>1, <1>2, <2>1 DEF EarCore, HooksOf, RecHook
  <2>4. \A j \in Instances : s.hook[j].rec # 0 => Active(s, s.hook[j].rec) /\ s.rec[s.hook[j].rec].inst = j
    BY <1>1, <1>2, <1>3 DEF EarCore, HooksOf, HookRec, Ids
  <2>5. ASSUME NEW j \in Instances, s.hook[j].arm # 0
        PROVE  s.rec[s.hook[j].arm].ask = "asked" /\ s.rec[s.hook[j].arm].inst = j
    <3>. DEFINE q == t.hook[j].arm
    <3>1. s.hook[j].arm = q /\ q \in Recs
      BY <1>3, <2>5 DEF Ids
    <3>2. t.rec[q].ask = "asked" /\ t.rec[q].inst = j
      BY <2>5, <3>1 DEF EarCore, HooksOf, HookAsk
    <3>. HIDE DEF q
    <3>. QED BY <1>1, <3>1, <3>2
  <2>6. \A q \in Recs : s.rec[q].ask = "asked" => s.rec[q].inst = s.mount /\ s.hook[s.mount].arm = q
    <3>1. \A q \in Recs : t.rec[q].ask = "asked" => t.mount \in Instances
      BY DEF EarCore, HooksOf, AskHook, RecsKnown
    <3>. QED BY <1>1, <3>1 DEF EarCore, HooksOf, AskHook
  <2>. QED BY <2>2, <2>3, <2>4, <2>5, <2>6 DEF HooksOf, HookRec, RecHook, HookAsk, AskHook, MicShown
<1>8. StreamsOf(s)
  <2>1. ASSUME NEW j \in Instances, t.hook[j].stream # 0, t.hook[j].rec # 0,
               t.rec[t.hook[j].rec].st = "stopping", ~t.rec[t.hook[j].rec].discard
        PROVE  s.rec[t.hook[j].rec].st = "stopping" /\ ~s.rec[t.hook[j].rec].discard
    <3>1. t.hook[j].rec \in Recs /\ t.hook[j].rec # r
      BY <1>0, <1>3, <2>1 DEF Ids
    <3>. QED BY <1>1, <2>1, <3>1
  <2>2. ASSUME NEW j \in Instances, t.hook[j].stream # 0, j # t.mount \/ t.leg[t.hook[j].stream].finishing
        PROVE  s.hook[j].rec # 0 /\ s.rec[s.hook[j].rec].st = "stopping" /\ ~s.rec[s.hook[j].rec].discard
    <3>1. t.hook[j].rec # 0 /\ t.rec[t.hook[j].rec].st = "stopping" /\ ~t.rec[t.hook[j].rec].discard
      BY <2>2 DEF EarCore, StreamsOf, StreamLeft, StreamEnds
    <3>2. s.rec[t.hook[j].rec].st = "stopping" /\ ~s.rec[t.hook[j].rec].discard
      BY <2>1, <2>2, <3>1
    <3>. QED BY <3>1, <3>2
  <2>3. StreamLeft(s) /\ StreamEnds(s)
    BY <2>2 DEF StreamLeft, StreamEnds
  <2>4. \A q \in Recs : \A j \in Instances :
          (Active(s, q) \/ s.rec[q].ask = "asked") /\ j # s.rec[q].inst => s.hook[j].stream = 0
    BY <1>1, <1>2 DEF EarCore, StreamsOf, StreamAlone
  <2>5. s.closing # 0 => \A j \in Instances : s.hook[j].stream = 0
    BY DEF EarCore, StreamsOf, StreamClosed
  <2>. QED BY <2>3, <2>4, <2>5 DEF StreamsOf, StreamAlone, StreamClosed
<1>9. CallOf(t) /\ s.call = t.call => CallOf(s)
  BY <1>1, <1>2, CallKept
<1>. QED BY <1>4, <1>5, <1>6, <1>7, <1>8, <1>9 DEF EarCore

LEMMA CancelStep ==
  ASSUME Good(tab), Cancel
  PROVE  Good(tab')
<1>. DEFINE i == tab.mount
            r == tab.hook[i].rec
            l == tab.hook[i].stream
            x == [tab.rec[r] EXCEPT !.discard = TRUE, !.st = "stopping",
                                    !.go = IF @ = "owed" THEN "no" ELSE @]
            s == [tab EXCEPT !.rec[r] = x, !.told = @ \cup {r}]
<1>1. i \in Instances /\ Typed(tab) /\ EarCore(tab) /\ CallOf(tab)
  BY DEF Cancel, Good, EarInv, Typed, Instances
<1>2. r \in Ids /\ l \in Ids
  BY <1>1, PartsTyped, ValuesTyped
<1>3. CASE tab.hook[i].arm # 0
  <2>1. "cancel" \in Reasons
    BY DEF Reasons
  <2>2. tab' = StopRec(tab, i, "cancel")
    BY <1>3 DEF Cancel
  <2>. QED BY <1>1, <2>1, <2>2, GoodStop
<1>4. CASE tab.hook[i].arm = 0
  <2>1. r # 0 /\ Recording(tab, r) /\ tab' = IF l = 0 THEN s ELSE DropStream(s, l)
    BY <1>4 DEF Cancel
  <2>2. r \in Recs
    BY <1>2, <2>1 DEF Ids
  <2>3. tab.rec[r] \in RecSet
    BY <1>1, <2>2, PartsTyped
  <2>4. l # 0 => tab.leg[l].inst = i
    BY <1>1 DEF EarCore, LegsKnown, StreamInst
  <2>. HIDE DEF r, l
  <2>5. /\ x \in RecSet /\ x.st = "stopping" /\ x.discard /\ x.inst = tab.rec[r].inst
        /\ x.ask = tab.rec[r].ask /\ x.mic = tab.rec[r].mic /\ x.detector = tab.rec[r].detector
    BY <2>3 DEF RecSet
  <2>. HIDE DEF x
  <2>6. /\ Typed(s) /\ s.rec[r] = x /\ (\A q \in Recs \ {r} : s.rec[q] = tab.rec[q])
        /\ s.hook = tab.hook /\ s.leg = tab.leg /\ s.clip = tab.clip /\ s.owners = tab.owners
        /\ s.closing = tab.closing /\ s.mount = tab.mount /\ s.live = tab.live /\ s.call = tab.call
    BY <1>1, <2>2, <2>5 DEF Typed, Fields
  <2>. HIDE DEF s
  <2>7. EarCore(s) /\ CallOf(s)
    BY <1>1, <2>1, <2>2, <2>5, <2>6, FailKeeps
  <2>8. Good(s)
    BY <2>6, <2>7 DEF Good, EarInv
  <2>9. CASE l # 0
    <3>1. l \in Recs /\ s.leg[l].inst \in Instances
      BY <1>1, <1>2, <2>4, <2>6, <2>9 DEF Ids
    <3>2. Typed(DropStream(s, l)) /\ Calm(s, DropStream(s, l)) /\ DropStream(s, l).call = s.call
      BY <2>6, <3>1, DropCalm
    <3>. QED BY <2>1, <2>8, <2>9, <3>2, GoodCalm
  <2>. QED BY <2>1, <2>8, <2>9
<1>. QED BY <1>3, <1>4

LEMMA RecorderFailsStep ==
  ASSUME Good(tab), NEW r \in Recs, RecorderFails(r)
  PROVE  Good(tab')
<1>. DEFINE i == tab.rec[r].inst
            l == tab.hook[i].stream
            x == [tab.rec[r] EXCEPT !.st = "stopping", !.discard = TRUE, !.mic = FALSE,
                                    !.detector = "off", !.released = FALSE,
                                    !.go = IF @ = "owed" THEN "no" ELSE @]
            h == [tab.hook[i] EXCEPT !.phase = "idle"]
            s == [tab EXCEPT !.rec[r] = x, !.hook[i] = h, !.told = @ \cup {r}]
            d == DropStream(s, l)
            z == IF l = 0 THEN s ELSE d
<1>1. Typed(tab) /\ EarCore(tab) /\ CallOf(tab) /\ Recording(tab, r)
  BY DEF RecorderFails, Good, EarInv
<1>2. i \in Instances /\ <<"rec", r>> \in tab.owners /\ tab.rec[r] \in RecSet
  BY <1>1, PartsTyped DEF EarCore, RecsKnown, OwnersOf, Recording, Active
<1>3. l \in Ids /\ tab.hook[i] \in HookSet /\ (l # 0 => tab.leg[l].inst = i)
  BY <1>1, <1>2, PartsTyped, ValuesTyped DEF EarCore, LegsKnown, StreamInst
<1>4. tab' = EarFreed(z, i)
  <2>1. [tab EXCEPT !.rec[r] = x, !.hook[i].phase = "idle", !.told = @ \cup {r}] = s
    OBVIOUS
  <2>2. tab' = EarFreed(IF l = 0 THEN [tab EXCEPT !.rec[r] = x, !.hook[i].phase = "idle", !.told = @ \cup {r}]
               ELSE DropStream([tab EXCEPT !.rec[r] = x, !.hook[i].phase = "idle", !.told = @ \cup {r}], l), i)
    BY DEF RecorderFails
  <2>. QED BY <2>1, <2>2
<1>. HIDE DEF i, l
<1>5. /\ x \in RecSet /\ x.st = "stopping" /\ x.discard /\ ~x.mic /\ x.inst = tab.rec[r].inst
      /\ x.ask = tab.rec[r].ask /\ x.detector = "off"
  BY <1>2 DEF RecSet
<1>6. h \in HookSet /\ h.arm = tab.hook[i].arm /\ h.rec = tab.hook[i].rec /\ h.stream = tab.hook[i].stream
      /\ h.free = tab.hook[i].free
  BY <1>3 DEF HookSet
<1>. HIDE DEF x, h
<1>7. /\ Typed(s) /\ s.rec[r] = x /\ (\A q \in Recs \ {r} : s.rec[q] = tab.rec[q])
      /\ s.hook[i] = h /\ (\A j \in Instances \ {i} : s.hook[j] = tab.hook[j])
      /\ s.leg = tab.leg /\ s.clip = tab.clip /\ s.owners = tab.owners
      /\ s.closing = tab.closing /\ s.mount = tab.mount /\ s.live = tab.live /\ s.call = tab.call
  BY <1>1, <1>2, <1>5, <1>6 DEF Typed, Fields
<1>. HIDE DEF s
<1>8. \A j \in Instances : /\ s.hook[j].arm = tab.hook[j].arm /\ s.hook[j].rec = tab.hook[j].rec
                           /\ s.hook[j].stream = tab.hook[j].stream /\ s.hook[j].free = tab.hook[j].free
                           /\ \/ s.hook[j].phase = tab.hook[j].phase
                              \/ j = tab.rec[r].inst /\ ~s.rec[r].mic
  BY <1>5, <1>6, <1>7 DEF i
<1>9. EarCore(s) /\ CallOf(s)
  BY <1>1, <1>5, <1>7, <1>8, FailKeeps
<1>10. \A q \in Recs : ~s.rec[q].mic
  <2>1. ASSUME NEW q \in Recs, q # r
        PROVE  ~Active(tab, q) /\ tab.rec[q].ask # "asked"
    BY <1>1, <1>2, <2>1 DEF EarCore, OwnersOf
  <2>2. tab.rec[r].ask = "done"
    BY <1>1 DEF EarCore, RecsKnown, Recording
  <2>. QED BY <1>1, <1>5, <1>7, <2>1, <2>2 DEF EarCore, RecsKnown
<1>11. Good(z) /\ z.rec = s.rec
  <2>1. Good(s)
    BY <1>7, <1>9 DEF Good, EarInv
  <2>2. CASE l # 0
    <3>1. l \in Recs /\ s.leg[l].inst \in Instances
      BY <1>2, <1>3, <1>7, <2>2 DEF Ids
    <3>2. Typed(d) /\ Calm(s, d) /\ d.call = s.call /\ d.rec = s.rec
      BY <1>7, <3>1, DropCalm
    <3>. HIDE DEF d
    <3>. QED BY <2>1, <2>2, <3>2, GoodCalm
  <2>. QED BY <2>1, <2>2
<1>. HIDE DEF z
<1>. QED BY <1>2, <1>4, <1>10, <1>11, FreedKeeps DEF Good, EarInv

LEMMA TailEndsStep ==
  ASSUME Good(tab), NEW r \in Recs, TailEnds(r)
  PROVE  Good(tab')
<1>1. Typed(tab) /\ EarCore(tab) /\ CallOf(tab) /\ Recording(tab, r) /\ tab' = StopNow(tab, tab.rec[r].inst, r)
  BY DEF TailEnds, Good, EarInv, Recording
<1>2. tab.rec[r].inst \in Instances /\ tab.hook[tab.rec[r].inst].rec = r
  BY <1>1 DEF EarCore, RecsKnown, HooksOf, RecHook, Recording, Active
<1>. QED BY <1>1, <1>2, StopNowKeeps DEF Good, EarInv

-----------------------------------------------------------------------------
\* Only clip r of a recording that is over may hold the tab.
LEMMA ClipKeeps ==
  ASSUME NEW t, NEW s, Typed(t), Typed(s), EarCore(t), NEW r \in Recs, t.rec[r].st = "over",
         t.owners \subseteq {<<"clip", r>>}, s.rec = t.rec, s.leg = t.leg, s.mount = t.mount,
         s.live = t.live, s.closing = t.closing, \A q \in Recs \ {r} : s.clip[q] = t.clip[q],
         s.clip[r].st # "none",
         s.owners = IF Posting(s, r) THEN {<<"clip", r>>} ELSE {}, t.closing # 0 => s.owners = {},
         \A j \in Instances : /\ s.hook[j].arm = t.hook[j].arm /\ s.hook[j].rec = t.hook[j].rec
                              /\ s.hook[j].stream = t.hook[j].stream /\ s.hook[j].free = t.hook[j].free
  PROVE  EarCore(s) /\ (CallOf(t) /\ s.call = t.call => CallOf(s))
<1>1. \A q \in Recs : <<"rec", q>> \notin t.owners /\ <<"rec", q>> \notin s.owners
  OBVIOUS
<1>2. \A q \in Recs : ~Active(t, q) /\ t.rec[q].ask # "asked" /\ ~t.rec[q].mic
  BY <1>1 DEF EarCore, OwnersOf, RecsKnown
<1>3. \A q \in Recs : ~Active(s, q)
  BY <1>2 DEF Active
<1>4. RecsKnown(s)
  BY <1>2, <1>3 DEF EarCore, RecsKnown
<1>5. \A j \in Instances : t.hook[j].arm \in Ids /\ t.hook[j].rec \in Ids /\ t.hook[j].stream \in Ids
  BY PartsTyped, ValuesTyped
<1>6. \A j \in Instances : t.hook[j].rec = 0 /\ t.hook[j].arm = 0
  BY <1>2, <1>5 DEF EarCore, HooksOf, HookRec, HookAsk, Ids
<1>7. LegsKnown(s)
  BY DEF EarCore, LegsKnown, LegInst, LegClip, StreamInst, LiveInst
<1>8. OwnersOf(s)
  <2>1. ASSUME NEW q \in Recs, q # r PROVE ~Posting(t, q) /\ ~Posting(s, q)
    <3>1. <<"clip", q>> \notin t.owners
      BY <2>1
    <3>2. ~Posting(t, q)
      BY <3>1 DEF EarCore, OwnersOf
    <3>. QED BY <2>1, <3>2 DEF Posting
  <2>2. \A q \in Recs : <<"clip", q>> \in s.owners <=> Posting(s, q)
    BY <2>1
  <2>. QED BY <1>1, <1>2, <1>3, <2>2 DEF EarCore, OwnersOf
<1>9. HooksOf(s)
  BY <1>2, <1>3, <1>6 DEF HooksOf, HookRec, RecHook, HookAsk, AskHook, MicShown
<1>10. StreamsOf(s)
  <2>1. StreamLeft(s)
    BY <1>2, <1>3, <1>6 DEF EarCore, StreamsOf, StreamLeft
  <2>2. StreamEnds(s)
    BY <1>2, <1>3, <1>6 DEF EarCore, StreamsOf, StreamEnds
  <2>3. StreamAlone(s)
    BY <1>2, <1>3, <1>6 DEF EarCore, StreamAlone
  <2>4. StreamClosed(s)
    BY <1>2, <1>3, <1>6 DEF EarCore, StreamsOf, StreamClosed
  <2>. QED BY <2>1, <2>2, <2>3, <2>4 DEF StreamsOf
<1>11. CallOf(t) /\ s.call = t.call => CallOf(s)
  BY <1>3, CallKept
<1>. QED BY <1>4, <1>7, <1>8, <1>9, <1>10, <1>11 DEF EarCore

\* A clip's record and its hook's phase change, and with them who holds the tab.
PutClip(t, r, c, i, p, o) == [t EXCEPT !.clip[r] = c, !.hook[i].phase = p, !.owners = o]

LEMMA ClipPut ==
  ASSUME NEW t, Typed(t), NEW r \in Recs, NEW c \in ClipSet, NEW i \in Instances,
         NEW p \in {"idle", "recording", "sending"}, NEW o \in SUBSET ({"rec", "clip"} \X Recs)
  PROVE  LET s == PutClip(t, r, c, i, p, o) IN
         /\ Typed(s) /\ s.clip[r] = c /\ (\A q \in Recs \ {r} : s.clip[q] = t.clip[q])
         /\ s.rec = t.rec /\ s.leg = t.leg /\ s.mount = t.mount /\ s.live = t.live
         /\ s.closing = t.closing /\ s.call = t.call /\ s.owners = o
         /\ \A j \in Instances : /\ s.hook[j].arm = t.hook[j].arm /\ s.hook[j].rec = t.hook[j].rec
                                 /\ s.hook[j].stream = t.hook[j].stream /\ s.hook[j].free = t.hook[j].free
<1>. DEFINE h == [t.hook[i] EXCEPT !.phase = p]
            z == [t EXCEPT !.clip[r] = c, !.hook[i] = h, !.owners = o]
<1>1. t.hook[i] \in HookSet
  BY PartsTyped
<1>2. h \in HookSet /\ h.arm = t.hook[i].arm /\ h.rec = t.hook[i].rec /\ h.stream = t.hook[i].stream
      /\ h.free = t.hook[i].free
  BY <1>1 DEF HookSet
<1>3. PutClip(t, r, c, i, p, o) = z
  BY DEF PutClip
<1>. HIDE DEF h
<1>4. /\ Typed(z) /\ z.clip[r] = c /\ (\A q \in Recs \ {r} : z.clip[q] = t.clip[q])
      /\ z.rec = t.rec /\ z.leg = t.leg /\ z.mount = t.mount /\ z.live = t.live
      /\ z.closing = t.closing /\ z.call = t.call /\ z.owners = o
      /\ z.hook[i] = h /\ (\A j \in Instances \ {i} : z.hook[j] = t.hook[j])
  BY <1>2 DEF Typed, Fields
<1>. HIDE DEF z
<1>. QED BY <1>2, <1>3, <1>4

LEMMA SendKeeps ==
  ASSUME NEW t, Good(t), NEW r \in Recs, t.rec[r].st = "over", t.owners = {}, t.closing = 0,
         BoundsAssumption
  PROVE  Good(SendClip(t, r)) /\ SendClip(t, r).owners = {<<"clip", r>>}
<1>. DEFINE i == t.rec[r].inst
            v == IF world.online THEN "post" ELSE "offline"
            c == [t.clip[r] EXCEPT !.st = v, !.attempt = 1]
            o == t.owners \cup {<<"clip", r>>}
            s == PutClip(t, r, c, i, "sending", o)
<1>1. Typed(t) /\ EarCore(t) /\ CallOf(t)
  BY DEF Good, EarInv
<1>2. i \in Instances
  BY <1>1 DEF EarCore, RecsKnown
<1>3. t.clip[r] \in ClipSet
  BY <1>1, PartsTyped
<1>4. 1 \in 0 .. Attempts
  BY DEF BoundsAssumption
<1>5. v \in {"post", "offline"}
  OBVIOUS
<1>6. SendClip(t, r) = s
  BY DEF SendClip, PutClip
<1>. HIDE DEF v
<1>7. c \in ClipSet /\ c.st = v
  BY <1>3, <1>4, <1>5 DEF ClipSet
<1>8. o = {<<"clip", r>>} /\ o \in SUBSET ({"rec", "clip"} \X Recs)
  OBVIOUS
<1>. HIDE DEF c, o, i
<1>9. /\ Typed(s) /\ s.clip[r] = c /\ (\A q \in Recs \ {r} : s.clip[q] = t.clip[q])
      /\ s.rec = t.rec /\ s.leg = t.leg /\ s.mount = t.mount /\ s.live = t.live
      /\ s.closing = t.closing /\ s.call = t.call /\ s.owners = o
      /\ \A j \in Instances : /\ s.hook[j].arm = t.hook[j].arm /\ s.hook[j].rec = t.hook[j].rec
                              /\ s.hook[j].stream = t.hook[j].stream /\ s.hook[j].free = t.hook[j].free
  BY <1>1, <1>2, <1>7, <1>8, ClipPut
<1>. HIDE DEF s
<1>10. Posting(s, r) /\ s.clip[r].st # "none"
  BY <1>5, <1>7, <1>9 DEF Posting
<1>11. EarCore(s) /\ CallOf(s)
  BY <1>1, <1>8, <1>9, <1>10, ClipKeeps
<1>. QED BY <1>6, <1>8, <1>9, <1>11 DEF Good, EarInv

LEMMA LeaveKeeps ==
  ASSUME NEW t, Good(t), NEW r \in Recs, Posting(t, r), NEW st \in {"gone", "parked"}
  PROVE  Good(LeaveLoop(t, r, st))
<1>. DEFINE i == t.rec[r].inst
            c == [t.clip[r] EXCEPT !.st = st]
            o == t.owners \ {<<"clip", r>>}
            s == PutClip(t, r, c, i, "idle", o)
<1>1. Typed(t) /\ EarCore(t) /\ CallOf(t)
  BY DEF Good, EarInv
<1>2. t.rec[r].st = "over" /\ t.owners = {<<"clip", r>>} /\ t.clip[r] \in ClipSet /\ t.closing = 0
  <2>1. t.rec[r].st = "over" /\ t.clip[r] \in ClipSet
    BY <1>1, PartsTyped DEF EarCore, RecsKnown, Posting
  <2>2. <<"clip", r>> \in t.owners /\ \A a, b \in t.owners : a = b
    BY <1>1 DEF EarCore, OwnersOf
  <2>3. t.owners = {<<"clip", r>>}
    BY <2>2
  <2>4. t.closing = 0
    BY <1>1, <2>2 DEF EarCore, OwnersOf
  <2>. QED BY <2>1, <2>3, <2>4
<1>3. i \in Instances
  BY <1>1, <1>2 DEF EarCore, RecsKnown
<1>4. LeaveLoop(t, r, st) = ClipDone(s, r)
  <2>1. [t EXCEPT !.clip[r].st = st, !.hook[i].phase = "idle", !.owners = o] = s
    BY DEF PutClip
  <2>. QED BY <2>1 DEF LeaveLoop
<1>5. c \in ClipSet /\ c.st = st
  BY <1>2 DEF ClipSet
<1>6. o = {} /\ o \in SUBSET ({"rec", "clip"} \X Recs)
  BY <1>2
<1>. HIDE DEF c, o, i
<1>9. /\ Typed(s) /\ s.clip[r] = c /\ (\A q \in Recs \ {r} : s.clip[q] = t.clip[q])
      /\ s.rec = t.rec /\ s.leg = t.leg /\ s.mount = t.mount /\ s.live = t.live
      /\ s.closing = t.closing /\ s.call = t.call /\ s.owners = o
      /\ \A j \in Instances : /\ s.hook[j].arm = t.hook[j].arm /\ s.hook[j].rec = t.hook[j].rec
                              /\ s.hook[j].stream = t.hook[j].stream /\ s.hook[j].free = t.hook[j].free
  BY <1>1, <1>3, <1>5, <1>6, ClipPut
<1>. HIDE DEF s
<1>10. ~Posting(s, r) /\ s.clip[r].st # "none"
  BY <1>5, <1>9 DEF Posting
<1>11. EarCore(s) /\ CallOf(s)
  <2>1. t.owners \subseteq {<<"clip", r>>} /\ s.owners = {} /\ t.closing = 0
    BY <1>2, <1>6, <1>9
  <2>. QED BY <1>1, <1>2, <1>9, <1>10, <2>1, ClipKeeps
<1>12. Good(s)
  BY <1>9, <1>11 DEF Good, EarInv
<1>13. Typed(ClipDone(s, r)) /\ Calm(s, ClipDone(s, r)) /\ ClipDone(s, r).call = s.call
  BY <1>9, <1>11, ClipDoneCalm DEF EarCore
<1>. QED BY <1>4, <1>12, <1>13, GoodCalm

LEMMA UploadKeeps ==
  ASSUME NEW t, Good(t), NEW r \in Recs, t.rec[r].st = "over", t.owners = {}, t.closing = 0,
         NEW k \in Slots, NEW send \in BOOLEAN, NEW brief \in BOOLEAN, BoundsAssumption
  PROVE  Good(Upload(t, r, k, send, brief))
         /\ Upload(t, r, k, send, brief).owners \subseteq {<<"clip", r>>}
<1>. DEFINE i == t.rec[r].inst
            own == Said(r, 1 .. MaxSaid)
            c == [t.clip[r] EXCEPT !.slot = k, !.send = send]
            s == [t EXCEPT !.clip[r] = c, !.unheard = @ \ own, !.eaten = @ \ own]
            u == [s EXCEPT !.told = @ \cup {r}]
            c2 == [u.clip[r] EXCEPT !.st = "gone"]
            z == PutClip(u, r, c2, i, "idle", u.owners)
<1>1. Typed(t) /\ EarCore(t) /\ CallOf(t)
  BY DEF Good, EarInv
<1>2. i \in Instances /\ t.clip[r] \in ClipSet
  BY <1>1, PartsTyped DEF EarCore, RecsKnown
<1>3. Upload(t, r, k, send, brief) =
         IF brief THEN ClipDone([s EXCEPT !.told = @ \cup {r}, !.clip[r].st = "gone",
                                          !.hook[i].phase = "idle"], r)
         ELSE SendClip(s, r)
  <2>1. s.rec = t.rec
    BY <1>1 DEF Typed, Fields
  <2>. QED BY <2>1 DEF Upload
<1>4. c \in ClipSet /\ c.st = t.clip[r].st
  BY <1>2 DEF ClipSet
<1>. HIDE DEF c, i, own
<1>5. /\ Typed(s) /\ s.clip[r] = c /\ (\A q \in Recs \ {r} : s.clip[q] = t.clip[q])
      /\ s.rec = t.rec /\ s.leg = t.leg /\ s.mount = t.mount /\ s.live = t.live /\ s.hook = t.hook
      /\ s.closing = t.closing /\ s.call = t.call /\ s.owners = t.owners
  BY <1>1, <1>4 DEF Typed, Fields
<1>. HIDE DEF s
<1>6. CalmClips(t, s)
  BY <1>4, <1>5 DEF CalmClips, Posting
<1>7. Calm(t, s)
  BY <1>5, <1>6 DEF Calm, CalmHooks, CalmRecs, CalmLegs, CalmLeg
<1>8. Good(s)
  BY <1>5, <1>7, GoodCalm
<1>9. CASE ~brief
  BY <1>3, <1>5, <1>8, <1>9, SendKeeps
<1>10. CASE brief
  <2>1. Typed(u) /\ SameButDrafts(s, u)
    BY <1>5 DEF Typed, Fields, SameButDrafts
  <2>2. Good(u)
    BY <1>8, <2>1, GoodSame
  <2>3. u.clip[r] \in ClipSet /\ s.clip[r] \in ClipSet
    BY <1>5, <2>1, PartsTyped
  <2>4. c2 \in ClipSet /\ c2.st = "gone"
    BY <2>3 DEF ClipSet
  <2>5. [s EXCEPT !.told = @ \cup {r}, !.clip[r].st = "gone", !.hook[i].phase = "idle"] = z
    BY <1>5, <2>1 DEF PutClip, Typed, Fields, SameButDrafts
  <2>. HIDE DEF u, c2
  <2>6. u.owners = {} /\ {} \in SUBSET ({"rec", "clip"} \X Recs)
    BY <1>5, <2>1 DEF SameButDrafts
  <2>7. /\ Typed(z) /\ z.clip[r] = c2 /\ (\A q \in Recs \ {r} : z.clip[q] = u.clip[q])
        /\ z.rec = u.rec /\ z.leg = u.leg /\ z.mount = u.mount /\ z.live = u.live
        /\ z.closing = u.closing /\ z.call = u.call /\ z.owners = u.owners
        /\ \A j \in Instances : /\ z.hook[j].arm = u.hook[j].arm /\ z.hook[j].rec = u.hook[j].rec
                                /\ z.hook[j].stream = u.hook[j].stream /\ z.hook[j].free = u.hook[j].free
    BY <1>2, <2>1, <2>4, <2>6, ClipPut
  <2>. HIDE DEF z
  <2>8. ~Posting(z, r) /\ z.clip[r].st # "none"
    BY <2>4, <2>7 DEF Posting
  <2>9. EarCore(z) /\ CallOf(z)
    <3>1. u.rec[r].st = "over" /\ u.owners \subseteq {<<"clip", r>>} /\ z.owners = {}
      BY <1>5, <2>1, <2>6, <2>7 DEF SameButDrafts
    <3>2. EarCore(u) /\ CallOf(u) /\ Typed(u)
      BY <2>2 DEF Good, EarInv
    <3>. QED BY <2>7, <2>8, <3>1, <3>2, ClipKeeps
  <2>10. Good(z)
    BY <2>7, <2>9 DEF Good, EarInv
  <2>11. Typed(ClipDone(z, r)) /\ Calm(z, ClipDone(z, r)) /\ ClipDone(z, r).call = z.call
    BY <2>7, <2>9, ClipDoneCalm DEF EarCore
  <2>12. Good(ClipDone(z, r)) /\ ClipDone(z, r).owners = {}
    BY <2>6, <2>7, <2>10, <2>11, GoodCalm DEF Calm
  <2>. QED BY <1>3, <1>10, <2>5, <2>12
<1>. QED BY <1>9, <1>10

LEMMA IdleKeeps ==
  ASSUME NEW t, Good(t), t.owners = {}, NEW i \in Instances
  PROVE  LET s == [t EXCEPT !.hook[i].phase = "idle"] IN Good(s) /\ s.leg = t.leg
<1>. DEFINE h == [t.hook[i] EXCEPT !.phase = "idle"]
            s == [t EXCEPT !.hook[i] = h]
<1>1. Typed(t) /\ EarCore(t) /\ CallOf(t) /\ t.hook[i] \in HookSet
  BY PartsTyped DEF Good, EarInv
<1>2. h \in HookSet /\ h.arm = t.hook[i].arm /\ h.rec = t.hook[i].rec /\ h.stream = t.hook[i].stream
      /\ h.free = t.hook[i].free
  BY <1>1 DEF HookSet
<1>3. [t EXCEPT !.hook[i].phase = "idle"] = s
  OBVIOUS
<1>. HIDE DEF h
<1>4. /\ Typed(s) /\ s.rec = t.rec /\ s.leg = t.leg /\ s.clip = t.clip /\ s.mount = t.mount /\ s.live = t.live
      /\ s.closing = t.closing /\ s.call = t.call /\ s.owners = t.owners
      /\ s.hook[i] = h /\ (\A j \in Instances \ {i} : s.hook[j] = t.hook[j])
  BY <1>1, <1>2 DEF Typed, Fields
<1>. HIDE DEF s
<1>5. \A j \in Instances : /\ s.hook[j].arm = t.hook[j].arm /\ s.hook[j].rec = t.hook[j].rec
                           /\ s.hook[j].stream = t.hook[j].stream /\ s.hook[j].free = t.hook[j].free
  BY <1>2, <1>4
<1>6. \A q \in Recs : ~Active(t, q) /\ t.rec[q].ask # "asked" /\ ~t.rec[q].mic
  BY <1>1 DEF EarCore, OwnersOf, RecsKnown
<1>7. \A j \in Instances : t.hook[j].arm \in Ids /\ t.hook[j].rec \in Ids
  BY <1>1, PartsTyped, ValuesTyped
<1>8. \A j \in Instances : t.hook[j].rec = 0 /\ t.hook[j].arm = 0
  BY <1>1, <1>6, <1>7 DEF EarCore, HooksOf, HookRec, HookAsk, Ids
<1>9. RecsKnown(s) /\ OwnersOf(s)
  BY <1>1, <1>4 DEF EarCore, RecsKnown, OwnersOf, Active, Posting
<1>10. LegsKnown(s)
  BY <1>1, <1>4, <1>5 DEF EarCore, LegsKnown, LegInst, LegClip, StreamInst, LiveInst
<1>11. HooksOf(s) /\ StreamsOf(s)
  <2>1. HookRec(s)
    BY <1>1, <1>4, <1>5, <1>6, <1>8 DEF EarCore, HooksOf, HookRec, Active
  <2>2. RecHook(s)
    BY <1>1, <1>4, <1>5, <1>6, <1>8 DEF EarCore, HooksOf, RecHook, Active
  <2>3. HookAsk(s)
    BY <1>1, <1>4, <1>5, <1>6, <1>8 DEF EarCore, HooksOf, HookAsk, Active
  <2>4. AskHook(s)
    BY <1>1, <1>4, <1>5, <1>6, <1>8 DEF EarCore, HooksOf, AskHook, Active
  <2>5. MicShown(s)
    BY <1>1, <1>4, <1>5, <1>6, <1>8 DEF EarCore, HooksOf, MicShown, Active
  <2>6. StreamLeft(s)
    BY <1>1, <1>4, <1>5, <1>6, <1>8 DEF EarCore, StreamsOf, StreamLeft, Active
  <2>7. StreamEnds(s)
    BY <1>1, <1>4, <1>5, <1>6, <1>8 DEF EarCore, StreamsOf, StreamEnds, Active
  <2>8. StreamAlone(s)
    BY <1>1, <1>4, <1>5, <1>6, <1>8 DEF EarCore, StreamsOf, StreamAlone, Active
  <2>9. StreamClosed(s)
    BY <1>1, <1>4, <1>5, <1>6, <1>8 DEF EarCore, StreamsOf, StreamClosed, Active
  <2>. QED BY <2>1, <2>2, <2>3, <2>4, <2>5, <2>6, <2>7, <2>8, <2>9 DEF HooksOf, StreamsOf
<1>12. CallOf(s)
  BY <1>1, <1>4, <1>5, CallKept DEF Active
<1>. QED BY <1>3, <1>4, <1>9, <1>10, <1>11, <1>12 DEF Good, EarInv, EarCore

\* The leg a release held is closed: the next one may open, and a call has the ear.
ReleasedLeg(t, l) == Released([t EXCEPT !.leg[l].st = "closed", !.leg[l].fin = "no"], l)

LEMMA ReleasedKeeps ==
  ASSUME NEW t, Good(t), NEW l \in Recs, t.leg[l].fin \in Holding
  PROVE  LET s == ReleasedLeg(t, l) IN
         /\ Good(s) /\ s.owners = {} /\ s.closing = 0 /\ s.rec = t.rec
         /\ s.leg[l].inst = t.leg[l].inst /\ s.leg[l].clip = t.leg[l].clip
         /\ s.leg[l].fin = "no"
<1>. DEFINE x == [t.leg[l] EXCEPT !.st = "closed", !.fin = "no"]
            u == [t EXCEPT !.leg[l] = x]
            v == [t.call EXCEPT !.st = IF t.call.st = "leg" /\ t.call.on = l THEN "up" ELSE t.call.st]
            s == [u EXCEPT !.closing = 0, !.call = v]
<1>1. Typed(t) /\ EarCore(t) /\ CallOf(t) /\ t.leg[l] \in LegSet /\ t.call \in CallSet
  BY PartsTyped DEF Good, EarInv, Typed
<1>2. t.closing = l /\ l # 0 /\ t.owners = {} /\ t.leg[l].inst \in Instances
  BY <1>1 DEF EarCore, OwnersOf, LegsKnown, LegClip, Holding, Recs
<1>3. [t EXCEPT !.leg[l].st = "closed", !.leg[l].fin = "no"] = u
  BY <1>1 DEF Typed, Fields, LegSet
<1>4. /\ x \in LegSet /\ x.inst = t.leg[l].inst /\ x.clip = t.leg[l].clip /\ x.fin = "no"
      /\ x.finishing = t.leg[l].finishing
  BY <1>1 DEF LegSet
<1>5. /\ v \in CallSet /\ v.st # "leg" /\ v.early = t.call.early
      /\ v.st \in {"no", "ear"} => v.st = t.call.st
      /\ t.call.st = "ear" => v.st = "ear"
  BY <1>1, <1>2 DEF CallSet, CallOf, CallLeg
<1>. HIDE DEF x
<1>6. /\ Typed(u) /\ u.leg[l] = x /\ (\A m \in Recs \ {l} : u.leg[m] = t.leg[m])
      /\ u.hook = t.hook /\ u.rec = t.rec /\ u.clip = t.clip /\ u.owners = t.owners
      /\ u.closing = t.closing /\ u.call = t.call /\ u.mount = t.mount /\ u.live = t.live
  BY <1>1, <1>4, LegPut
<1>. HIDE DEF u
<1>7. ReleasedLeg(t, l) = s
  <2>1. ReleasedLeg(t, l) = Released(u, l)
    BY <1>3 DEF ReleasedLeg
  <2>. QED BY <1>2, <1>6, <2>1 DEF Released, Typed, Fields
<1>. HIDE DEF v
<1>8. /\ Typed(s) /\ s.leg = u.leg /\ s.hook = u.hook /\ s.rec = u.rec /\ s.clip = u.clip
      /\ s.owners = u.owners /\ s.closing = 0 /\ s.call = v /\ s.mount = u.mount /\ s.live = u.live
  BY <1>5, <1>6 DEF Typed, Fields, Ids
<1>. HIDE DEF s
<1>9. \A q \in Recs : ~Active(t, q) /\ t.rec[q].ask # "asked" /\ ~t.rec[q].mic
  BY <1>1, <1>2 DEF EarCore, OwnersOf, RecsKnown
<1>10. RecsKnown(s)
  BY <1>1, <1>6, <1>8 DEF EarCore, RecsKnown, Active
<1>11. LegsKnown(s)
  <2>1. \A m \in Recs : s.leg[m].inst = t.leg[m].inst
    BY <1>4, <1>6, <1>8
  <2>2. \A m \in Recs : s.leg[m].fin # "no" => m # l
    BY <1>4, <1>6, <1>8
  <2>3. t.live \in Ids /\ \A j \in Instances : t.hook[j].stream = 0
    BY <1>1, <1>2 DEF Typed, EarCore, StreamsOf, StreamClosed
  <2>4. \A m \in Recs : s.leg[m].st # "none" => s.leg[m].inst \in Instances
    BY <1>1, <1>2, <1>4, <1>6, <1>8 DEF EarCore, LegsKnown, LegInst
  <2>5. \A m \in Recs : s.leg[m].fin # "no" =>
          s.leg[m].clip \in Recs /\ s.rec[s.leg[m].clip].st = "over" /\ s.leg[m].inst \in Instances
    BY <1>1, <1>6, <1>8, <2>2 DEF EarCore, LegsKnown, LegClip
  <2>. QED BY <1>1, <1>6, <1>8, <2>1, <2>3, <2>4, <2>5 DEF EarCore, LegsKnown, LegInst, LegClip, StreamInst, LiveInst, Ids
<1>12. OwnersOf(s)
  <2>1. \A m \in Recs : s.leg[m].fin \notin Holding
    BY <1>1, <1>2, <1>4, <1>6, <1>8 DEF EarCore, OwnersOf, Holding
  <2>2. \A m \in Recs : m # 0
    BY DEF Recs
  <2>. QED BY <1>1, <1>6, <1>8, <2>1, <2>2 DEF EarCore, OwnersOf, Active, Posting
<1>13. HooksOf(s)
  <2>1. HookRec(s)
    BY <1>1, <1>6, <1>8 DEF EarCore, HooksOf, HookRec, Active
  <2>2. RecHook(s)
    BY <1>1, <1>6, <1>8 DEF EarCore, HooksOf, RecHook, Active
  <2>3. HookAsk(s)
    BY <1>1, <1>6, <1>8 DEF EarCore, HooksOf, HookAsk, Active
  <2>4. AskHook(s)
    BY <1>1, <1>6, <1>8 DEF EarCore, HooksOf, AskHook, Active
  <2>5. MicShown(s)
    BY <1>1, <1>6, <1>8 DEF EarCore, HooksOf, MicShown, Active
  <2>. QED BY <2>1, <2>2, <2>3, <2>4, <2>5 DEF HooksOf
<1>14. StreamsOf(s)
  <2>1. StreamLeft(s)
    BY <1>1, <1>2, <1>6, <1>8 DEF EarCore, StreamsOf, StreamLeft, Active
  <2>2. StreamEnds(s)
    BY <1>1, <1>2, <1>6, <1>8 DEF EarCore, StreamsOf, StreamEnds, StreamClosed, Active
  <2>3. StreamAlone(s)
    BY <1>1, <1>2, <1>6, <1>8 DEF EarCore, StreamsOf, StreamAlone, Active
  <2>4. StreamClosed(s)
    BY <1>1, <1>2, <1>6, <1>8 DEF EarCore, StreamClosed, Active
  <2>. QED BY <2>1, <2>2, <2>3, <2>4 DEF StreamsOf
<1>15. CallOf(s)
  <2>1. CallLeg(s)
    BY <1>5, <1>6, <1>8, <1>9 DEF CallLeg
  <2>2. FreeOf(s)
    BY <1>1, <1>5, <1>6, <1>8, <1>9 DEF CallOf, FreeOf, Active
  <2>. QED BY <2>1, <2>2 DEF CallOf
<1>. QED BY <1>2, <1>4, <1>6, <1>7, <1>8, <1>10, <1>11, <1>12, <1>13, <1>14, <1>15 DEF Good, EarInv, EarCore

LEMMA FinishKeeps ==
  ASSUME NEW t, Good(t), NEW l \in Recs, t.leg[l].fin \in Holding, NEW brief \in BOOLEAN,
         BoundsAssumption
  PROVE  Good(FinishEnds(t, l, brief))
<1>. DEFINE r == t.leg[l].clip
            i == t.leg[l].inst
            k == t.leg[l].slot
            nav == t.leg[l].reason = "navigated"
            s == ReleasedLeg(t, l)
            w == AppendPhrase(s, l, {})
            a == IF nav THEN w ELSE AutoSend(w, r, k)
            b == [a EXCEPT !.hook[i].phase = "idle"]
            y == [w.leg[l] EXCEPT !.fin = "upload"]
            u == [w EXCEPT !.leg[l] = y]
<1>1. Typed(t) /\ EarCore(t)
  BY DEF Good, EarInv
<1>2. r \in Recs /\ i \in Instances /\ k \in Slots /\ t.rec[r].st = "over"
  BY <1>1, PartsTyped, ValuesTyped DEF EarCore, LegsKnown, LegClip, Holding
<1>3. FinishEnds(t, l, brief) =
        IF w.leg[l].finals THEN Ended(b, l) ELSE Upload(u, r, k, ~nav, brief)
  BY DEF FinishEnds, ReleasedLeg
<1>4. /\ Good(s) /\ s.owners = {} /\ s.closing = 0 /\ s.rec = t.rec
      /\ s.leg[l].inst = i /\ s.leg[l].clip = r /\ s.leg[l].fin = "no"
  BY ReleasedKeeps
<1>. HIDE DEF s, r, i, k, nav
<1>5. /\ Typed(w) /\ SameButLeg(s, w, l) /\ Calm(s, w) /\ w.leg[l].inst = i /\ w.leg[l].clip = r
      /\ w.leg[l].fin = "no"
  BY <1>4, PhraseCalm DEF Good
<1>6. Good(w) /\ w.owners = {} /\ w.closing = 0 /\ w.rec = t.rec
  BY <1>4, <1>5, GoodCalm DEF SameButLeg
<1>. HIDE DEF w
<1>7. CASE w.leg[l].finals
  <2>1. Good(a) /\ a.owners = {} /\ a.leg = w.leg
    <3>1. Typed(AutoSend(w, r, k)) /\ SameButDrafts(w, AutoSend(w, r, k))
      BY <1>2, <1>5, SendTyped, DraftsSame
    <3>2. Good(AutoSend(w, r, k))
      BY <1>6, <3>1, GoodSame
    <3>. QED BY <1>6, <3>1, <3>2 DEF SameButDrafts
  <2>. HIDE DEF a
  <2>2. Good(b) /\ b.leg = a.leg
    BY <1>2, <2>1, IdleKeeps
  <2>. HIDE DEF b
  <2>3. b.leg[l].inst \in Instances /\ Typed(b)
    BY <1>2, <1>5, <2>1, <2>2 DEF Good
  <2>4. Typed(Ended(b, l)) /\ SameButLeg(b, Ended(b, l), l) /\ Calm(b, Ended(b, l))
    BY <2>3, EndedCalm
  <2>5. Good(Ended(b, l))
    BY <2>2, <2>4, GoodCalm DEF SameButLeg
  <2>. QED BY <1>3, <1>7, <2>5
<1>8. CASE ~w.leg[l].finals
  <2>1. w.leg[l] \in LegSet
    BY <1>5, PartsTyped
  <2>2. /\ y \in LegSet /\ y.inst = w.leg[l].inst /\ y.st = w.leg[l].st /\ y.fin = "upload"
        /\ y.clip = w.leg[l].clip /\ y.finishing = w.leg[l].finishing
    BY <2>1 DEF LegSet
  <2>. HIDE DEF y
  <2>3. /\ Typed(u) /\ u.leg[l] = y /\ (\A m \in Recs \ {l} : u.leg[m] = w.leg[m])
        /\ u.hook = w.hook /\ u.rec = w.rec /\ u.clip = w.clip /\ u.owners = w.owners
        /\ u.closing = w.closing /\ u.call = w.call /\ u.mount = w.mount /\ u.live = w.live
    BY <1>5, <2>2, LegPut
  <2>. HIDE DEF u
  <2>4. EarCore(w) /\ CallOf(w)
    BY <1>6 DEF Good, EarInv
  <2>5. \A m \in Recs : /\ u.leg[m].inst = w.leg[m].inst /\ u.leg[m].st = w.leg[m].st
                        /\ u.leg[m].finishing = w.leg[m].finishing
                        /\ u.leg[m].clip = w.leg[m].clip
                        /\ m # l => u.leg[m].fin = w.leg[m].fin
    BY <2>2, <2>3
  <2>6. RecsKnown(u) /\ HooksOf(u)
    <3>1. RecsKnown(u)
      BY <2>3, <2>4 DEF EarCore, RecsKnown, Active
    <3>2. HookRec(u)
      BY <2>3, <2>4 DEF EarCore, RecsKnown, HooksOf, HookRec, Active
    <3>3. RecHook(u)
      BY <2>3, <2>4 DEF EarCore, RecsKnown, HooksOf, RecHook, Active
    <3>4. HookAsk(u)
      BY <2>3, <2>4 DEF EarCore, RecsKnown, HooksOf, HookAsk, Active
    <3>5. AskHook(u)
      BY <2>3, <2>4 DEF EarCore, RecsKnown, HooksOf, AskHook, Active
    <3>6. MicShown(u)
      BY <2>3, <2>4 DEF EarCore, RecsKnown, HooksOf, MicShown, Active
    <3>. QED BY <3>1, <3>2, <3>3, <3>4, <3>5, <3>6 DEF HooksOf
  <2>7. LegsKnown(u)
    <3>1. \A m \in Recs : u.leg[m].fin # "no" =>
            u.leg[m].clip \in Recs /\ u.rec[u.leg[m].clip].st = "over" /\ u.leg[m].inst \in Instances
      BY <1>2, <1>5, <1>6, <2>3, <2>4, <2>5 DEF EarCore, LegsKnown, LegClip
    <3>2. w.live \in Ids /\ \A j \in Instances : w.hook[j].stream \in Ids
      BY <1>5, PartsTyped, ValuesTyped DEF Typed
    <3>. QED BY <2>3, <2>4, <2>5, <3>1, <3>2 DEF EarCore, LegsKnown, LegInst, LegClip, StreamInst, LiveInst, Ids
  <2>8. OwnersOf(u)
    <3>1. \A m \in Recs : u.leg[m].fin \in Holding <=> w.leg[m].fin \in Holding
      BY <1>5, <2>2, <2>3, <2>5 DEF Holding
    <3>. QED BY <2>3, <2>4, <3>1 DEF EarCore, OwnersOf, Active, Posting
  <2>9. StreamsOf(u)
    <3>1. \A j \in Instances : w.hook[j].stream \in Ids
      BY <1>5, PartsTyped, ValuesTyped
    <3>. QED BY <2>3, <2>4, <2>5, <3>1 DEF EarCore, StreamsOf, StreamLeft, StreamEnds, StreamAlone, StreamClosed, Active, Ids
  <2>10. CallOf(u)
    BY <2>3, <2>4, CallKept DEF Active
  <2>11. Good(u)
    BY <2>3, <2>6, <2>7, <2>8, <2>9, <2>10 DEF Good, EarInv, EarCore
  <2>12. Good(Upload(u, r, k, ~nav, brief))
    <3>1. (~nav) \in BOOLEAN
      OBVIOUS
    <3>2. u.rec[r].st = "over" /\ u.owners = {} /\ u.closing = 0
      BY <1>2, <1>6, <2>3
    <3>. QED BY <1>2, <2>11, <3>1, <3>2, UploadKeeps
  <2>. QED BY <1>3, <1>8, <2>12
<1>. QED BY <1>7, <1>8

\* A held leg that is found dead, or has been answered, is finished.
LEMMA DeadLeg ==
  ASSUME NEW t, Good(t), NEW l \in Recs
  PROVE  LET s == TellIfHeard([t EXCEPT !.leg[l].dead = TRUE], l) IN
         Good(s) /\ s.leg[l].fin = t.leg[l].fin
<1>. DEFINE y == [t.leg[l] EXCEPT !.dead = TRUE]
            u == [t EXCEPT !.leg[l] = y]
<1>1. Typed(t) /\ t.leg[l] \in LegSet
  BY PartsTyped DEF Good
<1>2. y \in LegSet /\ CalmLeg(t.leg[l], y) /\ y.fin = t.leg[l].fin
  BY <1>1 DEF LegSet, CalmLeg
<1>. HIDE DEF y
<1>3. Typed(u) /\ SameButLeg(t, u, l) /\ u.leg[l] = y
  BY <1>1, <1>2, LegPut DEF SameButLeg
<1>4. [t EXCEPT !.leg[l].dead = TRUE] = u
  BY DEF y
<1>. HIDE DEF u
<1>5. Good(u)
  BY <1>2, <1>3, CalmButLeg, GoodCalm DEF SameButLeg
<1>6. Typed(TellIfHeard(u, l)) /\ SameButDrafts(u, TellIfHeard(u, l))
  BY <1>3, TellSame
<1>7. Good(TellIfHeard(u, l))
  BY <1>5, <1>6, GoodSame
<1>. QED BY <1>2, <1>3, <1>4, <1>6, <1>7 DEF SameButDrafts

LEMMA FinishSteps ==
  ASSUME Good(tab), NEW l \in Recs, NEW brief \in BOOLEAN, BoundsAssumption
  PROVE  /\ Drained(l, brief) => Good(tab')
         /\ DrainRunsOut(l, brief) => Good(tab')
         /\ TailRunsOut(l, brief) => Good(tab')
         /\ Flushed(l, brief) => Good(tab')
         /\ TailEnded(l, brief) => Good(tab')
<1>. DEFINE d == TellIfHeard([tab EXCEPT !.leg[l].dead = TRUE], l)
<1>1. Good(d) /\ d.leg[l].fin = tab.leg[l].fin
  BY DeadLeg
<1>2. tab.leg[l].fin \in Holding => Good(FinishEnds(tab, l, brief)) /\ Good(FinishEnds(d, l, brief))
  <2>. HIDE DEF d
  <2>. QED BY <1>1, FinishKeeps
<1>3. ASSUME Drained(l, brief) PROVE Good(tab')
  <2>1. tab.leg[l].fin = "drain" /\ tab.leg[l].fin \in Holding
    BY <1>3 DEF Drained, Holding
  <2>2. \/ tab' = FinishEnds(tab, l, brief) \/ tab' = FinishEnds(d, l, brief)
        \/ tab' = [tab EXCEPT !.leg[l].fin = "tail"]
    BY <1>3 DEF Drained
  <2>3. Good([tab EXCEPT !.leg[l].fin = "tail"])
    <3>. DEFINE y == [tab.leg[l] EXCEPT !.fin = "tail"]
                u == [tab EXCEPT !.leg[l] = y]
    <3>1. tab.leg[l] \in LegSet /\ Typed(tab)
      BY PartsTyped DEF Good
    <3>2. y \in LegSet /\ CalmLeg(tab.leg[l], y)
      BY <2>1, <3>1 DEF LegSet, CalmLeg, Holding
    <3>. HIDE DEF y
    <3>3. Typed(u) /\ SameButLeg(tab, u, l) /\ u.leg[l] = y
      BY <3>1, <3>2, LegPut DEF SameButLeg
    <3>4. [tab EXCEPT !.leg[l].fin = "tail"] = u
      BY DEF y
    <3>. HIDE DEF u
    <3>. QED BY <3>2, <3>3, <3>4, CalmButLeg, GoodCalm DEF SameButLeg
  <2>. HIDE DEF d
  <2>. QED BY <1>2, <2>1, <2>2, <2>3
<1>4. ASSUME DrainRunsOut(l, brief) PROVE Good(tab')
  BY <1>2, <1>4 DEF DrainRunsOut, Holding
<1>5. ASSUME TailRunsOut(l, brief) PROVE Good(tab')
  <2>. DEFINE late == IF tab.leg[l].finals \/ tab.leg[l].held # {}
                      THEN Said(l, tab.leg[l].heard \ tab.leg[l].got) ELSE {}
              u == [tab EXCEPT !.unheard = @ \cup late]
  <2>1. tab.leg[l].fin = "tail" /\ tab' = FinishEnds(u, l, brief)
    BY <1>5 DEF TailRunsOut
  <2>2. tab.leg[l].heard \subseteq Nums
    <3>1. tab.leg[l] \in LegSet
      BY PartsTyped DEF Good
    <3>. QED BY <3>1 DEF LegSet
  <2>3. late \subseteq PhraseSet
    BY <2>2 DEF Said, PhraseSet
  <2>. HIDE DEF late
  <2>4. Typed(u) /\ SameButDrafts(tab, u)
    BY <2>3 DEF Good, Typed, Fields, SameButDrafts
  <2>. HIDE DEF u
  <2>5. Good(u) /\ u.leg[l].fin \in Holding
    BY <2>1, <2>4, GoodSame DEF SameButDrafts, Holding
  <2>. QED BY <2>1, <2>5, FinishKeeps
<1>6. ASSUME Flushed(l, brief) PROVE Good(tab')
  BY <1>2, <1>6 DEF Flushed, Holding
<1>7. ASSUME TailEnded(l, brief) PROVE Good(tab')
  BY <1>2, <1>7 DEF TailEnded, Holding
<1>. QED BY <1>3, <1>4, <1>5, <1>6, <1>7

-----------------------------------------------------------------------------
\* The recorder has stopped: the recording is over, and its leg is gone, held, or heard no more.
LEMMA StoppedKeeps ==
  ASSUME NEW t, NEW z, Typed(t), Typed(z), EarCore(t), CallOf(t), NEW r \in Recs,
         t.rec[r].st = "stopping", z.rec[r].st = "over", z.rec[r].inst = t.rec[r].inst,
         z.rec[r].ask = t.rec[r].ask, ~z.rec[r].mic, z.rec[r].detector = "off",
         \A q \in Recs \ {r} : z.rec[q] = t.rec[q],
         \A j \in Instances : z.hook[j].arm = t.hook[j].arm /\ z.hook[j].free = t.hook[j].free
                              /\ z.hook[j].rec = (IF t.hook[j].rec = r THEN 0 ELSE t.hook[j].rec),
         z.owners = t.owners \ {<<"rec", r>>}, z.clip = t.clip, z.mount = t.mount,
         z.live = t.live, z.call = t.call,
         \A m \in Recs : /\ z.leg[m].inst = t.leg[m].inst /\ z.leg[m].st = t.leg[m].st
                         /\ z.leg[m].fin \in Holding <=> z.closing = m
                         /\ z.leg[m].fin # "no" => \/ t.leg[m].fin # "no" /\ z.leg[m].clip = t.leg[m].clip
                                                   \/ z.leg[m].clip = r /\ z.leg[m].inst \in Instances,
         z.closing # 0 => ~t.rec[r].discard,
         \A j \in Instances : z.hook[j].stream # 0 =>
            /\ j = z.mount /\ z.closing = 0 /\ ~z.leg[z.hook[j].stream].finishing
            /\ z.leg[z.hook[j].stream].inst = j
  PROVE  Good(z) /\ z.owners = {} /\ \A q \in Recs : ~z.rec[q].mic /\ z.rec[q].ask # "asked"
<1>1. /\ Active(t, r) /\ t.rec[r].ask = "done" /\ t.hook[t.rec[r].inst].rec = r
      /\ t.rec[r].inst \in Instances /\ t.owners = {<<"rec", r>>} /\ t.closing = 0
  <2>1. Active(t, r)
    BY DEF Active
  <2>2. <<"rec", r>> \in t.owners /\ \A a, b \in t.owners : a = b
    BY <2>1 DEF EarCore, OwnersOf
  <2>3. t.owners = {<<"rec", r>>}
    BY <2>2
  <2>. QED BY <2>1, <2>2, <2>3 DEF EarCore, RecsKnown, HooksOf, RecHook, OwnersOf
<1>2. z.owners = {}
  BY <1>1
<1>3. \A q \in Recs : q # r => ~Active(t, q) /\ t.rec[q].ask # "asked" /\ ~t.rec[q].mic
  BY <1>1 DEF EarCore, OwnersOf, RecsKnown
<1>4. \A q \in Recs : ~Active(z, q) /\ z.rec[q].ask # "asked" /\ ~z.rec[q].mic
  BY <1>1, <1>3 DEF Active
<1>5. \A j \in Instances : t.hook[j].arm \in Ids /\ t.hook[j].rec \in Ids
  BY PartsTyped, ValuesTyped
<1>6. \A j \in Instances : z.hook[j].rec = 0 /\ z.hook[j].arm = 0
  <2>1. \A j \in Instances : t.hook[j].rec # 0 => t.hook[j].rec = r
    BY <1>3, <1>5 DEF EarCore, HooksOf, HookRec, Ids
  <2>2. \A j \in Instances : t.hook[j].arm = 0
    BY <1>1, <1>3, <1>5 DEF EarCore, HooksOf, HookAsk, Ids
  <2>. QED BY <2>1, <2>2
<1>7. RecsKnown(z)
  <2>1. \A q \in Recs : z.rec[q].ask # "none" => z.rec[q].inst \in Instances
    BY <1>1 DEF EarCore, RecsKnown
  <2>2. \A q \in Recs : z.rec[q].ask # "none" /\ z.rec[q].inst = 2 => z.mount = 2
    BY <1>1 DEF EarCore, RecsKnown
  <2>3. \A q \in Recs : z.rec[q].st # "none" => z.rec[q].ask = "done"
    BY <1>1 DEF EarCore, RecsKnown
  <2>4. \A q \in Recs : z.clip[q].st # "none" => z.rec[q].st = "over"
    BY <1>1 DEF EarCore, RecsKnown
  <2>5. \A q \in Recs : z.rec[q].detector # "arming"
    BY <1>1, <1>3 DEF EarCore, RecsKnown
  <2>6. \A q \in Recs : z.rec[q].discard => z.rec[q].st \in {"stopping", "over"}
    BY DEF EarCore, RecsKnown
  <2>. QED BY <1>4, <2>1, <2>2, <2>3, <2>4, <2>5, <2>6 DEF RecsKnown
<1>8. LegsKnown(z)
  <2>1. \A m \in Recs : z.leg[m].st # "none" => z.leg[m].inst \in Instances
    BY DEF EarCore, LegsKnown, LegInst
  <2>2. ASSUME NEW m \in Recs, z.leg[m].fin # "no"
        PROVE  z.leg[m].clip \in Recs /\ z.rec[z.leg[m].clip].st = "over" /\ z.leg[m].inst \in Instances
    <3>1. CASE z.leg[m].clip = r /\ z.leg[m].inst \in Instances
      BY <3>1
    <3>2. CASE t.leg[m].fin # "no" /\ z.leg[m].clip = t.leg[m].clip
      <4>1. t.leg[m].clip \in Recs /\ t.rec[t.leg[m].clip].st = "over" /\ t.leg[m].inst \in Instances
        BY <3>2 DEF EarCore, LegsKnown, LegClip
      <4>. QED BY <3>2, <4>1
    <3>. QED BY <2>2, <3>1, <3>2
  <2>3. t.live \in Ids
    BY DEF Typed
  <2>. QED BY <2>1, <2>2, <2>3 DEF EarCore, LegsKnown, LegInst, LegClip, StreamInst, LiveInst, Ids
<1>9. OwnersOf(z)
  <2>1. \A q \in Recs : ~Posting(z, q)
    BY <1>1 DEF EarCore, OwnersOf, Posting
  <2>. QED BY <1>2, <1>4, <2>1 DEF OwnersOf
<1>10. HooksOf(z)
  BY <1>4, <1>6 DEF HooksOf, HookRec, RecHook, HookAsk, AskHook, MicShown
<1>11. StreamsOf(z)
  BY <1>4, <1>6 DEF StreamsOf, StreamLeft, StreamEnds, StreamAlone, StreamClosed
<1>12. CallOf(z)
  <2>1. t.call.st # "leg"
    BY <1>1 DEF CallOf, CallLeg
  <2>2. FreeOf(z)
    BY <1>4 DEF CallOf, FreeOf
  <2>3. z.closing # 0 => t.rec[r].mic
    BY <1>1 DEF EarCore, RecsKnown
  <2>4. CallLeg(z)
    BY <1>4, <2>1, <2>3 DEF CallOf, CallLeg
  <2>. QED BY <2>2, <2>4 DEF CallOf
<1>. QED BY <1>2, <1>4, <1>7, <1>8, <1>9, <1>10, <1>11, <1>12 DEF Good, EarInv, EarCore

LEMMA OverRec ==
  ASSUME NEW x \in RecSet
  PROVE  LET y == [x EXCEPT !.st = "over", !.mic = FALSE, !.detector = "off",
                            !.go = "no", !.released = FALSE, !.discard = FALSE]
         IN y \in RecSet /\ y.st = "over" /\ ~y.mic /\ y.detector = "off" /\ y.inst = x.inst
            /\ y.ask = x.ask
  BY DEF RecSet

LEMMA OnStopStep ==
  ASSUME Good(tab), NEW r \in Recs, NEW brief \in BOOLEAN, OnStop(r, brief), BoundsAssumption
  PROVE  Good(tab')
<1>. DEFINE i == tab.rec[r].inst
            l == tab.hook[i].stream
            x == [tab.rec[r] EXCEPT !.st = "over", !.mic = FALSE, !.detector = "off",
                                    !.go = "no", !.released = FALSE, !.discard = FALSE]
            h == [tab.hook[i] EXCEPT !.rec = IF @ = r THEN 0 ELSE @]
            s == [tab EXCEPT !.rec[r] = x, !.hook[i] = h, !.owners = @ \ {<<"rec", r>>}]
            h1 == [s.hook[i] EXCEPT !.phase = "idle"]
            s1 == [s EXCEPT !.hook[i] = h1]
            h2 == [s.hook[i] EXCEPT !.stream = 0, !.phase = "sending"]
            y == [s.leg[l] EXCEPT !.fin = "drain", !.clip = r, !.uplink = "none"]
            s2 == [s EXCEPT !.hook[i] = h2, !.closing = l, !.leg[l] = y]
            k == tab.rec[r].slot
            s3 == Upload(s, r, k, TRUE, brief)
<1>1. Typed(tab) /\ EarCore(tab) /\ CallOf(tab) /\ tab.rec[r].st = "stopping"
  BY DEF OnStop, Good, EarInv
<1>2. /\ i \in Instances /\ tab.rec[r] \in RecSet /\ tab.hook[i].rec = r /\ k \in Slots
      /\ <<"rec", r>> \in tab.owners /\ tab.closing = 0
  BY <1>1, PartsTyped, ValuesTyped DEF EarCore, RecsKnown, HooksOf, RecHook, OwnersOf, Active
<1>3. /\ l \in Ids /\ tab.hook[i] \in HookSet /\ (l # 0 => l \in Recs /\ tab.leg[l].inst = i)
      /\ \A j \in Instances : tab.hook[j].stream \in Ids /\ tab.hook[j].rec \in Ids
  BY <1>1, <1>2, PartsTyped, ValuesTyped DEF EarCore, LegsKnown, StreamInst, Ids
<1>4. tab' = EarFreed(CASE tab.rec[r].discard -> s1
                        [] ~tab.rec[r].discard /\ l # 0 -> s2
                        [] ~tab.rec[r].discard /\ l = 0 -> s3, i)
  <2>1. [s EXCEPT !.hook[i].phase = "idle"] = s1
    OBVIOUS
  <2>2. HoldLeg(s, i, l, r) = s2
    BY DEF HoldLeg
  <2>3. s = [tab EXCEPT !.rec[r] = x, !.hook[i].rec = IF @ = r THEN 0 ELSE @,
                        !.owners = @ \ {<<"rec", r>>}]
    OBVIOUS
  <2>. QED BY <2>1, <2>2, <2>3 DEF OnStop
<1>5. \A j \in Instances : j # i => tab.hook[j].stream = 0 /\ tab.hook[j].rec # r
  <2>1. Active(tab, r) /\ r # 0
    BY <1>1 DEF Active, Recs
  <2>. QED BY <1>1, <2>1 DEF EarCore, StreamsOf, StreamAlone, HooksOf, HookRec
<1>. HIDE DEF i, l, k
<1>6. /\ x \in RecSet /\ x.st = "over" /\ ~x.mic /\ x.detector = "off" /\ x.inst = tab.rec[r].inst
      /\ x.ask = tab.rec[r].ask
  BY <1>2, OverRec
<1>7. /\ h \in HookSet /\ h.rec = 0 /\ h.arm = tab.hook[i].arm /\ h.stream = l
      /\ h.free = tab.hook[i].free
  BY <1>2, <1>3 DEF HookSet, Ids, l
<1>. HIDE DEF x, h
<1>8. /\ Typed(s) /\ s.rec[r] = x /\ (\A q \in Recs \ {r} : s.rec[q] = tab.rec[q])
      /\ s.hook[i] = h /\ (\A j \in Instances \ {i} : s.hook[j] = tab.hook[j])
      /\ s.leg = tab.leg /\ s.clip = tab.clip /\ s.owners = tab.owners \ {<<"rec", r>>}
      /\ s.closing = tab.closing /\ s.mount = tab.mount /\ s.live = tab.live /\ s.call = tab.call
  BY <1>1, <1>2, <1>6, <1>7 DEF Typed, Fields
<1>. HIDE DEF s
<1>9. \A m \in Recs : tab.leg[m].fin \notin Holding
  BY <1>1, <1>2 DEF EarCore, OwnersOf, Recs
<1>s. s.rec[r].st = "over" /\ s.rec[r].inst = tab.rec[r].inst /\ s.rec[r].ask = tab.rec[r].ask
      /\ ~s.rec[r].mic /\ s.rec[r].detector = "off"
  BY <1>6, <1>8
<1>10. CASE tab.rec[r].discard
  <2>1. tab' = EarFreed(s1, i)
    BY <1>4, <1>10
  <2>2. s.hook[i] \in HookSet
    BY <1>2, <1>8, PartsTyped
  <2>3. h1 \in HookSet /\ h1.rec = 0 /\ h1.arm = tab.hook[i].arm /\ h1.stream = l
        /\ h1.free = tab.hook[i].free
    BY <2>2, <1>7, <1>8 DEF HookSet
  <2>. HIDE DEF h1
  <2>4. /\ Typed(s1) /\ s1.hook[i] = h1 /\ (\A j \in Instances \ {i} : s1.hook[j] = s.hook[j])
        /\ s1.rec = s.rec /\ s1.leg = s.leg /\ s1.clip = s.clip /\ s1.owners = s.owners
        /\ s1.closing = s.closing /\ s1.mount = s.mount /\ s1.live = s.live /\ s1.call = s.call
    BY <1>2, <1>8, <2>3 DEF Typed, Fields
  <2>. HIDE DEF s1
  <2>5. l # 0 => i = tab.mount /\ ~tab.leg[l].finishing
    BY <1>1, <1>2, <1>10 DEF EarCore, StreamsOf, StreamLeft, StreamEnds, l
  <2>6. \A j \in Instances : s1.hook[j].stream # 0 =>
            /\ j = s1.mount /\ s1.closing = 0 /\ ~s1.leg[s1.hook[j].stream].finishing
            /\ s1.leg[s1.hook[j].stream].inst = j
    BY <1>2, <1>3, <1>5, <1>8, <2>3, <2>4, <2>5
  <2>7. \A j \in Instances : s1.hook[j].arm = tab.hook[j].arm /\ s1.hook[j].free = tab.hook[j].free
                             /\ s1.hook[j].rec = (IF tab.hook[j].rec = r THEN 0 ELSE tab.hook[j].rec)
    BY <1>2, <1>5, <1>8, <2>3, <2>4
  <2>8. \A m \in Recs : /\ s1.leg[m].inst = tab.leg[m].inst /\ s1.leg[m].st = tab.leg[m].st
                        /\ s1.leg[m].fin \in Holding <=> s1.closing = m
                        /\ s1.leg[m].fin # "no" => tab.leg[m].fin # "no" /\ s1.leg[m].clip = tab.leg[m].clip
    BY <1>2, <1>8, <1>9, <2>4 DEF Recs
  <2>9. Good(s1) /\ \A q \in Recs : ~s1.rec[q].mic /\ s1.rec[q].ask # "asked"
    <3>1. s1.closing = 0
      BY <1>2, <1>8, <2>4
    <3>. QED BY <1>1, <1>8, <1>s, <2>4, <2>6, <2>7, <2>8, <3>1, StoppedKeeps
  <2>. QED BY <1>2, <2>1, <2>9, FreedKeeps DEF Good, EarInv
<1>11. CASE ~tab.rec[r].discard /\ l # 0
  <2>1. tab' = EarFreed(s2, i)
    BY <1>4, <1>11
  <2>2. s.hook[i] \in HookSet /\ s.leg[l] \in LegSet /\ l \in Recs
    BY <1>2, <1>3, <1>8, <1>11, PartsTyped
  <2>3. h2 \in HookSet /\ h2.rec = 0 /\ h2.arm = tab.hook[i].arm /\ h2.stream = 0
        /\ h2.free = tab.hook[i].free
    BY <2>2, <1>7, <1>8 DEF HookSet, Ids
  <2>4. /\ y \in LegSet /\ y.inst = i /\ y.st = tab.leg[l].st /\ y.fin = "drain" /\ y.clip = r
    BY <2>2, <1>3, <1>8, <1>11 DEF LegSet, Ids
  <2>. HIDE DEF h2, y
  <2>5. /\ Typed(s2) /\ s2.hook[i] = h2 /\ (\A j \in Instances \ {i} : s2.hook[j] = s.hook[j])
        /\ s2.leg[l] = y /\ (\A m \in Recs \ {l} : s2.leg[m] = s.leg[m])
        /\ s2.rec = s.rec /\ s2.clip = s.clip /\ s2.owners = s.owners
        /\ s2.closing = l /\ s2.mount = s.mount /\ s2.live = s.live /\ s2.call = s.call
    BY <1>2, <1>3, <1>8, <2>2, <2>3, <2>4 DEF Typed, Fields
  <2>. HIDE DEF s2
  <2>6. \A j \in Instances : s2.hook[j].stream = 0
    BY <1>5, <1>8, <2>3, <2>5
  <2>7. \A j \in Instances : s2.hook[j].arm = tab.hook[j].arm /\ s2.hook[j].free = tab.hook[j].free
                             /\ s2.hook[j].rec = (IF tab.hook[j].rec = r THEN 0 ELSE tab.hook[j].rec)
    BY <1>2, <1>5, <1>8, <2>3, <2>5
  <2>8. \A m \in Recs : /\ s2.leg[m].inst = tab.leg[m].inst /\ s2.leg[m].st = tab.leg[m].st
                        /\ s2.leg[m].fin \in Holding <=> s2.closing = m
                        /\ s2.leg[m].fin # "no" =>
                             \/ tab.leg[m].fin # "no" /\ s2.leg[m].clip = tab.leg[m].clip
                             \/ s2.leg[m].clip = r /\ s2.leg[m].inst \in Instances
    <3>1. ASSUME NEW m \in Recs, m # l
          PROVE  /\ s2.leg[m] = tab.leg[m] /\ s2.leg[m].fin \notin Holding /\ s2.closing # m
      BY <1>8, <1>9, <2>5, <3>1
    <3>2. /\ s2.leg[l].inst = tab.leg[l].inst /\ s2.leg[l].st = tab.leg[l].st
          /\ s2.leg[l].fin \in Holding /\ s2.closing = l
          /\ s2.leg[l].clip = r /\ s2.leg[l].inst \in Instances
      BY <1>2, <1>3, <1>11, <2>4, <2>5 DEF Holding
    <3>. QED BY <3>1, <3>2
  <2>9. Good(s2) /\ \A q \in Recs : ~s2.rec[q].mic /\ s2.rec[q].ask # "asked"
    BY <1>1, <1>8, <1>11, <1>s, <2>5, <2>6, <2>7, <2>8, StoppedKeeps
  <2>. QED BY <1>2, <2>1, <2>9, FreedKeeps DEF Good, EarInv
<1>12. CASE ~tab.rec[r].discard /\ l = 0
  <2>1. tab' = EarFreed(s3, i)
    BY <1>4, <1>12
  <2>2. Good(s) /\ s.owners = {} /\ s.closing = 0
        /\ \A q \in Recs : ~s.rec[q].mic /\ s.rec[q].ask # "asked"
    <3>1. \A j \in Instances : s.hook[j].stream = 0
      BY <1>5, <1>7, <1>8, <1>12
    <3>2. \A j \in Instances : s.hook[j].arm = tab.hook[j].arm /\ s.hook[j].free = tab.hook[j].free
                               /\ s.hook[j].rec = (IF tab.hook[j].rec = r THEN 0 ELSE tab.hook[j].rec)
      BY <1>2, <1>5, <1>7, <1>8
    <3>3. \A m \in Recs : /\ s.leg[m].inst = tab.leg[m].inst /\ s.leg[m].st = tab.leg[m].st
                          /\ s.leg[m].fin \in Holding <=> s.closing = m
                          /\ s.leg[m].fin # "no" => tab.leg[m].fin # "no" /\ s.leg[m].clip = tab.leg[m].clip
      BY <1>2, <1>8, <1>9 DEF Recs
    <3>4. s.closing = 0
      BY <1>2, <1>8
    <3>. QED BY <1>1, <1>8, <1>s, <3>1, <3>2, <3>3, <3>4, StoppedKeeps
  <2>3. Good(s3)
    BY <1>2, <1>s, <2>2, UploadKeeps
  <2>4. \A q \in Recs : ~s3.rec[q].mic /\ s3.rec[q].ask # "asked"
    <3>1. s3.owners \subseteq {<<"clip", r>>}
      BY <1>2, <1>s, <2>2, UploadKeeps
    <3>. HIDE DEF s3
    <3>2. \A q \in Recs : <<"rec", q>> \notin s3.owners
      BY <3>1
    <3>. QED BY <2>3, <3>2 DEF Good, EarInv, EarCore, OwnersOf, RecsKnown
  <2>. QED BY <1>2, <2>1, <2>3, <2>4, FreedKeeps DEF Good, EarInv
<1>. QED BY <1>10, <1>11, <1>12

=============================================================================
