------------------------------ MODULE Dictation ------------------------------
(***************************************************************************)
(* The composer's microphone (hooks/useDictation.ts): a recording takes    *)
(* the tab's ear, its words travel over one of two doors (phrase by phrase *)
(* on a streaming leg, or as one clip when it ends) and land in the draft  *)
(* of the conversation they were said in (store/composer.ts), while the    *)
(* owner releases, cancels, navigates and calls (store/micRelease.ts).     *)
(*                                                                         *)
(* A phrase is a pair of its recording and its place in it. What travels   *)
(* on the relay's socket arrives in order, so a frame is sent and handled  *)
(* in one step; what a closing socket loses is what was never sent.        *)
(***************************************************************************)
EXTENDS Integers, FiniteSets, FiniteSetsExt

CONSTANTS
    MaxRecs,    \* recordings the owner starts
    MaxSaid,    \* phrases said in one recording
    Attempts,   \* upload attempts of a clip
    Setups      \* the knobs, the relay, and how much happens: a set of Setup

\* events: navigations, calls, unmounts and faults, all together.
Setup == [stream : BOOLEAN, clock : BOOLEAN, settle : BOOLEAN, autoSend : BOOLEAN,
          recs : 1 .. MaxRecs, said : 1 .. MaxSaid, events : Nat]

ASSUME BoundsAssumption ==
    /\ MaxRecs \in Nat \ {0} /\ MaxSaid \in Nat \ {0}
    /\ Attempts \in Nat \ {0}
    /\ \A c \in Setups : c \in Setup

VARIABLES
    setup,  \* the page's configuration
    tab,    \* what the page holds: the record Fresh
    world   \* what it does not: the link, and how many of the events happened

vars == <<setup, tab, world>>

Recs == 1 .. MaxRecs
Instances == {1, 2}         \* the composer, and the one mounted after it
Slots == 0 .. 2             \* the thread-less view, a conversation, the one a send mints

NoHook == [phase |-> "idle", arm |-> 0, rec |-> 0, stream |-> 0, leg |-> 0, free |-> FALSE]

NoRec == [inst |-> 0, slot |-> 0, ask |-> "none", st |-> "none", mic |-> FALSE,
          detector |-> "none", go |-> "no", released |-> FALSE, discard |-> FALSE, said |-> 0]

\* queue: the phrases captured and not handed to the socket; heard: those the
\* relay has; held: those of a capped segment, waiting for its continuation.
NoLeg == [inst |-> 0, slot |-> 0, clip |-> 0, st |-> "none", ready |-> FALSE, dead |-> FALSE,
          finishing |-> FALSE, uplink |-> "none", queue |-> {}, heard |-> {}, got |-> {},
          held |-> {}, finals |-> FALSE, fin |-> "no", reason |-> "none", ended |-> FALSE]

NoClip == [st |-> "none", slot |-> 0, send |-> FALSE, attempt |-> 0]

Fresh(start) ==
    [hook |-> [i \in Instances |-> NoHook], mount |-> 1,
     rec |-> [r \in Recs |-> NoRec], leg |-> [r \in Recs |-> NoLeg],
     clip |-> [r \in Recs |-> NoClip],
     owners |-> {}, closing |-> 0,
     call |-> [st |-> "no", on |-> 0, early |-> FALSE],
     slot |-> start, mint |-> -1, moved |-> [s \in Slots |-> s], dead |-> {},
     live |-> 0, carry |-> [st |-> "no", from |-> 0, to |-> 0, on |-> 0],
     draft |-> [s \in Slots |-> {}], sent |-> {},
     told |-> {}, unheard |-> {}, eaten |-> {}]

Init ==
    /\ setup \in Setups
    /\ tab \in {Fresh(0), Fresh(1)}
    /\ world = [online |-> TRUE, events |-> 0]

Happens == world.events < setup.events /\ world' = [world EXCEPT !.events = @ + 1]

Said(r, ks) == {r} \X ks

-----------------------------------------------------------------------------
(* The drafts: one per conversation, with forwards for those that moved *)

Follow(t, k) ==
    LET once(x) == t.moved[x] IN once(once(once(k)))

AppendDraft(t, ps, k) ==
    IF ps = {} THEN t ELSE [t EXCEPT !.draft[Follow(t, k)] = @ \cup ps]

\* A move of nothing from a slot already forwarded leaves the forward.
MoveSlots(t, from, target) ==
    LET to == Follow(t, target) IN
    IF from = to \/ (t.moved[from] # from /\ t.draft[from] = {}) THEN t
    ELSE [t EXCEPT !.moved[from] = to, !.draft[from] = {}, !.draft[to] = @ \cup t.draft[from]]

\* Mutant of SendsInView: a door from the thread-less view is not asked about.
SendsThroughDoors(t, start) == start \in {t.slot, 0}

\* A recording may send on its own only into the view it was started in.
SendsInView(t, start) == start = t.slot \/ (start = 0 /\ t.mint = t.slot)

AutoSend(t, r, start) ==
    IF ~setup.autoSend \/ ~SendsInView(t, start) THEN t
    ELSE [t EXCEPT !.sent = @ \cup (t.draft[t.slot] \X {t.slot} \X {r}), !.draft[t.slot] = {}]

-----------------------------------------------------------------------------
(* The ear: who holds it, and its hand-over to a call *)

\* Mutant of CallTakes: a leg that is closing out is not waited for.
CallTakesAtOnce(t) ==
    [t EXCEPT !.call = [st |-> "up", on |-> 0, early |-> t.call.early]]

CallTakes(t) ==
    [t EXCEPT !.call = [st |-> IF t.closing = 0 THEN "up" ELSE "leg", on |-> t.closing,
                        early |-> t.call.early]]

\* Resolves the promise a call waits on; the closing leg is read after it.
EarFreed(t, i) ==
    IF ~t.hook[i].free THEN t
    ELSE CallTakes([t EXCEPT !.hook[i].free = FALSE])

\* The settle of a leg's hold: the next leg of the tab may open.
Released(t, l) ==
    [t EXCEPT !.closing = IF @ = l THEN 0 ELSE @,
              !.call.st = IF @ = "leg" /\ t.call.on = l THEN "up" ELSE @]

-----------------------------------------------------------------------------
(* A leg *)

HeardWords(t, l) == t.leg[l].finals \/ t.leg[l].held # {}
TellIfHeard(t, l) == IF HeardWords(t, l) THEN [t EXCEPT !.told = @ \cup {l}] ELSE t

\* A late callback of a leg superseded or closed is a ghost.
Mine(t, l) == t.leg[l].st = "open" /\ t.hook[t.leg[l].inst].leg = l

\* Mutant of AppendPhrase: the held words are cleared and not joined.
AppendPhraseAlone(t, l, ps) ==
    [AppendDraft(t, ps, t.leg[l].slot)
        EXCEPT !.leg[l].held = {}, !.leg[l].finals = @ \/ ps # {}]

\* Whatever a capped segment held lands with the phrase that ends the hold.
AppendPhrase(t, l, ps) ==
    LET all == t.leg[l].held \cup ps
        a == AppendDraft(t, all, t.leg[l].slot)
    IN [a EXCEPT !.leg[l] = [@ EXCEPT !.held = {}, !.finals = a.leg[l].finals \/ all # {}]]

\* Whoever waited for the leg goes on. What a leg that is over held is gone.
Ended(t, l) ==
    [t EXCEPT !.leg[l] = IF t.leg[l].fin # "no" THEN [@ EXCEPT !.ended = TRUE]
                         ELSE [NoLeg EXCEPT !.inst = t.leg[l].inst, !.st = "closed", !.dead = TRUE,
                                            !.ended = TRUE],
              !.live = IF @ = l THEN 0 ELSE @]

CloseStream(t, l) ==
    LET a == AppendPhrase(t, l, {})
        over == [a.leg[l] EXCEPT !.st = "closed", !.dead = TRUE, !.uplink = "none",
                                 !.fin = IF @ = "tail" THEN "end" ELSE @]
    IN IF t.leg[l].st = "closed" THEN t ELSE Ended([a EXCEPT !.leg[l] = over], l)

DropStream(t, l) ==
    LET i == t.leg[l].inst IN
    [CloseStream(t, l) EXCEPT !.hook[i].stream = IF @ = l THEN 0 ELSE @]

-----------------------------------------------------------------------------
(* Stopping a recording *)

Recording(t, r) == t.rec[r].st \in {"live", "settling"}

StopNow(t, i, r) ==
    LET l == t.hook[i].stream
        s == [t EXCEPT !.rec[r].st = "stopping"]
    IN IF l = 0 THEN s ELSE [s EXCEPT !.leg[l].finishing = TRUE]

\* The first stop names the reason; only the owner's own settles for the
\* post-roll, and any other cuts one short. An unanswered ask is abandoned.
StopRec(t, i, reason) ==
    LET a == t.hook[i].arm
        r == t.hook[i].rec
        l == t.hook[i].stream
        named == IF l # 0 /\ ~t.rec[r].released /\ t.leg[l].reason = "none"
                 THEN [t EXCEPT !.leg[l].reason = reason] ELSE t
        stopped == [t.rec[r] EXCEPT !.released = TRUE, !.go = IF @ = "owed" THEN "no" ELSE @]
        s == [named EXCEPT !.rec[r] = stopped]
    IN CASE a # 0 -> [t EXCEPT !.rec[a].ask = "aborted", !.hook[i].arm = 0,
                               !.owners = @ \ {<<"rec", a>>}]
         [] a = 0 /\ (r = 0 \/ ~Recording(t, r)) -> t
         [] a = 0 /\ r # 0 /\ Recording(t, r) ->
              IF reason = "user" /\ setup.settle
              THEN [s EXCEPT !.rec[r].st = "settling", !.hook[i].phase = "sending"]
              ELSE StopNow(s, i, r)

\* The swap's stopper: one streaming dictation at most is registered.
StopLive(t) == IF t.live = 0 THEN t ELSE StopRec(t, t.leg[t.live].inst, "navigated")

\* Any later navigation finds the leg to be waited for, or nothing.
SetSlot(t, next, mint, carried) ==
    LET s == [t EXCEPT !.slot = next, !.mint = IF t.slot = 0 /\ mint THEN next ELSE -1,
                       !.moved[next] = next]
        m == IF t.slot = 0 /\ s.draft[next] = {} THEN MoveSlots(s, 0, next) ELSE s
    IN IF next = t.slot THEN t
       ELSE IF carried = {} THEN m
       ELSE [StopLive(m) EXCEPT !.carry =
                [st |-> "waiting", from |-> t.slot, to |-> next, on |-> m.live]]

-----------------------------------------------------------------------------
(* The clip *)

\* The legs whose release awaits this clip's upload: their words are in.
ClipDone(t, r) ==
    LET w == {l \in Recs : t.leg[l].fin = "upload" /\ t.leg[l].clip = r} IN
    IF w = {} THEN t
    ELSE LET l == CHOOSE x \in w : TRUE IN Ended([t EXCEPT !.leg[l].fin = "no"], l)

\* The loop owns the tab from its entry; a wait for the link is no attempt.
SendClip(t, r) ==
    [t EXCEPT !.clip[r] = [@ EXCEPT !.st = IF world.online THEN "post" ELSE "offline",
                                    !.attempt = 1],
              !.hook[t.rec[r].inst].phase = "sending",
              !.owners = @ \cup {<<"clip", r>>}]

\* Mutant of LeaveLoop: the tab is given back only by the composer mounted.
LeaveLoopHere(t, r, st) ==
    LET i == t.rec[r].inst IN
    ClipDone([t EXCEPT !.clip[r].st = st, !.hook[i].phase = "idle",
                       !.owners = IF t.mount = i THEN @ \ {<<"clip", r>>} ELSE @], r)

\* Every way out of the loop.
LeaveLoop(t, r, st) ==
    ClipDone([t EXCEPT !.clip[r].st = st, !.hook[t.rec[r].inst].phase = "idle",
                       !.owners = @ \ {<<"clip", r>>}], r)

\* A hold shorter than a second is taught, not sent.
Upload(t, r, k, send, brief) ==
    LET s == [t EXCEPT !.clip[r] = [@ EXCEPT !.slot = k, !.send = send],
                       !.unheard = @ \ Said(r, 1 .. MaxSaid), !.eaten = @ \ Said(r, 1 .. MaxSaid)]
    IN
    IF brief
    THEN ClipDone([s EXCEPT !.told = @ \cup {r}, !.clip[r].st = "gone",
                            !.hook[t.rec[r].inst].phase = "idle"], r)
    ELSE SendClip(s, r)

-----------------------------------------------------------------------------
(* Starting *)

\* A press is refused while this composer or the tab holds the ear.
MayStart(i) ==
    /\ tab.hook[i].arm = 0 /\ tab.hook[i].rec = 0 /\ tab.closing = 0
    /\ tab.hook[i].phase # "sending"
    /\ tab.owners = {}

\* The call screen covers the composer.
Start(r) ==
    /\ tab.mount # 0 /\ tab.call.st = "no"
    /\ r <= setup.recs /\ tab.rec[r].ask = "none" /\ \A q \in 1 .. r - 1 : tab.rec[q].ask # "none"
    /\ MayStart(tab.mount)
    /\ tab' = [tab EXCEPT
                !.rec[r] = [NoRec EXCEPT !.inst = tab.mount, !.slot = tab.slot, !.ask = "asked"],
                !.hook[tab.mount].arm = r,
                !.owners = @ \cup {<<"rec", r>>}]
    /\ UNCHANGED <<setup, world>>

\* An attempt that ends without a stream says that the ear is free, also where
\* the attempt was abandoned and a recording begun since has the ear: `early`
\* records that a waiting call was told so.
Returned(t, r) ==
    LET i == t.rec[r].inst IN
    EarFreed([t EXCEPT !.rec[r].ask = "returned",
                       !.call.early = @ \/ (t.hook[i].free /\ t.hook[i].rec # 0)], i)

\* A stream handed to an abandoned ask is given back at once.
AskGranted(r) ==
    LET i == tab.rec[r].inst IN
    /\ \/ /\ tab.rec[r].ask = "aborted"
          /\ tab' = Returned(tab, r)
       \/ /\ tab.rec[r].ask = "asked"
          /\ tab' = [tab EXCEPT
                      !.rec[r] = [@ EXCEPT !.ask = "done", !.st = "live", !.mic = TRUE,
                                           !.detector = "arming", !.go = "owed"],
                      !.hook[i] = [@ EXCEPT !.arm = 0, !.rec = r, !.phase = "recording"]]
    /\ UNCHANGED <<setup, world>>

\* Permission denied, or a recorder that cannot be built.
AskFails(r) ==
    LET i == tab.rec[r].inst IN
    /\ tab.rec[r].ask \in {"asked", "aborted"}
    /\ Happens
    /\ tab' = IF tab.rec[r].ask = "aborted" THEN Returned(tab, r)
              ELSE [Returned(tab, r) EXCEPT !.hook[i].arm = 0, !.owners = @ \ {<<"rec", r>>}]
    /\ UNCHANGED setup

\* The audio context runs, or does not: the leg opens, or the clip is alone.
\* Only an ended detector or an owner's release stops it from opening one.
ArmDetector(r) ==
    LET i == tab.rec[r].inst IN
    /\ tab.rec[r].detector = "arming"
    /\ \/ /\ setup.stream /\ ~tab.rec[r].released
          /\ tab' = [tab EXCEPT
                      !.rec[r].detector = "on",
                      !.leg[r] = [NoLeg EXCEPT !.inst = i, !.slot = tab.rec[r].slot, !.st = "open",
                                               !.uplink = "opening"],
                      !.hook[i] = [@ EXCEPT !.stream = r, !.leg = r], !.live = r]
          /\ UNCHANGED world
       \/ /\ setup.stream => tab.rec[r].released
          /\ tab' = [tab EXCEPT !.rec[r].detector = "on"]
          /\ UNCHANGED world
       \/ /\ setup.stream /\ Happens
          /\ tab' = [tab EXCEPT !.rec[r].detector = "on"]
    /\ UNCHANGED setup

UplinkUp(l) ==
    /\ tab.leg[l].uplink = "opening" /\ Mine(tab, l)
    /\ tab' = [tab EXCEPT !.leg[l].uplink = IF tab.leg[l].dead \/ tab.leg[l].fin # "no"
                                            THEN "none" ELSE "up"]
    /\ UNCHANGED <<setup, world>>

UplinkFails(l) ==
    /\ tab.leg[l].uplink = "opening" /\ Mine(tab, l) /\ Happens
    /\ tab' = DropStream(tab, l)
    /\ UNCHANGED setup

\* Go: the first frame on a leg, or the meter's poll when there is none.
GoLive(r) ==
    LET l == tab.hook[tab.rec[r].inst].stream IN
    /\ tab.rec[r].go = "owed" /\ Recording(tab, r) /\ tab.rec[r].detector = "on"
    /\ l # 0 /\ ~tab.leg[l].dead => l = r /\ tab.leg[r].uplink = "up"
    /\ tab' = [tab EXCEPT !.rec[r].go = "gone"]
    /\ UNCHANGED <<setup, world>>

\* The owner says a phrase: into the clip, and onto the leg's queue.
Say(r) ==
    /\ Recording(tab, r) /\ tab.rec[r].mic /\ tab.rec[r].go = "gone" /\ tab.rec[r].said < setup.said
    /\ LET k == tab.rec[r].said + 1 IN
       tab' = [tab EXCEPT !.rec[r].said = k,
                          !.leg[r].queue = IF tab.leg[r].uplink = "up" /\ ~tab.leg[r].dead
                                           THEN @ \cup {k} ELSE @]
    /\ UNCHANGED <<setup, world>>

-----------------------------------------------------------------------------
(* The relay, and the pacer that feeds it *)

RelayReady(l) ==
    /\ Mine(tab, l) /\ ~tab.leg[l].ready /\ ~tab.leg[l].dead
    /\ tab' = [tab EXCEPT !.leg[l].ready = TRUE]
    /\ UNCHANGED <<setup, world>>

\* While recording nothing leaves before ready. The release's drain pumps
\* anyhow, and a socket whose relay is not ready lets go of the audio.
Pump(l) ==
    /\ tab.leg[l].st = "open" /\ ~tab.leg[l].dead /\ tab.leg[l].queue # {}
    /\ (tab.leg[l].uplink = "up" /\ tab.leg[l].ready) \/ tab.leg[l].fin = "drain"
    /\ LET k == Min(tab.leg[l].queue)
           pumped == [tab.leg[l] EXCEPT !.queue = @ \ {k},
                                        !.heard = IF tab.leg[l].ready THEN @ \cup {k} ELSE @]
       IN tab' = [tab EXCEPT !.leg[l] = pumped,
                             !.eaten = IF tab.leg[l].ready THEN @ ELSE @ \cup {<<l, k>>}]
    /\ UNCHANGED <<setup, world>>

\* A handshake that never comes: the queue is past its ceiling.
Backlogged(l) ==
    /\ Mine(tab, l) /\ tab.leg[l].uplink = "up" /\ ~tab.leg[l].ready /\ tab.leg[l].queue # {}
    /\ Happens
    /\ tab' = DropStream(tab, l)
    /\ UNCHANGED setup

\* A phrase's final. With the leg's clock it may be no words at all, or those
\* of a segment cut at its cap, which wait for the continuation.
Final(l, kind) ==
    LET owed == tab.leg[l].heard \ tab.leg[l].got
        k == Min(owed)
        got == [tab EXCEPT !.leg[l].got = @ \cup {k}]
    IN
    /\ Mine(tab, l) /\ tab.leg[l].ready /\ ~tab.leg[l].dead /\ owed # {}
    /\ kind # "words" => setup.clock
    /\ tab' = CASE kind = "words" -> AppendPhrase(got, l, Said(l, {k}))
                [] kind = "cut" -> [got EXCEPT !.leg[l].held = @ \cup Said(l, {k})]
                [] kind = "error" -> [AppendPhrase(got, l, {}) EXCEPT !.unheard = @ \cup {<<l, k>>}]
    /\ UNCHANGED <<setup, world>>

\* The socket's close is delivered: the relay's, the network's or backpressure's.
OnClose(t, l) ==
    LET a == AppendPhrase(t, l, {})
        deaf == [t.leg[l] EXCEPT !.dead = TRUE, !.fin = IF @ = "tail" THEN "end" ELSE @]
        lost == [a.leg[l] EXCEPT !.dead = TRUE, !.uplink = "none"]
    IN CASE t.leg[l].finishing -> TellIfHeard([t EXCEPT !.leg[l] = deaf], l)
         [] ~t.leg[l].finishing /\ (~t.leg[l].ready \/ ~a.leg[l].finals) -> DropStream(a, l)
         [] ~t.leg[l].finishing /\ t.leg[l].ready /\ a.leg[l].finals ->
              StopRec([a EXCEPT !.leg[l] = lost, !.told = @ \cup {l}], t.leg[l].inst, "lost")

SocketCloses(l) ==
    /\ Mine(tab, l) /\ ~tab.leg[l].dead /\ Happens
    /\ tab' = OnClose(tab, l)
    /\ UNCHANGED setup

-----------------------------------------------------------------------------
(* The owner *)

Release ==
    /\ tab.mount # 0
    /\ LET h == tab.hook[tab.mount] IN h.arm # 0 \/ (h.rec # 0 /\ tab.rec[h.rec].st = "live")
    /\ tab' = StopRec(tab, tab.mount, "user")
    /\ UNCHANGED <<setup, world>>

\* The session's cap or its silence.
RunsOut ==
    /\ tab.mount # 0 /\ Happens
    /\ tab.hook[tab.mount].rec # 0 /\ Recording(tab, tab.hook[tab.mount].rec)
    /\ tab' = StopRec(tab, tab.mount, "idle")
    /\ UNCHANGED setup

Cancel ==
    LET i == tab.mount
        r == tab.hook[i].rec
        l == tab.hook[i].stream
        thrown == [tab.rec[r] EXCEPT !.discard = TRUE, !.st = "stopping",
                                     !.go = IF @ = "owed" THEN "no" ELSE @]
        s == [tab EXCEPT !.rec[r] = thrown, !.told = @ \cup {r}]
    IN
    /\ i # 0
    /\ \/ tab.hook[i].arm # 0 /\ tab' = StopRec(tab, i, "cancel")
       \/ /\ tab.hook[i].arm = 0 /\ r # 0 /\ Recording(tab, r)
          /\ tab' = IF l = 0 THEN s ELSE DropStream(s, l)
    /\ UNCHANGED <<setup, world>>

\* The page is hidden: a recording stops, and a release that waits for its
\* tail is abandoned.
Hide ==
    LET h == IF tab.mount = 0 THEN NoHook ELSE tab.hook[tab.mount]
        s == IF h.rec # 0 /\ setup.stream THEN StopRec(tab, tab.mount, "hidden") ELSE tab
        w == {l \in Recs : tab.leg[l].fin = "tail"}
    IN
    /\ Happens
    /\ tab' = IF w = {} THEN s
              ELSE LET l == CHOOSE x \in w : TRUE IN
                   TellIfHeard([s EXCEPT !.leg[l] = [@ EXCEPT !.dead = TRUE, !.fin = "end"]], l)
    /\ UNCHANGED setup

UnmountStops ==
    LET s == StopRec(tab, tab.mount, "unmount")
        l == tab.hook[tab.mount].stream
    IN IF l = 0 \/ s.leg[l].finishing THEN s ELSE DropStream(s, l)

\* The composer leaves; whatever it recorded ends on its own.
Unmount ==
    LET r == tab.hook[tab.mount].rec IN
    /\ tab.mount = 1 /\ Happens
    /\ tab' = [UnmountStops EXCEPT
                !.mount = 0,
                !.rec = [q \in Recs |-> IF q = r THEN [@[q] EXCEPT !.detector = "off"] ELSE @[q]]]
    /\ UNCHANGED setup

Mount ==
    /\ tab.mount = 0 /\ tab' = [tab EXCEPT !.mount = 2]
    /\ UNCHANGED <<setup, world>>

\* A door to another view: every swap stops a streaming dictation first.
Navigate(next) ==
    /\ next \in Slots \ (tab.dead \cup {2, tab.slot}) /\ Happens
    /\ tab' = SetSlot(StopLive(tab), next, FALSE, {})
    /\ UNCHANGED setup

\* The owner's own send from the thread-less view mints its conversation.
MintWire ==
    /\ tab.slot = 0 /\ 2 \notin tab.dead /\ tab.mint = -1 /\ Happens
    /\ tab' = SetSlot([tab EXCEPT !.sent = @ \cup (tab.draft[0] \X {2} \X {0}), !.draft[0] = {}],
                      2, TRUE, {})
    /\ UNCHANGED setup

\* The open conversation was deleted elsewhere: the view moves off it, and
\* its draft is carried along once the stopped dictation's words are in.
DeletedElsewhere ==
    /\ tab.slot # 0 /\ tab.carry.st = "no" /\ Happens
    /\ tab' = SetSlot(StopLive([tab EXCEPT !.dead = @ \cup {tab.slot}]), 0, FALSE, {tab.slot})
    /\ UNCHANGED setup

CarryReady ==
    /\ tab.carry.st = "waiting"
    /\ tab.carry.on # 0 => tab.leg[tab.carry.on].ended

CarryLands ==
    /\ CarryReady
    /\ tab' = [MoveSlots(tab, tab.carry.from, tab.carry.to) EXCEPT !.carry.st = "done"]
    /\ UNCHANGED <<setup, world>>

-----------------------------------------------------------------------------
(* The call *)

\* The composer mounted is asked to let go and waited for. Nobody answers for
\* one that left, whose recording may still be ending.
CallStarts ==
    LET i == tab.mount
        left == \E j \in Instances \ {i} : tab.hook[j].rec # 0
    IN
    /\ tab.call.st = "no" /\ Happens
    /\ tab' = IF i # 0 /\ (tab.hook[i].arm # 0 \/ tab.hook[i].rec # 0)
              THEN StopRec([tab EXCEPT !.hook[i].free = TRUE, !.call.st = "ear"], i, "call")
              ELSE CallTakes([tab EXCEPT !.call.early = left])
    /\ UNCHANGED setup

CallEnds ==
    /\ tab.call.st = "up"
    /\ tab' = [tab EXCEPT !.call = [st |-> "no", on |-> 0, early |-> FALSE]]
    /\ UNCHANGED <<setup, world>>

-----------------------------------------------------------------------------
(* The end of a recording *)

\* The recorder fails: nothing of it is kept but what its leg has landed.
RecorderFails(r) ==
    LET i == tab.rec[r].inst
        l == tab.hook[i].stream
        failed == [tab.rec[r] EXCEPT !.st = "stopping", !.discard = TRUE, !.mic = FALSE,
                                     !.detector = "off", !.released = FALSE,
                                     !.go = IF @ = "owed" THEN "no" ELSE @]
        s == [tab EXCEPT !.rec[r] = failed, !.hook[i].phase = "idle", !.told = @ \cup {r}]
    IN
    /\ Recording(tab, r) /\ Happens
    /\ tab' = EarFreed(IF l = 0 THEN s ELSE DropStream(s, l), i)
    /\ UNCHANGED setup

TailEnds(r) ==
    /\ tab.rec[r].st = "settling"
    /\ tab' = StopNow(tab, tab.rec[r].inst, r)
    /\ UNCHANGED <<setup, world>>

\* The release takes the leg over and holds the tab's next one back.
HoldLeg(t, i, l, r) ==
    [t EXCEPT !.hook[i] = [@ EXCEPT !.stream = 0, !.phase = "sending"], !.closing = l,
              !.leg[l] = [@ EXCEPT !.fin = "drain", !.clip = r, !.uplink = "none"]]

\* The recorder's last event: the ear and the tab are free, in one step with
\* whatever takes them next.
OnStop(r, brief) ==
    LET i == tab.rec[r].inst
        l == tab.hook[i].stream
        s == [tab EXCEPT
                !.rec[r] = [@ EXCEPT !.st = "over", !.mic = FALSE, !.detector = "off",
                                     !.go = "no", !.released = FALSE, !.discard = FALSE],
                !.hook[i].rec = IF @ = r THEN 0 ELSE @,
                !.owners = @ \ {<<"rec", r>>}]
    IN
    /\ tab.rec[r].st = "stopping"
    /\ tab' = EarFreed(
                CASE tab.rec[r].discard -> [s EXCEPT !.hook[i].phase = "idle"]
                  [] ~tab.rec[r].discard /\ l # 0 -> HoldLeg(s, i, l, r)
                  [] ~tab.rec[r].discard /\ l = 0 -> Upload(s, r, tab.rec[r].slot, TRUE, brief), i)
    /\ UNCHANGED <<setup, world>>

\* The leg is closed, its held words land, and either it carried the words
\* or the clip does.
FinishEnds(t, l, brief) ==
    LET r == t.leg[l].clip
        i == t.leg[l].inst
        k == t.leg[l].slot
        nav == t.leg[l].reason = "navigated"
        s == Released([t EXCEPT !.leg[l].st = "closed", !.leg[l].fin = "no"], l)
        w == AppendPhrase(s, l, {})
    IN IF w.leg[l].finals
       THEN Ended([(IF nav THEN w ELSE AutoSend(w, r, k)) EXCEPT !.hook[i].phase = "idle"], l)
       ELSE Upload([w EXCEPT !.leg[l].fin = "upload"], r, k, ~nav, brief)

\* The queue is drained: ask the relay for the rest, unless the leg is dead
\* or its socket turns out to be closing.
Drained(l, brief) ==
    /\ tab.leg[l].fin = "drain" /\ (tab.leg[l].dead \/ tab.leg[l].queue = {})
    /\ \/ /\ tab.leg[l].dead
          /\ tab' = FinishEnds(tab, l, brief)
          /\ UNCHANGED world
       \/ /\ ~tab.leg[l].dead
          /\ tab' = [tab EXCEPT !.leg[l].fin = "tail"]
          /\ UNCHANGED world
       \/ /\ ~tab.leg[l].dead /\ Happens
          /\ tab' = FinishEnds(TellIfHeard([tab EXCEPT !.leg[l].dead = TRUE], l), l, brief)
    /\ UNCHANGED setup

\* A throttled page never drained it.
DrainRunsOut(l, brief) ==
    /\ tab.leg[l].fin = "drain" /\ ~tab.leg[l].dead /\ tab.leg[l].queue # {} /\ Happens
    /\ tab' = FinishEnds(TellIfHeard([tab EXCEPT !.leg[l].dead = TRUE], l), l, brief)
    /\ UNCHANGED setup

\* The tail's bound. What the relay has not answered by then it may never.
TailRunsOut(l, brief) ==
    LET late == IF tab.leg[l].finals \/ tab.leg[l].held # {}
                THEN Said(l, tab.leg[l].heard \ tab.leg[l].got) ELSE {} IN
    /\ tab.leg[l].fin = "tail"
    /\ tab' = FinishEnds([tab EXCEPT !.unheard = @ \cup late], l, brief)
    /\ UNCHANGED <<setup, world>>

\* A leg with the clock says when all that was asked for has been answered.
Flushed(l, brief) ==
    /\ tab.leg[l].fin = "tail" /\ Mine(tab, l) /\ tab.leg[l].ready /\ setup.clock
    /\ tab.leg[l].heard = tab.leg[l].got
    /\ tab' = FinishEnds(tab, l, brief)
    /\ UNCHANGED <<setup, world>>

\* A death or a hidden page ended the wait.
TailEnded(l, brief) ==
    /\ tab.leg[l].fin = "end"
    /\ tab' = FinishEnds(tab, l, brief)
    /\ UNCHANGED <<setup, world>>

-----------------------------------------------------------------------------
(* The upload of a clip *)

\* The words land where they were said, and the loop is left.
Transcribed(r) ==
    LET c == tab.clip[r]
        s == AppendDraft(tab, Said(r, 1 .. tab.rec[r].said), c.slot)
    IN
    /\ c.st = "post"
    /\ tab' = LeaveLoop(IF c.send /\ tab.rec[r].said > 0 THEN AutoSend(s, r, c.slot) ELSE s, r, "gone")
    /\ UNCHANGED <<setup, world>>

\* Nothing was heard, or the clip was refused: the owner is told.
Refused(r) ==
    /\ tab.clip[r].st = "post" /\ Happens
    /\ tab' = LeaveLoop([tab EXCEPT !.told = @ \cup {r}], r, "gone")
    /\ UNCHANGED setup

\* The server failed, or its answer was garbled: the owner decides.
Parks(r) ==
    /\ tab.clip[r].st = "post" /\ Happens
    /\ tab' = LeaveLoop(tab, r, "parked")
    /\ UNCHANGED setup

\* Mutant of TransportFails: one attempt too many.
TransportFailsLate(r) ==
    /\ tab.clip[r].st = "post" /\ Happens
    /\ tab' = IF ~world.online THEN [tab EXCEPT !.clip[r].st = "offline"]
              ELSE IF tab.clip[r].attempt > Attempts THEN LeaveLoop(tab, r, "parked")
              ELSE [tab EXCEPT !.clip[r] = [st |-> "backoff", slot |-> @.slot, send |-> @.send,
                                                attempt |-> @.attempt + 1]]
    /\ UNCHANGED setup

\* No answer. Offline it is no attempt; else it is repeated after a while.
TransportFails(r) ==
    /\ tab.clip[r].st = "post" /\ Happens
    /\ tab' = IF ~world.online THEN [tab EXCEPT !.clip[r].st = "offline"]
              ELSE IF tab.clip[r].attempt >= Attempts THEN LeaveLoop(tab, r, "parked")
              ELSE [tab EXCEPT !.clip[r] = [st |-> "backoff", slot |-> @.slot, send |-> @.send,
                                                attempt |-> @.attempt + 1]]
    /\ UNCHANGED setup

TryAgain(r) ==
    /\ tab.clip[r].st = "backoff" \/ (tab.clip[r].st = "offline" /\ world.online)
    /\ tab' = [tab EXCEPT !.clip[r].st = IF world.online THEN "post" ELSE "offline"]
    /\ UNCHANGED <<setup, world>>

\* The deadline of the whole loop.
GivesUp(r) ==
    /\ tab.clip[r].st \in {"offline", "backoff"}
    /\ tab' = LeaveLoop(tab, r, "parked")
    /\ UNCHANGED <<setup, world>>

MayRetry == tab.owners = {} /\ tab.closing = 0

\* The toast's two buttons.
Retry(r) ==
    /\ tab.clip[r].st = "parked" /\ MayRetry /\ Happens
    /\ tab' = SendClip(tab, r)
    /\ UNCHANGED setup

Discard(r) ==
    /\ tab.clip[r].st = "parked" /\ Happens
    /\ tab' = [tab EXCEPT !.clip[r].st = "gone", !.told = @ \cup {r}]
    /\ UNCHANGED setup

LinkFalls ==
    /\ world.online /\ world.events < setup.events
    /\ world' = [online |-> FALSE, events |-> world.events + 1]
    /\ UNCHANGED <<setup, tab>>

LinkReturns ==
    /\ ~world.online /\ world' = [world EXCEPT !.online = TRUE]
    /\ UNCHANGED <<setup, tab>>

-----------------------------------------------------------------------------

\* What the page does unasked.
Runs(r) ==
    \/ ArmDetector(r) \/ UplinkUp(r) \/ GoLive(r) \/ Pump(r) \/ TailEnds(r)
    \/ TailRunsOut(r, FALSE) \/ TailEnded(r, FALSE) \/ Drained(r, FALSE) \/ OnStop(r, FALSE)
    \/ TryAgain(r) \/ GivesUp(r)

\* The same for a hold shorter than a second.
RunsBrief(r) ==
    TailRunsOut(r, TRUE) \/ TailEnded(r, TRUE) \/ Drained(r, TRUE) \/ OnStop(r, TRUE)

Relays(l) ==
    \/ RelayReady(l) \/ SocketCloses(l) \/ UplinkFails(l) \/ Backlogged(l)
    \/ \E kind \in {"words", "cut", "error"} : Final(l, kind)
    \/ \E brief \in BOOLEAN : Flushed(l, brief) \/ DrainRunsOut(l, brief)

Serves(r) ==
    \/ AskGranted(r) \/ AskFails(r) \/ RecorderFails(r)
    \/ Transcribed(r) \/ Refused(r) \/ Parks(r) \/ TransportFails(r)

Owner ==
    \/ Release \/ RunsOut \/ Cancel \/ Hide \/ Unmount \/ Mount \/ MintWire \/ DeletedElsewhere
    \/ CallStarts \/ CallEnds \/ LinkFalls \/ LinkReturns
    \/ \E next \in Slots : Navigate(next)
    \/ \E r \in Recs : Start(r) \/ Say(r) \/ Retry(r) \/ Discard(r)

Next ==
    \/ CarryLands \/ Owner
    \/ \E r \in Recs : Runs(r) \/ RunsBrief(r) \/ Relays(r) \/ Serves(r)

\* The page goes on while it has something to do: timers fire, queued events
\* arrive, and an upload's answer or its horizon comes. Neither the relay, the
\* owner nor a permission prompt need answer.
Fairness ==
    WF_vars(CarryLands \/ \E r \in Recs : Runs(r) \/ Transcribed(r) \/ TransportFails(r))

Spec == Init /\ [][Next]_vars
FairSpec == Spec /\ Fairness

-----------------------------------------------------------------------------
(* Properties *)

Phrases == Recs \X (1 .. MaxSaid)
Landed == UNION {tab.draft[k] : k \in Slots} \cup {x[1] : x \in tab.sent}
Uploading(r) == tab.clip[r].st \in {"post", "backoff", "offline"}

\* Every field in its range; a leg has answered only what it has heard, and heard
\* only what was said.
TypeOK ==
    /\ \A i \in Instances :
        /\ tab.hook[i].phase \in {"idle", "recording", "sending"}
        /\ {tab.hook[i].arm, tab.hook[i].rec, tab.hook[i].stream, tab.hook[i].leg} \subseteq {0} \cup Recs
    /\ tab.mount \in 0 .. 2 /\ tab.closing \in {0} \cup Recs /\ tab.live \in {0} \cup Recs
    /\ tab.owners \subseteq {"rec", "clip"} \X Recs
    /\ \A r \in Recs :
        /\ tab.rec[r].ask \in {"none", "asked", "aborted", "done", "returned"}
        /\ tab.rec[r].st \in {"none", "live", "settling", "stopping", "over"}
        /\ tab.leg[r].st \in {"none", "open", "closed"}
        /\ tab.leg[r].fin \in {"no", "drain", "tail", "end", "upload"}
        /\ tab.leg[r].got \subseteq tab.leg[r].heard
        /\ tab.leg[r].heard \cup tab.leg[r].queue \subseteq 1 .. tab.rec[r].said
        /\ tab.clip[r].st \in {"none", "post", "offline", "backoff", "parked", "gone"}
        /\ tab.clip[r].attempt \in 0 .. Attempts
    /\ tab.call.st \in {"no", "ear", "leg", "up"} /\ tab.call.early \in BOOLEAN
    /\ Landed \subseteq Phrases

\* A recording whose words are still on their way.
Undecided(r) ==
    \/ tab.rec[r].st \in {"live", "settling", "stopping"}
    \/ \E l \in Recs : tab.leg[l].clip = r /\ tab.leg[l].fin # "no"
    \/ Uploading(r) \/ tab.clip[r].st = "parked"

\* The streamed words and the clip are one recording twice over. Whichever
\* faults, stops and late frames there were: a phrase in a draft is in no clip
\* that may still land, and once all is decided a phrase that is nowhere is one
\* the owner was told of or cancelled, or the relay gave no words for in time
\* (rule 3; here also the phrases a release's drain pumped before the handshake,
\* which are lost in silence once a later phrase has landed).
WordsLandOnce ==
    \A r \in Recs : \A k \in 1 .. tab.rec[r].said :
        LET p == <<r, k>> IN
        /\ p \in Landed => ~Uploading(r) /\ tab.clip[r].st # "parked"
        /\ \/ p \in Landed \cup tab.unheard \cup tab.eaten
           \/ r \in tab.told \/ Undecided(r)

\* The legs that are up or being released.
Wanted == ({tab.hook[i].stream : i \in Instances} \cup {tab.closing}) \ {0}

\* One ear: the tab holds one microphone and wants one leg at most, none beside
\* an upload; a composer with an open microphone never looks idle; and a call
\* has the ear only when both are given back. Except a call that was told `early`:
\* while it waited for a recording, an ask its composer had abandoned was answered;
\* or it began while the recording of a composer that had left was still ending.
OneEar ==
    LET open == {r \in Recs : tab.rec[r].mic}
        posting == {r \in Recs : Uploading(r)}
    IN
    /\ Cardinality(open) + Cardinality(posting) <= 1
    /\ Cardinality(Wanted) <= 1 /\ (posting # {} => tab.closing = 0)
    /\ \A r \in open : tab.rec[r].inst = tab.mount => tab.hook[tab.mount].phase # "idle"
    /\ tab.call.st = "up" /\ ~tab.call.early => open = {} /\ tab.closing = 0

\* A call has the ear alone. The code does not keep this: README, section 4.
CallAlone == tab.call.st = "up" => tab.closing = 0 /\ \A r \in Recs : ~tab.rec[r].mic

\* Words stay with their conversation: a recording sends on its own only into
\* the view it started in, or the one the owner's send made of it; what is sent
\* was said there or carried there with its draft; and a deleted conversation
\* keeps none once its draft has been carried away.
WordsStayHome ==
    /\ \A x \in tab.sent : x[3] # 0 => <<tab.rec[x[3]].slot, x[2]>> \in {<<0, 2>>} \cup {<<k, k>> : k \in Slots}
    /\ \A x \in tab.sent : tab.rec[x[1][1]].slot \in {x[2], 0} \cup tab.dead
    /\ tab.carry.st = "done" => tab.draft[tab.carry.from] = {}

\* The ear comes back: only a recording holds the tab, every release ends, every
\* upload ends or parks, a call that waits gets the ear unless a permission prompt
\* is left unanswered, and a carried draft moves on unless a leg was armed for a
\* recording already over.
Orphan(l) == tab.leg[l].st = "open" /\ tab.leg[l].fin = "no" /\ tab.rec[l].st = "over"

MicRests ==
    []<>(/\ \A o \in tab.owners : tab.rec[o[2]].ask = "asked" \/ Recording(tab, o[2])
         /\ tab.closing = 0 /\ \A r \in Recs : ~Uploading(r) /\ tab.rec[r].st # "stopping"
         /\ tab.call.st \in {"no", "up"} \/ \E r \in Recs : tab.rec[r].ask \in {"asked", "aborted"}
         /\ tab.carry.st # "waiting" \/ \E l \in Recs : Orphan(l))

=============================================================================
