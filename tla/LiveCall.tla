------------------------------ MODULE LiveCall ------------------------------
(***************************************************************************)
(* A live voice call in the browser: the reducer of CallMachine driven by  *)
(* the hook that owns the microphone, the relay's socket, the timers and   *)
(* the chat (useLiveCall of frontend/src/hooks/useLiveCall.ts).            *)
(*                                                                         *)
(* The environment is the relay's speech detector on one leg (a segment is *)
(* opened, closed and answered, in that order), the chat server (a posted  *)
(* message is answered, a turn ends, a cancel settles), the speaker, and   *)
(* the owner.  What the owner and the network do against the call - mute,  *)
(* route moves, stops, dropped legs, outages - is drawn from a budget of   *)
(* `stirs`, so that everything else can be given fairness.                 *)
(*                                                                         *)
(* A callback the hook armed under an earlier generation is fenced: the    *)
(* sockets' and timers' are dropped with what armed them, the answers to a *)
(* post or a cancel, and a microphone that opens late, carry their fence.  *)
(***************************************************************************)
EXTENDS CallMachine, FiniteSets, FiniteSetsExt

CONSTANTS MaxSegs,   \* segments the owner speaks
          MaxStirs,  \* disturbances in a behaviour
          Setups,    \* what a call may find (below)
          Kinds      \* the disturbances allowed

\* The turn hold is configured; the relay's legs declare the leg clock; a
\* capture without echo cancelling hears the speaker; the tab's marker says an
\* earlier document left a call unfinished.
ASSUME CallAssumption ==
    /\ MaxSegs \in Nat /\ MaxStirs \in Nat
    /\ Setups \subseteq [knob : BOOLEAN, clock : BOOLEAN, echo : BOOLEAN, prior : BOOLEAN]

VARIABLES call,    \* the reducer's state
          page,    \* what the hook and the stores it calls hold
          ear,     \* the relay's session on the leg: the open segment, those owed
          heeded,  \* segments of this session whose answer the call must wait for
          told,    \* what became of each segment's words
          stirs    \* disturbances so far

vars == <<call, page, ear, heeded, told, stirs>>

Words == 1 .. MaxSegs

Fates == {"unheard", "open", "accepted", "unsure", "draft", "dropped"}

MountAsk == [mount |-> TRUE, gen |-> 0]

FreshSession(e) == [e EXCEPT !.open = Unnamed, !.owed = <<>>, !.cut = {}, !.lost = {}]

-----------------------------------------------------------------------------
(* What a step's effects do.  r is the call, the page and the words' fates. *)

Tell(t, words, fate) == [w \in DOMAIN t |-> IF w \in ToSet(words) THEN fate ELSE t[w]]

\* sendCallTranscript: an upload holds the words, and a held message goes back
\* in front of the queue with its one retry re-armed.
Post(r, words) ==
    IF words = <<>> THEN r
    ELSE IF r.page.uploading
    THEN [r EXCEPT !.call = CallReduce(@, Sent(@, "held", words)).s,
                   !.page.retried = FALSE]
    ELSE [r EXCEPT !.page.posts = @ \cup {[words |-> words, gen |-> r.call.gen]},
                   !.page.hush = @ /\ r.page.turn,
                   !.page.turn = TRUE]

ReleaseEar(p) ==
    [p EXCEPT !.leg = "none", !.retry = FALSE, !.capture = FALSE,
              !.mics = IF p.capture THEN @ - 1 ELSE @]

\* The kill: the voice stops at once, the rest of this turn stays silent, and
\* the cancel is scoped to the turn there is; with none it is settled already.
Kill(r) ==
    LET quiet == [r EXCEPT !.page.reply = "none", !.page.hush = r.page.turn]
        settled == CallReduce(r.call, KillSettled(r.call))
    IN  IF r.page.turn
        THEN [quiet EXCEPT !.page.cancels = @ \cup {r.call.gen}]
        ELSE Post([quiet EXCEPT !.call = settled.s], settled.out.submit)

Perform(r, do) ==
    IF "kill" \in do THEN Kill(r)
    ELSE IF "reconnect" \in do THEN [r EXCEPT !.page.retry = TRUE, !.page.leg = "none"]
    ELSE IF "closeLeg" \in do
    THEN [r EXCEPT !.page.leg = IF @ = "none" THEN @ ELSE "closing"]
    ELSE IF "recapture" \in do
    THEN [r EXCEPT !.page = [ReleaseEar(@) EXCEPT
                               !.asks = @ \cup {[mount |-> FALSE, gen |-> r.call.gen]}]]
    ELSE IF "teardown" \in do
    THEN [r EXCEPT !.page = [ReleaseEar(@) EXCEPT !.reply = "none"]]
    ELSE r

Carry(r, step) ==
    LET moved == [r EXCEPT !.call = step.s, !.told = Tell(@, step.out.harvest, "draft")]
    IN  Perform(Post(moved, step.out.submit), step.out.do)

\* `send`: reduce the signal, then carry out what the reducer asked for.  p is
\* the page as the event left it, t what it did to the words.
Send(signal, p, t) ==
    \E arm \in {signal} : \E step \in {CallReduce(call, arm)} :
    \E r \in {Carry([call |-> call, page |-> p, told |-> t], step)} :
        call' = r.call /\ page' = r.page /\ told' = r.told

\* The session of a leg that is no longer this call's is gone with it.
Session(e, h) ==
    IF page'.leg \in {"up", "closing"} /\ call'.gen = call.gen
    THEN ear' = e /\ heeded' = h
    ELSE ear' = FreshSession(e) /\ heeded' = {}

Signal(step, p) == Send(step, p, told) /\ Session(ear, heeded)

Stir(kind) == kind \in Kinds /\ stirs < MaxStirs /\ stirs' = stirs + 1

-----------------------------------------------------------------------------
(* The microphone and the leg *)

NewPage ==
    [leg |-> "none", retry |-> FALSE, asks |-> {MountAsk}, capture |-> FALSE, mics |-> 0,
     posts |-> {}, cancels |-> {}, turn |-> FALSE, reply |-> "none", hush |-> FALSE,
     uploading |-> FALSE, retried |-> FALSE, clock |-> FALSE, echo |-> FALSE]

Init ==
    /\ \E setup \in Setups :
          /\ call = [Initial EXCEPT !.knob = setup.knob, !.prior = setup.prior]
          /\ page = [NewPage EXCEPT !.clock = setup.clock, !.echo = setup.echo]
    /\ ear = [open |-> Unnamed, owed |-> <<>>, cut |-> {}, lost |-> {}, next |-> 1]
    /\ heeded = {}
    /\ told = [w \in Words |-> "unheard"]
    /\ stirs = 0

\* The caller's own fence: the mount's falls at its unmount, which lands the
\* call over first; a route cycle's is the generation it was asked under.
Alive(ask) == ask.mount \/ ask.gen = call.gen

\* acquire resolves: a capture nobody wants stops itself; a wanted one is the
\* hook's capture, whatever was there, and dials a leg.
MicOpens(ask) ==
    /\ ask \in page.asks
    /\ IF ~Alive(ask) \/ Over(call)
       THEN page' = [page EXCEPT !.asks = @ \ {ask}] /\ UNCHANGED <<call, ear, heeded, told>>
       ELSE Signal(CaptureReady(call, page.echo /\ ~call.aec),
                   [page EXCEPT !.asks = @ \ {ask}, !.capture = TRUE, !.mics = @ + 1,
                                !.leg = "dialing"])
    /\ UNCHANGED stirs

MicRefused(ask) ==
    /\ ask \in page.asks /\ Alive(ask)
    /\ Stir("mic")
    /\ Signal(Terminal(call), [page EXCEPT !.asks = @ \ {ask}])

LegReady ==
    /\ page.leg = "dialing"
    /\ Signal(Ready(call, page.clock), [page EXCEPT !.leg = "up"])
    /\ UNCHANGED stirs

\* Refused `busy`: said, then closed.
LegBusy ==
    /\ page.leg = "dialing"
    /\ Stir("busy")
    /\ Signal(Busy(call), [page EXCEPT !.leg = "closing"])

LegLost ==
    /\ page.leg \in {"dialing", "up"}
    /\ Stir("drop")
    /\ Signal(SocketLost(call), [page EXCEPT !.leg = "none"])

LegClosed ==
    /\ page.leg = "closing"
    /\ Signal(SocketLost(call), [page EXCEPT !.leg = "none"])
    /\ UNCHANGED stirs

\* The retry timer: openLeg wants a capture.
Redial ==
    /\ page.retry
    /\ page' = [page EXCEPT !.retry = FALSE,
                            !.leg = IF page.capture THEN "dialing" ELSE @]
    /\ UNCHANGED <<call, ear, heeded, told, stirs>>

\* The page slept and its ear with it: the leg is closed, its close redials.
EarSlept ==
    /\ page.capture /\ call.phase # "connecting"
    /\ Stir("outage")
    /\ Signal(EarOutage(call), page)

EarDied ==
    /\ page.capture
    /\ Stir("dead")
    /\ Signal(EarDead(call), page)

Route ==
    /\ call.phase \in Stable
    /\ Stir("route")
    /\ \E aec \in BOOLEAN : Signal(RouteChange(call, aec), page)

-----------------------------------------------------------------------------
(* The ear *)

Listening == page.leg \in {"up", "closing"}

SegmentOpens ==
    /\ page.leg = "up" /\ call.phase # "connecting"
    /\ ear.open = Unnamed /\ ear.next \in Words
    /\ Send(SpeechStart(call, ear.next), page, told)
    /\ Session([ear EXCEPT !.open = ear.next, !.next = @ + 1],
               IF call'.item = ear.next THEN heeded \cup {ear.next} ELSE heeded)
    /\ UNCHANGED stirs

SegmentCloses ==
    /\ Listening /\ ear.open # Unnamed
    /\ Send(SpeechStop(call, ear.open), page, told)
    /\ Session([ear EXCEPT !.open = Unnamed, !.owed = Append(@, ear.open)],
               heeded \cap ToSet(call'.awaiting))
    /\ UNCHANGED stirs

\* A leg with the clock cuts a segment at its length limit: it stops and the
\* next one starts where it ends.
SegmentCut ==
    /\ page.leg = "up" /\ call.clock
    /\ ear.open # Unnamed /\ ear.next \in Words
    /\ LET stop == Carry([call |-> call, page |-> page, told |-> told],
                         CallReduce(call, SpeechStop(call, ear.open)))
           start == Carry(stop, CallReduce(stop.call, SpeechStart(stop.call, ear.next)))
       IN  call' = start.call /\ page' = start.page /\ told' = start.told
    /\ Session([ear EXCEPT !.open = ear.next, !.owed = Append(@, ear.open),
                           !.cut = @ \cup {ear.open}, !.next = @ + 1],
               (heeded \cap ToSet(call'.awaiting))
                 \cup (IF call'.item = ear.next THEN {ear.next} ELSE {}))
    /\ UNCHANGED stirs

\* The verdict timer: this segment, still open, is noise.
NoiseVerdict ==
    /\ Listening /\ call.talking /\ ~call.noise /\ call.item = ear.open
    /\ Signal(SegmentNoise(call), page)
    /\ UNCHANGED stirs

\* The words of the answered segment were taken iff the reducer queued or sent them.
Took(f) == ~call.muted /\ ~EarHeld(call) /\ f.text

AnswerWith(f) ==
    LET id == Head(ear.owed)
    IN  /\ Send(Final(call, f), page,
                IF Took(f) THEN [told EXCEPT ![id] = "open"] ELSE told)
        /\ Session([ear EXCEPT !.owed = Tail(@)],
                   IF f.id = Unnamed /\ ~call.clock THEN {} ELSE heeded \ {id})

\* The transcript; only a leg with the clock says that it cut the segment, or that
\* something is odd with it: then neither its text nor its reason is believed.
SegmentAnswered ==
    /\ Listening /\ ear.owed # <<>>
    /\ \E text, odd \in BOOLEAN :
          /\ odd => call.clock /\ ~text
          /\ AnswerWith([id |-> Head(ear.owed), word |-> Head(ear.owed), text |-> text,
                         cap |-> Head(ear.owed) \in ear.cut /\ ~odd])
    /\ UNCHANGED stirs

\* An older relay names no segment, or answers with an error that names none.
SegmentAnsweredBare ==
    /\ Listening /\ ear.owed # <<>> /\ ~call.clock
    /\ \/ AnswerWith([id |-> Unnamed, word |-> Head(ear.owed), text |-> TRUE, cap |-> FALSE])
       \/ /\ Send(UpstreamError(call), page, told)
          /\ Session([ear EXCEPT !.owed = Tail(@)], {})
    /\ UNCHANGED stirs

\* The relay fails to answer.  With the clock the head's time to live is for that;
\* without it the next answer is, which settles every segment before its own.
AnswerLost ==
    /\ Listening /\ ear.owed # <<>>
    /\ Stir("lost")
    /\ UNCHANGED <<call, page, told>>
    /\ Session([ear EXCEPT !.owed = Tail(@), !.lost = @ \cup {Head(ear.owed)}], heeded)

HeadExpires ==
    /\ call.clock /\ call.awaiting # <<>>
    /\ Send(AnswerExpired(call), page, told)
    /\ Session(ear, heeded \ {Head(call.awaiting)})
    /\ UNCHANGED stirs

HoldElapses ==
    /\ call.hold /\ call.knob /\ ~call.due
    /\ Signal(TurnHoldOver(call), page)
    /\ UNCHANGED stirs

TailFades ==
    /\ call.tail
    /\ Signal(TailOver(call), page)
    /\ UNCHANGED stirs

ToggleMute ==
    /\ ~Over(call)
    /\ Stir("mute")
    /\ Send(SetMuted(call, ~call.muted), page, told)
    /\ Session(ear, {})

-----------------------------------------------------------------------------
(* The chat and the speaker *)

\* The answer to a posted message, read under the generation it was sent in.
PostAnswered(p) ==
    /\ p \in page.posts
    /\ \E outcome \in {"accepted", "refused", "unknown"} :
         LET done == [page EXCEPT !.posts = @ \ {p}]
             fate == CASE outcome = "accepted" -> "accepted"
                       [] outcome = "unknown" -> "unsure"
                       [] OTHER -> "dropped"
         IN  IF p.gen = call.gen
             THEN Send(Sent(call, outcome, p.words), done, Tell(told, p.words, fate))
             ELSE /\ page' = done /\ told' = Tell(told, p.words, fate)
                  /\ UNCHANGED call
    /\ Session(ear, heeded)
    /\ UNCHANGED stirs

TurnOver ==
    /\ page.turn
    /\ Signal(TurnSettled(call), [page EXCEPT !.turn = FALSE])
    /\ UNCHANGED stirs

CancelDone(g) ==
    /\ g \in page.cancels
    /\ IF g = call.gen
       THEN Signal(KillSettled(call), [page EXCEPT !.cancels = @ \ {g}])
       ELSE /\ page' = [page EXCEPT !.cancels = @ \ {g}]
            /\ UNCHANGED <<call, ear, heeded, told>>
    /\ UNCHANGED stirs

\* A turn nobody in this call started, on the thread it shows.
ForeignTurn ==
    /\ ~page.turn /\ ~Over(call)
    /\ Stir("foreign")
    /\ page' = [page EXCEPT !.turn = TRUE, !.hush = FALSE]
    /\ UNCHANGED <<call, ear, heeded, told>>

\* A live turn's reply reaches the read-along, which asks the call before it
\* makes a sound.
ReplyReady ==
    /\ page.turn /\ ~page.hush /\ page.reply = "none" /\ ~Over(call)
    /\ page' = [page EXCEPT !.reply = "waiting", !.hush = TRUE]
    /\ UNCHANGED <<call, ear, heeded, told, stirs>>

MouthOpens ==
    /\ page.reply = "waiting" /\ MouthMayOpen(call)
    /\ Signal(PlaybackStarted(call), [page EXCEPT !.reply = "speaking"])
    /\ UNCHANGED stirs

MouthDrains ==
    /\ page.reply = "speaking"
    /\ Signal(PlaybackDrained(call), [page EXCEPT !.reply = "none"])
    /\ UNCHANGED stirs

\* Synthesis that made no sound, or a media error under way.
MouthFails ==
    /\ page.reply # "none"
    /\ Stir("voice")
    /\ Signal(PlaybackFailed(call), [page EXCEPT !.reply = "none"])

-----------------------------------------------------------------------------
(* The owner *)

Interrupt ==
    /\ Stir("stop")
    /\ ~Over(call)
    /\ \/ /\ call.mouth \/ call.phase = "thinking"
          /\ Signal(Stop(call), page)
       \/ /\ call.mouth /\ ~call.holds
          /\ Signal(Barge(call), page)

AskConfirm ==
    /\ page.turn /\ ~call.confirm /\ ~Over(call)
    /\ Stir("confirm")
    /\ Signal(ConfirmHold(call, TRUE), page)

Confirmed ==
    /\ call.confirm
    /\ Signal(ConfirmHold(call, FALSE), page)
    /\ UNCHANGED stirs

StageFile ==
    /\ ~page.uploading /\ ~Over(call)
    /\ Stir("upload")
    /\ page' = [page EXCEPT !.uploading = TRUE]
    /\ UNCHANGED <<call, ear, heeded, told>>

FileStaged ==
    /\ page.uploading
    /\ page' = [page EXCEPT !.uploading = FALSE]
    /\ UNCHANGED <<call, ear, heeded, told, stirs>>

\* The effect that watches a held upload: once per hold.
RetryHeld ==
    /\ call.upload /\ ~page.uploading /\ ~page.retried
    /\ Signal(UploadSettled(call), [page EXCEPT !.retried = TRUE])
    /\ UNCHANGED stirs

HangUp ==
    /\ ~Over(call)
    /\ Stir("exit")
    /\ \/ Send(Exit(call), page, told) /\ Session(ear, heeded)
       \/ Signal(IdleExpired(call), page) /\ ~call.confirm

-----------------------------------------------------------------------------
MicResolves == \E ask \in page.asks : MicOpens(ask)
MicFails == \E ask \in page.asks : MicRefused(ask)
Answered == \E p \in page.posts : PostAnswered(p)
Cancelled == \E g \in page.cancels : CancelDone(g)

\* What is waited for comes: the browser runs its timers and callbacks, the
\* relay and the chat server answer or close, the owner falls silent and
\* answers what is asked of them.
Progress ==
    \/ MicResolves \/ LegReady \/ LegClosed \/ Redial
    \/ SegmentCloses \/ SegmentAnswered \/ HeadExpires \/ HoldElapses \/ TailFades
    \/ Answered \/ TurnOver \/ Cancelled \/ MouthOpens \/ MouthDrains
    \/ Confirmed \/ FileStaged \/ RetryHeld

Disturbance ==
    \/ MicFails \/ LegBusy \/ LegLost \/ EarSlept \/ EarDied \/ Route \/ AnswerLost
    \/ ToggleMute \/ ForeignTurn \/ MouthFails \/ Interrupt \/ AskConfirm
    \/ StageFile \/ HangUp

Next ==
    \/ Progress \/ SegmentOpens \/ SegmentCut \/ NoiseVerdict
    \/ SegmentAnsweredBare \/ ReplyReady \/ Disturbance

Spec == Init /\ [][Next]_vars

\* One condition on all of them: none of these steps can be taken forever, so
\* each that stays possible is taken.
Fairness == WF_vars(Progress)

FairSpec == Spec /\ Fairness

-----------------------------------------------------------------------------
(* Properties *)

Posted == UNION {ToSet(p.words) : p \in page.posts}

\* The reducer's record, the hook's and the relay session have their types.
TypeOK ==
    /\ call.phase \in Phases /\ DOMAIN call = DOMAIN Initial
    /\ ToSet(call.pending) \cup ToSet(call.awaiting) \subseteq Words
    /\ call.item \in 0 .. MaxSegs /\ call.attempts \in 0 .. Rungs
    /\ page.leg \in {"none", "dialing", "up", "closing"}
    /\ page.reply \in {"none", "waiting", "speaking"}
    /\ page.mics \in Nat /\ (page.capture => page.mics > 0)
    /\ page.cancels \subseteq 0 .. call.gen /\ \A p \in page.posts : p.gen <= call.gen
    /\ ear.open \in 0 .. MaxSegs /\ ear.next \in 1 .. (MaxSegs + 1)
    /\ heeded \subseteq Words /\ told \in [Words -> Fates] /\ stirs \in 0 .. MaxStirs

\* What the owner said is never lost or said twice on the way out of the call
\* (useLiveCall.ts "the queue is kept", the harvest of every terminal): a word
\* the call took is in the queue or in one posted message until it has a fate,
\* and afterwards in neither.
WordsConserved ==
    \A w \in Words :
        LET queued == Cardinality({i \in DOMAIN call.pending : call.pending[i] = w})
            posted == Cardinality({p \in page.posts : w \in ToSet(p.words)})
        IN  queued + posted = (IF told[w] = "open" THEN 1 ELSE 0)

\* A kill goes first (callReduce's "killing" hold): nothing is posted to the turn
\* while the cancel of the reply the owner interrupted is in flight.
KillGoesFirst ==
    [][page'.posts \ page.posts # {} => call'.gen \notin page'.cancels]_vars

\* The ear's count and the relay's agree over lost legs, mutes, held ears and
\* expired answers: a segment the call heeded and whose answer is still to
\* come is the open one or awaited - else a reply would talk over the owner -
\* and what is awaited on a leg is what its session owes or has lost.
EarKeepsCount ==
    /\ \A id \in heeded :
          /\ id = ear.open => call.talking /\ call.item = id
          /\ id \in ToSet(ear.owed) => id \in ToSet(call.awaiting)
    /\ ToSet(call.awaiting) \subseteq ToSet(ear.owed) \cup ear.lost
    /\ call.talking => call.item = ear.open

\* The speaker never starts over the owner: no heeded segment is being spoken,
\* unless judged noise, or still unanswered.
NeverTalksOver ==
    [][page'.reply = "speaking" /\ page.reply # "speaking"
        => \A id \in heeded : id = ear.open => call.noise]_vars

\* Messages go out in the order they were spoken, over kills, route cycles,
\* held uploads and the turn hold's releases.
InSpokenOrder ==
    [][\A p \in page'.posts \ page.posts : \A w \in ToSet(p.words), v \in Words :
          v \in Posted \/ told[v] \in {"accepted", "unsure"} => v < w]_vars

\* A call that is over holds no microphone ("Release EVERYTHING, on every exit
\* path", useLiveCall.ts teardown). The code does not keep this: README, section 4.
MicsReleased == Over(call) /\ page.asks = {} => page.mics = 0

\* The two sides of the call take turns: a kill before a post, the owner before the
\* speaker, the earlier words before the later.
TakesTurns == KillGoesFirst /\ NeverTalksOver /\ InSpokenOrder

\* Nothing is misheard: no word is lost or said twice, and the two ends of a leg
\* agree about what is still to be answered.
NothingMisheard == WordsConserved /\ EarKeepsCount

\* Half a sentence that came after both its waits had expired, whose other half's
\* answer is then lost: it is held until the owner speaks or hangs up.
HalfForsaken == call.join /\ ear.open = 0 /\ ear.owed = <<>> /\ call.awaiting = <<>>

\* Nothing on a leg without the clock ends the wait for an answer that was lost: the
\* call waits for the next answer, and so for the owner to speak or to hang up.
AnswerForsaken ==
    /\ ~call.clock /\ call.awaiting # <<>>
    /\ ear.open = 0 /\ ear.owed = <<>> /\ ToSet(call.awaiting) \subseteq ear.lost

\* The call moves: connecting ends in a live leg or in the end of the call, a
\* queued utterance is sent or goes back to the owner's draft, and a reply that
\* is held back is heard, killed or ends with the call. It may stay otherwise
\* only behind a half or an answer forsaken.
CallMoves ==
    []<>(/\ call.phase # "connecting"
         /\ \/ call.pending = <<>> /\ page.reply # "waiting"
            \/ HalfForsaken
            \/ AnswerForsaken)

=============================================================================
