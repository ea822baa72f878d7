----------------------------- MODULE ReadAloud -----------------------------
(***************************************************************************)
(* Reading replies aloud in the browser: the one audio element, its queue  *)
(* of synthesized chunks and the gates an automatic start passes           *)
(* (frontend/src/lib/audioController.ts), with the feeder that hands it a  *)
(* growing reply and finishes it at the turn's end (hooks/useAutoTts.ts).  *)
(*                                                                         *)
(* A reply is its count of chunks and a version of its words.  Durations,  *)
(* fractions of a seek, voices, toasts and the timeline are left out: they *)
(* decide nothing here.  The code's request generation is kept as what it  *)
(* is compared for: `live` on the queue and `fresh` on every continuation  *)
(* say that the generation has not moved since they were armed.  The       *)
(* feeder's effect and the element's own events run before the next task,  *)
(* so they are part of the step that causes them, except `play`.           *)
(***************************************************************************)
EXTENDS Naturals, Sequences, FiniteSets, FiniteSetsExt, SequencesExt

CONSTANTS MaxChunks,  \* chunks in the longest reply
          Lookahead,  \* chunks synthesized ahead once a voice has answered
          MaxStirs,   \* what the owner, the network and the platform do, in all
          Worlds      \* the settings and the events of a behaviour (below)

\* `chunked`: replies are read chunk by chunk; `along`: while they stream;
\* `call`: a voice call is up, and its mouth gate with it.
ASSUME ReadAssumption ==
    /\ MaxChunks \in Nat \ {0} /\ Lookahead \in Nat \ {0} /\ MaxStirs \in Nat
    /\ \A w \in Worlds : /\ w.replies \in Nat /\ IsFiniteSet(w.kinds)
                         /\ {w.chunked, w.along, w.call} \subseteq BOOLEAN

VARIABLES world,  \* one of Worlds
          mouth,  \* the controller's module state and the element
          turn,   \* the streaming turn and the feeder's refs
          words,  \* per reply, the version of its words
          stirs

vars == <<world, mouth, turn, words, stirs>>

None == 0

NoSession == [id |-> None, ver |-> 1, st |-> <<>>, req |-> <<>>, fly |-> <<>>, at |-> 0,
              waiting |-> FALSE, want |-> FALSE, parked |-> FALSE, along |-> FALSE,
              open |-> FALSE, pinned |-> FALSE]

Silent == [id |-> None, ver |-> 1, chunk |-> 0, on |-> "off"]

-----------------------------------------------------------------------------
(* The controller: every operator answers the controller's next state. *)

ReleasePrime(m) == [m EXCEPT !.priming = FALSE]

\* `load()` with no source: the platform's stream starts to age.
Unload(m) == [m EXCEPT !.el = Silent, !.aged = @ /\ m.el.id = None /\ ~m.priming]

\* A new generation: nothing armed under the old one is this queue's any more,
\* and a start held on the mouth's gate is never made.
Supersede(m) ==
    [m EXCEPT !.live = FALSE, !.held = "none", !.bereft = FALSE,
              !.timers = {[t EXCEPT !.fresh = FALSE] : t \in @},
              !.clips = {[c EXCEPT !.fresh = FALSE] : c \in {d \in @ : d.stage # "gate"}}]

Abort(s) == [s EXCEPT !.fly = [i \in DOMAIN @ |-> IF @[i] = "out" THEN "cut" ELSE @[i]]]

\* As a bug would have it: the player is left docked.
ResetDocked(m) ==
    Unload([Supersede(m) EXCEPT !.armed = FALSE, !.s = [Abort(@) EXCEPT !.waiting = FALSE],
                                !.status = "idle"])

Reset(m) ==
    Unload([Supersede(m) EXCEPT !.armed = FALSE, !.s = [Abort(@) EXCEPT !.waiting = FALSE],
                                !.id = None, !.status = "idle"])

DropSession(m) == [Reset(m) EXCEPT !.s = NoSession]

\* A message takes the element: what plays stops, another message's queue goes.
Begin(m, id) ==
    [Supersede(ReleasePrime(m)) EXCEPT !.el.on = "off", !.id = id, !.status = "loading",
                                       !.s = IF @.id = id THEN @ ELSE NoSession]

\* The synthesis window: the next chunks that have not failed are on the wire.
Pump(m) ==
    IF ~m.live THEN m
    ELSE LET ahead == {i \in (m.s.at + 1) .. Len(m.s.st) : m.s.st[i] # "failed"}
             size == IF m.s.pinned THEN Lookahead ELSE 1
             window == {i \in ahead : Cardinality({j \in ahead : j < i}) < size}
             new == {i \in window : ~m.s.req[i] /\ m.s.st[i] = "pending"}
         IN  [m EXCEPT !.s.req = [i \in DOMAIN @ |-> @[i] \/ i \in new],
                       !.s.fly = [i \in DOMAIN @ |-> IF i \in new THEN "out" ELSE @[i]]]

Latch(m) == [m EXCEPT !.s.waiting = TRUE, !.status = "loading"]

Start(m) == [ReleasePrime(m) EXCEPT !.el.on = "asked"]

Load(m, i) == [m EXCEPT !.el = [id |-> m.s.id, ver |-> m.s.ver, chunk |-> i, on |-> "off"],
                        !.s.at = i]

\* The queue is through: in a call it is dropped, elsewhere it is rewound and
\* kept, unless nothing of it can be played.
Finish(m) ==
    LET ok == {i \in DOMAIN m.s.st : m.s.st[i] = "ok"}
        holes == \E i \in DOMAIN m.s.st : m.s.st[i] = "failed"
    IN  IF m.call \/ ok = {} \/ (holes /\ ~m.s.along)
        THEN DropSession(m)
        ELSE [Load(m, Min(ok)) EXCEPT !.s.parked = TRUE, !.s.want = FALSE,
                                      !.s.waiting = FALSE, !.status = "paused"]

MayOpen(m) == m.gate # "shut"

\* The stream is still tagged for the route the call left: nothing is loaded.
Stale(m) == m.retag /\ (~m.aged \/ m.el.id # None)

\* The queue holds for a fresh stream.  One timer is armed at a time; `bereft`
\* records that the one armed is a superseded queue's, so this one has none.
HoldForRetag(m) ==
    [Latch(Unload(m)) EXCEPT !.s.at = 0, !.armed = TRUE,
                             !.timers = IF m.armed THEN @ ELSE @ \cup {[fresh |-> TRUE]},
                             !.bereft = m.armed /\ ~\E t \in m.timers : t.fresh]

\* As a bug would have it: a chunk after a gap starts without asking.
PlayNextUngated(m, ask) ==
    LET s == m.s
        rest == {i \in (s.at + 1) .. Len(s.st) : s.st[i] # "failed"}
        i == Min(rest)
        opening == s.at = 0
        past == [m EXCEPT !.retag = @ /\ ~opening, !.bereft = FALSE]
        fresh == [Pump(Load(past, i)) EXCEPT !.s.waiting = FALSE]
    IN  IF ~m.live THEN m
        ELSE IF rest = {} THEN IF s.open THEN Pump(Latch(m)) ELSE Finish(m)
        ELSE IF s.st[i] # "ok" THEN Pump(Latch(m))
        ELSE IF opening /\ Stale(m) THEN HoldForRetag(m)
        ELSE IF opening /\ s.want /\ ask /\ ~MayOpen(m)
        THEN [Latch(past) EXCEPT !.held = "queue"]
        ELSE IF s.want THEN Start(fresh) ELSE [fresh EXCEPT !.status = "paused"]

\* The queue's one step: to the next chunk that did not fail, or it latches.
\* `ask` is false for the owner's own tap.
PlayNext(m, ask) ==
    LET s == m.s
        rest == {i \in (s.at + 1) .. Len(s.st) : s.st[i] # "failed"}
        i == Min(rest)
        opening == s.at = 0
        resuming == s.waiting /\ m.status = "loading"
        past == [m EXCEPT !.retag = @ /\ ~opening, !.bereft = FALSE]
        fresh == [Pump(Load(past, i)) EXCEPT !.s.waiting = FALSE]
    IN  IF ~m.live THEN m
        ELSE IF rest = {} THEN IF s.open THEN Pump(Latch(m)) ELSE Finish(m)
        ELSE IF s.st[i] # "ok" THEN Pump(Latch(m))
        ELSE IF opening /\ Stale(m) THEN HoldForRetag(m)
        ELSE IF (opening \/ resuming) /\ s.want /\ ask /\ ~MayOpen(m)
        THEN [Latch(past) EXCEPT !.held = "queue"]
        ELSE IF s.want THEN Start(fresh) ELSE [fresh EXCEPT !.status = "paused"]

\* A latch lets go.
Reenter(m) == IF m.live THEN PlayNext([m EXCEPT !.s.waiting = FALSE], TRUE) ELSE m

\* As a bug would have it: a queue that closes while it waits stays latched.
DrainOpenOnly(m) == IF m.s.waiting /\ m.s.open THEN PlayNext(m, TRUE) ELSE m

DrainClosed(m) == IF m.s.waiting \/ m.s.at = 0 THEN PlayNext(m, TRUE) ELSE m

NewSession(m, id, n, along) ==
    [m EXCEPT !.live = TRUE,
              !.s = [NoSession EXCEPT !.id = id, !.ver = words[id], !.want = TRUE,
                                      !.along = along, !.open = along,
                                      !.st = [i \in 1 .. n |-> "pending"],
                                      !.req = [i \in 1 .. n |-> FALSE],
                                      !.fly = [i \in 1 .. n |-> "none"]]]

\* Chunks that failed are asked for again.
Rearmed(s) ==
    [s EXCEPT !.st = [i \in DOMAIN @ |-> IF @[i] = "failed" THEN "pending" ELSE @[i]],
              !.req = [i \in DOMAIN @ |-> @[i] /\ s.st[i] # "failed"]]

\* A message read from the top: its kept queue, or a plan of its n chunks.
StartChunked(m, id, n) ==
    IF m.s.id = id
    THEN LET s == [m.s EXCEPT !.at = 0, !.waiting = FALSE, !.want = TRUE, !.parked = FALSE]
         IN  PlayNext([m EXCEPT !.live = TRUE,
                                !.s = IF s.along THEN [Rearmed(s) EXCEPT !.open = FALSE]
                                      ELSE s], TRUE)
    ELSE IF n = 0 THEN Reset(m)
    ELSE PlayNext(NewSession(m, id, n, FALSE), TRUE)

\* A clip whose synthesis has been answered opens, through the same two gates.
OpenClip(m, c) ==
    IF Stale(m)
    THEN [Unload(m) EXCEPT !.clips = @ \cup {[c EXCEPT !.stage = "retag"]}]
    ELSE IF ~MayOpen(m)
    THEN [m EXCEPT !.status = "loading", !.held = "clip",
                   !.clips = @ \cup {[c EXCEPT !.stage = "gate"]}]
    ELSE Start([m EXCEPT !.retag = FALSE,
                         !.el = [id |-> c.id, ver |-> c.ver, chunk |-> 0, on |-> "off"]])

PlayWhole(m, id) ==
    LET clip == [id |-> id, ver |-> words[id], epoch |-> m.forgets[id],
                 fresh |-> TRUE, left |-> FALSE, stage |-> "synth"]
    IN  IF m.cache[id] # 0 THEN OpenClip(m, [clip EXCEPT !.ver = m.cache[id]])
        ELSE [m EXCEPT !.clips = @ \cup {clip}]

\* The mouth's gate says yes: the start it held goes on, once.
Release(m, ask) ==
    LET free == [m EXCEPT !.held = "none"]
    IN  CASE m.held = "queue" ->
                IF m.live THEN PlayNext([free EXCEPT !.s.waiting = FALSE], ask) ELSE free
          [] m.held = "clip" ->
                LET c == CHOOSE c \in m.clips : c.stage = "gate"
                IN  Start([free EXCEPT !.clips = @ \ {c}, !.retag = FALSE,
                             !.el = [id |-> c.id, ver |-> c.ver, chunk |-> 0, on |-> "off"]])
          [] OTHER -> m

-----------------------------------------------------------------------------
(* The transport *)

PausedUnderLatch(m) == [m EXCEPT !.s.want = FALSE, !.status = "paused"]

Transport(m) ==
    LET s == [m.s EXCEPT !.want = TRUE, !.parked = FALSE]
        failed == {i \in DOMAIN s.st : s.st[i] = "failed"}
        again == [m EXCEPT !.s = [Rearmed(s) EXCEPT
                                    !.at = (IF Max({@, 1}) < Min(failed) THEN Max({@, 1})
                                            ELSE Min(failed)) - 1,
                                    !.waiting = FALSE]]
    IN  CASE m.status = "playing" ->
                [m EXCEPT !.s.want = @ /\ ~m.live, !.el.on = "off", !.status = "paused"]
          [] m.status = "loading" /\ m.live /\ m.s.waiting -> PausedUnderLatch(m)
          [] m.status = "paused" /\ m.live ->
                IF m.s.parked /\ m.s.along /\ failed # {} THEN PlayNext(again, FALSE)
                ELSE IF s.waiting
                THEN IF m.held # "none" THEN Release([m EXCEPT !.s = s], FALSE)
                     ELSE [m EXCEPT !.s = s, !.status = "loading"]
                ELSE Start([m EXCEPT !.s = s])
          [] m.status = "paused" /\ ~m.live /\ m.el.id # None -> Start(m)
          [] OTHER -> m

Toggle(m, id, n) ==
    IF m.id = id THEN Transport(m)
    ELSE IF world.chunked THEN StartChunked(Begin(m, id), id, n)
    ELSE PlayWhole(Begin(m, id), id)

\* A seek changes where, never whether; it owns the queue from here.
SeekTo(m, target) ==
    LET rest == {i \in target .. Len(m.s.st) : m.s.st[i] # "failed"}
        i == Min(rest)
        taken == [m EXCEPT !.held = "none", !.bereft = FALSE, !.s.parked = FALSE]
        there == [Pump([Load(taken, i) EXCEPT !.s.waiting = FALSE])
                    EXCEPT !.status = IF m.s.want THEN @ ELSE "paused"]
        latched == [taken EXCEPT !.s.waiting = TRUE, !.s.at = i - 1, !.el.on = "off",
                                 !.status = IF m.s.want THEN "playing" ELSE "paused"]
    IN  IF rest = {} THEN m
        ELSE IF m.s.st[i] # "ok" THEN Pump(latched)
        ELSE IF m.s.at = i /\ ~m.s.waiting /\ m.el.chunk = i /\ m.el.id = m.s.id THEN taken
        ELSE IF m.s.want THEN Start(there) ELSE there

-----------------------------------------------------------------------------
(* The feeder: it runs after every step, on what the step left.            *)

\* The docked id is the one sign that the owner stopped this turn's reading.
Observed(m, t) ==
    [t EXCEPT !.docked = @ \/ (t.fed > 0 /\ m.id = t.id),
              !.abandoned = @ \/ (t.fed > 0 /\ t.docked /\ m.id # t.id)]

Settle(m, t) == mouth' = m /\ turn' = Observed(m, t)

\* feedReadAlong: the live queue grows by what is closed; a rewritten reply
\* closes it where it stands; a queue stopped by the owner is not begun again.
Feed(m, t) ==
    IF m.live /\ m.s.id = t.id
    THEN IF ~m.s.open THEN m
         ELSE IF t.rewritten THEN DrainClosed([m EXCEPT !.s.open = FALSE])
         ELSE LET new == t.said - Len(m.s.st)
              IN  Pump([m EXCEPT !.s.st = @ \o [i \in 1 .. new |-> "pending"],
                                 !.s.req = @ \o [i \in 1 .. new |-> FALSE],
                                 !.s.fly = @ \o [i \in 1 .. new |-> "none"]])
    ELSE IF m.s.id = t.id THEN m
    ELSE PlayNext(NewSession(Begin(m, t.id), t.id, t.said, TRUE), TRUE)

\* endTurnSpeak: the queue this turn fed is closed and drained; a reply that
\* was not fed is read from the top.
EndTurn(m, t) ==
    IF m.live /\ m.s.id = t.id /\ m.s.along
    THEN IF ~m.s.open THEN m
         ELSE LET fed == IF t.rewritten THEN m ELSE Feed(m, t)
              IN  DrainClosed([fed EXCEPT !.s.open = FALSE])
    ELSE Toggle(m, t.id, t.said)

-----------------------------------------------------------------------------
Init ==
    /\ world \in Worlds
    /\ mouth = [id |-> None, status |-> "idle", live |-> FALSE, s |-> NoSession,
                el |-> Silent, held |-> "none", gate |-> IF world.call THEN "open" ELSE "none",
                call |-> world.call, retag |-> FALSE, aged |-> TRUE, armed |-> FALSE,
                bereft |-> FALSE, astray |-> {},
                timers |-> {}, clips |-> {}, cache |-> [r \in 1 .. world.replies |-> 0],
                forgets |-> [r \in 1 .. world.replies |-> 0],
                priming |-> FALSE, primed |-> FALSE, primes |-> {}]
    /\ turn = [id |-> 0, streaming |-> FALSE, said |-> 0, fed |-> 0, docked |-> FALSE,
               abandoned |-> FALSE, rewritten |-> FALSE, stopped |-> FALSE]
    /\ words = [r \in 1 .. world.replies |-> 1]
    /\ stirs = 0

Stir(kind) ==
    kind \in world.kinds /\ stirs < MaxStirs /\ stirs' = stirs + 1 /\ UNCHANGED world

Quietly == UNCHANGED <<world, words, stirs>>

(* The turn *)

TurnStarts ==
    /\ ~turn.streaming /\ turn.id < world.replies
    /\ Settle(mouth, [id |-> turn.id + 1, streaming |-> TRUE, said |-> 0, fed |-> 0,
                      docked |-> FALSE, abandoned |-> FALSE, rewritten |-> FALSE,
                      stopped |-> FALSE])
    /\ Quietly

\* The text of the streaming reply closes one more chunk, or is rewritten by a
\* reload of the thread.
Delta ==
    /\ turn.streaming /\ turn.said < MaxChunks
    /\ \E t \in {[turn EXCEPT !.said = @ + 1]} :
          IF world.chunked /\ world.along /\ ~t.abandoned
          THEN Settle(Feed(mouth, t), [t EXCEPT !.fed = t.said])
          ELSE Settle(mouth, t)
    /\ Quietly

Rewrite ==
    /\ turn.streaming /\ turn.said > 0 /\ ~turn.rewritten
    /\ Stir("rewrite")
    /\ \E t \in {[turn EXCEPT !.rewritten = TRUE]} :
          IF world.chunked /\ world.along /\ ~t.abandoned
          THEN Settle(Feed(mouth, t), [t EXCEPT !.fed = t.said])
          ELSE Settle(mouth, t)
    /\ UNCHANGED words

TurnEnds ==
    /\ turn.streaming
    /\ \E t \in {[turn EXCEPT !.streaming = FALSE]} :
          IF t.said = 0 \/ t.abandoned THEN Settle(mouth, t)
          ELSE Settle(EndTurn(mouth, t), t)
    /\ Quietly

(* Synthesis *)

\* As a bug would have it: a cancelled request is not asked for again.
CutForgotten(m, i) == [m EXCEPT !.s.fly[i] = "none"]

\* A cancelled request is not a failed one: a resume asks for it again.
Cut(m, i) == Pump([m EXCEPT !.s.fly[i] = "none", !.s.req[i] = FALSE])

\* A chunk is answered; one that landed on a latched queue moves it.
Landed(m, i, answer) ==
    LET got == [m EXCEPT !.s.fly[i] = "none", !.s.st[i] = answer,
                         !.s.pinned = @ \/ i = 1]
        next == IF answer = "failed" THEN Pump(got) ELSE got
    IN  IF ~m.live THEN [m EXCEPT !.s.fly[i] = "none"]
        ELSE IF answer = "failed" /\ m.s.parked /\ ~m.s.along THEN DropSession(m)
        ELSE IF got.s.waiting \/ got.s.at = 0 THEN PlayNext(next, TRUE) ELSE next

ChunkCut(i) ==
    /\ i \in DOMAIN mouth.s.st /\ mouth.s.fly[i] = "cut"
    /\ Settle(Cut(mouth, i), turn)
    /\ Quietly

ChunkLands(i) ==
    /\ i \in DOMAIN mouth.s.st /\ mouth.s.fly[i] = "out"
    /\ Settle(Landed(mouth, i, "ok"), turn)
    /\ Quietly

ChunkFails(i) ==
    /\ i \in DOMAIN mouth.s.st /\ mouth.s.fly[i] = "out"
    /\ Stir("fail")
    /\ Settle(Landed(mouth, i, "failed"), turn)
    /\ UNCHANGED words

\* As a bug would have it: a clip answered late is cached all the same.
CachedAnyway(m, c) == [m EXCEPT !.cache[c.id] = c.ver, !.clips = @ \ {c}]

\* A clip whose words were forgotten while it was made is not kept, as far as
\* the epochs tell: leaving the conversation begins them anew.  `astray` records
\* the replies whose clip was made across that.
Cached(m, c) ==
    LET kept == m.forgets[c.id] = c.epoch
    IN  [m EXCEPT !.cache[c.id] = IF kept THEN c.ver ELSE @,
                  !.astray = IF kept /\ c.left THEN @ \cup {c.id} ELSE @,
                  !.clips = @ \ {c}]

ClipLands(c) ==
    /\ c \in mouth.clips /\ c.stage = "synth"
    /\ \E m \in {Cached(mouth, c)} :
          Settle(IF ~c.fresh THEN m
                 ELSE IF m.cache[c.id] = 0 THEN Reset(m)
                 ELSE OpenClip(m, c), turn)
    /\ Quietly

ClipFails(c) ==
    /\ c \in mouth.clips /\ c.stage = "synth"
    /\ Stir("fail")
    /\ \E m \in {[mouth EXCEPT !.clips = @ \ {c}]} :
          Settle(IF c.fresh THEN Reset(m) ELSE m, turn)
    /\ UNCHANGED words

\* A superseded clip that waited for a stream or for the gate is dropped.
ClipAges(c) ==
    /\ c \in mouth.clips /\ c.stage = "retag" /\ mouth.aged
    /\ \E m \in {[mouth EXCEPT !.clips = @ \ {c}]} :
          Settle(IF c.fresh THEN OpenClip(m, c) ELSE m, turn)
    /\ Quietly

(* The element *)

PlayEvent ==
    /\ mouth.el.on = "asked"
    /\ Settle([mouth EXCEPT !.el.on = "on", !.s.want = @ \/ mouth.live,
                            !.status = "playing"], turn)
    /\ Quietly

PlayRefused ==
    /\ mouth.el.on = "asked"
    /\ Stir("refuse")
    /\ Settle([mouth EXCEPT !.el.on = "off", !.status = "paused"], turn)
    /\ UNCHANGED words

Ended ==
    /\ mouth.el.on = "on"
    /\ \E m \in {[mouth EXCEPT !.el.on = "off"]} :
          Settle(IF m.live THEN PlayNext(m, TRUE)
                 ELSE IF m.call THEN Reset(m)
                 ELSE [m EXCEPT !.status = "paused"], turn)
    /\ Quietly

ElementFails ==
    /\ mouth.el.on \in {"asked", "on"}
    /\ Stir("media")
    /\ Settle(IF mouth.id # None THEN Reset(mouth) ELSE mouth, turn)
    /\ UNCHANGED words

\* The platform takes the audio focus, and may give it back.
FocusLost ==
    /\ mouth.el.on = "on"
    /\ Stir("focus")
    /\ Settle([mouth EXCEPT !.el.on = "lost",
                            !.status = IF mouth.live /\ mouth.s.waiting THEN @
                                       ELSE IF @ = "playing" THEN "paused" ELSE @], turn)
    /\ UNCHANGED words

FocusBack ==
    /\ mouth.el.on = "lost"
    /\ Stir("focus")
    /\ Settle([mouth EXCEPT !.el.on = "asked"], turn)
    /\ UNCHANGED words

(* The call's gate and its stream *)

\* The owner starts to speak; the gate answers again when the ear has settled,
\* and the call pokes the mouth in the same task.
GateShuts ==
    /\ mouth.gate = "open"
    /\ Stir("speech")
    /\ Settle([mouth EXCEPT !.gate = "shut"], turn)
    /\ UNCHANGED words

GateOpens ==
    /\ mouth.gate = "shut"
    /\ Settle(Release([mouth EXCEPT !.gate = "open"], TRUE), turn)
    /\ Quietly

\* The call left the communication route (markStreamRetag).
LeaveRoute ==
    /\ mouth.call
    /\ Stir("route")
    /\ Settle(IF \/ mouth.status = "idle"
                 \/ mouth.status = "paused" /\ mouth.live /\ mouth.s.parked
              THEN Reset([mouth EXCEPT !.retag = TRUE])
              ELSE [mouth EXCEPT !.retag = TRUE], turn)
    /\ UNCHANGED words

StreamAges ==
    /\ ~mouth.aged /\ mouth.el.id = None
    /\ Settle([mouth EXCEPT !.aged = TRUE], turn)
    /\ Quietly

RetagTimer(t) ==
    /\ t \in mouth.timers /\ mouth.aged
    /\ \E m \in {[mouth EXCEPT !.timers = @ \ {t}, !.armed = FALSE]} :
          Settle(IF t.fresh /\ m.live THEN Reenter([m EXCEPT !.retag = FALSE]) ELSE m, turn)
    /\ Quietly

\* The call's teardown: silence, then the override and the gate go.
CallEnds ==
    /\ mouth.call
    /\ Stir("hangup")
    /\ Settle([Reset(mouth) EXCEPT !.call = FALSE, !.gate = "none", !.retag = FALSE], turn)
    /\ UNCHANGED words

(* The owner *)

TapBubble(id) ==
    /\ id \in 1 .. turn.id /\ (turn.streaming => id # turn.id)
    /\ Stir("tap")
    /\ Settle(Toggle(mouth, id, IF id = turn.id THEN turn.said ELSE MaxChunks), turn)
    /\ UNCHANGED words

TapPlay ==
    /\ mouth.id # None
    /\ Stir("tap")
    /\ Settle(Transport(mouth), turn)
    /\ UNCHANGED words

Seek(i) ==
    /\ mouth.live /\ i \in DOMAIN mouth.s.st
    /\ mouth.status # "loading"
    /\ Stir("seek")
    /\ Settle(SeekTo(mouth, i), turn)
    /\ UNCHANGED words

Dismiss ==
    /\ mouth.id # None
    /\ Stir("stop")
    /\ Settle(Reset(mouth), [turn EXCEPT !.stopped = @ \/ mouth.id = turn.id])
    /\ UNCHANGED words

\* An interrupted call: the rest of this turn stays silent.
DismissTurn ==
    /\ mouth.call
    /\ Stir("stop")
    /\ Settle(Reset(mouth), [turn EXCEPT !.stopped = TRUE,
                                         !.abandoned = @ \/ turn.streaming])
    /\ UNCHANGED words

\* The reply is edited or regenerated: its audio is forgotten.
Forget(id) ==
    /\ id \in 1 .. turn.id /\ (turn.streaming => id # turn.id)
    /\ Stir("forget")
    /\ words' = [words EXCEPT ![id] = @ + 1]
    /\ \E m \in {[mouth EXCEPT !.forgets[id] = @ + 1, !.cache[id] = 0,
                               !.astray = @ \ {id}]} :
       \E r \in {IF m.id = id THEN Reset(m) ELSE m} :
          Settle(IF r.s.id = id THEN [r EXCEPT !.s = NoSession, !.live = FALSE] ELSE r, turn)

\* The conversation is left.
Clear ==
    /\ ~turn.streaming
    /\ Stir("clear")
    /\ \E m \in {[mouth EXCEPT !.s = NoSession, !.live = FALSE,
                               !.cache = [r \in DOMAIN @ |-> 0], !.astray = {},
                               !.clips = {[c EXCEPT !.left = TRUE] : c \in @},
                               !.forgets = [r \in DOMAIN @ |-> 0]]} :
          Settle(IF m.id # None THEN Reset(m) ELSE m, turn)
    /\ UNCHANGED words

(* The gesture unlock *)

Prime ==
    /\ ~mouth.primed /\ ~mouth.priming
    /\ mouth.status = "idle" /\ mouth.el.id = None
    /\ Stir("prime")
    /\ Settle([mouth EXCEPT !.priming = TRUE,
                            !.primes = {[p EXCEPT !.fresh = FALSE] : p \in @}
                                         \cup {[fresh |-> TRUE]}], turn)
    /\ UNCHANGED words

\* Superseded by a reply that took the element: not the unlock's to touch.
PrimeDone(m, p) ==
    IF p.fresh /\ m.priming
    THEN Unload([m EXCEPT !.primes = @ \ {p}, !.priming = FALSE])
    ELSE [m EXCEPT !.primes = @ \ {p}]

PrimeSettles(p) ==
    /\ p \in mouth.primes
    /\ \E played \in BOOLEAN :
          Settle(PrimeDone([mouth EXCEPT !.primed = @ \/ played], p), turn)
    /\ Quietly

-----------------------------------------------------------------------------
Chunks == 1 .. MaxChunks

ChunkEvent == \E i \in Chunks : ChunkCut(i) \/ ChunkLands(i)
ChunkError == \E i \in Chunks : ChunkFails(i)
ClipEvent == \E c \in mouth.clips : ClipLands(c) \/ ClipAges(c)
ClipError == \E c \in mouth.clips : ClipFails(c)
Retagged == \E t \in mouth.timers : RetagTimer(t)
Primed == \E p \in mouth.primes : PrimeSettles(p)
Tapped == \E id \in 1 .. world.replies : TapBubble(id)
Sought == \E i \in Chunks : Seek(i)
Forgotten == \E id \in 1 .. world.replies : Forget(id)

Progress ==
    \/ TurnEnds \/ ChunkEvent \/ ClipEvent \/ PlayEvent \/ Ended
    \/ GateOpens \/ StreamAges \/ Retagged \/ Primed

Next ==
    \/ Progress \/ TurnStarts \/ Delta \/ Rewrite \/ ChunkError \/ ClipError
    \/ PlayRefused \/ ElementFails \/ FocusLost \/ FocusBack
    \/ GateShuts \/ LeaveRoute \/ CallEnds
    \/ Tapped \/ TapPlay \/ Sought \/ Dismiss \/ DismissTurn \/ Forgotten
    \/ Clear \/ Prime

Spec == Init /\ [][Next]_vars

\* Each of these steps ends something, so one condition on all of them: what
\* was asked of the network answers, the element plays what it holds, timers
\* fire, and the owner falls silent.
Fairness == WF_vars(Progress)

FairSpec == Spec /\ Fairness

-----------------------------------------------------------------------------
(* Properties *)

Sounding(m) == m.el.on \in {"asked", "on"}

Owner == Tapped \/ TapPlay \/ Sought \/ FocusBack

\* The controller's state, the feeder's refs and the reply's words have their types.
TypeOK ==
    /\ world \in Worlds /\ stirs \in 0 .. MaxStirs
    /\ mouth.id \in 0 .. world.replies
    /\ mouth.status \in {"idle", "loading", "playing", "paused"}
    /\ mouth.status = "idle" <=> mouth.id = None
    /\ mouth.el.on \in {"off", "asked", "on", "lost"} /\ mouth.el.chunk \in 0 .. MaxChunks
    /\ mouth.held \in {"none", "queue", "clip"} /\ mouth.gate \in {"none", "open", "shut"}
    /\ mouth.live => mouth.s.id = mouth.id
    /\ mouth.s.at \in 0 .. Len(mouth.s.st) /\ Len(mouth.s.st) <= MaxChunks
    /\ \A i \in DOMAIN mouth.s.st :
          /\ mouth.s.st[i] \in {"pending", "ok", "failed"}
          /\ mouth.s.fly[i] \in {"none", "out", "cut"}
    /\ mouth.bereft => mouth.live /\ mouth.s.at = 0
    /\ turn.id \in 0 .. world.replies /\ turn.said \in 0 .. MaxChunks

Waiting == mouth.live /\ (mouth.s.waiting \/ mouth.s.at = 0)

\* What will move a queue that waits.
Awaited ==
    LET s == mouth.s
        ahead == {i \in (s.at + 1) .. Len(s.st) : s.st[i] # "failed"}
    IN  \/ ahead = {} /\ s.open
        \/ ahead # {} /\ s.fly[Min(ahead)] # "none"
        \/ mouth.held = "queue"
        \/ \E t \in mouth.timers : t.fresh

\* A queue that waits is waited for (playNext's "caught up - synthChunk calls
\* back here"): by the synthesis of the chunk it stands before, by the feed of
\* an open reply, by the mouth's gate or by the stream's timer.  A request cut
\* short, a failed chunk, a pause or a seek must not leave it with none.  Except
\* a queue that held for a stream while a superseded queue's timer was armed.
NeverWedged == Waiting => Awaited \/ mouth.bereft

\* The same without the exception.  The code does not keep this: README, section 4.
EveryWaitAwaited == Waiting => Awaited

\* What is heard is the docked reply in the words it has now (reset, forgets):
\* no clip of a dismissed, superseded, edited or regenerated reply sounds, and a
\* queue that stands on a chunk has that chunk on the element.  Except the words
\* of a clip that was made while the conversation was left (`astray`).
SoundIsDocked ==
    /\ Sounding(mouth) =>
          /\ mouth.el.id = mouth.id
          /\ mouth.el.ver = words[mouth.id] \/ mouth.id \in mouth.astray
    /\ mouth.live /\ mouth.s.at > 0 /\ ~mouth.s.waiting
          => mouth.el.id = mouth.s.id /\ mouth.el.chunk = mouth.s.at

\* A clip in the cache reads the words its reply has now (forgetMessage: "a synth
\* still in flight for it will not cache"), with the same exception.
CacheIsFresh == \A r \in DOMAIN words \ mouth.astray : mouth.cache[r] \in {0, words[r]}

\* The same without the exception.  The code does not keep this: README, section 4.
CacheNeverStale == \A r \in DOMAIN words : mouth.cache[r] \in {0, words[r]}

\* A silent mouth never opens by itself while the owner is being heard (the
\* mouth's gate, at the two edges where a silent mouth becomes audible); a chunk
\* the owner sought may land late.
GateAsked ==
    [][mouth.gate = "shut" /\ ~Sounding(mouth) /\ Sounding(mouth')
        => Owner \/ mouth'.gate = "open" \/ mouth.status = "playing"]_vars

\* A pause the owner took stands until the owner or the platform lifts it ("a
\* pause taken under the latch must survive it").
PauseStands ==
    [][mouth.live /\ mouth.status = "paused" /\ mouth'.id = mouth.id
          /\ ~Sounding(mouth) /\ Sounding(mouth') => Owner]_vars

\* A reply the owner stopped while it streamed is not begun again by the rest of
\* its turn (the feeder's `abandoned` latch and the queue's own refusal).
StoppedStays ==
    [][turn.streaming /\ turn.stopped /\ turn'.id = turn.id /\ mouth.id # turn.id
        => mouth'.id # turn.id]_vars

Reading == mouth.status \in {"loading", "playing"}

\* A reply that is being read comes to a rest: read to its end, paused or dropped,
\* with the exception of `NeverWedged`: a queue no timer will call back.
ReadingRests == Reading ~> (~Reading \/ mouth.bereft)

\* The same without the exception.  The code does not keep this: README, section 4.
EveryReadingRests == Reading ~> ~Reading

\* What sounds is the docked reply in its own words, and the cache holds no others.
RightWordsSound == SoundIsDocked /\ CacheIsFresh

\* The owner is obeyed: heard out at the gate, paused until they say, stopped for good.
OwnerIsObeyed == GateAsked /\ PauseStands /\ StoppedStays

=============================================================================
