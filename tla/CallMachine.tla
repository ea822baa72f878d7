---------------------------- MODULE CallMachine ----------------------------
(***************************************************************************)
(* The reducer of a live voice call: `callReduce` of                       *)
(* frontend/src/hooks/useLiveCall.ts, a pure function from a state and a   *)
(* signal to a state and the effects the hook must carry out.              *)
(*                                                                         *)
(* Every arm is an operator on the state record `s`.  It answers a step,   *)
(* [s |-> the new state, out |-> its effects]; CallReduce puts what the    *)
(* code derives after every arm on top of it.  The two terminal phases     *)
(* (error and ended) differ in wording only and are one phase, "over".     *)
(* Left out because nothing is decided by them: the note and the heard     *)
(* line.  A clock's arming number is not kept either: the hook replaces    *)
(* the one timer it owns on the very edge the number moves.                *)
(***************************************************************************)
EXTENDS Naturals, Sequences, SequencesExt

CONSTANT Rungs  \* RECONNECT_BACKOFF_MS.length: redials before the call gives up

ASSUME RungsAssumption == Rungs \in Nat

Unnamed == 0    \* no segment, or an answer that names none

Stable == {"listening", "thinking", "speaking"}
Phases == Stable \cup {"connecting", "over"}

Initial ==
    [phase |-> "connecting", talking |-> FALSE, item |-> Unnamed, awaiting |-> <<>>,
     noise |-> FALSE, pending |-> <<>>, killing |-> FALSE, upload |-> FALSE,
     confirm |-> FALSE, muted |-> FALSE, mouth |-> FALSE, holds |-> FALSE,
     tail |-> FALSE, aec |-> FALSE, prior |-> FALSE, gen |-> 0, attempts |-> 0,
     retried |-> FALSE, sinkWait |-> FALSE, hold |-> FALSE, due |-> FALSE,
     join |-> FALSE, clock |-> FALSE, knob |-> FALSE]

-----------------------------------------------------------------------------
(* Predicates and helpers *)

Over(s) == s.phase = "over"

\* A reply is audible, or its tail still is, on a capture that does not
\* subtract it: the ear is closed.
EarHeld(s) == s.holds /\ (s.mouth \/ s.tail)


\* As a bug would have it: an open segment does not hold the mouth.
OnlyOwedUnsettles(s) == s.awaiting # <<>>

\* The ear still owes a transcript, or a segment is open and not judged noise.
EarUnsettled(s) == s.awaiting # <<>> \/ (s.talking /\ ~s.noise)

MouthMayOpen(s) == ~EarUnsettled(s) /\ ~s.sinkWait /\ ~s.hold


\* Every reason a queued utterance may not go out now.
Held(s) ==
    \/ s.hold \/ s.killing \/ s.confirm \/ s.upload
    \/ s.phase \in {"speaking", "connecting", "over"}

Quiet == [submit |-> <<>>, harvest |-> <<>>, do |-> {}]

To(s) == [s |-> s, out |-> Quiet]

Doing(s, effect) == [s |-> s, out |-> [Quiet EXCEPT !.do = {effect}]]


\* The one release of the queue: all of it, as one message.
Drain(s) ==
    IF Held(s) \/ s.pending = <<>> THEN To(s)
    ELSE [s |-> [s EXCEPT !.pending = <<>>, !.phase = "thinking"],
          out |-> [Quiet EXCEPT !.submit = s.pending]]


\* An answer settles its segment and every one ahead of it; one that names no
\* segment settles them all; one that was not awaited settles nothing.
Settle(s, id) ==
    IF id = Unnamed THEN [s EXCEPT !.awaiting = <<>>]
    ELSE LET at == {i \in DOMAIN s.awaiting : s.awaiting[i] = id}
         IN  IF at = {} THEN s
             ELSE [s EXCEPT !.awaiting =
                     SubSeq(@, 1 + CHOOSE i \in at : TRUE, Len(@))]

\* The cap join lets go; with no pause clock the hold it leaves is due at once.
DropJoin(s) ==
    IF s.join THEN [s EXCEPT !.join = FALSE, !.due = @ \/ ~s.knob] ELSE s

KillNow(s) == Doing([s EXCEPT !.mouth = FALSE, !.killing = TRUE], "kill")


\* As a bug would have it: a fresh ear starts with a fresh queue.
FreshEarAndQueue(s) ==
    [s EXCEPT !.phase = "connecting", !.attempts = 0, !.prior = TRUE,
              !.talking = FALSE, !.awaiting = <<>>, !.killing = FALSE,
              !.holds = FALSE, !.tail = FALSE, !.pending = <<>>,
              !.hold = FALSE, !.due = FALSE, !.join = FALSE, !.gen = @ + 1]

\* This leg and this ear are released and a fresh one is being acquired.
FreshEar(s) ==
    [s EXCEPT !.phase = "connecting", !.attempts = 0, !.prior = TRUE,
              !.talking = FALSE, !.awaiting = <<>>, !.killing = FALSE,
              !.holds = FALSE, !.tail = FALSE,
              !.hold = FALSE, !.due = FALSE, !.join = FALSE, !.gen = @ + 1]

Terminal(s) ==
    [s |-> [s EXCEPT !.phase = "over", !.pending = <<>>, !.talking = FALSE,
                     !.awaiting = <<>>, !.killing = FALSE, !.muted = FALSE,
                     !.mouth = FALSE, !.holds = FALSE, !.tail = FALSE,
                     !.sinkWait = FALSE, !.hold = FALSE, !.due = FALSE,
                     !.join = FALSE, !.gen = @ + 1],
     out |-> [submit |-> <<>>, harvest |-> s.pending, do |-> {"teardown"}]]

-----------------------------------------------------------------------------
(* The arms: the leg *)

Ready(s, clock) ==
    Drain([s EXCEPT !.phase = IF s.mouth THEN "speaking" ELSE "listening",
                    !.attempts = 0, !.talking = FALSE, !.awaiting = <<>>,
                    !.clock = clock])


\* As a bug would have it: the ladder has one rung too many.
LostOneTooMany(s) ==
    IF s.attempts > Rungs THEN Terminal(s)
    ELSE Doing([s EXCEPT !.phase = "connecting", !.attempts = @ + 1], "reconnect")

SocketLost(s) ==
    IF s.attempts = Rungs THEN Terminal(s)
    ELSE Doing([s EXCEPT !.phase = "connecting", !.attempts = @ + 1,
                         !.talking = FALSE, !.awaiting = <<>>,
                         !.hold = FALSE, !.due = FALSE, !.join = FALSE],
               "reconnect")

\* A refused dial: another device's call on the first one, our own unreaped
\* slot on a redial, whose close drives the ladder.
Busy(s) == IF s.attempts = 0 /\ ~s.prior THEN Terminal(s) ELSE To(s)


EarOutage(s) ==
    IF s.phase = "connecting" THEN To(s)
    ELSE Doing([s EXCEPT !.phase = "connecting"], "closeLeg")

\* One rebuild per route, then the call ends.
EarDead(s) ==
    IF s.retried THEN Terminal(s)
    ELSE Doing([FreshEar(s) EXCEPT !.retried = TRUE, !.sinkWait = s.aec],
               "recapture")

RouteChange(s, aec) ==
    IF s.phase \notin Stable THEN To(s)
    ELSE Doing([FreshEar(s) EXCEPT !.aec = aec, !.retried = FALSE, !.sinkWait = aec],
               "recapture")


CaptureReady(s, holds) == To([s EXCEPT !.holds = holds, !.sinkWait = FALSE])

-----------------------------------------------------------------------------
(* The arms: the ear *)

SpeechStart(s, id) ==
    IF s.muted \/ EarHeld(s) THEN To(s)
    ELSE To([s EXCEPT !.talking = TRUE, !.item = id])

\* A stop pairs with an accepted start of its own, or it is nothing.
SpeechStop(s, id) ==
    IF ~s.talking \/ s.item # id THEN To(s)
    ELSE IF EarHeld(s) THEN To([s EXCEPT !.talking = FALSE])
    ELSE To([s EXCEPT !.talking = FALSE, !.awaiting = Append(@, id)])

SegmentNoise(s) == To([s EXCEPT !.noise = s.talking])

SetMuted(s, on) ==
    IF on THEN To(DropJoin([s EXCEPT !.muted = TRUE, !.talking = FALSE, !.awaiting = <<>>]))
    ELSE To([s EXCEPT !.muted = FALSE])

\* A transcript.  f.id is the segment it names, f.word what was said, f.text
\* whether the text survives the gates (empty, failed, echo, too quiet do not),
\* f.cap whether the ear cut the segment at its length limit.
Final(s0, f) ==
    LET s == IF s0.noise /\ f.id \in {Unnamed, s0.item}
             THEN [s0 EXCEPT !.noise = FALSE] ELSE s0
        settled == IF s.clock /\ f.id = Unnamed THEN s ELSE Settle(s, f.id)
        capCut == s.clock /\ f.cap
        untaken == IF ~capCut THEN DropJoin(settled)
                   ELSE [settled EXCEPT !.join = @ \/ s.hold]
        taken == [settled EXCEPT !.pending = Append(@, f.word), !.retried = FALSE]
    IN  IF s.muted \/ EarHeld(s)
        THEN To(IF capCut THEN settled ELSE DropJoin(settled))
        ELSE IF ~f.text THEN To(untaken)
        ELSE IF capCut
        THEN To([taken EXCEPT !.hold = TRUE, !.join = TRUE, !.due = FALSE])
        ELSE IF s.knob
        THEN To([taken EXCEPT !.hold = TRUE, !.join = FALSE, !.due = FALSE])
        ELSE IF s.hold THEN To([taken EXCEPT !.join = FALSE, !.due = TRUE])
        ELSE Drain([taken EXCEPT !.join = FALSE])

\* The error the ear sends instead of a transcript names no segment.
UpstreamError(s) == To(Settle(s, Unnamed))

TurnHoldOver(s) == To([s EXCEPT !.due = @ \/ s.hold])

AnswerExpired(s) ==
    LET expired == [s EXCEPT !.awaiting = Tail(@)]
    IN  To(IF expired.awaiting = <<>> /\ ~expired.talking
           THEN DropJoin(expired) ELSE expired)

-----------------------------------------------------------------------------
(* The arms: the mouth, the turn, the owner *)

PlaybackStarted(s) ==
    To([s EXCEPT !.mouth = TRUE,
                 !.phase = IF @ = "connecting" THEN @ ELSE "speaking"])

PlaybackDrained(s) ==
    IF s.killing \/ s.phase # "speaking" THEN To([s EXCEPT !.mouth = FALSE])
    ELSE Drain([s EXCEPT !.mouth = FALSE, !.phase = "listening"])

\* Whatever the phase: this arm repaints a reconnect too.
PlaybackFailed(s) ==
    IF s.killing THEN To([s EXCEPT !.mouth = FALSE])
    ELSE Drain([s EXCEPT !.mouth = FALSE, !.phase = "listening"])

TailOver(s) == To([s EXCEPT !.tail = FALSE])

Barge(s) == IF s.mouth /\ ~s.killing THEN KillNow(s) ELSE To(s)

Stop(s) ==
    IF ~s.killing /\ (s.mouth \/ s.phase = "thinking") THEN KillNow(s) ELSE To(s)


\* As a bug would have it: a settled kill waits for another event to drain.
KillSettledIdle(s) ==
    To([s EXCEPT !.killing = FALSE,
                 !.phase = IF @ \notin {"speaking", "thinking"} THEN @
                           ELSE IF s.mouth THEN "speaking" ELSE "listening"])

KillSettled(s) ==
    Drain([s EXCEPT !.killing = FALSE,
                    !.phase = IF @ \notin {"speaking", "thinking"} THEN @
                              ELSE IF s.mouth THEN "speaking" ELSE "listening"])

TurnSettled(s) ==
    IF s.phase # "thinking" THEN To(s) ELSE Drain([s EXCEPT !.phase = "listening"])

ConfirmHold(s, on) == Drain([s EXCEPT !.confirm = on])

UploadSettled(s) == Drain([s EXCEPT !.upload = FALSE])

Floor(s) == [s EXCEPT !.phase = IF @ = "thinking" THEN "listening" ELSE @]

\* What became of a submitted message; "held" puts it back in front.
Sent(s, outcome, words) ==
    IF outcome = "held"
    THEN To([Floor(s) EXCEPT !.upload = TRUE, !.pending = words \o @])
    ELSE IF outcome = "refused"
    THEN [s |-> Floor(s), out |-> [Quiet EXCEPT !.harvest = words]]
    ELSE IF outcome = "unknown" THEN To(Floor(s))
    ELSE To(s)

\* Someone is still talking, or about to be heard: the idle clock ends nothing.
IdleExpired(s) ==
    IF s.mouth \/ s.talking \/ s.awaiting # <<>> \/ s.hold THEN To(s) ELSE Terminal(s)

\* The exits (hang-up, page gone, unmount): from every phase, the queue harvested.
Exit(s) ==
    [s |-> [Initial EXCEPT !.phase = "over", !.prior = s.prior, !.gen = s.gen + 1],
     out |-> [submit |-> <<>>, harvest |-> s.pending, do |-> {"teardown"}]]

-----------------------------------------------------------------------------
(* The reduce *)

\* What the code derives after every arm: the verdict and the id belong to an
\* open segment, and a fall of the mouth under a holding ear arms its tail.
Normalize(old, st) ==
    [st EXCEPT !.s =
       [@ EXCEPT !.noise = @ /\ st.s.talking,
                 !.item = IF st.s.talking THEN @ ELSE Unnamed,
                 !.tail = /\ st.s.holds /\ ~st.s.mouth
                          /\ @ \/ old.mouth]]

\* The turn hold's release, at one site: its pause has run out, nothing joins
\* it and the ear is settled.
Release(st) ==
    IF ~st.s.hold \/ ~st.s.due \/ st.s.join \/ EarUnsettled(st.s) THEN st
    ELSE LET free == Drain([st.s EXCEPT !.hold = FALSE, !.due = FALSE])
         IN  [s |-> free.s,
              out |-> [st.out EXCEPT !.submit = @ \o free.out.submit]]

\* A terminal state hears no signal (Exit, which does, is not sent through here).
CallReduce(s, st) == IF Over(s) THEN To(s) ELSE Release(Normalize(s, st))
=============================================================================
