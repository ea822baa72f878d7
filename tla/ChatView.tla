------------------------------ MODULE ChatView ------------------------------
(***************************************************************************)
(* The browser's one chat view (frontend/src/store/chat.ts): the           *)
(* conversation on screen, the doors that change it, the sends, streams,   *)
(* probes, re-attaches, floor reads and Stops in flight behind it, and the *)
(* composer's drafts (store/composer.ts) that follow it.                   *)
(*                                                                         *)
(* Every answer crosses the network in two steps: the server acts, and the *)
(* browser lands what it said, in any order.  The server is reduced to what *)
(* the answers tell: rows, the running turn and its frames, the queue of   *)
(* steers and the last harvest's receipt.  A read of a history that only   *)
(* grows is one step: it returns some prefix at least as long as the one   *)
(* there was when it was asked for.                                        *)
(*                                                                         *)
(* The code's generations are kept as what they are compared for: `here`   *)
(* says that the load generation has not moved since a request was made,   *)
(* `newest` that its navigation ticket is the last one issued, and the one *)
(* stream that owns the view is `stream`; a superseded stream never writes *)
(* again.  Titles, homes, responders, notifications, previews, plans and   *)
(* the edits of one message are left out.                                  *)
(***************************************************************************)
EXTENDS Naturals, Sequences, FiniteSets, SequencesExt

CONSTANTS Conversations,  \* how many the server may come to hold
          MaxSends,       \* messages the owner may come to send
          Worlds          \* where a behaviour starts and what may stir it

\* `made` conversations exist; `stored` is the one the boot reads and `at` the one on
\* screen (of a page that booted before); the owner sends at
\* most `sends` messages and `stirs` doors, faults and acts of other devices of `kinds`
\* happen; `waits`: what the owner waits for before a send (the boot; that its own
\* thread-less send is given a conversation); `echo`: the running frames of turns that
\* sends begin reach the page too (those of other turns always do).
ASSUME ViewAssumption ==
    /\ {Conversations, MaxSends} \subseteq Nat
    /\ \A w \in Worlds : /\ w.made \in 0 .. Conversations /\ w.stored \in 0 .. w.made
                         /\ w.at \in 0 .. w.made /\ w.echo \in BOOLEAN
                         /\ w.sends \in 0 .. MaxSends /\ w.stirs \in Nat
                         /\ IsFiniteSet(w.kinds) /\ w.waits \subseteq {"boot", "mint"}

VARIABLES world, view, server, turns, feed, stirs

vars == <<world, view, server, turns, feed, stirs>>

None == 0
Threads == 1 .. Conversations
Slots == 0 .. Conversations
Msgs == 1 .. MaxSends

User(m) == [by |-> "user", id |-> m]
Reply(k) == [by |-> "agent", id |-> k]

\* A request in flight; each kind uses the fields it needs.
Ask == [kind |-> "none", thread |-> None, m |-> None, here |-> TRUE, newest |-> TRUE,
        fresh |-> FALSE, ans |-> "none", turn |-> 0, seq |-> 0, queue |-> {},
        why |-> "none", try |-> 1, from |-> 0, gone |-> None]

NoCursor == [turn |-> 0, seq |-> 0]

NoStream == [turn |-> 0, m |-> None, pos |-> 0, phase |-> "none", why |-> "none", try |-> 1,
             cursor |-> NoCursor, queue |-> {}, from |-> 0]

-----------------------------------------------------------------------------
(* The server, as the answers show it (backend/app/api/agent.py) *)

Held(t) == server[t].made /\ ~server[t].dead

Begun(t, m) ==
    /\ turns' = Append(turns, [thread |-> t, log |-> <<[e |-> "start", m |-> None]>>])
    /\ server' = [server EXCEPT ![t].made = TRUE, ![t].rows = Append(@, User(m)),
                                ![t].turn = Len(turns) + 1, ![t].receipt = {}]

Logged(k, e, m) == [turns EXCEPT ![k].log = Append(@, [e |-> e, m |-> m])]

-----------------------------------------------------------------------------
(* The browser: every operator answers the browser's next state. *)

Asking(v, r) == [v EXCEPT !.net = @ \cup {r}]

\* The composer's slot follows the view; a slot whose words moved forwards the
\* writers that still name it.
Follow(v, k) ==
    LET after[n \in 0 .. Conversations + 1] ==
            IF n = 0 THEN k ELSE v.moved[after[n - 1]]
    IN  after[Conversations + 1]

MoveSlots(v, from, target) ==
    LET to == Follow(v, target)
    IN  IF from = to \/ (v.moved[from] # from /\ v.drafts[from] = {}) THEN v
        ELSE [v EXCEPT !.drafts[to] = @ \cup v.drafts[from], !.drafts[from] = {},
                       !.moved[from] = to]

SetSlot(v, next) ==
    LET live == [v EXCEPT !.moved[next] = next]
        lazy == IF v.thread = None /\ v.drafts[next] = {}
                THEN MoveSlots(live, None, next) ELSE live
    IN  IF v.thread = next THEN v
        ELSE IF v.carry \notin {None, next}
        THEN MoveSlots([lazy EXCEPT !.carry = None], v.carry, next)
        ELSE lazy

\* As a bug would have it: the writer keeps to the slot it knows, wherever its words went.
AppendThere(v, slot, m) == [v EXCEPT !.drafts[slot] = @ \cup {m}]

AppendDraft(v, slot, m) == [v EXCEPT !.drafts[Follow(v, slot)] = @ \cup {m}]

\* The load generation moves: what was asked from the view is not its any more.
Left(net) == {[r EXCEPT !.here = FALSE] : r \in net}

\* A navigation ticket is taken: every older door is outdated.
Outdated(net) == {[r EXCEPT !.newest = FALSE] : r \in net}

Rows(t, n) == ToSet(SubSeq(server[t].rows, 1, n))

\* Another conversation on screen: all that belonged to the one left goes.
SwapView(v, t, n) ==
    [SetSlot(v, t) EXCEPT !.thread = t, !.rows = IF t = None THEN {} ELSE Rows(t, n),
                          !.bubbles = {}, !.wait = {}, !.status = "idle",
                          !.lastTurn = 0, !.lastSeq = 0, !.sig = {},
                          !.stream = NoStream, !.net = Left(@)]

\* A thread-less view becomes the conversation its send was given.
SetWireThread(v, t) == [SetSlot(v, t) EXCEPT !.thread = t, !.net = Left(@)]

Probe(v, t, force) ==
    Asking(v, [Ask EXCEPT !.kind = "probe", !.thread = t, !.fresh = force])

Queued(v) == {b \in v.bubbles : b.st = "queued"}

\* A queued steer may have been handed to a turn the view has not seen.
Discover(v, force) ==
    IF v.thread # None /\ (force \/ Queued(v) # {}) THEN Probe(v, v.thread, force) ELSE v

Reading(v, kind) ==
    [Ask EXCEPT !.kind = kind, !.thread = v.thread, !.from = Len(server[v.thread].rows)]

\* The end of a turn: the durable floor is read, then the queue is looked at.
ReloadFloor(v) ==
    IF v.thread = None \/ v.status = "streaming" THEN Discover(v, FALSE)
    ELSE Asking(v, Reading(v, "floor"))

ReloadChat(v, force) ==
    IF v.thread = None \/ (~force /\ v.status = "streaming") THEN v
    ELSE Asking(v, Reading(v, "reload"))

\* The floor keeps what only this view holds; a landed bubble goes with its row.
\* (The code pairs bubbles with the owner's rows after them, by count.)
ApplyFloor(v, rows) ==
    [v EXCEPT !.rows = rows, !.wait = {},
              !.bubbles = {IF b.st = "landed" THEN [b EXCEPT !.st = "sent"] ELSE b :
                             b \in {c \in @ : c.st # "landed" \/ User(c.m) \notin rows}}]

Replace(v, rows) == [v EXCEPT !.rows = rows, !.bubbles = {}, !.wait = {}]

ReconcileSteerQueue(v, t, queue) ==
    IF v.thread # t THEN v
    ELSE [v EXCEPT !.bubbles =
            {b \in @ : b.st = "queued" => b.m \in queue}
               \cup {[m |-> m, st |-> "queued"] :
                       m \in queue \ {b.m : b \in Queued(v)}}]

FailStream(v) == [v EXCEPT !.status = "error", !.wait = {}]

Settle(v) == [v EXCEPT !.status = "idle"]

Still(v, r) == r.here /\ v.thread = r.thread

\* A re-attach came to nothing: what each caller does then.
Unattached(v, r) ==
    CASE r.why = "probe" ->
            IF v.thread = r.thread /\ v.status = "streaming"
            THEN ReloadChat(Settle(v), FALSE) ELSE v
      [] r.why = "drop" -> IF Still(v, r) THEN FailStream(v) ELSE v
      [] r.why = "lost" -> IF Still(v, r) THEN FailStream(v) ELSE AppendDraft(v, r.thread, r.m)
      [] r.why = "cancel" -> IF Still(v, r) THEN Settle(ReloadChat(v, TRUE)) ELSE v

Reattach(v, t, why, m, cursor) ==
    Asking(v, [Ask EXCEPT !.kind = "attach", !.thread = t, !.why = why, !.m = m,
                          !.turn = cursor.turn, !.seq = cursor.seq])

OpenThread(v, t, gone) ==
    LET newest == [v EXCEPT !.net = Outdated(@)]
    IN  IF v.thread = t THEN Probe(newest, t, FALSE)
        ELSE Asking(newest, [Ask EXCEPT !.kind = "open", !.thread = t, !.gone = gone,
                                        !.from = Len(server[t].rows)])

LatestOf(v, gone) ==
    Asking([v EXCEPT !.net = Outdated(@)], [Ask EXCEPT !.kind = "latest", !.gone = gone])

MintWith(v, why, gone) ==
    Asking([v EXCEPT !.net = Outdated(@)],
           [Ask EXCEPT !.kind = "mint", !.why = why, !.gone = gone])

\* The open conversation answered 404: outside a call the view moves on with its
\* draft; in a call that waits for the teardown.
ConversationDeleted(v, t) ==
    IF v.thread # t \/ v.moving = t THEN v
    ELSE IF v.call THEN [v EXCEPT !.latched = t]
    ELSE LatestOf([v EXCEPT !.carry = t, !.moving = t], t)

Over(v, r) == [v EXCEPT !.moving = IF r.gone # None /\ @ = r.gone THEN None ELSE @]

-----------------------------------------------------------------------------
Init ==
    /\ world \in Worlds
    /\ server = [t \in Threads |-> [made |-> t <= world.made, dead |-> FALSE, rows |-> <<>>,
                                    turn |-> 0, queue |-> {}, receipt |-> {}]]
    /\ view = [thread |-> world.at, status |-> "idle", rows |-> {}, bubbles |-> {},
               wait |-> {}, doubt |-> {}, told |-> {}, lastTurn |-> 0, lastSeq |-> 0,
               sig |-> {},
               drafts |-> [k \in Slots |-> {}], moved |-> [k \in Slots |-> k],
               carry |-> None, call |-> FALSE, latched |-> None, moving |-> None,
               stream |-> NoStream, sent |-> 0,
               net |-> IF world.stored = None THEN {}
                       ELSE {[Ask EXCEPT !.kind = "boot", !.thread = world.stored]}]
    /\ turns = <<>> /\ feed = {} /\ stirs = 0

Stir(kind) ==
    kind \in world.kinds /\ stirs < world.stirs /\ stirs' = stirs + 1 /\ UNCHANGED world

Quietly == UNCHANGED <<world, stirs>>
OnPage == UNCHANGED <<server, turns, feed>>
Serves == UNCHANGED <<server, turns, feed, world, stirs>>

Waiting(kind) == {r \in view.net : r.kind = kind}
Taken(r) == [view EXCEPT !.net = @ \ {r}]
Answered(r, s) == view' = [view EXCEPT !.net = (@ \ {r}) \cup {s}]
Landing(v) == view' = v /\ OnPage /\ Quietly

Unused == {t \in Threads : ~server[t].made}
Running(t) == server[t].turn # 0

-----------------------------------------------------------------------------
(* Sending *)

\* `sendMessage`: a send under a live stream is a steer, which shows no placeholder.
Send ==
    /\ view.sent < world.sends
    /\ "boot" \in world.waits => Waiting("boot") = {}
    /\ "mint" \in world.waits => view.thread # None \/ view.status # "streaming"
    /\ LET m == view.sent + 1
           fresh == view.status # "streaming"
       IN  Landing(Asking([view EXCEPT !.sent = m, !.status = "streaming",
                                       !.bubbles = @ \cup {[m |-> m, st |-> "sent"]},
                                       !.wait = IF fresh THEN @ \cup {m} ELSE @],
                          [Ask EXCEPT !.kind = "post", !.thread = view.thread,
                                      !.m = m, !.fresh = fresh]))

\* The chat endpoint, on a conversation or (thread-less) on one it makes: a running
\* turn queues the message, else a turn begins with it.
PostArrives(r, ok) ==
    \E t \in IF r.thread = None THEN Unused ELSE {r.thread} :
        /\ r.thread = None => \A u \in Unused : t <= u
        /\ ~server[t].dead
        /\ IF Running(t)
           THEN /\ server' = [server EXCEPT ![t].queue = @ \cup {r.m}]
                /\ Answered(r, [r EXCEPT !.ans = IF ok THEN "queued" ELSE "lost",
                                         !.turn = server[t].turn])
                /\ UNCHANGED <<turns, feed>>
           ELSE /\ Begun(t, r.m)
                /\ Answered(r, [r EXCEPT !.ans = IF ok THEN "stream" ELSE "lost",
                                         !.turn = Len(turns) + 1])
                /\ feed' = IF world.echo THEN feed \cup {Len(turns) + 1} ELSE feed

PostServed == \E r \in Waiting("post") : r.ans = "none" /\ PostArrives(r, TRUE) /\ Quietly

\* The answer is lost after the message arrived.
PostAnswerLost ==
    \E r \in Waiting("post") : r.ans = "none" /\ PostArrives(r, FALSE) /\ Stir("lost")

PostGone ==
    \E r \in Waiting("post") : /\ r.ans = "none" /\ r.thread # None /\ server[r.thread].dead
                              /\ Answered(r, [r EXCEPT !.ans = "gone"]) /\ Serves

\* Nothing arrived: a full registry or queue (409), another refusal, the network.
PostFails ==
    \E r \in Waiting("post"), a \in {"busy", "refused", "unsent"} :
        /\ r.ans = "none" /\ Stir(a) /\ OnPage
        /\ Answered(r, [r EXCEPT !.ans = IF a = "unsent" THEN "lost" ELSE a])

Unshown(v, m) == [v EXCEPT !.bubbles = {b \in @ : b.m # m}, !.wait = @ \ {m}]
Restyled(v, m, st) == [v EXCEPT !.bubbles = {IF b.m = m THEN [b EXCEPT !.st = st] ELSE b : b \in @}]

\* A 200 is adopted by the view it was sent from; its stream now owns the view.
Claimed(v, r) ==
    [Restyled(v, r.m, "landed") EXCEPT
        !.status = "streaming",
        !.stream = [NoStream EXCEPT !.turn = r.turn, !.m = IF r.fresh THEN r.m ELSE None,
                                    !.phase = IF r.thread = None THEN "head" ELSE "live",
                                    !.why = "post"]]

StreamBegins ==
    \E r \in Waiting("post") :
        /\ r.ans = "stream"
        /\ Landing(IF Still(view, r) THEN Claimed(Taken(r), r) ELSE Taken(r))

\* A 202 to a fresh send: the placeholder goes and the view is idle.
Normalised(v, r) ==
    IF r.fresh THEN [v EXCEPT !.wait = @ \ {r.m}, !.status = "idle"] ELSE v

\* As a bug would have it: nobody looks for the turn that may have taken it.
QueuedUnseen(v, r) == Restyled(Normalised(v, r), r.m, "queued")

QueuedShown(v, r) ==
    LET shown == Restyled(Normalised(v, r), r.m, "queued")
    IN  IF shown.status # "streaming" \/ shown.lastTurn \notin {0, r.turn}
        THEN Discover(shown, FALSE) ELSE shown

SteerQueued ==
    \E r \in Waiting("post") :
        /\ r.ans = "queued"
        /\ Landing(IF Still(view, r) THEN QueuedShown(Taken(r), r) ELSE Taken(r))

Told(v, m) == [v EXCEPT !.told = @ \cup {m}]
Doubted(v, m) == [v EXCEPT !.doubt = @ \cup {m}]

Busy(v, r) == [Told(Unshown(v, r.m), r.m) EXCEPT !.status = IF r.fresh THEN "idle" ELSE @]

SendRefused ==
    \E r \in Waiting("post") :
        /\ r.ans \in {"busy", "refused"}
        /\ Landing(IF ~Still(view, r) THEN AppendDraft(Taken(r), r.thread, r.m)
                   ELSE IF r.ans = "busy" THEN Busy(Taken(r), r)
                   ELSE FailStream(Told(Taken(r), r.m)))

\* The conversation was deleted elsewhere: out of a call the words go back to its
\* draft, which moves on with the view.
SendGone ==
    \E r \in Waiting("post") :
        /\ r.ans = "gone"
        /\ LET v == Taken(r)
               back == AppendDraft([Unshown(v, r.m) EXCEPT
                                      !.status = IF r.fresh THEN "idle" ELSE @], r.thread, r.m)
           IN  Landing(IF ~Still(v, r) THEN Told(v, r.m)
                       ELSE IF v.call THEN FailStream(ConversationDeleted(Told(v, r.m), r.thread))
                       ELSE ConversationDeleted(back, r.thread))

Cursor(v) == [turn |-> v.lastTurn, seq |-> v.lastSeq]

\* No answer: whatever runs on the conversation is attached to, or the send failed.
SendLost ==
    \E r \in Waiting("post") :
        /\ r.ans = "lost"
        /\ LET v == Doubted(Taken(r), r.m)
           IN  Landing(IF ~Still(v, r) THEN AppendDraft(v, r.thread, r.m)
                       ELSE IF v.status = "streaming" /\ v.thread # None
                       THEN Reattach(v, v.thread, "lost", r.m, Cursor(v))
                       ELSE FailStream(v))

-----------------------------------------------------------------------------
(* The stream that owns the view *)

\* The first frame of a thread-less send names the conversation it was given.
StreamHead ==
    /\ view.stream.phase = "head"
    /\ LET live == [view EXCEPT !.stream.phase = "live"]
       IN  Landing(IF view.thread = None
                   THEN SetWireThread(live, turns[view.stream.turn].thread) ELSE live)

\* The sequence gate: a frame at or below the last one applied is dropped.
GateDrops(v, k, seq) == k = v.lastTurn /\ seq <= v.lastSeq

\* The reply's row takes the placeholder's place; a send whose placeholder a reload
\* wiped has nowhere to show it.
Started(v, k) ==
    LET m == v.stream.m
    IN  IF m = None THEN [v EXCEPT !.rows = @ \cup {Reply(k)}]
        ELSE [v EXCEPT !.rows = IF m \in v.wait THEN @ \cup {Reply(k)} ELSE @,
                       !.wait = @ \ {m}, !.stream.m = None]

\* A queued bubble becomes the row the turn took it as (or the row is added).
ResolveSteerBubble(v, m) ==
    [v EXCEPT !.bubbles = {b \in @ : b.m # m}, !.rows = @ \cup {User(m)}]

\* The terminal frame, and the floor read at the end of the stream.
Finished(v) == ReloadFloor([v EXCEPT !.status = "idle", !.stream = NoStream])

Frame(v, k, f) ==
    CASE f.e = "start" -> Started(v, k)
      [] f.e = "steer" -> ResolveSteerBubble(v, f.m)
      [] f.e = "done" -> Finished(v)

StreamFrame ==
    /\ view.stream.phase = "live" /\ view.stream.pos < Len(turns[view.stream.turn].log)
    /\ LET k == view.stream.turn
           seq == view.stream.pos + 1
           read == [view EXCEPT !.stream.pos = seq]
       IN  Landing(IF GateDrops(view, k, seq) THEN read
                   ELSE Frame([read EXCEPT !.lastTurn = k, !.lastSeq = seq], k, turns[k].log[seq]))

\* The stream stops before its terminal frame was applied.  A send's re-attaches from
\* the gate's cursor; a re-attached one tries once more from the cursor it had.
Broken(v) ==
    LET s == v.stream
        off == [v EXCEPT !.stream = NoStream]
        again == [Ask EXCEPT !.kind = "attach", !.thread = v.thread, !.why = s.why, !.m = s.m,
                             !.try = 2, !.turn = s.cursor.turn, !.seq = s.cursor.seq]
    IN  CASE s.why = "post" /\ v.thread = None -> FailStream(Doubted(off, s.m))
          [] s.why = "post" -> Reattach(off, v.thread, "drop", None, Cursor(v))
          [] s.try = 1 -> Asking(off, again)
          [] OTHER -> Unattached(off, again)

StreamCut ==
    /\ view.stream.turn # 0 /\ view.stream.phase \in {"head", "live", "sync"} /\ Stir("cut") /\ OnPage
    /\ view' = Broken(view)

\* The gate had dropped the terminal frame (another reader of the turn applied it).
StreamCloses ==
    /\ view.stream.phase = "live"
    /\ LET log == turns[view.stream.turn].log
       IN  view.stream.pos = Len(log) /\ log[Len(log)].e = "done"
    /\ Landing(Broken(view))

\* As a bug would have it: a snapshot claims a frame that was not yet published.
SnapshotPast(k) == Len(turns[k].log) + 1

SnapshotAt(k) == Len(turns[k].log)

\* The stream endpoint: a running turn is told from the cursor if it is its turn's,
\* else as a snapshot with the queue; else it has ended, also where all is gone.
AttachServed ==
    \E r \in Waiting("attach") :
        LET k == server[r.thread].turn
        IN  /\ r.ans = "none" /\ Serves
            /\ Answered(r,
                 IF k = 0 THEN [r EXCEPT !.ans = "ended"]
                 ELSE IF r.turn = k THEN [r EXCEPT !.ans = "tail"]
                 ELSE [r EXCEPT !.ans = "sync", !.turn = k, !.seq = SnapshotAt(k),
                                !.queue = server[r.thread].queue])

\* The network loses the attach: it is tried once more.
AttachFails ==
    \E r \in Waiting("attach") :
        /\ r.ans = "none" /\ Stir("unheard") /\ OnPage
        /\ view' = IF r.try = 1 /\ Still(view, r) THEN Asking(Taken(r), [r EXCEPT !.try = 2])
                   ELSE Unattached(Taken(r), r)

\* A probe attaches only into a view that is not streaming; any attach only into
\* the view it was asked from.
AttachRefused(v, r) == (r.why = "probe" /\ v.status = "streaming") \/ ~Still(v, r)

AttachLands ==
    \E r \in Waiting("attach") :
        /\ r.ans # "none"
        /\ LET v == Taken(r)
               owner == [NoStream EXCEPT !.turn = r.turn, !.m = r.m, !.pos = r.seq, !.why = r.why,
                           !.try = r.try, !.queue = r.queue,
                           !.phase = CASE r.ans = "tail" -> "live" [] OTHER -> r.ans,
                           !.cursor = IF r.ans = "tail" THEN [turn |-> r.turn, seq |-> r.seq]
                                      ELSE NoCursor,
                           !.from = IF Held(r.thread) THEN Len(server[r.thread].rows) ELSE 0]
           IN  Landing(CASE AttachRefused(v, r) -> Unattached(v, r)
                         [] OTHER -> [v EXCEPT !.stream = owner])

\* What a stream that attaches reads first: the durable rows, or that all is gone.
Reread(v) ==
    IF server[v.thread].dead THEN {ConversationDeleted(v, v.thread)}
    ELSE {Replace(v, Rows(v.thread, n)) : n \in v.stream.from .. Len(server[v.thread].rows)}

\* A snapshot is laid over what was read.
SyncLands ==
    /\ view.stream.phase = "sync"
    /\ LET s == view.stream
       IN  \E read \in Reread(view) :
             Landing(ReconcileSteerQueue(
                       [read EXCEPT !.rows = @ \cup {Reply(s.turn)}, !.status = "streaming",
                                    !.lastTurn = s.turn, !.lastSeq = s.pos,
                                    !.stream.phase = "live", !.stream.m = None],
                       view.thread, s.queue))

\* The turn had ended: what was read is all there is to show.
EndedLands ==
    /\ view.stream.phase = "ended"
    /\ \E read \in Reread(view) :
          Landing([read EXCEPT !.status = "idle", !.stream = NoStream])

-----------------------------------------------------------------------------
(* Probes, floors, reloads *)

ProbeServed ==
    \E r \in Waiting("probe") \cup Waiting("probe again") :
        /\ r.ans = "none" /\ Serves
        /\ Answered(r, [r EXCEPT !.ans = "told", !.turn = server[r.thread].turn,
                                 !.queue = server[r.thread].queue])

\* The first probe: what was queued here is read before the queue is reconciled.
ProbeLands ==
    \E r \in Waiting("probe") :
        /\ r.ans = "told"
        /\ LET v == Taken(r)
               had == r.fresh \/ Queued(v) # {}
               known == ReconcileSteerQueue(v, r.thread, r.queue)
           IN  Landing(CASE v.thread # r.thread -> v
                         [] known.status = "streaming" -> known
                         [] r.turn # 0 -> Reattach(known, r.thread, "probe", None, NoCursor)
                         [] had -> Asking(known, [Ask EXCEPT !.kind = "pause", !.thread = r.thread])
                         [] OTHER -> known)

\* A turn may be between its reservation and its task: one more probe after a pause.
ProbeAgain ==
    \E r \in Waiting("pause") :
        Landing(IF view.status = "streaming" \/ view.thread # r.thread THEN Taken(r)
                ELSE Asking(Taken(r), [Ask EXCEPT !.kind = "probe again", !.thread = r.thread]))

ProbedAgain ==
    \E r \in Waiting("probe again") :
        /\ r.ans = "told"
        /\ LET v == Taken(r)
               known == ReconcileSteerQueue(v, r.thread, r.queue)
           IN  Landing(CASE v.thread # r.thread -> v
                         [] r.turn # 0 -> Reattach(known, r.thread, "probe", None, NoCursor)
                         [] v.status = "streaming" -> known
                         [] OTHER -> Asking(v, [Reading(v, "reload") EXCEPT
                                                  !.why = "queue", !.queue = r.queue]))

\* The floor at the end of a turn or on coming back to the chat.
AfterFloor(v, r) ==
    CASE r.why = "return" -> IF Still(v, r) /\ v.status # "streaming"
                             THEN Probe(v, r.thread, FALSE) ELSE v
      [] OTHER -> Discover(v, FALSE)

\* As a bug would have it: the floor is laid on whatever view is there.
FloorAnyway(v, r) == v.status # "streaming"

FloorFits(v, r) == Still(v, r) /\ v.status # "streaming"

FloorLands ==
    \E r \in Waiting("floor") :
        LET v == Taken(r)
        IN  IF server[r.thread].dead
            THEN Landing(AfterFloor(IF r.here THEN ConversationDeleted(v, r.thread) ELSE v, r))
            ELSE \E n \in r.from .. Len(server[r.thread].rows) :
                   Landing(AfterFloor(IF FloorFits(v, r)
                                      THEN ApplyFloor(v, Rows(r.thread, n)) ELSE v, r))

\* A whole history read: forced, after a settle, for a queue, or on reconnecting.
AfterReload(v, r) ==
    CASE r.why = "queue" -> ReconcileSteerQueue(v, r.thread, r.queue)
      [] r.why = "reconnect" -> IF v.thread # None /\ v.status # "streaming"
                                THEN Probe(v, v.thread, FALSE) ELSE v
      [] OTHER -> v

ReloadLands ==
    \E r \in Waiting("reload") :
        LET v == Taken(r)
        IN  IF server[r.thread].dead
            THEN Landing(AfterReload(IF r.here THEN ConversationDeleted(v, r.thread) ELSE v, r))
            ELSE \E n \in r.from .. Len(server[r.thread].rows) :
                   Landing(AfterReload(IF Still(v, r) THEN Replace(v, Rows(r.thread, n)) ELSE v, r))

\* The page comes back to the chat, or its event stream reconnects.
ReturnToChat ==
    /\ view.thread # None /\ Stir("return") /\ OnPage
    /\ view' = IF view.status = "streaming" THEN view
               ELSE Asking(view, [Reading(view, "floor") EXCEPT !.why = "return"])

ReconcileChat ==
    /\ view.thread # None /\ view.status # "streaming" /\ Stir("reconnect") /\ OnPage
    /\ view' = Asking(view, [Reading(view, "reload") EXCEPT !.why = "reconnect"])

-----------------------------------------------------------------------------
(* Stop *)

Stop ==
    /\ view.status = "streaming" /\ view.thread # None /\ Waiting("cancel") = {}
    /\ Stir("stop") /\ OnPage
    /\ view' = Asking(view, [Ask EXCEPT !.kind = "cancel", !.thread = view.thread,
                                        !.turn = view.lastTurn])

Harvested(s, steers) == [s EXCEPT !.queue = {}, !.receipt = steers]

\* The turn is cancelled and its queue handed back; a Stop scoped to another turn than
\* the one running takes nothing; a repeated one is handed the receipt again.
CancelServed(ok) ==
    \E r \in Waiting("cancel") :
        LET t == r.thread
            k == server[t].turn
            steers == IF server[t].queue # {} THEN server[t].queue ELSE server[t].receipt
            answer == [r EXCEPT !.ans = IF ~ok THEN "lost" ELSE IF k # 0 THEN "cancelled" ELSE "quiet",
                                !.queue = IF ok THEN steers ELSE {}]
        IN  /\ r.ans = "none"
            /\ IF k # 0 /\ r.turn \notin {0, k}
               THEN Answered(r, [r EXCEPT !.ans = IF ok THEN "other" ELSE "lost"])
                    /\ UNCHANGED <<server, turns>>
               ELSE /\ server' = [server EXCEPT ![t] =
                                    [Harvested(@, steers) EXCEPT
                                       !.turn = 0, !.rows = IF k # 0 THEN Append(@, Reply(k)) ELSE @]]
                    /\ turns' = IF k # 0 THEN Logged(k, "done", None) ELSE turns
                    /\ Answered(r, answer)
            /\ UNCHANGED feed

CancelAnswered == CancelServed(TRUE) /\ Quietly
CancelAnswerLost == CancelServed(FALSE) /\ Stir("unstopped")

\* The words go to their own conversation's draft, once for a receipt.
HarvestToDraft(v, t, queue) ==
    IF queue \in {{}, v.sig} THEN v
    ELSE [v EXCEPT !.drafts[Follow(v, t)] = @ \cup queue, !.sig = queue]

CancelLands ==
    \E r \in Waiting("cancel") :
        /\ r.ans # "none"
        /\ LET v == Taken(r)
               kept == IF r.ans = "other" THEN v ELSE HarvestToDraft(v, r.thread, r.queue)
               reloaded == IF Still(kept, r) THEN ReloadChat(kept, TRUE) ELSE kept
               settled(w) == IF Still(w, r) THEN Settle(w) ELSE w
           IN  Landing(CASE r.ans = "lost" /\ r.try = 1 ->
                              Asking(v, [r EXCEPT !.ans = "none", !.try = 2])
                         [] r.ans = "lost" -> settled(IF Still(v, r) THEN ReloadChat(v, TRUE) ELSE v)
                         [] r.ans = "other" /\ r.try = 2 -> reloaded
                         [] r.ans = "other" -> IF Still(v, r)
                                               THEN Reattach(v, r.thread, "cancel", None, NoCursor)
                                               ELSE v
                         [] r.ans = "quiet" -> settled(reloaded)
                         [] OTHER -> reloaded)

-----------------------------------------------------------------------------
(* The doors: another conversation, an agent's latest, a new one *)

\* A conversation is still to be had for each request that may make one.
Room == Cardinality(Unused) >
          Cardinality({r \in view.net : \/ r.kind \in {"mint", "latest"}
                                        \/ (r.kind = "post" /\ r.thread = None /\ r.ans = "none")})

Open ==
    /\ ~view.call /\ Stir("open") /\ OnPage
    /\ \E t \in {u \in Threads : server[u].made} : view' = OpenThread(view, t, None)

\* Only the newest door opens, and none does in a call.
DoorOpens(v, r) == r.newest /\ ~v.call

OpenLands ==
    \E r \in Waiting("open") :
        LET v == Over(Taken(r), r)
        IN  IF server[r.thread].dead \/ ~DoorOpens(v, r) THEN Landing(v)
            ELSE \E n \in r.from .. Len(server[r.thread].rows) :
                   Landing(Probe(SwapView(v, r.thread, n), r.thread, FALSE))

AgentDoor ==
    /\ ~view.call /\ Room /\ Stir("agent") /\ OnPage
    /\ view' = LatestOf(view, None)

\* The agent's newest conversation, if it has any.
LatestServed ==
    \E r \in Waiting("latest") :
        /\ r.ans = "none" /\ Serves
        /\ \E t \in {u \in Threads : Held(u)} \cup {None} :
              Answered(r, [r EXCEPT !.ans = "told", !.thread = t])

LatestLands ==
    \E r \in Waiting("latest") :
        /\ r.ans = "told"
        /\ LET v == Taken(r)
           IN  Landing(CASE ~DoorOpens(v, r) \/ r.thread \in {v.thread} \ {None} -> Over(v, r)
                         [] r.thread # None -> OpenThread(v, r.thread, r.gone)
                         [] OTHER -> MintWith(v, "agent", r.gone))

NewConversation ==
    /\ ~view.call /\ Room /\ Stir("new") /\ OnPage
    /\ \A r \in Waiting("mint") : ~r.newest
    /\ view.thread = None \/ view.bubbles # {} \/ \E row \in view.rows : row.by = "user"
    /\ view' = MintWith(view, "new", None)

MintServed ==
    \E r \in Waiting("mint"), t \in Unused :
        /\ r.ans = "none" /\ \A u \in Unused : t <= u
        /\ server' = [server EXCEPT ![t].made = TRUE]
        /\ Answered(r, [r EXCEPT !.ans = "made", !.thread = t])
        /\ UNCHANGED <<turns, feed>> /\ Quietly

MintRefused ==
    \E r \in Waiting("mint") :
        /\ r.ans = "none" /\ IF Unused = {} THEN Quietly ELSE Stir("unmade")
        /\ Answered(r, [r EXCEPT !.ans = "refused"]) /\ OnPage

MintLands ==
    \E r \in Waiting("mint") :
        /\ r.ans # "none"
        /\ LET v == Over(Taken(r), r)
           IN  Landing(CASE ~DoorOpens(v, r) -> v
                         [] r.ans = "made" -> SwapView(v, r.thread, 0)
                         [] r.why = "new" -> SwapView(v, None, 0)
                         [] OTHER -> v)

\* A voice call holds the view: its doors are refused until it ends.
CallStarts == ~view.call /\ Stir("call") /\ OnPage /\ view' = [view EXCEPT !.call = TRUE]

CallEnds ==
    /\ view.call
    /\ LET v == [view EXCEPT !.call = FALSE, !.latched = None]
       IN  Landing(IF view.latched # None /\ view.thread = view.latched
                   THEN ConversationDeleted(v, view.latched) ELSE v)

\* The boot's read of the stored conversation, unless the view has moved on.
BootLands ==
    \E r \in Waiting("boot") :
        LET v == Taken(r)
        IN  IF ~r.here THEN Landing(v)
            ELSE IF server[r.thread].dead
            THEN Landing(LatestOf([v EXCEPT !.carry = r.thread], r.thread))
            ELSE \E n \in 0 .. Len(server[r.thread].rows) :
                   Landing(Probe([Replace(SetSlot(v, r.thread), Rows(r.thread, n)) EXCEPT
                                    !.thread = r.thread], r.thread, FALSE))

\* A turn's `running` frame on the event stream, held while a thread-less send waits.
FrameLands ==
    \E k \in feed :
        /\ view.thread # None \/ view.status # "streaming"
        /\ feed' = feed \ {k} /\ UNCHANGED <<server, turns>> /\ Quietly
        /\ view' = IF turns[k].thread = view.thread /\ view.status # "streaming"
                   THEN Probe(view, view.thread, FALSE) ELSE view

-----------------------------------------------------------------------------
(* The server's own steps *)

\* The turn ends; what is still queued begins the next one.
TurnEnds ==
    \E t \in Threads :
        LET k == server[t].turn
            rows == Append(server[t].rows, Reply(k))
            left == SetToSeq(server[t].queue)
        IN  /\ k # 0
            /\ IF left = <<>>
               THEN /\ turns' = Logged(k, "done", None) /\ feed' = feed
                    /\ server' = [server EXCEPT ![t].rows = rows, ![t].turn = 0]
               ELSE /\ turns' = Append(Logged(k, "done", None),
                                       [thread |-> t, log |-> <<[e |-> "start", m |-> None]>>])
                    /\ server' = [server EXCEPT ![t].rows = rows \o [i \in DOMAIN left |-> User(left[i])],
                                                ![t].turn = Len(turns) + 1, ![t].queue = {},
                                                ![t].receipt = {}]
                    /\ feed' = feed \cup {Len(turns) + 1}
            /\ UNCHANGED view /\ Quietly

\* A running turn takes a queued message between two of its rounds.
SteerDrained ==
    \E t \in Threads :
        \E m \in server[t].queue :
            /\ server[t].turn # 0 /\ \A n \in server[t].queue : m <= n
            /\ server' = [server EXCEPT ![t].queue = @ \ {m}, ![t].rows = Append(@, User(m))]
            /\ turns' = Logged(server[t].turn, "steer", m)
            /\ UNCHANGED <<view, feed>> /\ Quietly

\* A turn another device starts.
ForeignTurn ==
    \E t \in Threads :
        /\ Held(t) /\ ~Running(t) /\ Stir("foreign")
        /\ turns' = Append(turns, [thread |-> t, log |-> <<[e |-> "start", m |-> None]>>])
        /\ server' = [server EXCEPT ![t].turn = Len(turns) + 1, ![t].receipt = {}]
        /\ feed' = feed \cup {Len(turns) + 1} /\ UNCHANGED view

\* Another device deletes a conversation; its turn is settled first.
DeleteElsewhere ==
    \E t \in Threads :
        /\ Held(t) /\ ~Running(t) /\ server[t].queue = {} /\ Stir("delete")
        /\ server' = [server EXCEPT ![t].dead = TRUE] /\ UNCHANGED <<view, turns, feed>>

-----------------------------------------------------------------------------
Owner == \/ Send \/ Stop \/ Open \/ AgentDoor \/ NewConversation \/ ReturnToChat
         \/ ReconcileChat \/ CallStarts
Faults == \/ PostAnswerLost \/ PostFails \/ StreamCut \/ AttachFails \/ CancelAnswerLost
          \/ ForeignTurn \/ DeleteElsewhere \/ MintRefused
Answers == \/ PostServed \/ PostGone \/ AttachServed \/ ProbeServed \/ CancelAnswered
           \/ LatestServed \/ MintServed
Lands == \/ StreamBegins \/ StreamCloses \/ SteerQueued \/ SendRefused \/ SendGone \/ SendLost \/ StreamHead
         \/ StreamFrame \/ AttachLands \/ SyncLands \/ EndedLands \/ ProbeLands \/ ProbeAgain
         \/ ProbedAgain \/ FloorLands \/ ReloadLands \/ CancelLands \/ OpenLands \/ LatestLands
         \/ MintLands \/ BootLands \/ FrameLands \/ CallEnds

Next == Owner \/ Faults \/ Answers \/ Lands \/ TurnEnds \/ SteerDrained

Spec == Init /\ [][Next]_vars

-----------------------------------------------------------------------------
\* Every field in its range; the gate and the stream stand inside their turns' logs.
TypeOK ==
    /\ view.thread \in Slots /\ view.status \in {"idle", "streaming", "error"}
    /\ \A b \in view.bubbles : b.m \in Msgs /\ b.st \in {"sent", "landed", "queued"}
    /\ \A k \in Slots : view.drafts[k] \subseteq Msgs /\ view.moved[k] \in Slots
    /\ \A t \in Threads : server[t].turn \in 0 .. Len(turns)
    /\ view.lastTurn # 0 => view.lastSeq \in 1 .. Len(turns[view.lastTurn].log)
    /\ view.stream.phase = "live" => view.stream.pos \in 0 .. Len(turns[view.stream.turn].log)

\* Where the server has message m.
WhereIs(m) == {t \in Threads : m \in server[t].queue \/ User(m) \in ToSet(server[t].rows)}

\* The view shows one conversation: every reply in it is of a turn of that conversation,
\* whatever streams, probes and reads of conversations left behind still land; and no
\* message shown in it went to another one, unless its answer was lost.
OneConversation ==
    /\ \A row \in view.rows : row.by = "agent" => turns[row.id].thread = view.thread
    /\ \A b \in view.bubbles :
         \/ b.m \in view.doubt \/ view.thread = None
         \/ WhereIs(b.m) \subseteq {view.thread}

\* Message m is somewhere the owner or the server will find it: a draft
\* counts unless its slot was emptied into another one.
Kept(m) ==
    \/ WhereIs(m) # {}
    \/ \E t \in Threads : m \in server[t].receipt
    \/ \E k \in Slots :
         m \in view.drafts[k] /\ (k = view.thread \/ view.moved[k] = k)
    \/ \E r \in view.net : r.m = m \/ m \in r.queue
    \/ \E b \in view.bubbles : b.m = m

\* No words vanish: a message typed into the chat is on the server, on screen, in a
\* draft or still on its way, unless the owner was told that it was refused or nobody
\* can say what became of it.
WordsKept == \A m \in 1 .. view.sent : m \in view.told \cup view.doubt \/ Kept(m)

\* Words given back to a draft were not also said: a message is not both in a draft and
\* with the server, unless its answer was lost.
WordsOnce ==
    \A m \in 1 .. view.sent :
        (\E k \in Slots : m \in view.drafts[k]) => WhereIs(m) = {} \/ m \in view.doubt

\* A message is somewhere, and not both said and handed back.
EachWordOnce == WordsKept /\ WordsOnce

Rest == view.net = {} /\ feed = {} /\ view.stream = NoStream /\ \A t \in Threads : ~Running(t)

\* When nothing is in flight and no turn runs, nothing on screen still waits: the view
\* is not streaming, no placeholder stands, and no bubble is queued in a conversation
\* that still exists.
RestIsSettled ==
    Rest => /\ view.status # "streaming" /\ view.wait = {}
            /\ Queued(view) # {} => server[view.thread].dead

\* A streaming view has something that will end it.
StreamingIsOwned ==
    view.status = "streaming" =>
        \/ view.stream.phase # "none"
        \/ \E r \in view.net : /\ r.kind \in {"post", "cancel", "attach"} /\ r.here
                              /\ r.kind = "attach" => r.why # "probe" \/ r.try = 2

\* The view never hangs: what streams has something that will end it, and at rest
\* nothing on screen waits.
NothingHangs == RestIsSettled /\ StreamingIsOwned

\* While the turn the view is attached to runs, the view does not say it is idle.
\* The code does not keep this: README, section 4.
IdleIsQuiet ==
    view.status = "idle" /\ view.stream.phase \in {"live", "head"} =>
        server[turns[view.stream.turn].thread].turn # view.stream.turn

\* A message whose answer was lost is still to be found.
UnansweredKept == \A m \in view.doubt : Kept(m)
=============================================================================
