----------------------------- MODULE EventStream -----------------------------
(***************************************************************************)
(* The event plane of one turn handle (D39): the drain task stamps every   *)
(* event with the next seq, keeps the last ones in a ring and fans them    *)
(* out to bounded subscriber queues; a stream reads its queue until the    *)
(* terminal sentinel or a hole in the seqs; a client that lost its stream  *)
(* re-attaches with its last seq as cursor and is given either the tail of *)
(* the ring or one snapshot.  The handle may first belong to a drain-B     *)
(* body, which emits nothing.  Attaching and dispatching run without an    *)
(* await, so each is one step.                                             *)
(***************************************************************************)
EXTENDS Naturals, Sequences, FiniteSets

CONSTANTS
    Clients,        \* the devices that may stream this turn
    Buffered,       \* those whose POST asked for one JSON payload (stream = false)
    RingSize,       \* agent.turns.ring_size
    QueueSize,      \* agent.turns.subscriber_queue_size
    MaxEvents,      \* bound: events of the turn, its closing done included
    MaxConnects     \* bound: streams one client opens

ASSUME StreamAssumption ==
    /\ Buffered \subseteq Clients
    /\ RingSize \in Nat \ {0}
    /\ QueueSize \in Nat \ {0}
    /\ MaxEvents \in Nat \ {0}
    /\ MaxConnects \in Nat

TERMINAL == 0       \* the sentinel; seqs count from 1

\* body_new and body are a drain-B body, spawned and running the drain task; a settled
\* task waits for its done-callback; an abandoned handle was released by its body.
Phases == {"body_new", "body", "spawned", "running", "settled", "released", "abandoned"}
\* _turn_live: a task, and no terminal status yet.
TurnLive == {"body_new", "body", "spawned", "running"}

VARIABLES
    phase,          \* where the code behind the handle stands
    seq,            \* handle.seq
    attached,       \* handle.subscribers
    queue,          \* each client's subscriber queue: seqs, or TERMINAL
    pc,             \* each client's stream: closed, its prefix (tail or sync), or live
    after,          \* after_seq: what the prefix covers
    next,           \* the next ring entry a tail prefix sends
    expected,       \* the continuity guard of _stream_live
    cursor,         \* lastSeq of the client's entry gate
    held,           \* the events whose effect the client shows
    connects        \* streams each client has opened

stream == <<pc, after, next, expected>>
client == <<cursor, held>>
vars == <<phase, seq, attached, queue, stream, client, connects>>

Open(c) == pc[c] # "off"

\* deque(maxlen = RingSize): the oldest seq still there.
RingFirst == IF seq <= RingSize THEN 1 ELSE seq - RingSize + 1

Full(c, q) == c \notin Buffered /\ Len(q) = QueueSize

\* _force_put of the sentinel: a full queue gives up its oldest entry.
Forced(c, q) == Append(IF Full(c, q) THEN Tail(q) ELSE q, TERMINAL)

-----------------------------------------------------------------------------
TypeOK ==
    /\ phase \in Phases
    /\ seq \in Nat
    /\ attached \subseteq Clients
    /\ queue \in [Clients -> Seq(Nat)]
    /\ \A c \in Clients \ Buffered : Len(queue[c]) <= QueueSize
    /\ pc \in [Clients -> {"off", "tail", "sync", "live"}]
    /\ after \in [Clients -> Nat]
    /\ next \in [Clients -> Nat]
    /\ expected \in [Clients -> Nat]
    /\ cursor \in [Clients -> Nat]
    /\ held \in [Clients -> SUBSET Nat]
    /\ connects \in [Clients -> Nat]

\* A POST attaches its own stream before it spawns the task; a drain-B body has no client.
Init ==
    /\ \/ /\ phase = "spawned"
          /\ \E c \in Clients : attached = {c}
       \/ phase = "body_new" /\ attached = {}
    /\ seq = 0
    /\ queue = [c \in Clients |-> <<>>]
    /\ pc = [c \in Clients |-> IF c \in attached THEN "sync" ELSE "off"]
    /\ after = [c \in Clients |-> 0]
    /\ next = [c \in Clients |-> 1]
    /\ expected = [c \in Clients |-> 1]
    /\ cursor = [c \in Clients |-> 0]
    /\ held = [c \in Clients |-> {}]
    /\ connects = [c \in Clients |-> 0]

-----------------------------------------------------------------------------
\* The turn.

\* _dispatch for one subscriber: the event, or the sentinel in place of its oldest entry.
Fanned(c) ==
    IF Full(c, queue[c]) THEN Forced(c, queue[c]) ELSE Append(queue[c], seq + 1)

\* Those a dispatch leaves attached: overflow detaches.
KeepingUp == {c \in attached : ~Full(c, queue[c])}

\* Every event is dispatched alike, the closing done included: the generator may still
\* await between yielding its done and ending.
Dispatch ==
    /\ phase = "running"
    /\ seq < MaxEvents
    /\ seq' = seq + 1
    /\ queue' = [c \in Clients |-> IF c \in attached THEN Fanned(c) ELSE queue[c]]
    /\ attached' = KeepingUp
    /\ UNCHANGED <<phase, stream, client, connects>>

\* The generator is over and its done is out: the status, then the sentinel to everyone
\* still attached, in one step.
Finish ==
    /\ phase = "running" /\ seq > 0
    /\ phase' = "settled"
    /\ queue' = [c \in Clients |-> IF c \in attached THEN Forced(c, queue[c]) ELSE queue[c]]
    /\ UNCHANGED <<seq, attached, stream, client, connects>>

Begin ==
    /\ phase = "spawned"
    /\ phase' = "running"
    /\ UNCHANGED <<seq, attached, queue, stream, client, connects>>

\* Mutant of Unstarted: nobody closes the streams of a task that never started.
UnstartedSilently ==
    /\ phase \in {"spawned", "body_new"}
    /\ phase' = "released"
    /\ UNCHANGED <<seq, attached, queue, stream, client, connects>>

\* A task cancelled before its first step: the done-callback backfills the sentinel.
Unstarted ==
    /\ phase \in {"spawned", "body_new"}
    /\ phase' = "released"
    /\ queue' = [c \in Clients |-> IF c \in attached THEN Forced(c, queue[c]) ELSE queue[c]]
    /\ UNCHANGED <<seq, attached, stream, client, connects>>

Cleanup ==
    /\ phase = "settled"
    /\ phase' = "released"
    /\ UNCHANGED <<seq, attached, queue, stream, client, connects>>

BodyBegin ==
    /\ phase = "body_new"
    /\ phase' = "body"
    /\ UNCHANGED <<seq, attached, queue, stream, client, connects>>

\* The body hands its handle to a seeded turn's drain task ...
BodyHandsOff ==
    /\ phase = "body"
    /\ phase' = "spawned"
    /\ UNCHANGED <<seq, attached, queue, stream, client, connects>>

\* ... or releases it itself (all commands, cancelled, stale head, an error): no sentinel.
BodyReleases ==
    /\ phase \in {"body_new", "body"}
    /\ phase' = "abandoned"
    /\ UNCHANGED <<seq, attached, queue, stream, client, connects>>

TurnStep ==
    \/ Dispatch \/ Finish \/ Begin \/ Unstarted \/ Cleanup
    \/ BodyBegin \/ BodyHandsOff \/ BodyReleases

-----------------------------------------------------------------------------
\* The streams.

\* Mutant of Lossless: an off-by-one in the ring's lower edge.
LosslessByTwo(c) == cursor[c] # 0 /\ seq > 0 /\ cursor[c] + 2 >= RingFirst

\* The cursor's successor is still in the ring.
Lossless(c) == cursor[c] # 0 /\ seq > 0 /\ cursor[c] + 1 >= RingFirst

\* A re-attach: make_subscriber and the prefix, without an await between them.
Attach(c) ==
    /\ pc[c] = "off"
    /\ connects[c] < MaxConnects
    /\ phase \in TurnLive
    /\ c \notin Buffered
    /\ connects' = [connects EXCEPT ![c] = @ + 1]
    /\ attached' = attached \cup {c}
    /\ queue' = [queue EXCEPT ![c] = <<>>]
    /\ after' = [after EXCEPT ![c] = seq]
    /\ expected' = [expected EXCEPT ![c] = seq + 1]
    /\ IF Lossless(c)
       THEN /\ pc' = [pc EXCEPT ![c] = "tail"]
            /\ next' = [next EXCEPT ![c] = IF cursor[c] + 1 < RingFirst THEN RingFirst
                                           ELSE cursor[c] + 1]
       ELSE /\ pc' = [pc EXCEPT ![c] = "sync"]
            /\ UNCHANGED next
    /\ UNCHANGED <<phase, seq, client>>

\* seqGateDrop: a frame the client has already applied is dropped.
Apply(c, s) ==
    IF s > cursor[c]
    THEN /\ cursor' = [cursor EXCEPT ![c] = s]
         /\ held' = [held EXCEPT ![c] = @ \cup {s}]
    ELSE UNCHANGED client

TailFrame(c) ==
    /\ pc[c] = "tail"
    /\ IF next[c] <= after[c]
       THEN /\ Apply(c, next[c])
            /\ next' = [next EXCEPT ![c] = @ + 1]
            /\ UNCHANGED pc
       ELSE /\ pc' = [pc EXCEPT ![c] = "live"]
            /\ UNCHANGED <<next, client>>
    /\ UNCHANGED <<phase, seq, attached, queue, after, expected, connects>>

\* One turn.sync frame: the accumulator's fold of everything so far replaces what is shown.
SyncFrame(c) ==
    /\ pc[c] = "sync"
    /\ pc' = [pc EXCEPT ![c] = "live"]
    /\ cursor' = [cursor EXCEPT ![c] = after[c]]
    /\ held' = [held EXCEPT ![c] = 1 .. after[c]]
    /\ UNCHANGED <<phase, seq, attached, queue, after, next, expected, connects>>

\* remove_subscriber in the stream's finally.
Closed(c) ==
    /\ pc' = [pc EXCEPT ![c] = "off"]
    /\ attached' = attached \ {c}
    /\ queue' = [queue EXCEPT ![c] = <<>>]

\* Mutant of Take: without the continuity guard.
TakeUnguarded(c) ==
    /\ pc[c] = "live" /\ queue[c] # <<>>
    /\ LET s == Head(queue[c])
       IN  IF s = TERMINAL
           THEN Closed(c) /\ UNCHANGED <<expected, client>>
           ELSE /\ queue' = [queue EXCEPT ![c] = Tail(@)]
                /\ expected' = [expected EXCEPT ![c] = s + 1]
                /\ IF s <= after[c] THEN UNCHANGED client ELSE Apply(c, s)
                /\ UNCHANGED <<pc, attached>>
    /\ UNCHANGED <<phase, seq, after, next, connects>>

\* _stream_live: close on the sentinel or on a hole, else forward what the prefix lacked.
Take(c) ==
    /\ pc[c] = "live" /\ queue[c] # <<>>
    /\ LET s == Head(queue[c])
       IN  IF s = TERMINAL \/ s > expected[c]
           THEN Closed(c) /\ UNCHANGED <<expected, client>>
           ELSE /\ queue' = [queue EXCEPT ![c] = Tail(@)]
                /\ expected' = [expected EXCEPT ![c] = s + 1]
                /\ IF s <= after[c] THEN UNCHANGED client ELSE Apply(c, s)
                /\ UNCHANGED <<pc, attached>>
    /\ UNCHANGED <<phase, seq, after, next, connects>>

\* The socket dies: a phone lock, a network blip, a frozen reader past send_timeout_s.
Drop(c) ==
    /\ Open(c)
    /\ Closed(c)
    /\ UNCHANGED <<phase, seq, after, next, expected, client, connects>>

\* A page reload forgets the gate and what was shown.
Reload(c) ==
    /\ pc[c] = "off" /\ cursor[c] # 0
    /\ cursor' = [cursor EXCEPT ![c] = 0]
    /\ held' = [held EXCEPT ![c] = {}]
    /\ UNCHANGED <<phase, seq, attached, queue, stream, connects>>

Serve(c) == TailFrame(c) \/ SyncFrame(c) \/ Take(c)

Next == TurnStep \/ \E c \in Clients : Attach(c) \/ Serve(c) \/ Drop(c) \/ Reload(c)

\* The loop runs the task and the stream generators; a turn is finite (iteration cap,
\* per-call deadlines).  Nothing obliges a client to connect, or a socket to die.
Fairness == WF_vars(TurnStep) /\ \A c \in Clients : WF_vars(Serve(c))

Spec == Init /\ [][Next]_vars /\ Fairness

-----------------------------------------------------------------------------
\* Properties.

\* The event plane keeps its promise: what each client holds is always a prefix of the
\* turn's log, whatever overflows, evictions, drops and re-attaches it went through.
Log == INSTANCE TurnLog WITH length <- seq, view <- held
ClientsReadTheLog == Log!Spec

\* No client shows an event without every event before it, and its cursor, which decides
\* what a re-attach sends, says exactly how far it got (force_put eviction, ring replay,
\* snapshot and the live tail never leave a hole).
NoHole == \A c \in Clients : held[c] = 1 .. cursor[c]

\* Events are never shed for a connected subscriber: while the turn runs, what an attached
\* live stream has still to read is exactly what its client lacks (_dispatch detaches).
NothingShed ==
    \A c \in attached :
        pc[c] = "live" /\ phase \in TurnLive
            => queue[c] = [i \in 1 .. seq - cursor[c] |-> cursor[c] + i]

\* Every open stream is closed once the turn is over (the sentinel always lands), except
\* one attached to a drain-B body that releases its handle.
StreamsClose ==
    \A c \in Clients : Open(c) ~> (~Open(c) \/ phase = "abandoned")

\* A stream that stands serves every event, and none stands for ever.
StreamsServe == []NothingShed /\ StreamsClose

\* What _push_terminal says of the sentinel (a subscriber that never sees it "would hang on
\* queue.get() forever"): no subscriber ever misses it.
\* The code does not keep this: README, section 4.
NoStreamHangs == \A c \in Clients : Open(c) ~> ~Open(c)

=============================================================================
