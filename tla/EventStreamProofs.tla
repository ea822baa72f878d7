-------------------------- MODULE EventStreamProofs --------------------------
(***************************************************************************)
(* The event plane for any number of clients and events and any ring and   *)
(* queue size: it stays well typed and within its bounds, no client ever   *)
(* holds an event over a hole, and it implements TurnLog.                  *)
(*                                                                         *)
(* NoHole is not inductive alone.  A frame is applied without a hole       *)
(* because it is at most one past the client's cursor: while a tail prefix *)
(* is sent, because its next entry is (Positions, from the ring test of    *)
(* Attach); once live, because the continuity guard lets nothing past      *)
(* `expected' through, and `expected' is at most one past the cursor.      *)
(* Nothing is held that was not emitted because no queue names a later seq.*)
(***************************************************************************)
EXTENDS EventStream, TLAPS

Positions ==
    \A c \in Clients :
        /\ cursor[c] <= seq /\ after[c] <= seq
        /\ pc[c] = "tail" => next[c] <= cursor[c] + 1 /\ expected[c] = after[c] + 1
        /\ pc[c] = "sync" => expected[c] = after[c] + 1 /\ cursor[c] <= after[c]
        /\ pc[c] = "live" => expected[c] <= cursor[c] + 1 /\ after[c] <= cursor[c]

QueuedIsEmitted == \A c \in Clients : \A i \in 1 .. Len(queue[c]) : queue[c][i] <= seq

StreamInv == TypeOK /\ Positions /\ QueuedIsEmitted /\ NoHole

USE StreamAssumption DEF StreamAssumption

-----------------------------------------------------------------------------
\* What the two ways of putting into a queue preserve.
GoodQueue(c, q, n) ==
    /\ q \in Seq(Nat)
    /\ c \notin Buffered => Len(q) <= QueueSize
    /\ \A i \in 1 .. Len(q) : q[i] <= n

\* Dropping the oldest frame for the terminal one keeps a queue within its size.
LEMMA ForcedIsGood ==
    ASSUME NEW c, NEW q, NEW n \in Nat, GoodQueue(c, q, n)
    PROVE  GoodQueue(c, Forced(c, q), n)
<1>1. CASE Full(c, q)
  <2>1. q # <<>> /\ Len(q) = QueueSize
    BY <1>1 DEF Full, GoodQueue
  <2>2. /\ Tail(q) \in Seq(Nat) /\ Len(Tail(q)) = Len(q) - 1
        /\ \A i \in 1 .. Len(q) - 1 : Tail(q)[i] = q[i + 1]
    BY <2>1 DEF GoodQueue
  <2>3. Forced(c, q) = Append(Tail(q), 0)
    BY <1>1 DEF Forced, TERMINAL
  <2>. QED
    BY <2>1, <2>2, <2>3 DEF GoodQueue
<1>2. CASE ~Full(c, q)
  BY <1>2 DEF Forced, TERMINAL, Full, GoodQueue
<1>. QED
  BY <1>1, <1>2

\* A queue with room takes the next event.
LEMMA AppendIsGood ==
    ASSUME NEW c, NEW q, NEW n \in Nat, GoodQueue(c, q, n), ~Full(c, q)
    PROVE  GoodQueue(c, Append(q, n + 1), n + 1)
  BY DEF Full, GoodQueue

\* A queue left alone stays good when the log grows.
LEMMA LaterIsGood ==
    ASSUME NEW c, NEW q, NEW n \in Nat, GoodQueue(c, q, n)
    PROVE  GoodQueue(c, q, n + 1)
  BY DEF GoodQueue

\* Taking the head of a queue.
LEMMA TailIsGood ==
    ASSUME NEW c, NEW q, NEW n \in Nat, GoodQueue(c, q, n), q # <<>>
    PROVE  /\ GoodQueue(c, Tail(q), n)
           /\ Head(q) \in Nat /\ Head(q) <= n
<1>1. Len(q) >= 1 /\ Head(q) = q[1]
  BY DEF GoodQueue
<1>2. /\ Tail(q) \in Seq(Nat) /\ Len(Tail(q)) = Len(q) - 1
      /\ \A i \in 1 .. Len(q) - 1 : Tail(q)[i] = q[i + 1]
  BY <1>1 DEF GoodQueue
<1>. QED
  BY <1>1, <1>2 DEF GoodQueue

\* One subscriber's share of a dispatch.
LEMMA FannedIsGood ==
    ASSUME NEW c \in Clients, seq \in Nat, GoodQueue(c, queue[c], seq)
    PROVE  GoodQueue(c, Fanned(c), seq + 1)
<1>1. CASE Full(c, queue[c])
  BY <1>1, ForcedIsGood, LaterIsGood DEF Fanned
<1>2. CASE ~Full(c, queue[c])
  BY <1>2, AppendIsGood DEF Fanned
<1>. QED
  BY <1>1, <1>2

Queues == \A c \in Clients : GoodQueue(c, queue[c], seq)

\* The queue part of the invariant, per queue.
LEMMA QueuesGood == TypeOK /\ QueuedIsEmitted <=>
                    TypeOK /\ Queues
  BY DEF TypeOK, QueuedIsEmitted, Queues, GoodQueue

-----------------------------------------------------------------------------
\* No event, no subscriber.
LEMMA StreamInitial == Init => StreamInv
<1>. SUFFICES ASSUME Init PROVE StreamInv
  OBVIOUS
<1>1. TypeOK
  BY DEF Init, TypeOK, Phases
<1>2. Positions
  BY DEF Init, Positions
<1>3. QueuedIsEmitted
  BY DEF Init, QueuedIsEmitted
<1>4. NoHole
  BY DEF Init, NoHole
<1>. QED
  BY <1>1, <1>2, <1>3, <1>4 DEF StreamInv

\* A step of the turn: the queues get one more seq at most, the clients do not move.
LEMMA TurnKeeps ==
    ASSUME StreamInv, TurnStep
    PROVE  StreamInv'
<1>1. /\ seq \in Nat /\ attached \subseteq Clients /\ Queues
      /\ \A c \in Clients : queue[c] \in Seq(Nat)
  BY QueuesGood DEF StreamInv, TypeOK
<1>2. /\ seq' \in Nat /\ seq' \in {seq, seq + 1} /\ phase' \in Phases
      /\ attached' \subseteq Clients /\ UNCHANGED <<stream, client, connects>>
  BY <1>1 DEF StreamInv, TypeOK, TurnStep, Dispatch, Finish, Begin, Unstarted, Cleanup, BodyBegin,
     BodyHandsOff, BodyReleases, Phases, KeepingUp
<1>. DEFINE Kept == /\ \A c \in Clients : GoodQueue(c, queue'[c], seq')
                    /\ queue' = [c \in Clients |-> queue'[c]]
<1>3. Kept
  <2>1. ASSUME Dispatch PROVE Kept
    <3>1. seq' = seq + 1
          /\ queue' = [c \in Clients |-> IF c \in attached THEN Fanned(c) ELSE queue[c]]
      BY <2>1 DEF Dispatch
    <3>2. \A c \in Clients : /\ GoodQueue(c, Fanned(c), seq + 1)
                             /\ GoodQueue(c, queue[c], seq + 1)
      BY <1>1, FannedIsGood, LaterIsGood DEF Queues
    <3>. QED
      BY <3>1, <3>2
  <2>2. ASSUME Finish \/ Unstarted PROVE Kept
    <3>1. seq' = seq
          /\ queue' = [c \in Clients |-> IF c \in attached THEN Forced(c, queue[c]) ELSE queue[c]]
      BY <2>2 DEF Finish, Unstarted
    <3>2. \A c \in Clients : GoodQueue(c, Forced(c, queue[c]), seq)
      BY <1>1, ForcedIsGood DEF Queues
    <3>. QED
      BY <1>1, <3>1, <3>2 DEF Queues
  <2>3. ASSUME seq' = seq, queue' = queue PROVE Kept
    BY <1>1, <2>3 DEF Queues, StreamInv, TypeOK
  <2>. QED
    BY <2>1, <2>2, <2>3 DEF TurnStep, Begin, Cleanup, BodyBegin, BodyHandsOff, BodyReleases
<1>4. queue' \in [Clients -> Seq(Nat)]
  <2>1. \A c \in Clients : queue'[c] \in Seq(Nat)
    BY <1>3 DEF GoodQueue
  <2>2. queue' = [c \in Clients |-> queue'[c]]
    BY <1>3
  <2>. HIDE DEF Kept
  <2>. QED
    BY <2>1, <2>2
<1>5. TypeOK'
  BY <1>2, <1>3, <1>4 DEF StreamInv, TypeOK, GoodQueue, stream, client
<1>6. QueuedIsEmitted'
  BY <1>3 DEF QueuedIsEmitted, GoodQueue
<1>7. Positions'
  BY <1>1, <1>2 DEF StreamInv, TypeOK, Positions, stream, client
<1>8. NoHole'
  BY <1>2 DEF StreamInv, NoHole, client
<1>. QED
  BY <1>5, <1>6, <1>7, <1>8 DEF StreamInv

\* A stream opens, serves a frame, closes, or its client reloads.
LEMMA ClosedKeeps ==
    ASSUME StreamInv, NEW c \in Clients, Closed(c),
           UNCHANGED <<phase, seq, after, next, expected, client, connects>>
    PROVE  StreamInv'
<1>1. TypeOK'
  BY DEF StreamInv, TypeOK, Closed, client
<1>2. Positions' /\ NoHole'
  BY DEF StreamInv, TypeOK, Positions, NoHole, Closed, client
<1>3. QueuedIsEmitted'
  BY DEF StreamInv, TypeOK, QueuedIsEmitted, Closed
<1>. QED
  BY <1>1, <1>2, <1>3 DEF StreamInv

\* A client joins: its tail and its queue meet without a hole, or it is told to reload.
LEMMA AttachKeeps ==
    ASSUME StreamInv, NEW c \in Clients, Attach(c)
    PROVE  StreamInv'
<1>. DEFINE from == IF cursor[c] + 1 < RingFirst THEN RingFirst ELSE cursor[c] + 1
<1>0. /\ seq \in Nat /\ cursor[c] \in Nat /\ RingFirst \in Nat
      /\ from \in Nat /\ (Lossless(c) => from <= cursor[c] + 1)
  BY DEF StreamInv, TypeOK, Lossless, RingFirst
<1>1. /\ UNCHANGED <<phase, seq, cursor, held>>
      /\ connects' = [connects EXCEPT ![c] = @ + 1]
      /\ attached' = attached \cup {c}
      /\ queue' = [queue EXCEPT ![c] = <<>>]
      /\ after' = [after EXCEPT ![c] = seq]
      /\ expected' = [expected EXCEPT ![c] = seq + 1]
      /\ \/ pc' = [pc EXCEPT ![c] = "tail"] /\ next' = [next EXCEPT ![c] = from] /\ Lossless(c)
         \/ pc' = [pc EXCEPT ![c] = "sync"] /\ next' = next
  BY DEF Attach, client
<1>. HIDE DEF from
<1>2. TypeOK'
  <2>1. next' \in [Clients -> Nat] /\ pc' \in [Clients -> {"off", "tail", "sync", "live"}]
    BY <1>0, <1>1 DEF StreamInv, TypeOK
  <2>2. /\ queue' \in [Clients -> Seq(Nat)]
        /\ \A d \in Clients \ Buffered : Len(queue'[d]) <= QueueSize
    BY <1>1 DEF StreamInv, TypeOK
  <2>. QED
    BY <1>0, <1>1, <2>1, <2>2 DEF StreamInv, TypeOK
<1>3. Positions'
  BY <1>0, <1>1 DEF StreamInv, TypeOK, Positions
<1>4. QueuedIsEmitted'
  BY <1>1 DEF StreamInv, TypeOK, QueuedIsEmitted
<1>5. NoHole'
  BY DEF StreamInv, NoHole, Attach, client
<1>. QED
  BY <1>2, <1>3, <1>4, <1>5 DEF StreamInv

\* A frame at most one past the cursor leaves no hole.
LEMMA ApplyKeeps ==
    ASSUME StreamInv, NEW c \in Clients, NEW s \in Nat, s <= cursor[c] + 1, s <= seq, Apply(c, s)
    PROVE  /\ cursor' \in [Clients -> Nat] /\ held' \in [Clients -> SUBSET Nat]
           /\ NoHole'
           /\ \A d \in Clients : /\ cursor[d] <= cursor'[d] /\ cursor'[d] <= seq
                                 /\ d # c => cursor'[d] = cursor[d]
           /\ s <= cursor'[c]
<1>1. CASE s > cursor[c]
  <2>1. s = cursor[c] + 1
    BY <1>1 DEF StreamInv, TypeOK
  <2>2. held[c] \cup {s} = 1 .. s
    BY <2>1 DEF StreamInv, TypeOK, NoHole
  <2>3. /\ cursor' = [cursor EXCEPT ![c] = s]
        /\ held' = [held EXCEPT ![c] = held[c] \cup {s}]
    BY <1>1 DEF Apply
  <2>4. cursor' \in [Clients -> Nat] /\ held' \in [Clients -> SUBSET Nat]
    BY <2>3 DEF StreamInv, TypeOK
  <2>5. NoHole'
    BY <2>2, <2>3 DEF StreamInv, TypeOK, NoHole
  <2>6. \A d \in Clients : /\ cursor[d] <= cursor'[d] /\ cursor'[d] <= seq
                           /\ d # c => cursor'[d] = cursor[d]
    BY <2>1, <2>3 DEF StreamInv, TypeOK, Positions
  <2>. QED
    BY <2>3, <2>4, <2>5, <2>6 DEF StreamInv, TypeOK
<1>2. CASE ~(s > cursor[c])
  BY <1>2 DEF StreamInv, TypeOK, NoHole, Positions, Apply, client
<1>. QED
  BY <1>1, <1>2

\* The next frame of the ring's tail is applied, or the tail is over.
LEMMA TailFrameKeeps ==
    ASSUME StreamInv, NEW c \in Clients, TailFrame(c)
    PROVE  StreamInv'
<1>1. CASE next[c] <= after[c]
  <2>1. next[c] \in Nat /\ next[c] <= cursor[c] + 1 /\ next[c] <= seq
    BY <1>1 DEF StreamInv, TypeOK, Positions, TailFrame
  <2>2. Apply(c, next[c])
    BY <1>1 DEF TailFrame
  <2>3. /\ cursor' \in [Clients -> Nat] /\ held' \in [Clients -> SUBSET Nat]
        /\ NoHole'
        /\ \A d \in Clients : /\ cursor[d] <= cursor'[d] /\ cursor'[d] <= seq
                              /\ d # c => cursor'[d] = cursor[d]
        /\ next[c] <= cursor'[c]
    BY <2>1, <2>2, ApplyKeeps
  <2>4. /\ pc[c] = "tail"
        /\ next' = [next EXCEPT ![c] = next[c] + 1]
        /\ UNCHANGED <<phase, seq, attached, queue, pc, after, expected, connects>>
    BY <1>1 DEF TailFrame
  <2>5. next' \in [Clients -> Nat]
    BY <2>1, <2>4 DEF StreamInv, TypeOK
  <2>6. TypeOK'
    <3>. TypeOK
      BY DEF StreamInv
    <3>. QED
      BY <2>4, <2>5, <2>3 DEF TypeOK
  <2>7. Positions'
    <3>1. /\ cursor' \in [Clients -> Nat]
          /\ \A d \in Clients : /\ cursor[d] <= cursor'[d] /\ cursor'[d] <= seq
                                /\ d # c => cursor'[d] = cursor[d]
          /\ next[c] <= cursor'[c]
      BY <2>3
    <3>2. ASSUME NEW d \in Clients
          PROVE  /\ cursor'[d] <= seq' /\ after'[d] <= seq'
                 /\ pc'[d] = "tail" => next'[d] <= cursor'[d] + 1 /\ expected'[d] = after'[d] + 1
                 /\ pc'[d] = "sync" => expected'[d] = after'[d] + 1 /\ cursor'[d] <= after'[d]
                 /\ pc'[d] = "live" => expected'[d] <= cursor'[d] + 1 /\ after'[d] <= cursor'[d]
      <4>1. /\ pc'[d] = pc[d] /\ seq' = seq /\ after'[d] = after[d] /\ expected'[d] = expected[d]
            /\ next'[d] = IF d = c THEN next[d] + 1 ELSE next[d]
        BY <2>4 DEF StreamInv, TypeOK
      <4>2. /\ cursor[d] \in Nat /\ cursor'[d] \in Nat /\ next[d] \in Nat
            /\ expected[d] \in Nat /\ after[d] \in Nat /\ seq \in Nat
        BY <3>1 DEF StreamInv, TypeOK
      <4>. QED
        BY <2>4, <3>1, <4>1, <4>2 DEF StreamInv, Positions
    <3>. QED
      BY <3>2 DEF Positions
  <2>8. QueuedIsEmitted'
    BY DEF StreamInv, QueuedIsEmitted, TailFrame
  <2>. QED
    BY <2>3, <2>6, <2>7, <2>8 DEF StreamInv
<1>2. CASE ~(next[c] <= after[c])
  <2>1. TypeOK' /\ NoHole' /\ QueuedIsEmitted'
    BY <1>2 DEF StreamInv, TypeOK, NoHole, QueuedIsEmitted, TailFrame, client
  <2>2. Positions'
    BY <1>2 DEF StreamInv, TypeOK, Positions, TailFrame, client
  <2>. QED
    BY <2>1, <2>2 DEF StreamInv
<1>. QED
  BY <1>1, <1>2

\* A gapped client's sync frame.
LEMMA SyncFrameKeeps ==
    ASSUME StreamInv, NEW c \in Clients, SyncFrame(c)
    PROVE  StreamInv'
<1>1. TypeOK' /\ NoHole' /\ QueuedIsEmitted'
  BY DEF StreamInv, TypeOK, NoHole, QueuedIsEmitted, SyncFrame
<1>2. Positions'
  BY DEF StreamInv, TypeOK, Positions, SyncFrame
<1>. QED
  BY <1>1, <1>2 DEF StreamInv

\* The next frame of the queue: applied, skipped, or the end of the connection.
LEMMA TakeKeeps ==
    ASSUME StreamInv, NEW c \in Clients, Take(c)
    PROVE  StreamInv'
<1>. DEFINE s == Head(queue[c])
<1>1. /\ GoodQueue(c, Tail(queue[c]), seq)
      /\ s \in Nat /\ s <= seq
  <2>1. GoodQueue(c, queue[c], seq) /\ seq \in Nat /\ queue[c] # <<>>
    BY QueuesGood DEF StreamInv, Queues, TypeOK, Take
  <2>. QED
    BY <2>1, TailIsGood
<1>2. CASE s = TERMINAL \/ s > expected[c]
  BY <1>2, ClosedKeeps DEF Take
<1>3. CASE ~(s = TERMINAL \/ s > expected[c])
  <2>1. s <= cursor[c] + 1
    BY <1>1, <1>3 DEF StreamInv, TypeOK, Positions, Take
  <2>2. /\ cursor' \in [Clients -> Nat] /\ held' \in [Clients -> SUBSET Nat]
        /\ NoHole'
        /\ \A d \in Clients : /\ cursor[d] <= cursor'[d] /\ cursor'[d] <= seq
                              /\ d # c => cursor'[d] = cursor[d]
        /\ s <= cursor'[c]
    <3>1. CASE s <= after[c]
      <4>1. UNCHANGED <<cursor, held, after, seq>> /\ pc[c] = "live"
        BY <1>3, <3>1 DEF Take, client
      <4>2. after[c] <= cursor[c] /\ cursor[c] \in Nat /\ after[c] \in Nat
        BY <4>1 DEF StreamInv, TypeOK, Positions
      <4>3. s <= cursor'[c]
        BY <1>1, <3>1, <4>1, <4>2
      <4>4. NoHole'
        BY <4>1 DEF StreamInv, NoHole
      <4>. QED
        BY <4>1, <4>3, <4>4 DEF StreamInv, TypeOK, Positions
    <3>2. CASE ~(s <= after[c])
      <4>1. Apply(c, s)
        BY <1>3, <3>2 DEF Take
      <4>. QED
        BY <1>1, <2>1, <4>1, ApplyKeeps
    <3>. QED
      BY <3>1, <3>2
  <2>3. /\ pc' = pc /\ attached' = attached /\ UNCHANGED <<phase, seq, after, next, connects>>
        /\ queue' = [queue EXCEPT ![c] = Tail(queue[c])]
        /\ expected' = [expected EXCEPT ![c] = s + 1]
        /\ pc[c] = "live"
    BY <1>3 DEF Take
  <2>4. TypeOK'
    <3>1. TypeOK
      BY DEF StreamInv
    <3>2. expected' \in [Clients -> Nat]
      BY <1>1, <2>3, <3>1 DEF TypeOK
    <3>3. /\ queue' \in [Clients -> Seq(Nat)]
          /\ \A d \in Clients \ Buffered : Len(queue'[d]) <= QueueSize
      BY <1>1, <2>3, <3>1 DEF TypeOK, GoodQueue
    <3>. QED
      BY <2>2, <2>3, <3>1, <3>2, <3>3 DEF TypeOK
  <2>5. Positions'
    <3>1. /\ cursor' \in [Clients -> Nat]
          /\ \A d \in Clients : /\ cursor[d] <= cursor'[d] /\ cursor'[d] <= seq
                                /\ d # c => cursor'[d] = cursor[d]
      BY <2>2
    <3>2. s + 1 <= cursor'[c] + 1
      BY <1>1, <2>2
    <3>3. ASSUME NEW d \in Clients
          PROVE  /\ cursor'[d] <= seq' /\ after'[d] <= seq'
                 /\ pc'[d] = "tail" => next'[d] <= cursor'[d] + 1 /\ expected'[d] = after'[d] + 1
                 /\ pc'[d] = "sync" => expected'[d] = after'[d] + 1 /\ cursor'[d] <= after'[d]
                 /\ pc'[d] = "live" => expected'[d] <= cursor'[d] + 1 /\ after'[d] <= cursor'[d]
      <4>1. /\ pc'[d] = pc[d] /\ seq' = seq /\ after'[d] = after[d] /\ next'[d] = next[d]
            /\ expected'[d] = IF d = c THEN s + 1 ELSE expected[d]
        BY <2>3 DEF StreamInv, TypeOK
      <4>2. /\ cursor[d] \in Nat /\ cursor'[d] \in Nat /\ next[d] \in Nat
            /\ expected[d] \in Nat /\ after[d] \in Nat /\ seq \in Nat
        BY <3>1 DEF StreamInv, TypeOK
      <4>3. /\ cursor[d] <= cursor'[d] /\ cursor'[d] <= seq /\ after[d] <= seq
            /\ d # c => cursor'[d] = cursor[d]
            /\ pc[d] = "tail" => next[d] <= cursor[d] + 1 /\ expected[d] = after[d] + 1
            /\ pc[d] = "sync" => expected[d] = after[d] + 1 /\ cursor[d] <= after[d]
            /\ pc[d] = "live" => expected[d] <= cursor[d] + 1 /\ after[d] <= cursor[d]
        BY <3>1 DEF StreamInv, Positions
      <4>4. CASE d = c
        BY <2>3, <3>2, <4>1, <4>2, <4>3, <4>4
      <4>5. CASE d # c
        BY <4>1, <4>2, <4>3, <4>5
      <4>. QED
        BY <4>4, <4>5
    <3>. QED
      BY <3>3 DEF Positions
  <2>6. QueuedIsEmitted'
    BY <1>1, <2>3 DEF StreamInv, TypeOK, QueuedIsEmitted, GoodQueue
  <2>. QED
    BY <2>2, <2>4, <2>5, <2>6 DEF StreamInv
<1>. QED
  BY <1>2, <1>3

\* The client reads the thread from the database, up to the current seq.
LEMMA ReloadKeeps ==
    ASSUME StreamInv, NEW c \in Clients, Reload(c)
    PROVE  StreamInv'
<1>1. TypeOK' /\ NoHole' /\ QueuedIsEmitted'
  BY DEF StreamInv, TypeOK, NoHole, QueuedIsEmitted, Reload, stream
<1>2. Positions'
  BY DEF StreamInv, TypeOK, Positions, Reload, stream
<1>. QED
  BY <1>1, <1>2 DEF StreamInv

\* Every step of the turn, the streams and the clients keeps the invariant.
THEOREM StreamInductive == StreamInv /\ [Next]_vars => StreamInv'
<1>. SUFFICES ASSUME StreamInv, [Next]_vars PROVE StreamInv'
  OBVIOUS
<1>1. CASE TurnStep
  BY <1>1, TurnKeeps
<1>2. ASSUME NEW c \in Clients, Attach(c) PROVE StreamInv'
  BY <1>2, AttachKeeps
<1>3. ASSUME NEW c \in Clients, Serve(c) PROVE StreamInv'
  BY <1>3, TailFrameKeeps, SyncFrameKeeps, TakeKeeps DEF Serve
<1>4. ASSUME NEW c \in Clients, Drop(c) PROVE StreamInv'
  BY <1>4, ClosedKeeps DEF Drop
<1>5. ASSUME NEW c \in Clients, Reload(c) PROVE StreamInv'
  BY <1>5, ReloadKeeps
<1>6. CASE UNCHANGED vars
  BY <1>6 DEF StreamInv, TypeOK, Positions, QueuedIsEmitted, NoHole, vars, stream, client
<1>. QED
  BY <1>1, <1>2, <1>3, <1>4, <1>5, <1>6 DEF Next

\* For every bound, the event plane stays well typed and no bounded queue exceeds its size
\* (turns.py _dispatch and _force_put).
THEOREM StreamTypeCorrect == Spec => []TypeOK
<1>1. StreamInv => TypeOK
  BY DEF StreamInv
<1>. QED
  BY <1>1, StreamInitial, StreamInductive, PTL DEF Spec

\* For every number of clients and events and every ring and queue size, a client holds every
\* event up to its cursor and none beyond (turn_stream, _stream_live, seqGateDrop).
THEOREM NeverAHole == Spec => []NoHole
<1>1. StreamInv => NoHole
  BY DEF StreamInv
<1>. QED
  BY <1>1, StreamInitial, StreamInductive, PTL DEF Spec

-----------------------------------------------------------------------------
\* A frame past the cursor is one Read of the abstract log; any other frame changes nothing.
LEMMA ApplyReads ==
    ASSUME StreamInv, NEW c \in Clients, NEW s \in Nat, s <= cursor[c] + 1, s <= seq,
           Apply(c, s), seq' = seq
    PROVE  Log!Read(c) \/ UNCHANGED <<seq, held>>
<1>1. CASE s > cursor[c]
  <2>1. s = cursor[c] + 1 /\ cursor[c] \in Nat /\ seq \in Nat /\ held[c] = 1 .. cursor[c]
    BY <1>1 DEF StreamInv, TypeOK, NoHole
  <2>2. held[c] \subseteq 1 .. s /\ held[c] \cup {s} = 1 .. s /\ s \in 0 .. seq
    BY <2>1
  <2>3. held' = [held EXCEPT ![c] = 1 .. s]
    BY <1>1, <2>2 DEF Apply
  <2>. QED
    BY <2>2, <2>3 DEF Log!Read
<1>2. CASE ~(s > cursor[c])
  BY <1>2 DEF Apply, client
<1>. QED
  BY <1>1, <1>2

\* What the turn does to the log: it emits, or nothing a reader sees.
LEMMA TurnEmits ==
    ASSUME TurnStep
    PROVE  Log!Emit \/ UNCHANGED <<seq, held>>
  BY DEF TurnStep, Dispatch, Finish, Begin, Unstarted, Cleanup, BodyBegin, BodyHandsOff,
     BodyReleases, client, Log!Emit

\* What serving a client does to the log: that client reads, or nothing.
LEMMA ServeReads ==
    ASSUME StreamInv, NEW c \in Clients, Serve(c)
    PROVE  Log!Read(c) \/ UNCHANGED <<seq, held>>
<1>1. CASE TailFrame(c)
  <2>1. CASE next[c] <= after[c]
    <3>1. next[c] \in Nat /\ next[c] <= cursor[c] + 1 /\ next[c] <= seq
      BY <1>1, <2>1 DEF StreamInv, TypeOK, Positions, TailFrame
    <3>2. Apply(c, next[c]) /\ seq' = seq
      BY <1>1, <2>1 DEF TailFrame
    <3>. QED
      BY <3>1, <3>2, ApplyReads
  <2>2. CASE ~(next[c] <= after[c])
    BY <1>1, <2>2 DEF TailFrame, client
  <2>. QED
    BY <2>1, <2>2
<1>2. CASE SyncFrame(c)
  <2>1. /\ cursor[c] \in Nat /\ after[c] \in Nat /\ seq \in Nat
        /\ cursor[c] <= after[c] /\ after[c] <= seq /\ held[c] = 1 .. cursor[c]
    BY <1>2 DEF StreamInv, TypeOK, Positions, NoHole, SyncFrame
  <2>2. held[c] \subseteq 1 .. after[c] /\ after[c] \in 0 .. seq
    BY <2>1
  <2>. QED
    BY <1>2, <2>2 DEF SyncFrame, Log!Read
<1>3. CASE Take(c)
  <2>. DEFINE s == Head(queue[c])
  <2>1. s \in Nat /\ s <= seq
    <3>1. GoodQueue(c, queue[c], seq) /\ seq \in Nat /\ queue[c] # <<>>
      BY <1>3, QueuesGood DEF StreamInv, Queues, TypeOK, Take
    <3>. QED
      BY <3>1, TailIsGood
  <2>2. CASE s = TERMINAL \/ s > expected[c]
    BY <1>3, <2>2 DEF Take, client
  <2>3. CASE ~(s = TERMINAL \/ s > expected[c])
    <3>1. seq' = seq /\ s <= cursor[c] + 1
      BY <1>3, <2>1, <2>3 DEF StreamInv, TypeOK, Positions, Take
    <3>2. UNCHANGED held \/ Apply(c, s)
      BY <1>3, <2>3 DEF Take, client
    <3>. QED
      BY <2>1, <3>1, <3>2, ApplyReads
  <2>. QED
    BY <2>2, <2>3
<1>. QED
  BY <1>1, <1>2, <1>3 DEF Serve

\* Every step of the event plane is a step of the abstract log or leaves it as it is.
THEOREM StepReadsTheLog == StreamInv /\ [Next]_vars => [Log!Next]_<<seq, held>>
<1>. SUFFICES ASSUME StreamInv, [Next]_vars PROVE Log!Next \/ UNCHANGED <<seq, held>>
  OBVIOUS
<1>1. CASE TurnStep
  BY <1>1, TurnEmits DEF Log!Next
<1>2. ASSUME NEW c \in Clients, Attach(c) \/ Drop(c) PROVE UNCHANGED <<seq, held>>
  BY <1>2 DEF Attach, Drop, client
<1>3. ASSUME NEW c \in Clients, Serve(c) PROVE Log!Read(c) \/ UNCHANGED <<seq, held>>
  BY <1>3, ServeReads
<1>4. ASSUME NEW c \in Clients, Reload(c) PROVE Log!Forget(c)
  BY <1>4 DEF Reload, Log!Forget
<1>5. CASE UNCHANGED vars
  BY <1>5 DEF vars, client
<1>. QED
  BY <1>1, <1>2, <1>3, <1>4, <1>5 DEF Next, Log!Next

\* For every bound, the event plane implements the abstract log: what a client holds is always
\* a prefix of one totally ordered log (D39's promise, over _dispatch, turn_stream, _stream_live
\* and the client's seq gate).
THEOREM StreamImplementsLog == Spec => ClientsReadTheLog
<1>1. Init => Log!Init
  BY DEF Init, Log!Init
<1>. QED
  BY <1>1, StreamInitial, StreamInductive, StepReadsTheLog, PTL DEF Spec, ClientsReadTheLog, Log!Spec

=============================================================================
