# Verification of ctrl-b: conversations, automations and the voice of the browser

ctrl-b is a self-hosted assistant: a FastAPI backend (`src/backend/app`) that
drives language-model turns, runs tools for them, streams what happens to
browsers and runs turns on a schedule; and a React page (`src/frontend/src`) that
shows one conversation at a time, listens to its owner and reads replies aloud.
This directory holds TLA+ models of the parts of both that are concurrent and
stateful, TLC runs over small instances of them, and theorems checked by TLAPS.
Line references are to `src/`.

The backend modelled here is one process with one asyncio event loop and one
SQLite connection; the page is one document with one JavaScript event loop. In
both **a step of a model is what runs between two awaits** (or in one callback),
and the interleavings TLC explores are those of coroutines, callbacks, timers and
network answers. There are no threads. The crash of the backend and its restart
are steps; a reload of the page is a step where the code survives it.

## 1. Inventory

### 1.1 Parts that are modelled: the backend

**Turn registry and steering queue** (`services/agent/turns.py`,
`services/agent/steering.py`). State: `app.state.turns` (at most one
`TurnHandle` per thread, with its task, its accumulator, its ring of events and
its subscribers), `app.state.steer_queues` (what the owner typed while a turn
ran), `app.state.steer_harvests` (the receipt of the last Stop). Operations:
reserve, release by identity, cancel (once per handle), drain a turn's events,
attach and detach subscribers, enqueue, unsend, harvest, requeue.
*Hard:* the check-and-insert of the marker is atomic only because no await
separates them; a chain of turns must hand the marker on without a gap; a
bounded queue that overflows must end its subscriber and not skip.
*Correct when:* one turn per thread, no marker outlives its turn; a steer takes
effect once, in order, or is given back, or is accounted for; no client sees a
hole.

**Chat endpoints** (`api/agent.py`). State: none of its own; it mutates the two
registries above. Operations: POST chat, exec, resume, regenerate, steer
(unsend, flush), cancel; GET turn stream; the drain task that owns a turn; the
"drain-B" body that opens the next turn from the queue. *Hard:* every endpoint
reads the registry, awaits the database and acts; Stop is two steps (harvest,
then cancel) with the turn running in between; a body that fails has steers in
its hands. *Correct when:* a busy thread queues and an idle one starts; a
completed turn chains; a Stop stops.

**Agent session loop** (`services/agent/session.py`, `exec.py`). State: the
messages of one turn, the loop guard, the calls in hand; the rows it writes.
Operations: the iteration loop with its cap, Drain A (queued steers taken at
the loop top), a batch of calls (a parallel prefix of reads, then one at a
time), park on a confirm or a question, resume, the backstop that closes what
an exception left open. *Hard:* cancellation may land at any await, including
between a tool's effect and the row that records it; results finish in any
order. *Correct when:* no call takes effect twice, none without consent, and
whatever was done is on record.

**Action gate** (`services/action_service.py`, `core/permissions.py`,
`core/tool.py`). State: single-use confirm tokens with a TTL, approval rules.
Operations: preview (mint), execute (redeem), invalidate, the allowlist, the
deadline, the audit row. *Hard:* the audit write may fail after the action, a
token may be redeemed from a second tab while its bubble is on screen.
*Correct when:* a risky tool runs for an answer or a rule, and a token dies
with its bubble.

**Automations** (`services/automations/*`, `api/automations.py`). State: the
definitions (schedule, mode, thread, revision, next slot) and run rows in the
database; one arbiter lock, the poll loop, at most one run-now task.
Operations: poll, claim a due slot, run now, drive one turn under a deadline,
close the run, prune old runs, create, update, enable, delete; shutdown,
backstop sweep, boot sweep. *Hard:* a cancellation that lands while a claim's
transaction is in flight, a deadline that races the turn's end, an edit or a
delete between scan and claim, a finalizer that races a sweep. *Correct when:*
every claimed run is closed exactly once, truthfully, and a slot runs at most
once.

**Conversation store and database** (`services/conversation.py`, `db.py`). One
connection, a write lock around transactions. In the models a transaction is a
step (or, where it holds markers while another request may look, three: body,
COMMIT, release). It may fail or be followed by a crash.

### 1.2 Parts that are modelled: the browser

**Chat store** (`store/chat.ts`, with the drafts of `store/composer.ts`). State:
one view (conversation, rows, optimistic bubbles, queued steers, status), the
stream that owns it and its cursor, the load generation and the navigation
ticket that fence what is in flight, a draft per conversation. Operations: boot,
open, new, the agent's thread-less view, a call's door, delete; send (a POST that
streams, or a 202 that queues), Stop, probe, re-attach, floor read, reload.
*Hard:* some twenty await points after each of which the view may be another
one; the same words have four ways back to a draft and one onto the server; a
202 races the end of the turn that was to take the steer; a POST that dies may
or may not have arrived. *Correct when:* the view never mixes two
conversations, typed words are somewhere and not both said and handed back,
and the view comes to rest.

**Voice call** (`hooks/useLiveCall.ts`, `lib/liveSocket.ts`). State: a pure
reducer's record (phase, the open segment, those owed, the queue of utterances,
the kill in flight, the mouth) and the hook's resources (microphones, one relay
leg, timers, posts, cancels). Operations: some thirty signals, from the relay, the
microphone, the speaker, the chat and the owner. *Hard:* the ear is rebuilt while
segments are owed, answers come late, never or on a leg that counts anew; an
utterance may only be posted when the interrupted reply's cancel is done and the
mouth is silent; one ladder of redials is spent by every kind of fault.
*Correct when:* nothing said is lost, doubled or reordered, the two ends of a
leg agree on what is owed, the parties take turns, and the call moves.

**Read-aloud** (`lib/audioController.ts`, `hooks/useAutoTts.ts`). State: one
audio element, one session (a queue of chunks with their syntheses in flight, a
window of lookahead), clips and their cache, the mouth's gate, armed timers, the
feeder's memory of the streaming turn. Operations: start, feed, finish, seek,
pause, tap, dismiss, clear, forget, prime, the element's and the platform's own
events. *Hard:* a synthesis answers after its session was superseded or sought
away from; a message is edited while its clip is made; the gate shuts between a
chunk's landing and its play. *Correct when:* a queue that waits is waited for,
only the docked reply's present words sound, a stop or a pause stands.

**Dictation** (`hooks/useDictation.ts`, `store/micRelease.ts`,
`lib/uplinkPacer.ts`). State: a recording (permission, recorder, detector), its
streaming leg with backlog and tail, its clip with upload attempts and a parked
retry, who owns the ear. Operations: press, release, cancel, lock, hand-over to a
call, navigation, mint, unmount, relay and upload answers. *Hard:* the words of
one recording travel over two doors and must land through one; a call, a press
and a retry each want the microphone while the last stop is awaited; words
arrive after their view was left, renamed or deleted. *Correct when:* a phrase
lands once, one ear is open, words stay with their conversation, the ear comes
back.

### 1.3 How they interact

    owner ── POST chat/exec/resume/steer/cancel ──► endpoints ──► turns registry ◄── reserve ── automations
      │                                                │             │  marker                     │
      │                                                ▼             ▼                             ▼
      │     chat view ◄── SSE (ring, queue, sentinel) ◄── drain task ──► session loop ──► action gate ──► tools
      │      ▲  │   ▲                                            │   ▲  Drain A     │
      │ draft│  │   └── posts, cancels ── voice call             ▼   └─ steer queue │
      ▼      │  │ streaming reply            │ gate         database ◄─────────────┘  audit
    dictation   └──────► read-aloud ◄─────────┘
      └────────── microphone hand-over ───────┘

- The marker is the interlock: chats, execs, edits, retention and automations all
  take it before they touch a thread.
- The steering queue is shared by the endpoints (append, unsend, harvest), the
  running turn (Drain A) and the chain (drain B). The ring is written by the drain
  task and read by every client.
- In the page, dictated words and unsent words meet in the drafts, keyed by
  conversation; a send that mints a conversation moves the thread-less draft.
- The feeder hands the view's streaming reply to read-aloud. A call shuts and opens
  its mouth's gate, posts through the chat store, and asks dictation for the
  microphone, which is given when recording and leg are both back.

### 1.4 Parts that are not modelled

| Part | Why | What would make it correct |
|---|---|---|
| Interface: tabs, components, design prototypes | rendering and forms over the stores above; most of the rest of the TypeScript and JavaScript | (wording, layout) |
| Voice relay and transcription (backend) | to the browser's models it opens, closes and answers segments in order, or loses them; its slot table and detector step are candidates | a slot is given back on every exit |
| Cron schedule (`schedule.py`) | cron and zone arithmetic is the library's; what is the repository's is the strictly-future filter | the next fire is after now |
| Composer attachments | planned (only the claim at a send and at a drain appears) | a file is in one place, and a claimed one is never swept |
| Compaction | planned | a fold never splits a call from its result |
| Inference, failover, providers | planned; to these models a model call answers, fails or is cancelled | a retry budget is spent once; a gate drains before it opens |
| Event bus | drop-oldest, no replay; its clients refetch | a subscriber's queue never blocks a publisher |
| Subagents | a child is a headless `ToolCalls` instance; its fan-out cap is planned | depth and fan-out bounds |
| Fleet monitor, wake-on-connect | planned | a state is reported after enough equal samples, a wake is not repeated |
| Agent memory and its backup | file edits with compare-and-set, then git | a retry repairs the two-file order |
| Settings, runtime, lifespan | only the boot and shutdown order the modelled parts meet | whole clients are swapped at once |
| Media library, prompts, cards, lorebooks, configuration migration | file probing or text transformation | (data) |
| Remote tools and hosts | I/O: a tool does its work once per begun call, then answers, fails, times out, or goes on unwaited | — |

`PROJECT.json` lists each with its files. The map of definitions to code covers
about 7 000 lines of the page and 4 800 of the backend. That is most of the control
of the parts named above, and less than a tenth of the repository's TypeScript and
JavaScript: two stores' worth of state machines sit in a large body of
rendering, forms and prototypes whose state no second step shares.

## 2. Modules

| Module | Models | Extended by |
|---|---|---|
| `SteeredThread` | one conversation: marker, steering queue, turns, drain B, Stop | `MCSteeredThread`, `SteeredThreadProofs` |
| `TurnLog` | abstract: a log and clients that hold prefixes of it | instance in `EventStream` |
| `EventStream` | the event plane of one turn and the browsers on it | `MCEventStream`, `EventStreamProofs` |
| `CallLedger` | abstract: the life of a tool call, opened once, begun once, closed for good | instance in `ToolCalls` |
| `ToolCalls` | the calls of one conversation: batches, gate, park and resume, crash and reconcile | `MCToolCalls`, `ToolCallsLedgerProofs`, `ToolCallsRecordProofs` |
| `Automations` | definitions, claims, runs, retention, shutdown and boot | `MCAutomations`, `AutomationsProofs`, `AutomationsRunProofs` |
| `ChatView` | the browser's view, its requests and drafts against a small server | `MCChatView` |
| `CallMachine` | the reducer of a voice call, arm by arm (pure operators) | `LiveCall` |
| `LiveCall` | the hook around it: microphones, leg, timers, posts, the relay and the owner | `MCLiveCall` |
| `ReadAloud` | the speaker: queue, clips, cache, gates, feeder | `MCReadAloud` |
| `Dictation` | recordings, legs, clips, drafts and the ear | `MCDictation`, `DictationEarProofs`, `DictationProofs` |

Definitions whose comment starts with "Mutant of" or "As a bug would have it" are
plausible bugs. Nothing uses them: each shows that one property can see the bug.
Several properties are conjunctions of named parts, one run question each; the
parts are stated and commented above them.

### 2.1 SteeredThread

A *turn* is a number; `turn[t]` holds its handle (kind, control point, terminal
status, cancel latch), `work[t]` what its coroutine has in hand (a seed, the
entries a drain peeked, the batch of its transaction, model calls made). `marker`
is `app.state.turns[thread]`, `queue` the steering queue; `applied` is what has
taken effect in order (a message persisted, a command run). `accepted`, `unsent`
and `handed` remember what the owner was answered: 202, `removed: true`, and the
entries of a Stop.

Actions: `Chat`, `Exec`, `Resume`, `Regenerate`, `Edit` (each queues on a steerable
marker, or reserves), `HandOff`, `Refuse`, `SyncExec`, `SyncEnd` (the rest of the
handler), `Start`, `Persist`, `Peek`, `DrainExec`, `ClaimFiles`, `OpenTransaction`,
`CommitTransaction`, `CallModel`, `NextIteration`, `Raise` (`run_turn` and `_drive`),
`BodyStart`, `BodyExec`, ... (`_drain_b_body`), the cancel landing and the
done-callback, `Unsend`, the two steps of Stop, `ReceiptExpires`, `CloseGate`,
`Shutdown` (with the shutdown the thread takes no further request).

Choices a reader of the code may want explained:
- `EndTurn` is what runs in one go when a turn ends: settle, release, and reserve
  for the chained body. There is no await in it, and `MarkerExact` and
  `CompletedLeavesNone` rest on that.
- The points `top`, `drain` and `body` exist between statements where the code
  yields only sometimes (an empty queue awaits nothing). They add interleavings,
  never remove any.
- `lost` is set when a coroutine ends with a seed that is not in `applied`. It
  is what `LostOnlyAsSeed` compares the queue, the receipt and the effects with.
- The edit endpoints are one action: they hold the marker inline. What
  they do to the rows (alternates, prune, compaction) is not modelled.

### 2.2 TurnLog, EventStream

The drain task numbers the events of its turn (`seq`), keeps the last `RingSize`
in a ring and fans each out to subscriber queues of `QueueSize`; a subscriber
whose queue is full is detached, the sentinel taking the place of its oldest
entry (`Forced`). A client attaches with its cursor, the last seq it applied; the
server answers with the tail of the ring, or, if the ring no longer reaches back
so far, with one snapshot (`Lossless` decides), then serves the live queue
behind a continuity guard (`expected`) that ends the stream at a gap. The client
applies only what its cursor has not covered and re-attaches when its stream ends;
a page reload forgets everything. `Buffered` clients are the POSTs that asked
for one JSON payload: their queue is unbounded. The phases of the turn include a
task that never starts, and a drain-B body that a client may attach to before there
is a turn.

`TurnLog` is the promise: what a client holds is a prefix of one log, growing
until it forgets. The mapping is `length <- seq, view <- held`.

### 2.3 CallLedger, ToolCalls

A call has a message (`Batch`), a kind (read, act, risky, question, malformed)
and a signature (what the loop guard and the rules compare). `disk[c]` is the
state the database has, `task[c]` that of its coroutine in the parallel prefix,
`rows` the tool rows in order; `begun` and `effects` are what really happened in
the world; `emitted` what subscribers saw; tokens, rules, and the answers given
are the gate's. A drive is the control point `pc` with the call it is `at`.
The owner may answer Allow, Always, dismiss or a text, Stop, redeem a token
elsewhere; the clock may expire it; a tool may be withdrawn; a write may fail;
the process may crash and boot with its reconcile.

Abstractions, each in the direction of more behaviours or out of scope:
- a policy's DENY, forced-confirm tools, unknown tools and validation errors are
  all "malformed" (refused before the gate), as far as a call's record goes;
- regenerating or editing a message displaces the reply it had
  (`AlternatesRepo.stash_tail`, `revoke_pending`): not modelled;
- the boot reconcile is all-or-nothing, as its transaction is;
- `begin_execute`'s single flight is implied by the marker of the thread;
- the token of a call refused by the allowlist lives until its TTL, as in the
  code (`TokenDiesWithBubble` says so).

### 2.4 Automations

`autos[a]` is a definition (life, enabled, mode, revision, next slot, rolling
thread); `runs` the run rows (a deleted one stays as "gone", so that numbers
do not move); `threads` and `markers` the threads and who holds each. `task` has
one record for the poll loop and one for run-now: both go through claim →
thread → turn → close → prune, the loop with the arbiter held throughout, run-now
with the arbiter handed from the request to its detached task. `op` is the update
or delete in progress, `chat` an interactive request on a run's thread.

Choices:
- a claim is a transaction under a shield: `CancelLands` on a claim in flight
  first lets it finish, then closes the row it made;
- an interactive request reserves the marker and looks at the thread again
  under it; the look before reserving that chat, exec and resume also do can be
  arbitrarily old and decides nothing;
- an agent that is gone and the cap on turns are one nondeterministic refusal;
- uvicorn finishes requests before the lifespan unwinds, so a shutdown meets no
  request in progress; a crash does;
- the reads of other coroutines inside an open transaction (one connection) are
  harmless where a marker is held over it, which the three-step transactions show;
- a thread has the number of the run that created it;
- left out: a failing audit write, a failing finalizer transaction, validation
  and the definition cap; a database that fails between a claim and its turn
  (`runner.py:400` closes the row as it closes a refused turn's); an update that
  repairs a schedule this build cannot use (the model refuses every update of such
  a definition, so `SlotOnce` can speak of it by name); the moment of an edit is
  that of its transaction.

What the model keeps although it may surprise: run-now ignores the result of the
schedule's advance, so an unusable schedule that is due gets an `error` row and an
executed run for one slot (`SlotOnce` therefore speaks of usable schedules); the
deadline of a turn is waited for without a second bound; a run-now claims inside its
request, so a shutdown finds its task created or none at all (`ShutdownStarts`), and
only a crash can leave a claimed run-now to the sweep of the next boot.

### 2.5 ChatView

`view` is the module state of `chat.ts` with the drafts of `composer.ts`:
conversation, rows, optimistic bubbles, placeholders, the owning `stream`, the
cursor (`lastTurn`, `lastSeq`), and `net`, the requests in flight. `server` and
`turns` are the least server that answers them: rows, a running turn and its log,
queued steers, the last harvest's receipt. `feed` holds the event-bus frames under
way. Every answer crosses in two steps: the server acts (`PostServed`,
`ProbeServed`, ...), and the browser lands what it said (`StreamBegins`,
`ProbeLands`, `FloorLands`, ...), in any order and after any door.

The code's generations are kept as what they are compared for, a `here` and a
`newest` flag on each request, so the state space does not grow with navigation.
`world` says where a page starts, what may stir it and how often.
`EventStream` has the stream's ring and cursor in full; here a stream is read frame by
frame, or cut. Left out: titles, responders, notifications, previews, plans,
the edits of one message.

### 2.6 CallMachine, LiveCall

`CallMachine` has no variables: every arm of `callReduce` is an operator from a
record to a step (a record and its effects), and `CallReduce` adds what the code
derives after every arm. `LiveCall` drives it: `call` is the reducer's state,
`page` the hook's (microphones, leg, asks, posts, cancels, the reply held or
sounding), `ear` the relay's session on the leg, `told` what became of each
segment's words. Its actions are the callbacks of the relay, the microphone,
the timers, the speaker, the chat and the owner. Callbacks of an earlier
generation are fenced: sockets' and timers' are dropped with what armed them;
posts, cancels and late microphones carry the generation they were made under.
`heeded` is what the model adds: the segments whose answer the call must wait for.

### 2.7 ReadAloud

`mouth` is the controller (docked reply, status, session, element, held start,
gate, timers, clips in flight, cache), `turn` the streaming turn and the feeder's
refs, `words` the version of each reply's text: a rewrite (edit or regenerate)
moves it, which is what staleness is judged by. A reply is its number of chunks. The
request generation is kept as `live` on the session and `fresh` on continuations.
The platform may take the audio focus and give it back, refuse a play, or fail the
element. A queue that waits for the stream's timer although none was armed is
marked `bereft`, and a clip that is being made while the cache is cleared, and is
cached afterwards, makes the cache `astray`: section 4 says how they come about.
Timelines, durations, voices and the split into chunks are left out.

### 2.8 Dictation

`tab` holds the two composer instances (a remount is another instance), a record
per recording for microphone, recorder and detector, one for its streaming leg, one
for its clip, the owners of the ear, the drafts and where they moved; `setup` the
knobs, `world` the link and the budget of events. A phrase is a pair of its
recording and its place in it, so a phrase that lands twice, or by neither door, can be
told. The gesture that presses and releases, levels and thresholds of the
detector and the encoding are left out.

## 3. Runs

Every passing run checks the properties listed; each is preceded in its module by
what it says of the code, and each has a mutant in `PROJECT.json` that violates it.

| Run | Instance | Shows |
|---|---|---|
| `steer` | 2 interchangeable messages, 1 command, queue of 2, 1 iteration, 2 owner turns, up to 4, 1 Stop | nothing takes effect out of order, twice or after it was taken back; a completed turn never leaves a queue behind and only a seed can vanish; what a stopped turn leaves is taken once by a later one; the marker is exact |
| `steer_live` | 1 message with a file and no text, 1 command, queue of 1, 2 iterations, 1 owner turn, up to 3 | every turn ends; a queued steer moves unless the thread idles behind a turn that did not complete |
| `steer_stop_loses` | as above with 1 iteration, one invariant | finding 1 |
| `stream` | 2 clients (one of them buffered), ring 2, queue 2, 5 events, 3 connections | the log is never read with a hole; nothing is shed from an attached stream; streams with a drain task close; implements `TurnLog` |
| `calls` | a question and two equal risky calls, in two messages | no begun call can be asked about again, consent, tokens, persist-before-emit, one result per closed call, a batch settled whenever nothing runs, a rejection stands; implements `CallLedger` |
| `calls_prefix` | three reads under a semaphore of 2, a malformed call, an acting call | results in the model's order and once; work that was done is on record, unless a Stop cuts the harvest of a failed prefix off; a Stop ends the drive though no tool or model ever answers |
| `automations` | 1 automation, usable or stored with a schedule this build cannot use, clock 0..2, 2 events | no open run without an owner, one run at a time, terminals that do not lie, a slot once, threads stay under their turns, closed once; every claimed run is closed and no slot stays due |
| `call` | 2 segments, 2 disturbances of 14 kinds, 1 redial, 4 setups (leg clock, turn hold, echo, a prior call) | no word lost, doubled or reordered; the ear's count is the relay's; a kill goes before a post and the owner before the speaker; the call moves |
| `readaloud` | 2 replies of 2 chunks, lookahead 1, 3 stirs; 5 worlds: read-along, tapping, a call of one reply and one of three on a moving route, whole clips | no queue waits for nothing (but a `bereft` one); only the docked reply's present words sound; a stop or a pause stands; every reading comes to rest |
| `chat` | up to 3 conversations and 2 sends; 7 worlds with 0 to 3 stirs | one conversation on screen; no typed words vanish or are both said and handed back; what streams has something that ends it, and at rest nothing waits |
| `chat_unsent` | 1 send that may not arrive, one invariant | finding 2 |
| `dictation` | 1 recording of 2 phrases and 2 events, 2 recordings and 1 event, 2 clips and 2 events; relay off, on, with the leg clock | a phrase lands once; one ear, a call's among them; words stay with their conversation; the ear and the drafts come to rest |

### 3.1 Bounds and why they are enough

- *SteeredThread.* `OwnerTurns` bounds the turns the owner starts and `MaxTurns`
  all of them. A chain needs a queued entry, and two messages are the least that
  form a batch or can be reordered; the command is
  needed because a command and a message leave the queue in different ways, and
  the queue of 2 can be full. One Stop, because its two steps are what races; a
  second one finds the latch closed. Two owner turns let the second find what a
  stopped first one left. `MaxIter` 2 (`steer_live`) lets a turn drain at its second
  boundary and end at its cap with steers queued. `CloseGate` and `Shutdown` happen
  at most once. Messages are interchangeable in `steer` (no files), which makes its
  symmetry sound; it checks invariants and action properties only.
- *EventStream.* A ring and a queue of 2 against 5 events: both overflow, and a
  client may be one behind, exactly at, or past the ring. Three connections allow
  a drop of a re-attach. The proofs cover every size.
- *ToolCalls.* The calls of a run are chosen for the paths they open: a question
  parks, a risky call parks and its equal twin meets the loop guard and the rule of
  "Always"; a prefix of 3 under a semaphore of 2 has one that waits.
  Nothing in `calls_prefix` is resumed: `StopEnds` and `ResultsStand`
  are checked on first drives, the properties of `calls` on resumes as well. Any
  write or audit may fail and a Stop may land at any await, so a Stop meets the
  harvest of a prefix that has failed.
- *Automations.* One budget, `MaxEvents`, pays for run-nows, edits, other
  requests, shutdowns and crashes: two of any kind meet in every order. `Grace` 0
  and a clock that reaches 2 make a slot late enough to be missed; `Keep` 1 makes
  the second run prune the first. Three events were also explored once
  (5.5 million states) with the same result.
- *ChatView.* Three stirs let doors overtake each other; a send with any one fault,
  or a Stop with a lost answer; two sends because the second is a steer. A world of
  everything at once does not finish; the worlds are the pairs and triples of
  kinds that touch the same state.
- *LiveCall.* Two segments are the least for order, for a capped segment and its
  continuation, and for one owed while the next is open. Two disturbances of any
  kind meet at every point; `Rungs` 1 exhausts the ladder within them.
- *ReadAloud.* Two chunks with a lookahead of 1: one sounds, one is in flight.
  Three stirs: a seek, a refusal and a tap, say. The call on a moving route has a
  world of three replies (`LongCall`), which is what a superseded wait for the stream
  takes, with the route and the taps as its only stirs.
- *Dictation.* Two phrases: one on the leg, one only in the clip. Two recordings:
  the second starts while the first's upload, leg or stop is awaited. Two attempts:
  a retry, then the park.

`CHECK_DEADLOCK FALSE` stands in the `steer*`, `stream`, `call`, `readaloud`, `chat*`
and `dictation` configurations: an idle conversation whose owner has used up every
entry stops, and so do a finished turn's streams, a call that is over, a page at
rest. `ToolCalls` and `Automations` always have something to do, and their runs
check for deadlock.

### 3.2 Fairness

- `SteeredThread`: weak fairness of the handlers, tasks and callbacks of the
  thread, and of the second half of a Stop. asyncio runs every ready callback; a
  model call or a tool that never answers is excluded by the client timeouts and
  the per-call deadline (`ADAPTER_BOUNDED` tools carry their own). The owner, the
  clock, the gate and the operator are under no obligation.
- `EventStream`: the turn's task and the stream generators. A turn is finite.
- `ToolCalls`: the drive only (`Own`), and not the tools, models or owner.
- `Automations`: the ready coroutines, the timers (poll, deadline, grace), a
  *cancelled* turn ending, the lifespan's shutdown, and the supervisor that
  starts the process again. A turn that nobody cancelled need never end: the
  deadline cancels it. The clock may stop.
- `LiveCall`, `ReadAloud`: one weak fairness on `Progress`. Each of its steps
  consumes something (an ask, a timer, an answer, a held reply), so none recurs
  for ever without a stir, and one condition is as strong as one each. It says that
  timers fire, that the relay, the server and the permission prompt answer or
  fail, and that the owner falls silent: `CallMoves` and `ReadingRests` speak
  of what the page does about it, not of whether they do.
- `Dictation`: timers, queued events and the answer or the horizon of an upload.
  Neither the relay, the owner nor the prompt need answer.
- `ChatView` has none. `NothingHangs` is an invariant about rest: a
  state in which something still waits while nothing is under way.

## 4. What the checks found

Two statements of the repository are refuted by a run of their own.

1. **A Stop can lose a steer** (`steer_stop_loses`, `api/agent.py:874`). The
   drain-B body takes the head off the queue and hands it over as a seed; until
   the turn writes it, that is the only copy. A Stop in the window harvests an
   empty queue, cancels the task, and the steer is gone. The decision record says
   that Stop can neither auto-run nor lose a steer. Every other way to lose one is
   excluded by `LostOnlyAsSeed`.
2. **A send that never arrived is wiped** (`chat_unsent`, `store/chat.ts:3221`). The
   failed POST re-attaches because the send itself made the view stream; the server
   knows of no turn, the whole reload wipes the bubble, and the send reports
   "accepted".

The modules also state properties the code does not keep, marked "The code does
not keep this". No run lists them; each is refuted by adding it to a run's
configuration as named here.

| Statement | Where it fails | What happens |
|---|---|---|
| `SteeredThread!FilesFollowSteer` | `steer_live.cfg`, INVARIANT | a steer that seeds the next turn passes on its text only (`api/agent.py:951`); its files stay in staging, although `steering.py:57` says "dropping them here would silently lose the owner's photo" |
| `EventStream!NoStreamHangs` | `stream.cfg`, PROPERTY | a drain-B body that releases its own handle (`api/agent.py:911`) never pushes the sentinel; a client attached to it waits for ever, as `turns.py:468` says of a missing sentinel |
| `ToolCalls!PrefixIsolated` | `calls_prefix.cfg`, INVARIANT | a call the allowlist refuses is audited outside the `try` (`session.py:3171`): a failing audit write ends the whole batch, against the docstring's "NEVER raises except `CancelledError`" |
| `ToolCalls!HarvestKeepsWork` | `calls_prefix.cfg`, INVARIANT | the gather in the prefix's `finally` (`session.py:3264`) is cancelled by a Stop when the prefix unwinds on a failed write or audit; the loop that records the finished results (3265-3271) is skipped, although the comment says the work of every finished read survives (3258-3262) |
| `LiveCall!MicsReleased` | `call.cfg` with `MaxStirs` 4, `MaxSegs` 1, one setup, kinds route, foreign, exit, voice | a playback failure repaints a connecting call as listening (`useLiveCall.ts:1576`), so a route change is admitted while a microphone is being opened; two open, the hang-up releases one (2741: "Release EVERYTHING, on every exit path") |
| `ReadAloud!EveryWaitAwaited`, `ReadAloud!EveryReadingRests` | `readaloud.cfg`, INVARIANT and PROPERTY | a queue superseded while it waits for the stream's timer leaves `retagArmed` set (`audioController.ts:1197`); the next queue arms no timer (1411) and the old one's call bails (1414): it loads, and only the owner can move it |
| `ReadAloud!CacheNeverStale` | `readaloud.cfg`, INVARIANT | clearing the clips on leaving the conversation begins the epochs anew (`audioController.ts:1919`), so a synthesis of words since rewritten is cached when it lands, although a forgotten message's "will not cache" (1898) |
| `Dictation!CallAlone` | `dictation.cfg`, INVARIANT | an abandoned permission ask that is answered while a call waits reports the ear free (`useDictation.ts:2157`), and a composer that left withdraws its registration with its recorder still stopping (1348): the call opens its microphone beside another, against `micRelease.ts:10`, "never both open at once" |
| `ChatView!IdleIsQuiet` | `chat.cfg` with `Worlds <- Watched` | a page boots into a conversation another device talks in; two probes race, and the second's settle (`chat.ts:3716`) makes the view idle under the first's live stream |

Each was met while modelling, and the passing runs keep clear of it by what their
worlds contain, or by an exception the property names: in `call`,
`CallMoves` excepts half a capped segment whose waits expired and whose other half's
answer is lost (`HalfForsaken`), which is then held until the owner speaks or hangs
up, and a lost answer on a leg without the clock (`AnswerForsaken`), which only the
next answer or the owner settles; in `calls_prefix`, `ResultsStand` excepts the
results a cut-off harvest lets go (`dropped`); in `readaloud`, `NeverWedged` and
`ReadingRests` except a `bereft` queue and `RightWordsSound` an `astray` clip; in
`dictation`, `WordsLandOnce` excepts the phrases in `eaten`, `MicRests` an
`Orphan`, `OneEar` a call that was told `early` that the ear is free.

**Dictation.** Five places where the code does less than its comments say; the
first three are the exceptions just named.
- A release before the relay is ready pumps the leg's backlog (`useDictation.ts:1420`)
  into a socket that drops audio until ready (`liveSocket.ts:422`). If ready lands
  meanwhile, a later phrase's words discard the clip and the first words are lost
  (1805: "dictation never drops a frame").
- A cancel leaves the detector to be resumed, so a leg can be armed for a recording
  that has ended (1919, against 2368); a draft carried behind it waits until the relay
  closes.
- An abandoned permission ask that is answered while a call waits reports the ear free
  (2157) although a newer recording's stream is open; a remount before the recorder's
  stop withdraws the registration likewise (`Dictation!CallAlone` above). Both are what
  `call.early` records, at the moment the call is told or begins and for that call only.
- A press between the hook's `idle` and the effect that tells the gesture so
  (`useMicGesture.ts:764`) can arm a recorder without an owner. The gesture is not
  modelled.
- A dictation begun without a conversation, whose view was minted and left for a fresh
  thread-less one, lands in the fresh one's draft (`composer.ts:193`).

**Chat view**, read off the code and outside the worlds of the run: a steer typed
before a thread-less send is adopted posts without a conversation and makes a
second one (4022); a boot's install may land under such a send (1887); a Stop that
outruns its POST settles under the stream; a cut stream that a probe attached
is never re-attached (3660); two lost Stop answers lose the harvested words; a slow
reload after a reconnect lands older history.

**Read-aloud and call**, likewise: "at most lookahead wasted" does not hold after a seek;
a chat POST refused after a route cycle is fenced, and its words are dropped.

A weaker observation is part of two properties: a Stop sent *without* a turn id
can cancel a turn after the commit of Drain A's transaction and before the queue
is cleared. The persisted steers are then still queued, are persisted again by
the next turn, and newer ones may precede the repeat. `AppliedOnce` and
`FirstInFirstOut` except exactly that. The browser
sends the id once it has seen the turn start (`chat.ts:3838`).

## 5. Proofs

TLAPS checks these for every value of the constants.

- **One turn per thread** (`SteeredThreadProofs`: `RegistryInductive`,
  `RegistryTypeCorrect`, `MarkerIsExact`). `MarkerExact` is not inductive alone:
  reserving needs that the next handle was never used. `RegistryInv` adds the types
  of the registry and that handles are minted in order (those below `nextTurn`
  used, those from it on not). Lemmas say what each *kind* of move does (walk on, latch,
  reserve, release, end and chain) and every action is one of those kinds.
  Assumption: `BoundsAssumption` (the bounds are naturals, messages and commands are disjoint).
- **The promises to a steer** (`SteeredThreadProofs`: `SteerInductive`,
  `TypesAlways`, `EachSteerOnceAlways`, `FifoAlways`, `TakenBackStays`): with
  `MarkerIsExact` every safety property of the run `steer`, for any number of
  messages, commands, turns and Stops. `SteerInv` follows a steer through the
  queue and the hands. `HandInv`: what a turn holds at each of its points, and
  that the others hold nothing. `WhereInv`: what was taken back is neither queued nor
  a seed, and only accepted steers are drained. `LineInv`: the order of the 202s,
  in the queue, in what a drain peeked and between them; a latched turn of a scoped
  Stop finds nothing it peeked still queued, which is why only a Stop without a
  turn id can make a message land twice. `ReadyInv`: what has taken effect did so in
  order, and what is queued or about to be written may follow all of it, except while
  a shutdown closes the last turn. `BooksInv` with `LostOnlyAsSeed`: what leaves the
  queue is applied, noticed, given back or a seed. `IdleInv`: a completed turn leaves
  no queue, also under an endpoint that holds the marker inline. The actions of a
  turn are first reduced to thirteen moves (`StepMoves`) and the other steps to seven
  (`OtherSteps`); the lemmas on sequences say what `Only`, `Without`, `Leading` and
  `Beyond` return, in which order. Assumption: `BoundsAssumption`.
- **The event plane implements the turn log** (`EventStreamProofs`:
  `StreamInductive`, `StreamTypeCorrect`, `NeverAHole`, `StepReadsTheLog`,
  `StreamImplementsLog`). `NoHole` needs to know what is in flight: `StreamInv`
  adds that what a queue holds was emitted (`QueuedIsEmitted`), and where the
  prefix and the continuity guard of a stream stand against its client's cursor
  (`Positions`): a frame that is applied is at most one past it. Every step is then
  an `Emit`, a `Read`, a `Forget` or a stutter of `TurnLog`. Assumption:
  `StreamAssumption` (the two sizes and the bound on events are positive).
- **Consent** (`ToolCallsLedgerProofs`: `ConsentInvariant`, `ConsentedAlways`). From an
  effect back to its cause: an effect was begun, what was begun was approved, and
  what is approved, in hand or at the execute step was answered with execute or is
  covered by a rule. `ConsentInv` says it of each place where the drive carries
  that permission across an await. Assumption: `CallsAssumption`.
- **The calls keep the ledger** (`ToolCallsLedgerProofs`: `StateInvariant`,
  `NeverReplayable`, `StepKeepsLedger`, `LedgerKept`). A begun call must never be put
  to the owner again, and that is not inductive: it needs to know where every
  other call of the message stands. `StateInv` says it in four parts. `WriteInv`:
  memory and database differ only in the batch in hand, and in the flip only in the
  confirmed call. `OrderInv`: the tail serves its message in order, so a call that
  waits has only resolved calls before it and untouched ones after it. `PrefixInv`:
  the parallel prefix holds leading calls, none begun before its task started.
  `BegunInv`: until a begun call is resolved no call of its message waits, in memory
  or on disk, and it takes effect once, also when its work outlives the wait for
  it. From these each step is one of `CallLedger` or a stutter.
- **The record tells the truth** (`ToolCallsRecordProofs`: `RecordInvariant`,
  `TypesAlways`, `RecordIsTrueAlways`, `BatchesSettled`, `WorkSurvives`,
  `ResultsAlwaysStand`, `RejectionAlwaysStands`). `RecordInv` adds to `StateInv` where a closed call's
  result is (a row, or `result_parts` between two writes: `ResultsInv`), that a live
  token is of a call that waits in memory and on disk (`TokensInv`), what each way
  to end a step leaves of its batch, a harvest that a Stop cuts off included: what it
  lets go is in `dropped`, and nothing else is missing (`SettleInv`), that what is at the gate
  unconfirmed has not been rejected (`RejectInv`), the number of tools at work
  (`RestInv`), and the places of the rows (`PlaceInv`): the rows stand in an order
  that `MayPrecede` allows, and whatever may still be recorded may follow them all,
  so that one more row at the end keeps the order. Assumption: `CallsAssumption`.
- **One automation turn** (`AutomationsProofs`: `ArbiterInductive`, `OneRunAlways`).
  `OneRunAtATime` rests on the arbiter, which a task holds from its first step to
  its last (`BusyHoldsArbiter`), and with it passes from request to task. `ArbiterInv`
  adds that no turn precedes a run's drive (`NoneBeforeDrive`), that a turn outlives
  its task's wait only when the task was cancelled, while the process is leaving
  (`GivenUpWhenLeaving`), that nothing is busy beside a turn so left (`LastOfAll`),
  and that nobody is home while the process is down (`NobodyHome`). No assumption on
  the constants.
- **Closed once** (`AutomationsProofs`: `RowsInductive`, `ClosedOnceAlways`). That a
  terminal status is final and has one event needs, with `ArbiterInv`, that an open
  row has no event yet (`OneEvent`), that a task closes its row with a terminal status
  (`TaskEnds`), and that between the close and its audit nobody else closes it
  (`AuditIsFirst`): the rivals are a second task, which the arbiter keeps out, and
  the sweeps, which the phases do. No assumption on the constants.
- **A run keeps what its claim gave it** (`AutomationsRunProofs`: `RunInductive`,
  `RunKeptAlways`, `TypesAlways`). The five parts of `RunKept` break each other: an
  open row is owned because its task closes it or leaves it to a sweep that lists it,
  a thread stays because its marker is held, the marker is held because the task that
  holds it names the thread it was created for, and so on. `RunInv`, with
  `ArbiterInv` and `RowsInv`, is what they rest on together. `KindsInv` and `KnownInv`: the kinds, and that every
  row, thread and automation a task, a row or a definition names exists and is of
  the same automation. `OpInv`: an operation of the owner commits only what it read,
  since it holds the database from its checks to its commit. `PhaseInv`: which points
  a task cannot be at in which phase of a shutdown. `OpenInv`: who owns an open row, that no
  two tasks share one, that the sweep lists all that are left, and what a row may say
  while its turn lives. `SlotInv`: the rows of an automation lie at slots before its
  next one, also in what an update is about to write, so a claim's slot is new.
  `MarkerInv` and `Apart`: whoever is in a thread, or about to delete it, holds its
  marker, and no two of them are in one thread. `ThreadInv`: from its adoption on a
  run's thread exists, and before it nobody names it. `TypesAlways` adds the two
  bounds (`Limits`). Assumption: `AutomationsAssumption`.
- **One ear, one owner** (`DictationEarProofs`, `DictationProofs`: `EarInductive`,
  `OneEarAlways`). `OneEar` counts open microphones, uploads and wanted legs; what
  keeps the counts is the list of owners, which at most one recording or one upload
  may be on. `EarInv` says who may be active at all. `RecsKnown`, `LegsKnown`: an open
  microphone is of an active recording, a leg is of a composer that was mounted, and
  one that is being released names a recording that is over. `OwnersOf`: the list is exactly
  the active recordings, the asks and the uploads, it has one entry at most, and
  none while a leg closes. `HooksOf`: each composer knows its own recording and
  ask. `StreamsOf`: a composer that is gone has a stream only while its last recording
  stops, nobody else has one beside it, and none is left while another closes; this
  is why a second leg cannot be wanted. `CallOf`: what a call waits
  for, and that one which was not told `early` has neither a microphone nor a closing
  leg beside it, whichever composer is mounted. The steps are built of helpers that several handlers share, so `DictationEarProofs`
  has a lemma for what each helper keeps and `DictationProofs` composes them.
  Assumption: `BoundsAssumption`.

Only model-checked: everything else in the table of runs, that is the liveness
properties, the types and words of `Dictation`, and `ChatView`, `LiveCall` and
`ReadAloud`, whose states are records of many fields that TLC handles better than
the provers; the safety properties of `SteeredThread`, `EventStream`, `ToolCalls`
and `Automations` are all proved. Liveness and `ENABLED` are out of the prover's
reach, and so is induction over data; the modules with theorems declare no RECURSIVE
operator (`Only` of `SteeredThread` is given by places and not as a fold for that
reason: the places of a finite set of positions are what `Ranked` counts).

## 6. Plan

Done, in this order because each is what the next leans on: the marker and the
queue (`SteeredThread`), what clients see of a turn (`EventStream`), what a turn
does to the world (`ToolCalls`), who else takes the marker (`Automations`); then
the page: what it shows (`ChatView`), the call (`CallMachine`, `LiveCall`), the
speaker (`ReadAloud`), the microphone (`Dictation`).

Next, by importance:

1. **Proofs.** The browser: `WordsStayHome` and `WordsLandOnce` of `Dictation`,
   `OwnerIsObeyed` of `ReadAloud`, then the types of `LiveCall` and `ChatView`.
2. **`TurnCap`**: `max_active_turns` over several threads, with drain B and
   automations entering by other doors (the uncovered hazard at
   `api/agent.py:735`).
3. **`Failover`**: attempts, hops, endpoint gates with their generations, the
   connect cooldown, against an abstract budget: no attempt after an answer, none
   past the budget, a gate is entered by one generation.
4. **`Attachments`**: stage, claim, release, sweep, delete against a directory
   ladder: a claimed file is never swept, a failed claim leaves all or nothing.
5. **`Compaction`** with alternates, regenerate and edit: the boundary never
   splits a call from its result, `stash_tail` and `revoke_pending` against a
   parked call.
6. **`Permissions`**: `decide` and `approval_match` as pure operators against a
   reference definition over bounded rules.
7. **`Monitor`** and wake debounce, the event bus, subagent fan-out, the relay's
   slot table and its detector.
