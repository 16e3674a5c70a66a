# FitalyAgents in TLA+

TLA+ modules for the parts of FitalyAgents whose correctness depends on the order
in which things happen: who approves a restricted action, how many calls of a tool
run, whose turn it is at the microphone, what becomes of an order, what is heard
after the customer interrupts. Each module is translated from the TypeScript in
`packages/` and `apps/store-runtime`; TLC checks it on small instances and TLAPS
proves most of its invariants for every instance. `PROJECT.json` maps every
definition to the lines it models.

FitalyAgents is a voice-agent runtime for stores. Agents live on an event bus and
react to its events; approvals, tools, drafts, sessions and audio are services
around them. A store runs in one JavaScript process, so there is no parallelism:
what interleaves are asynchronous activations, at every `await`.

## Inventory

| component | state | operations | what is hard | what makes it correct |
|---|---|---|---|---|
| `core/safety/approval-orchestrator` | requests that wait for an approver; per activation a run: approvers, channels asked, answers | `orchestrate` (parallel, sequential, quorum), drain of the queue, `dispose` | drains and calls interleave at awaits; answers, timeouts and cancellations race; publications may fail | one decision per request, approvers on one request at a time and released, nobody queued for ever |
| `core/presence` | status per human | presence events, `markBusy`, `markFree`, `getAvailable` | events overwrite what the orchestrator marked | a busy human is held by somebody who will free him |
| `core/safety/channels` | active waits: timer, subscription, promise | `notify`, `waitForResponse`, `cancel` | a wait outlives its run, or is overwritten | every registered wait belongs to a run that still waits |
| `asynctools/executor` | per tool: breaker, timestamps, slot counters, queue | `execute`, retry loop, `drainQueue` | late results reach a breaker that has changed; refused probes; counters across awaits | limits hold, the breaker opens and recovers, every admitted call returns |
| `core/session/target-group`, `core/agent/target-group-bridge` | state per speaker, queue, primary; session per speaker | speaker events, responses, sessions made for speakers | orders of events nobody wrote; lookups used after an await | one speaker served, the turn passes on, sessions not shared |
| `core/session/in-memory-session-manager` | session records | create, pause, resume, terminate, priority | ids proposed by others | ids are unique |
| `core/safety/draft-store`, its persistent subclass | drafts, session index, TTL timers; the drafts table | create, update, confirm, cancel, rollback, expiry, restart | expiry races confirm; rows written after awaits; several drafts per session | a draft is confirmed once and only while open; index, table and bus agree |
| `core/audio`, the runtime's TTS stream and STT bridge | segments, state, processing flag; controllers; sessions that barged in | push, interrupt, continue, clear, playback loop, barge-in | whoever finds the player idle starts it, after an await; interrupt and continue while playing | one voice, no sentence forgotten, silence after a barge-in |
| `store-runtime/agents/interaction-runtime-agent`, `core/agent/interaction-agent`, the session-bound model | pending confirmations, current draft, speculation, controllers, paused sessions | final and probable utterances, draft flow, tool calls, barge-in | turns overlap at every await and share all of it | an order is executed once; a duplicate is skipped only when it is answered |
| `core/agent/staff-agent` | activated sessions, auto-resume timers | keyword, commands, resume, timeout | pauses and resumes of several origins cross on the bus | a pause has an owner and ends |
| `asynctools/wrapper`, `tracking`, `injection` | turns with tool calls, TTL timers, watchers | `run`, track, poll, inject | TTL, global timeout and answers race; runs share the injection manager | `run` ends and leaves nothing behind |
| `store-runtime/external/livekit-voice-bridge` | the room it has joined, audio track, idle timer, start under way; participants | token, join, idle close, HTTP close, loss of the connection; participants and transcripts | each awaits and reads the room anew; sweeps, departures and transcripts overlap | an empty room is left, speakers are announced and lost in turn |
| `store-runtime/external/web-voice-bridge`, `retail/ui/customer-display-state`, `retail/adapters` | sockets per speaker; the display's view; orders and payments in SQLite | socket events; order, draft and UI events; order calls | errors and closes of one socket; late events; amounts read before an await | a speaker is lost with his last socket; the display shows the order; a payment is of the order it was made for |
| `core/approval` | records and timers | approve, reject, timeout | a second request for the same draft | one outcome per request |
| `dispatcher` | speculative cache, pending fallbacks | partial and final utterances | a result computed for an older utterance | what is served is not stale |
| bus, context store, tracing, classifier, memory, other agents, apps, voice service | maps, text, numbers, I/O | | little control | |

Interactions:

- an utterance reaches `InteractionRuntimeAgent`, which confirms, changes or cancels
  a draft of `DraftStore`, executes a confirmed call, or leaves the utterance to the
  model; the model's restricted calls go to the approval orchestrator, through
  `bus:ORDER_PENDING_APPROVAL` or directly;
- the orchestrator calls the presence manager and the channels, which publish requests
  and subscribe to answers;
- what a turn says is cut into sentences, queued and played; a customer who talks
  while the session is busy sends `BARGE_IN`, which silences the player and aborts
  the model's stream;
- `StaffAgent` pauses and resumes `InteractionAgent` through the bus;
- the bridge drives the turn-taking machine and calls the session manager;
- the LiveKit bridge turns visitors of a room into `SPEAKER_DETECTED` and
  `SPEAKER_LOST`, which drive the turn-taking, and forwards what is said both ways;
- `AsyncAgent` starts tools, tracks them and injects their results.

`PROJECT.json` lists the hazards of this code line by line, with the properties
that are about each, or why none is.

## Modules

| module | models | checked by |
|---|---|---|
| `ApprovalLifecycle` | what the orchestrator promises callers and the bus: the abstract specification | `ApprovalOrchestrator` refines it |
| `ApprovalOrchestrator` | the orchestrator composed with presence and the channels' waits | `ApprovalOrchestratorMC`; `ApprovalOrchestratorProofs` |
| `ExecutorPool` | pool, circuit breaker and rate limiter of one tool | `ExecutorPoolMC`; `ExecutorPoolProofs` |
| `TargetGroup` | turn-taking machine, bridge and session manager | `TargetGroupMC`; `TurnTakingProofs` |
| `DraftLifecycle` | what a draft store promises: the abstract specification | `DraftStore` refines it |
| `DraftStore` | the draft store, its persistent subclass, the table and the bus | `DraftStoreMC`; `DraftStoreProofs` |
| `Conversation` | the turns of one customer, over the drafts of `DraftLifecycle` | `ConversationMC`; `ConversationProofs` |
| `SpeechOutput` | sentences, audio queue, playback and barge-in of one session | `SpeechOutputMC`; `SpeechOutputProofs` |
| `StaffOverride` | takeover of one session by the staff | itself; `StaffOverrideProofs` |
| `AsyncTurn` | `AsyncAgent` with tracker and injection manager | `AsyncTurnMC`; `AsyncTurnProofs` |
| `RoomParticipants` | the participants the voice bridge's manager knows, and what the bus hears of them | `LiveKitRoom` extends it |
| `LiveKitRoom` | the voice bridge's room, its starts, closes and idle timer | itself; `TurnTakingProofs` |

How they compose. `Conversation` instantiates `DraftLifecycle`: it sees of the draft
store what `DraftStore` is shown to implement, so an order of events of the
detailed store is one that `Conversation` was checked with. Its `PauseOrResume` is
what `StaffOverride` delivers, in any order; its `BargeIn` is the event that
`SpeechOutput` sends, and the turns of `Conversation` are the `Speakers` of
`SpeechOutput`. Its `CallRestricted` and `ApprovalEnds` are a call to the approval
orchestrator and its return.

Some definitions exist only to be compared with the real one: they are marked
`Mutant:` and are what a plausible bug would make of it. Each property is known to
fail when its mutant stands in for the definition it imitates.

### How asynchronous code is modelled

An action is the code between two awaits. The event loop runs every ready promise
callback before the next timer, message or I/O event. `ApprovalOrchestrator` keeps
that order: actions that stand for a task (a timer, a message, a call, the end of
I/O) need `Settled`, that no activation has a callback ready; among the callbacks
that are ready any order is allowed. In `ExecutorPool` only the clock waits for them,
and in `AsyncTurn` only the clock waits for what is due. In `DraftStore` an update
awaits nothing that takes time, so timers and messages find it complete (`Written`).
Elsewhere events may come between any two stretches, which is what happens where
publications are awaited or go through Redis, and where the bus calls its
subscribers synchronously and several events are published in one tick.

### ApprovalOrchestrator

A process is one activation: the call `orchestrate(r)`, named by its request, or
one drain of the queue, named by a member of `Drains`. `pc[p]` says where it
awaits:

- `new` to `notify`/`ring`: approvers are resolved and marked busy (`Dispatch`),
  or the request is refused (`Refuse`) or queued (`Enqueue`, `Announced`);
- `wait`: the channels' promises. `waits` is their table of active waits, `armed`
  the timers, `open[p]` the promises `p` still awaits and `inbox[p]` those that
  have resolved and whose `.then` has not run. `Respond`, `Speak` and
  `TimerFires` resolve them, `HandleParallel`, `HandleSequential` and
  `HandleQuorum` run the callbacks; `Settle` is the `settle` of the code;
- `resolve`, `approve`, `expire`: the publications of the outcome, in `log`;
- `release`, `free`: the `finally` blocks; then `Return` or `DrainNext`.

A drain keeps the copy of the queue it walks in `todo`. A wait's key carries the
request, the channel and, for a quorum, the approver asked. Roles, stores and
limits are the constant `Eligible`; the words of an answer are a yes or a no.

`ApprovalLifecycle` keeps of all this what a caller and a subscriber can tell: how far
each caller is, the runs under way and how much each has announced, the log and the
answers. `CallerOf` and `AttemptOf` map the places of the detailed model to it. A run
announces `resolved_no`, a timeout, or `resolved_yes` and then the order; a caller
gets that outcome only when all of it is out, or its exception, or null from
`dispose()`; a drain runs only what was announced as queued. It does not promise
that a queued request is run once: `ApprovalTwice` shows that it is not.

### ExecutorPool

One tool, because tools share no state. A call goes from `new` through the breaker
and the limiter to `attempt` or `queued`; `won` and `lost` are the promise
callbacks between the retry loop's end and the release of the slot. `at` keeps when
the limiter let a call through (the limiter itself keeps only what is in
`stamped`). The schema's minimum for `reset_timeout_ms` equals the limiter's window
of 1000 ms; the assumption `PoolAssumption` says so, and `ProbeAcquires` rests on it.

### TargetGroup

The machine is a record `fsm` and its private methods are operators on it, with the
bridge's handlers as activations: `Detected` up to `ensureSession`'s first await,
then `Verify`, `Create`, `Created`, `Ensured` and `Publish`. A speaker without an
entry is `absent`. The ids of sessions are those proposed from outside, `Ids`, or
made up from the speaker and the clock. Other components pause, resume and
terminate sessions (`SetStatus`) and other origins may own some from the start.

### DraftStore and DraftLifecycle

`drafts`, `status`, `session`, `undo`, `index` and `timers` are the in-memory store;
`row` is the drafts table of the persistent subclass, and `doing[c]` what a call in
flight awaits. The synchronous half of an operation is one action (`Create`,
`Confirm`, ...), what follows its await another (`CreateEnd`, ...): between them the
draft may be decided, expire or be replaced as the session's current one. With
`Remote` the bus is Redis: `DRAFT_CANCELLED` travels in `wire` before the subclass's
subscription hears it, and may be missed. `Restart` forgets the memory and keeps the
table; no code reads pending rows back. An item's contents are abstracted to how many
changes can be undone.

`DraftLifecycle` has a stage per draft and what the bus told. `StageOf` is the
refinement mapping: it reads the `Map` and the status together, and maps a draft that
a restart forgot to `lost`.

### Conversation

A turn is a final utterance or a speculation. `pc` says where it awaits: the session
and its memory (`heard`), the draft it has read (`read`, kept in `draft[p]` and acted
upon later), the model (`context`, `streaming`), an approver (`approval`). The words
are chosen where the code looks at them: which shortcut fires, whether the answer is
a yes. Confirmations (`pending`), the current draft (`index`), the speculation and
the abort controllers of `runWithSession` and `getAbortSignal` are shared by all
turns. `ran` counts executions. `SafetyGuard.evaluate` is the choice between
`CallStaged`, `CallProtected` and `CallRestricted`; a safe call changes nothing here.

### SpeechOutput

`queue`, `state`, `processing` are the fields of the audio queue; `loop[l]` is an
invocation of `processQueue` and `call[v]` a `speakText` of a turn, which may find the
session interrupted and continue it first (`resuming`) before it pushes (`queueing`).
`Wake` is the test that both `push` and the continuation make after their await.
`Advance` is the head of the `while` loop. `Partial` and `Final` are what the STT
bridge does when the customer talks; `BargeIn` is the delivery of the event to its
two subscribers, the queue first.

Every publication after which the code goes on may throw: `ResumedThrows` and
`QueuedThrows` are those of `continue` and `push`, `LoopThrows` those of the loop. What
follows the await is then not done, and `undone` remembers it: `start`, an idle player
that was not started; `state`, a session that is idle while its loop goes on; `loop`, a
loop that died with `processing` set. The rejections of `AUDIO_INTERRUPTED` and
`AUDIO_CLEARED` change nothing here. Where nobody catches a rejection the store
runtime shuts down (`apps/store-runtime/src/main.ts:9`); the model goes on, as another
host of the package may.

### StaffOverride

`activated` and `timer` belong to `StaffAgent`, `paused` to `InteractionAgent`, and
`wire` is what was published and not delivered, in order. A handler that awaits is a
`duty`: the handoff, a command, a resume. `ELSEWHERE` is a `SESSION_RESUMED` of any
other origin.

The agent's publications may throw. An `INTERACTION_PAUSE` that throws leaves the
session activated and skips `startAutoResumeTimer`: with Redis it was not delivered
(`KeywordLost`), with the in-memory bus a subscriber may throw when others have heard it
(`PauseThrows`). An `INTERACTION_RESUME` may be lost in the same way, in the agent's
own resume (`Deactivate`) and in its answer to another's (`Deliver`). `undone`
remembers which timer or resume is missing. A handoff that throws changes nothing:
`publishSessionHandoff` catches it (`packages/core/src/agent/staff-agent.ts:363`), and the
timer starts.

### AsyncTurn

A run is one `run()`; `status`, `age` and `tracked` are its turn in the tracker,
`watchers` the polls of the injection manager, which runs share: the `finally` of one
run disposes the watchers of all. `flying` are the calls under way with the turn they
were made in, so that a late result may find its turn deleted or replaced: the report
then throws, in a promise nobody awaits, and the result is lost. The clock counts per
run. `latency` is how long the tools may take, chosen in `Init` from what the
configuration allows the strategy.

`run()` also ends early. A synchronous tool that throws, or whose result is nothing
JSON can express, ends it before any call of the turn is tracked (`SyncThrows`). A
result that `formatForReinjection` cannot express ends it before `deleteTurn`
(`PollThrows`): the turn stays with the tracker until its timer deletes it, and the run's
place is `unformatted`.

### LiveKitRoom

`room`, `track` (source and track together) and `timer` are the fields of the
transport, `start` is how far `connectRoom` is, `known` the manager's participants.
`close[t]` is a `closeRoom` of the HTTP route or of the timer, or the sweep that
follows a `Disconnected`; each goes from `sweep` over `track` and `leave` to `delete`,
and what it does after an await it does to the `room` of that moment. `conn` is what
LiveKit knows of each `Room` object, and `inside` who is in the room: both belong to
LiveKit, and are external. Two tokens cannot start the room twice, because the manager
shares its `startPromise`.

`RoomParticipants` has the manager's side of it: `known` its participants, `said` the
event the bus heard last of each, and `twice` those of whom it heard the same event
twice running, with `ensureParticipants` and `disconnectParticipant`, which the steps of
`LiveKitRoom` call. A participant is registered or removed before his event is
published. When the publication throws (`mute`) the bus may have heard it or not, and
`said` is `unsure`. Publications throw where somebody catches them and the bridge goes
on: in a start, in the sweep of an HTTP close and in the debug route for transcripts.
Elsewhere the rejection ends the bridge, a process of its own without a handler for
it, and there is nothing left to model.

## Runs

| run | instance | shows |
|---|---|---|
| `ApprovalSingle` | a parallel and a sequential request, two channels, one approver, two drains, three presence events, one failed publication | no wait without its run; approvers exclusive; answers published first; one decision for a request that was not queued; no queued request dropped; a dispatched call returns; the orchestrator refines `ApprovalLifecycle` |
| `ApprovalQuorum` | a quorum of two, a third human without the role, a request with an invalid quorum, presence events that name busy humans, one failed publication, dispose | quorum approvals are backed by distinct approvers that were asked; nobody stays busy |
| `ApprovalTwice` (fails) | two presence events | a request is approved twice |
| `Pool` | three calls, two slots, two attempts, threshold 2, two calls per two ticks, one exception of a callback | slots, rate limit, breaker, return of calls, recovery of the breaker |
| `Target` | three speakers, two handlers, four events, one proposed id, two values of the clock | queue and primary sound, sessions not shared, the turn passes on |
| `TargetTwo` (fails) | one handler | two speakers served at once |
| `Draft` | two drafts, two sessions, two calls in flight, remote bus, one change per draft, one fault | the index finds open drafts, the table agrees, drafts close, the store refines `DraftLifecycle` |
| `Speech` | two turns, three segments of two priorities, two loops, two barge-ins, one publication that throws, anywhere | one loop, no lost wake-up, busy while audible, silence after a barge-in, the queue drains |
| `Conversation` | two final utterances, a probable one, two drafts, a barge-in, a takeover | executions happen once and after a confirmation; duplicates are being answered |
| `Staff` | two handlers, five events, two publications that throw | takeovers are timed, pauses have an owner and end |
| `Async` | two runs of two turns, two calls, the three strategies, tools that answer before their turn expires and, for `inject_when_all`, after | no result left behind, nothing leaked, a run returns |
| `LiveKit` | two connections, one participant, an HTTP close, an idle close and a sweep at a time | speakers announced and lost in turn; an empty room is not held for ever |

The runs marked *fails* check what a document or comment of the repository says and
the code does not do; `findings` in `PROJECT.json` quotes each. A drain's snapshot
is not checked against the queue, so a second drain runs a request the first has
run; and the turn-taking machine promotes on the loss of any speaker. Three more
behaviours are in the models and no run states them, because no document denies
them plainly: a queued request can wait next to an available approver, since a
release starts no drain; the half-open breaker is decided by whichever result comes
first, a late one included; an overheard speaker who is queued does not enter the
queue.

### What the properties leave out

A property that the code violates in a corner says so in its own formula:

- `RowsAgree` has two exceptions: a draft confirmed while `DRAFT_CREATED` was going
  out may keep a pending row, and one cancelled while `DRAFT_CONFIRMED` was going out
  a confirmed one. It says nothing after a fault;
- `BusyWhileAudible` does not cover the time in which a resumption is going out, nor,
  when its `AUDIO_RESUMED` threw, the time until the loop takes its next segment or
  ends: the state says idle, and the customer's words are no barge-in;
- `CutStaysSilent` does not cover a segment whose announcement is still going out
  when the customer barges in: it has no controller yet, and is heard in full;
- `NoLostWakeUp` and `QueueDrains` excuse what a publication that threw has left
  undone, and nothing else: after `AUDIO_SEGMENT_QUEUED` or `AUDIO_RESUMED` threw a
  segment may wait in an idle player until the next push or continuation starts it
  (`start`), and after one of the loop's threw `processing` stays set (`loop`).
  `QueueDrains` excuses a session that stays interrupted too;
- `NoneLeftBehind` needs tools faster than the turn's time to live. `RunReturns` needs
  `TurnsOutlive`, that what resolves a turn comes before the tracker deletes it: the
  timeout under `inject_on_timeout`, the slowest tool under the other two. Where it does
  not, `run()` waits for ever. The defaults of the two times are equal, so under
  `inject_on_timeout` the turn may expire just before the poll that would resolve it;
  and under `inject_when_all` a tool slower than `ttlMs`, or one that ends within a poll
  of it, has the turn deleted under its watcher. `globalTimeoutMs` does not help,
  although it is called "Maximum time for the entire agent run"
  (`packages/asynctools/src/wrapper/async-agent.ts:25`): it is looked at only when the
  loop begins a round. The run `Async` holds those tools, as what the premise
  excludes. `RunReturns` excuses a run whose watcher another run disposed, and
  `inject_when_ready` when no call completes;
- `NothingLeft` excepts a turn whose results could not be put into JSON, which the
  tracker's timer deletes;
- `TakeoverTimed` excepts the takeover whose `INTERACTION_PAUSE` threw: it has no timer
  until the staff speaks again, and `PauseEnds` excuses it. If it was paused all the same
  and the staff stays silent, the customer is ignored for ever;
- `PauseMatched` and `PauseEnds` excuse a pause whose `INTERACTION_RESUME` was lost, until
  something resumes the session. `PauseMatched` says that a pause has an owner, and not
  that a takeover has its pause: an interleaved resume may let the customer talk to both;
- `ExecutedOnce` bounds executions from above: an order confirmed whose publication
  fails is not executed at all;
- `EmptyRoomCloses` is about the room the bridge holds. A close or a `Disconnected`
  that began with an older room sets `this.room` to null all the same, and a room
  joined meanwhile is then an orphan that no timer closes; a close during a start may
  leave a track of the old room, and the next room is then joined without one. It
  excuses a start that fails after the connect: it arms no timer, and the room waits
  for the next token or departure;
- `SpeakersAlternate` says nothing of two events with a publication that threw between
  them: a participant whose `SPEAKER_DETECTED` threw is registered all the same, and the
  bus may hear that he is lost without having heard that he came; one whose
  `SPEAKER_LOST` threw is removed all the same, and may be detected twice. It does not say
  either that a participant who is gone is forgotten: a transcript that arrives after
  he left registers him again, for good.

### Bounds

- Two requests with two drains let a drain skip one request, run another, and meet a
  drain that began later; two channels are the least for a race and for a ladder. In
  `ApprovalSingle` both requests and both drains want the one approver there is; the
  choice among several is in `ApprovalQuorum`, with two who may answer and a third
  for an outsider. Three presence events (`MaxPresence`) take the approver away, bring
  him back and start overlapping drains. One failed publication (`MaxFaults`) reaches each of the places where one
  may fail, one at a time.
- Three calls over two slots give a queue next to a full pool. With threshold 2, two
  attempts and `MaxTime` 3 the breaker opens, probes, closes and re-opens, and the
  rate window slides.
- Four events (`MaxEvents`) are enough for three speakers to arrive and one to
  leave, and for two detections of one speaker around a change of his session.
- Two drafts may belong to one session, so that an older one closes under a newer
  one's index entry, or to two; two calls in flight are an operation inside the await
  of another. `MaxUpdates` 1 reaches an undo and a renewed timer. `Draft` runs with
  the remote bus, where the subscriber is a step of its own; the proofs cover both.
- Three segments of two priorities let one play, one wait and one overtake; two turns
  start the player from two sides, and two barge-ins (`MaxBargeIns`) let the second
  meet a resumption. Two loops would show a second voice. One publication that throws
  (`MaxFaults`) falls on every place where one may; the proofs bound neither number.
- Two final utterances over two drafts let both read one draft, and one meet the draft
  that follows it; with a probable utterance a speculation overlaps both. One barge-in
  and one takeover may fall anywhere in it.
- Five staff events (`MaxStaff`) are two takeovers with the resumes that cross them and
  a third that begins; two publications that throw (`MaxFaults`) can lose the timer of
  one and the resume of another.
- Two runs share the injection manager, two turns make a result late, two calls make
  a turn partly finished. The timeout is one tick and a turn lives two (`Ttl`), so the
  timeout can end a turn before the tracker deletes it; the defaults of the two are equal
  (60 s): see `RunReturns` above. Tools take one tick or three under `inject_when_all`,
  the second being slower than the turn lives, one under `inject_when_ready`, and three
  under `inject_on_timeout`, where they are what is late.
- Two connections let a close, a loss or a deletion of the first meet the start of
  the second. The participant comes, goes and speaks without a bound; the properties
  are about one participant or about whether there is any, so one is enough.
- Symmetry is used for drains, humans, handlers, utterances and drafts: no action
  and no property of those runs tells them apart, and no run with symmetry checks liveness.
- Deadlock is not checked: activations end and nothing need happen afterwards.

### Fairness

Weak everywhere, per activation: one that is ready stays ready until it runs.

- Orchestrator: activations that are ready go on and armed timers fire, as the event
  loop guarantees. Calls, humans, presence events and failures owe nothing.
- Pool: an attempt ends, a back-off ends, a finished call gives its slot back. The
  first is what `timeout_ms` gives for HTTP requests and subprocesses, whose executors
  obey the abort signal; `FunctionExecutor` ignores it, so for a TypeScript function
  it is an assumption about that function. The clock and new calls owe nothing.
- Draft store: timers fire, awaits return, and what Redis does not lose it delivers.
- Speech: publications return or throw and the TTS provider ends its streams. Neither
  the customer nor the turns owe anything.
- Staff: handlers end, by returning or by throwing, the timer fires, the bus delivers
  what was published. The staff may stay silent for ever, which is the case `PauseEnds`
  is about.
- Async: polls and timers run, tools end, time passes. The inner agent owes nothing: it
  has no timeout of its own.
- LiveKit room: LiveKit answers or refuses each call of a start or a close, the timer
  fires, and closes go on. A lost connection may never be reported. The timer counts no time: a browser that
  asks for tokens faster than `room_idle_timeout_ms`, again and again, does keep an empty
  room open, and the fairness of the timer excludes it.

## Theorems

Each module's proofs begin with type correctness; what follows says what the other
invariants need beyond it. No run checks types any more: they are theorems.

`ApprovalOrchestratorProofs` proves `TypeCorrect`, `Spec => []TypeOK`, through
`TypeInv`: `TypeOK` alone is not inductive, because a drain takes the head of `todo`
and a sequential run indexes its chain with `rung`. `TypeInv` adds that an
activation that works on a request has one and that the rung lies in the chain
(`TypeInvariant`).

The same module goes on, for any number of requests, humans, channels, drains and
failures:

- `NobodyLeftBusy`, `Spec => []BusyIsHeld`: every action that marks a human busy puts
  him in a team, and only `Release` takes him out, making him available in the same
  step;
- `OneRequestPerApprover`, `Spec => []ApproverExclusive`. Disjoint teams are not
  inductive: what keeps the next team away from a human is that he is not available
  while he is in one. The invariant adds that all members of teams are busy.
- `WaitsAreOwned`: `WaitsInv` adds to `WaitsOwned` that a run has asked whatever it
  waits for (`OpenAsked`), since `Settle` cancels what was asked, and that a sequential
  run waits for one channel or has its answer (`Ladder`), since it cancels nothing when
  it goes on. A run that is not waiting owns no entry of `activeWaits`, which is what
  lets another run overwrite a key. The steps that touch no channel are `Quiet`;
- `QuorumsAreBacked`: `VotesOf` says that a run has votes only once it has asked, that
  they come from its team, and that every key it waits for and every message in its
  inbox targets a member of that team. A channel that another run cancels reports to
  the owner of the wait, so the proof needs `WaitsInv` to know that the report is
  about a key the owner was waiting for (`CancelledOpen`);
- `AnswersWerePublished`: `OutcomeOf` relates the place of a run and its verdict to what
  is in the log (`OutcomesHold`); the log only grows;
- `NobodyIsLost`, `Spec => []QueuedNotLost`: `Ended` says that a drain that is past its
  publication has answered its request. A drain takes an entry off the queue in the
  step that starts its run, and `Without` removes no other entry (`WithoutKeeps`);
- `DirectIsOnce`: `QueuedFirst` says that what is in the queue or in a drain's snapshot
  was announced as queued, so that no drain works on a direct request; `DirectOf` gives
  the log of such a request place by place;
- `ApprovalImplementsLifecycle`, `Spec => Lifecycle!Spec`, from four of these invariants
  (`LifecycleInv`). A drain that starts a run needs `QueuedFirst` to match `Serve`; a
  publication needs `OutcomeOf`, which gives the verdict that belongs to its place; the
  end of a run needs `Ended`, that something was settled. The routing, the channels,
  the timers and the handling of answers map to stuttering (`RunQuiet`, `RestQuiet`).

`ExecutorPoolProofs`, for any number of calls, slots, attempts and ticks:

- `SlotsInv` adds to `TypeOK` and `SlotsAccounted` that a call in the queue is there
  once and waits: otherwise the call that `Finish` starts might hold a slot already,
  and the count of slots would drift. It gives `SlotsAreAccounted`;
- `BreakerInv` adds to `FailuresTrip` that a half-open breaker has a probe out and that
  an open one has let nobody through since it opened. The first gives
  `ProbesAreSingle`. The second, with `ResetTimeout >= Window`, gives `ProbesAcquire`:
  when the probe comes, every timestamp is older than the window. `OpenUntilItsProbe`
  needs no more than the types. `BreakerMoves` reduces the steps to what they do
  to the breaker;
- `RateInv` adds to `RateBounded` that the limiter has forgotten no call of its current
  window, so that any window that holds the present moment is a part of what it
  counted. It gives `RateIsBounded`.

`DraftStoreProofs`, for any number of drafts, sessions and calls, with both buses:

- `IndexIsOpen`: `StoreInv` says that a draft in the `Map` has a session and is open or
  confirmed, so that closing or confirming one clears the entry of its own session,
  and with it no entry of another. `IndexIsKept` follows from `StoreInv` step by step;
- `StoreImplementsLifecycle`, `Spec => Lifecycle!Spec`: each step of the store maps to
  one of `DraftLifecycle` or leaves the stages and the story alone. It
  needs `StoreInv` too: a draft that `cancel()` finds in the `Map` is in a stage that
  `DraftLifecycle` may close;
- `RowsDoAgree`, `Spec => []RowsAgree`. The property speaks of drafts about which
  nothing is under way, and that is not inductive: `RowsInv` says, for each stage of a
  draft, what its row can be and which call or message is still going to write it
  (`OpenRow`, `ConfirmedRow`, `ClosedRow`). Whoever writes last decides, so the proof
  needs that no update is unwritten when a draft is confirmed or closed by itself, that
  a creation which outlives the confirmation is one of the `early` ones, and that a
  confirmation which outlives a cancellation is of a draft that was told three times.
  `RowFrame` disposes of the drafts a step does not touch.

`TurnTakingProofs`, for any number of speakers, handlers, ids and people:

- `QueueIsSound`, `Spec => []QueueSound`: `Sound` states it of a machine and is shown of
  each of the machine's methods. `LeaveGap` says what taking a speaker out of the queue
  leaves behind: the same places in the same order, closed up. Without `Once`, that
  nobody waits twice, a speaker who is promoted would still be in the queue;
- `TurnIsPassedOn`, the action property `TurnPassesOn`, from the same `Sound`;
- `SessionsAreApart`, `Spec => []SessionsApart`. A handler looks a proposed id up, awaits
  the creation of the session and binds the id afterwards, so what it found may be out
  of date. `OwnInv` adds that where a handler is about to bind an id, the session exists
  and belongs to its speaker (`JobOf`), and the steps keep owners (`OwnersStay`): a
  session that exists is never replaced, only paused, resumed or terminated;
- `SpeakersDoAlternate`, `Room!Spec => []SpeakersAlternate`, with `LiveKitRoom` under the
  name `Room`: `Counted` says that the bus heard last that a participant was detected
  only while the manager knows him, and that he was lost only while it does not, so
  that what is published next is news, or follows an event that threw. `RoomTypes` says
  that what a start or a sweep remembers across its awaits are participants and
  connections.

`ConversationProofs`, for any number of turns, drafts, barge-ins and takeovers:

- `ExecutedAtMostOnce`: `AskInv` says that a pending confirmation is of a turn that has
  called its tool or is paying, and that it has not been executed; `OrderInv` that an
  order was executed only for a confirmed draft, and that a turn on its way to execute
  one is the only one and the draft is not executed yet. Neither is needed to state
  the property and both are needed to keep it: a yes finds `pending` empty because
  the first taker emptied it before it awaited anything;
- `SkippedAreAnswered`: `SpeculationInv` strengthens the property by the signal of a
  turn that waits for an approver, and `FreshInv` says that a turn whose stream has
  not begun has no controller under its name yet, so that the one `getAbortSignal`
  makes is not among the aborted.

`SpeechOutputProofs`, for any number of turns, segments, loops and barge-ins:

- `PlayerInv` adds to the three properties that a loop that runs has set `processing`:
  what the guards of the places that start the player rely on. It gives
  `OneVoice`, `WakeUpsAreKept` and `AudibleIsBusy`, for any number of publications that
  throw, of `push`, of `continue` and of the loop;
- `SilentInv` adds that a segment is in one place, waiting or in the hands of the loop
  whose controller a barge-in finds (`Placed`), and that one that was cut does not
  wait and is aborted if the loop still has it (`CutGone`). It gives `CutsAreSilent`.
  `Typed` adds to `TypeOK` room for the segments of the turns that resume.

`StaffOverrideProofs`: `TakeoversAreTimed` and `PausesMatch`. `PauseInv` says what is
under way: a pause that is the last message in `wire` has an owner, since whoever ends
a takeover publishes after it, or his resume was lost (`undone`). Both hold for any
number of publications that throw.

`AsyncTurnProofs`, for any number of runs, turns, calls and any strategy:
`NothingIsLeft` from `Kept`, with runs that end by throwing included, and
`NoneIsLeftBehind` from `Young`, that a turn is not older than its tools may be
(`latency`), which is why its timer cannot delete it before them when they are faster
than its time to live.

The proofs use the assumptions named in the modules (`ConstantsAssumption`,
`PoolAssumption`, `DraftAssumption`, ...), which TLC evaluates in the runs.
`NullAssumption` of `TargetGroup` and `RoomAssumption` of `LiveKitRoom` only say that `null`
is not a session, and not a connection.

Every safety invariant and action property of the runs is proved. Only model-checked:
liveness (`DirectReturns`, `CallReturns`, `ProbeDecided`, `EveryDraftCloses`,
`QueueDrains`, `PauseEnds`, `RunReturns`, `EmptyRoomCloses`), which is out of the prover's
reach, as is everything about `ENABLED`.

## Plan

Done: the modules above. What would come next, in this order:

1. `Conversation` over `ApprovalLifecycle`, as it is over `DraftLifecycle`, so that a turn
   that waits for an approver acts on an outcome the orchestrator is shown to give.
2. The web voice bridge: the same speaker on several sockets, of which each error is
   followed by a close, and an STT session that starts while its socket closes. Then
   the customer display and the order and payment adapters, with `LiveKitRoom`'s
   outbound side.
3. The dispatcher's speculative cache and `core/approval`, once a runtime uses them.

## Not modelled

- The Node dispatcher and its speculative cache. The store runtime builds the
  dispatcher without a cache (`apps/store-runtime/src/bootstrap/bootstrap.ts:156`), so the
  handlers that could serve a stale result never run there. The speculation that does
  exist is that of `InteractionRuntimeAgent`, which subscribes to `SPEECH_PROBABLE`;
  it is in `Conversation`.
- `core/approval`, an older path than the orchestrator, which the store runtime does
  not start.
- Texts, prompts, embeddings, scores and their thresholds; keyword detection; the
  classifier, the intent library and the memory store.
- HTTP, SQL, Redis and subprocesses beyond success, failure and loss.
- The web voice bridge, the customer display's state and the order and payment
  adapters, which keep state that handlers share and are next in the plan; of the
  LiveKit bridge what is sent out, its barge-in and its shutdown.
- The pages of the store runtime, the deployment centre, the Python voice service, the
  tracer, the context store. They make up most of the repository's lines and have
  markup, queries, formatting and assembly where the packages have control. That is why
  the map covers a small part of the repository.
- Agents that turn one event into another without state of their own.
- `reset()` of the turn-taking machine, `cancelTool` of the asynchronous agent and the
  list queues of the bus, which nothing modelled calls.
- Request ids are distinct in the model; the code makes them from the clock.
