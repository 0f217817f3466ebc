# Softwake in TLA+

Softwake is a voice assistant: a daemon on a laptop (`softwaked`) that sleeps,
listens for a wake phrase, talks and runs tools; a window and tray that are
clients of the daemon's socket; and an optional companion (`softwake-node`) on
another machine that stands in while the laptop is away. This directory models
the parts of it whose correctness depends on the order of things: the voice
state, the tool gate, the handlers of the daemon's runtime, an ask with its tool
rounds and its speech, the talk of a room, the socket server, the settings file
several processes write, and the three protocols between laptop and companion.
TLC checks them on small instances, and
TLAPS proves the main invariants for every value of the constants.

Paths below are relative to `crates/`.

## 1. The system

| Part | State | Operations | What is hard about it |
|---|---|---|---|
| voice machine (`softwake-state`) | sleep, awake or hibernate; a phrase gate; a clock it is given | `apply(event)`, `advance` | a phrase heard in the echo of its own transition |
| runtime (`softwake-daemon/src/runtime.rs`, `mode_confirm.rs`, `talk.rs`) | the machine, capture, session, press-to-talk, free speech, one waiting question | one handler per command, each under one lock; audio is drained first | two transitions in one handler, what each must switch off, deadlines |
| hands (`dispatch.rs`, `softwake-tools`) | one pending confirmation, one effect, the acting profile; `tools.json` | request, confirm, cancel, clear | what was confirmed versus what runs; whose permissions and home apply |
| IPC server (`serve.rs`) | subscribers with a queue each, cached status, cancel flag, the runtime behind a mutex | one reader and one writer thread per client, background pollers | work that goes on after the lock was released; clients that do not read |
| schedules (`schedule_tick.rs`, `softwake-tools/src/schedule.rs`) | `schedules.json` | tick: due, fire, skip, advance, save | the same row lives on two machines |
| companion (`softwake-node/src/state.rs`) | presence, leases, mirrored rows, outbox | heartbeat, claim, tick, push, serve `/v1/outbox` | restarts, late answers, clocks |
| laptop remote agent (`remote_agent.rs`) | outbox cursor file | heartbeat, mirror and pull loops, each a thread | lost calls, overlapping pulls |
| Telegram (`telegram.rs` on both sides) | offset in memory, the open poll | poll, answer one by one | two pollers of one bot, ownership that follows voice state |
| rooms (`team.rs`, `room_recheck.rs`, `talk.rs`) | speech queue with a generation, re-checks, room log | post, stage, enqueue, re-check, log, play, clear | threads that outlive the generation they were started in |
| chat and tool loop (`chat.rs`, `tool_loop.rs`, `softwake-session`) | messages of a turn, a cancel flag | ask, stream, tool rounds, cancel, compaction | a cancel against each moment of an ask |
| speech output (`announce.rs`, `early_tts.rs`, `playback.rs`) | one player with its mute, early sentences, a speak generation | speak, cancel, barge in | replies that overlap |
| profiles (`softwake-soul/src/profile.rs`) | `softwake.json`, the folders | create, activate, delete, set, migrate | several processes rewrite one file; any may die in a write |
| Voice Agent (`voice_agent.rs`) | a WebSocket session | start, frames, stop | a remote service orders the frames |
| the rest: ipc framing, policy, memory, skills, providers, connectors, wake, ui | files, parsers, HTTP | | mostly data and I/O |

How they interact: a client's frame becomes one call of `Runtime::handle` (or of
one of its siblings) under the runtime mutex; the outcome's events are broadcast
to all clients and the reply is written, both after the mutex was released.
Runtime calls Hands for tools and the machine for transitions. Background
threads of the daemon (schedule tick, heartbeat, mirror, outbox pull, Telegram,
webhook) take the same mutex for what they need of the runtime and make their
HTTP calls to the companion, the schedule tick even within it. The companion
runs a request thread per connection, a schedule tick and a Telegram poll over
mutex-protected maps that it saves to files.

What makes each part correct, and which property says so:

* *machine*: a phrase does not undo the transition it has just caused, and
  nothing but the window ends hibernate (`NoPhraseLoop`, `ResumeLandsAsleep`).
* *runtime*: what the state allows is on and nothing else (`AwakeHoldsItAll`,
  `OneListener`, `ClipsLeaveAwake`); a yes answers the question that was asked
  (`QuestionFitsState`, `YesInTime`); clients are told what happened
  (`ChangesAreTold`).
* *ask*: the operator hears the answer, every word once (`SaidAsStreamed`); a
  cancel or a new ask silences what waits (`QueueIsDropped`) and keeps the model
  from being called again (`CancelEndsRounds`); the lock is free in the end
  (`AskEnds`).
* *rooms*: what is heard is what the log says, in its order (`HeardAsLogged`); a
  barge-in silences everybody (`StaleVoiceDies`); no clip blocks the queue for
  want of a thread (`EveryClipIsDriven`, `RoomDoesNotStall`).
* *IPC server*: a client that reads misses nothing its queue had room for
  (`EventsReach`), and waits for nobody who does not (`NobodyWaits`); the cached
  status does not say "thinking" for ever (`ThinkingEnds`); a stop ends it
  (`StopEnds`).
* *profiles*: the file is whole whenever somebody dies (`FileStaysWhole`,
  `OneFailurePerCrash`), a setter changes what it names (`SettingsSurvive`), and
  the active profile exists (`ActiveExists`).
* *hands*: what was denied does not run, what needs a yes runs once per yes, and
  each call runs as the profile that asked for it.
* *schedules and companion*: every slot fires when it is due, once, by one of the
  two (`FiresWhenDue`, `FiredOnce`, `NoSlotDropped`, `LeaseKeepsApart`).
* *Telegram*: a reply to every message is sent or tried, in order, and no more
  often than changes of sides and crashes explain (`IsMailbox`, `InOrder`,
  `RepliesBounded`).
* *outbox*: everything the companion did is written to the HUD's file, leaves it
  only by writes that overlap or fail, and is seldom written twice
  (`NothingPassedOver`, `EveryItemNoticed`, `ToldRarely`).

## 2. The modules

| Module | Models | Composed with |
|---|---|---|
| `VoiceMachine`, `VoiceProofs` | `softwake-state` | |
| `Runtime`, `RuntimeProofs`, `MCRuntime` | `runtime.rs` voice handlers, `mode_confirm.rs`, the clip thread of `serve.rs` | instantiates `VoiceMachine` on fields of its record |
| `Hands`, `HandsProofs`, `MCHands` | `dispatch.rs`, its callers in `runtime.rs`, `tools.json` | |
| `Companion`, `CompanionProofs`, `MCCompanion` | `schedule_tick.rs`, `schedule.rs`, `remote_agent.rs` (heartbeat, claim, mirror), `softwake-node/src/state.rs` | |
| `Delivery` | what a mailbox promises: messages are handled in order, at least once, and forgotten only afterwards | the abstract specification of Telegram |
| `Telegram`, `TelegramProofs` | `telegram.rs` on both sides, ownership in `state.rs` and `serve.rs` | implements `Delivery` |
| `Outbox`, `OutboxProofs`, `MCOutbox` | outbox in `state.rs`, pull and cursor in `remote_agent.rs` | |
| `Player` | the remembered player and its mute in `playback.rs` | instantiated by the two below |
| `Ask`, `MCAsk`, `RuntimeProofs` | one ask: `runtime.rs`, `tool_loop.rs`, `early_tts.rs`, `announce.rs` | `Player` |
| `RoomSpeech`, `MCRoomSpeech`, `VoiceProofs` | the speech of a room: `team.rs`, `room_recheck.rs`, `talk.rs` | `Player` |
| `Serve`, `ServeProofs`, `MCServe` | the socket server: `serve.rs` and `softwake-ipc` sockets | |
| `Profiles`, `ProfilesProofs`, `MCProfiles` | `softwake.json` in `softwake-soul/src/profile.rs` | |

### VoiceMachine

`state`, `gate` and `now` are the fields of `Machine`; `since` and `last` are
history. `Apply(event)` is `Machine::apply`: the table of `transition.rs`
(`Legal`, `Target`, `Effects`), then the phrase check, then the gate. `Advance`
is `Machine::advance`. The gate stores the moment the machine entered the state
it blocks phrases for; a rejected event changes nothing.

### Runtime

A handler holds the runtime lock from start to end, so it is one step, but for an
ask that reaches the model. The struct is the record `rt`, and a handler is composed of operators from record to
record in the order of the code: `Ticked`, `DrainPcm`, `ApplyVoice`, `EffectsOf`
and so on, each collecting the events it would broadcast in `rt.out`. `out` is
what the handler told clients, in the order it told them. The machine inside
`rt` is the module `VoiceMachine`, not a copy of it. Two things happen outside
the lock: time (`wall`), which the runtime reads as `Instant::now`, and `job`,
the clip a serve thread took in one step and asks about in a later one
(`Handle` / `AskClip`). An ask that reaches the model holds the lock over several
steps, which `turn` marks: its beginning, any number of `ToolEffect` -- the
`softwake_*` tools of the model, which change the voice state through the same
operators and whose outcome the code drops (`runtime.rs:1203-1216`) -- and its reply,
which may put the runtime to sleep itself (`Replied`). Within an ask a tool runs only
while awake; outside one it is the call of a Telegram message, a scheduled task or a
confirmation, or an effect a tool frame left.
The rounds and the speech of an ask are the module `Ask`.

A batch of audio is abstracted to what `drain_pcm` does with it: the first
phrase scored, whether a near miss of a wake phrase was probed, and how far a
free-speech utterance came. A typed line is one of nine texts, one for each way
`route_mode_ask` classifies it.

### Hands

The record `hands` has the fields of the struct; `settings` is `tools.json`,
re-read on each call as in the code. `InvokeTool` is a tool frame of a client,
`ChatCall` a call of the model's turn, `PeerCall` one for another profile,
`ConfirmTool` and `CancelTool` the operator's answers. `run`, `runs`, `gone`
and `owner` are history the properties read. A call that is refused,
malformed or fails is the outcome that changes nothing. A call applies the effect it left, the ctl
effect or else the team effect; a confirmation applies both, unless the first fails
(`BothDrained`). Ids of pending records
are a counter in the code and stay one here, bounded by `MaxPending`.

### Companion

One schedule row, the laptop and the node. `disk` is the row's next fire in the
laptop's file, `mirror` the node's copy. The laptop's tick is five steps
(`TickStarts`, `TickRow`, `AskPresence`, `ClaimLease`, `SaveRow`), because each HTTP
call can interleave with the node and because it reads the clock once and may come
to the row minutes later, when it is through with the profiles before it. It holds
the runtime lock, which is why `HeartbeatRead` waits for `tick = Idle`. The node's
tick is `NodeTick`, which reads the clock and the presence, and `NodeRow`, which
comes to the row with them; `Deliver` is its `push_outbox` after the schedules lock
was released. `HeartbeatRead`/`HeartbeatPut` and `MirrorRead`/`MirrorPut` are the two
background loops, cut where they let go of what they read; what the voice says is
an input of the heartbeat.

The row is a repeating one with the set `Slots` of due times. `NextFrom(t)` is
`compute_next_fire_ms`: the first due time not before `t` among those the code looks
for by the clock it reads itself, which is `Scan`: a cron row is scanned from the
next minute, a daily one from today. `lapsed` is the history of what that leaves
out. Laptop and node share one clock; clock skew is listed as a hazard and not
modelled.

What may go wrong is the constant `Faults`: the laptop's voice falls asleep, the
daemon crashes, a call is lost on the way there or back or answered with an error
(which `AskPresence` takes for "not present"), the node restarts, heartbeats come
late, as they do when the laptop is suspended. Each run names the faults it allows,
so that each property is checked under all the faults the code can withstand.

### Telegram

`sent` and `confirmed` are the Bot API's queue, which is external: `getUpdates`
with an offset confirms what is before it and returns what is not confirmed.
`offset` and `poll` are each side's static offset and the state of its thread.
`Accept` is the point where the node looks at ownership again (the laptop does
not: `StillOwns`). `Take` moves the offset, `Ask` puts the message to the model, and
`Send` sends the reply, or fails to, which nobody looks at; a crash is possible
between any two. The laptop holds the runtime lock in `Ask`, over which its
heartbeats are skipped, so that the node may find the laptop gone (`GraceRunsOut`)
while it is answering; that is a change of sides and counts in `turns` like those of
the voice. `answered` counts the replies that arrived, `unsent` has the messages whose
reply did not. `Mailbox` is the refinement mapping: a message is handled when a reply
to it was sent or tried, and forgotten when it is confirmed.

### Outbox

`Stamp` and `Push` are the two halves of a push on the node: the item's time and
id are made before the outbox lock is taken. A pull is `LoadCursor`, `Get`,
`ReadHud` and `AppendNotice` (once per item) and `SaveCursor` or `SaveFails`; it is
`Idle`, `Asking` or
`Appending`, and its answer holds each item at its place in the outbox. The two
steps of an append are the read and the replacement of `hud-chat.json`
(`hud_chat_write.rs`), which no lock holds together: `writing` are those between the
two, `draft` what each will write, and a third writer stands for the exchanges of
Telegram and the rooms and for the HUD. Writes that overlap go through one temporary
file, so that what is put in place may be one's own, the other's or unreadable, and
any write may fail unseen. `lost` and `clash` are history: the lines a write left out
or put out of the file, and that such a write happened. `Pullers` are the loop and the
wake phrase, which nothing keeps from overlapping. A pushing thread takes more
than a millisecond from one item to the next, so that the ids it makes are
distinct, as in the code. `InPlace` names the items the cursor's order is right
about: those pushed after every item with a smaller key. The properties are
about them; section 5 says what becomes of the others. `overlap` remembers that
two pulls have overlapped, and `notices` counts the lines that tell an item as long as
`ToldRarely` asks about them. `slips` bounds the crashes and the failed saves.

### Player

The daemon spawns an audio player, looks once whether it survived, and then
remembers it: that is what an interrupt kills, and its mute keeps the microphone
deaf until a grace after its end. `Spawned`, `Remembered`, `Ended`, `Killed` and
`Reaped` are functions from one memory to the next; `Ask` and `RoomSpeech` put
them into the steps of their threads. A spawned player that is not remembered
yet can be killed by nobody, which is the window both modules look into.

### Ask

`ask` is the thread that holds the runtime lock, cut where another thread can
step in: at the generation bump, the kill and the unmute of the barge-in it
begins with, at each delta of a stream, at each round and tool turn, and where it
speaks the rest. `line` are the speech threads of early sentences, which queue
for `speak_lock` and look at the generation before the lock, after it and after
the player started. `canceller` is a `CancelAsk`, which takes the runtime lock
only if it is free. A text is a sequence of words, sentence ends and blanks,
which is all `early_tts.rs` looks at; what the model says in a round is one of
`Replies`, and how many signs a delta may bring is `Deltas`. The streamed path and the
fallback of one whole answer are both there.

### RoomSpeech

`thread[m]` is a member's turn: the reply, its place in the queue, the wait for
the front, the re-check, the row in the log, and the clip. `flight` is the
fan-out that holds the single-flight flag of `team.rs`, `gen` the queue's
generation, `clearing` the three parts of a barge-in. `worker` is the re-check
worker, one model call at a time, which may answer after the clip it was asked
about was renamed, dropped or spoken. A thread that has waited 120 s for its
turn gives up (`GiveUp`, before its line is logged or before it is played), at most
`MaxGiveUps` times. The equally long wait for a player (`WaitsForIdle`) ends with the
player or without: the line then starts over it, and `overrun` remembers which players
were passed over so. Clips are told apart by their text, as in the code.

### Serve

Per client the handler thread `h[c]` is a line of steps from accept to the end of
the connection: hello, subscribe, greeting, read, the think line, the lock, the
work, the cached status, the broadcast, the reply. `queue` is the bounded channel
to its `writer`, `sock` what the kernel holds and whether the client reads it.
`Polite` clients read and poll; the others may stop reading at any time. `owed`
is history: the events that were broadcast to a client after its greeting while
its queue had room. A request is a poll of the status, a change, or an ask that
may be refused. The Windows pipe follows the same steps and is not modelled
apart.

### Profiles

`app` and `temp` are the two file names. A process's call is cut at every file
operation: the load, the migration, the folder, the write of the temporary file
(`create_new`, then the content) and the rename. A name holds `Absent`, a
configuration, `Torn`, or the process that is still writing the file; `Content`
looks through the name, which is how a file can be renamed while it is written.
`Crash` ends a process at any of these. `overlap` remembers that two calls were
under way at once, `kept` is what successful calls have asked for.

## 3. The runs

| Run | Question | Bounds, and why they are enough |
|---|---|---|
| `voice_machine` | does the gate belong to the state, and does it hold for its whole length | cooldowns 2 and 3 are distinct, so that a mix-up shows; the clock goes past two cooldowns |
| `runtime` | do all handlers together keep the state, the listeners and the question consistent | cooldowns and window of 1 and a gap of 2 within four clock readings, so that each can be open, at its end and over while another runs; all nine texts, all audio batches; an ask may run any tool any number of times. The view leaves out `out`, which no action reads |
| `hands` | the gate, over every kind of call | two profiles of which one has `allow_all`, four contents of `tools.json`, two pending ids, so that one can be replaced by another. No tool frame and no peer turn carries `softwake_set_profile`, whose effect on the acting profile is the question of `hands_switch` |
| `hands_switch` | does `allow_all` stay with its profile when a peer turn switches the active one | no |
| `companion` | under all faults at once: what fires, fires within its grace, and never under a lease while the other machine's lease runs | a daily row due on two days of three readings each; grace and presence grace of 1, a ttl of 2, a clock of six readings: each can run out before, at and after the slot, and a tick can be a day late. The view leaves out what no step and no verdict depends on any more: expired leases and presences, fires whose lease is over, and the histories of what was given up |
| `companion_steady` | every slot once, and in the end, with nothing failing | a cron row with two slots, so that advancing from one to the next matters, further apart than grace and ttl, and a tick may be still at the first when the second comes due |
| `telegram` | the two pollers are one mailbox, in order, with a bounded number of replies | two messages, two changes of sides or suspends, one crash, of either side: a message can be answered, forgotten by one side and asked for by the other in every order; any send may fail |
| `outbox` | the cursor passes nothing over, everything is written, and seldom twice | two pushing threads, two pulls and another writer, two clock readings, capacity 2 of up to 3 items, one crash or failed save, calls and writes that fail: items can tie in time, be overtaken and be dropped, and each write can fall into each other. Once writes have clashed the view no longer tells a line in the file from a lost one, nor the drafts apart, which no guard and no property does either |
| `room_speech` | is the room's speech the room's log, silenced by a barge-in and never stuck | two members, two texts so that clips can be equal, one post, one clear at any moment, one thread that gives up: every order of two turns, a clear and the worker. A second post needs the first to have ended its fan-out, and adds no overlap of its own. The view leaves out of the histories what no verdict depends on any more: dead players from `overrun`, all but the last spoken line, and every order once two equal texts have waited |
| `ask` | is an answer said once, silenced by a cancel, and over in the end | a word, two sentences and a word, an outcry and a word; a delta brings one sign or three, more than a sentence has to have, so that a first delta can be shorter or longer than an old offset; two rounds; a cancel at any step; two lines, of which one waits while the other speaks. The limits of 24 and 40 characters are 2 and 3 signs |
| `serve` | who waits for whom, and what reaches whom | two clients, of which one may stop reading; a queue and a socket of one message each, so that both are full early; two changes |
| `profiles` | is `softwake.json` whole and does it hold what was set, whoever dies | two processes, two folders, two values, two crashes, one removal by the operator: a crash can follow a crash, and each call can meet each call |

What the passing runs leave out, because the code does not keep the property
there, is named by the property itself (`Leased`, `lapsed`, `InPlace`, `lost`,
`overlap`, `turns` and `crashes`, `alike`, `orphans`, `overrun`, `jumped`, a blank at
the ends of an answer, what press-to-talk drains and what a tool changes) or by the run's constants (the calls of `hands`, no faults in
`companion_steady`). Section 5 says what becomes of each.

Deadlock is checked where the system can always go on. It is not checked in
the runs whose clock or counter bound can be used up (voice machine, runtime,
hands, companion, rooms, ask), where the end of the bound is the end of the run,
and not in `serve`, whose server can be down.

### Fairness

* `Companion`: the node's tick, the laptop's tick and the two loops are
  `loop { sleep; work }` in threads of their own (`spawn_background`,
  `spawn_schedule_tick`, the node's `main.rs`), so each step that stays possible
  is taken; and time passes. Only `companion_steady` uses it, with no faults.
* `Telegram`: poll threads as above; a laptop that is suspended counts as gone in
  the end, and one that is up sends heartbeats when it can. `getUpdates` may fail any number of times,
  but a call that is made again and again returns in the end (strong fairness of
  a `Return` that succeeds). Handovers, crashes and suspends have no fairness and
  are bounded.
* `Outbox`: a thread that stamped an item pushes it; a pull's steps follow one
  another; a call that is tried for ever gets through (strong fairness). Nothing is
  assumed of the other writer, nor that a write or a save succeeds.
* `Ask`: the thread of an ask goes on, and so do the speech threads; a request
  to the model has a timeout, so a round that is called comes back; a player ends
  or is reaped at its deadline (`SoundStep`). Nobody has to ask or cancel.
* `RoomSpeech`: each member's thread goes on, whichever of its steps it is at; the
  clear goes on, and the players as above. The worker's model call has *no*
  fairness: it may never return, and the 1.5 s after which `wait_recheck` plays the
  draft are what keeps the room going. A thread may give up after its 120 s in the
  queue and owes nothing there.
* `Serve`: each thread goes on when it can; a mutex that is free again and again
  is taken in the end (strong fairness of `Enter` only). Clients that are
  `Polite` read and poll; nothing is assumed of the others.

## 4. What is proved

Each proof module EXTENDS the modules it is about: `VoiceProofs` the voice
machine and the speech of a room, `RuntimeProofs` the runtime and its ask, each
of the others one module. The assumptions on constants
(`HandsAssumption`, `CallAssumption`, `CompanionAssumption`, ...) are in the
module that declares them and TLC evaluates them on each run. Nearly all say
that a bound is a number and a set finite or not empty. `RoomSpeech` also keeps
the marks for "no clip", "nobody" and "no player" out of its texts, members and
players, `Companion` that for "no fire" out of its slots, and `Outbox` the other
writer of the HUD's file out of its pulls. Two restrict what is claimed:
`OnlyOwnTurnsSwitch` for `OwnerRuns`, and `Calm` and `Spaced` for the schedule.

* `VoiceProofs`, voice machine: `GateCorrect`, `PhraseLoopFree`, `ResumeSafe`. The
  invariant says which gate goes with which state and that the gate's entry time
  is `since`; with it the loop property is a property of one step.
* `VoiceProofs`, rooms: `RoomTyped`, `ClipsAreDriven`, `VoicesDie`,
  `HeardInOrder`, for every number of members, texts, posts, clears and threads
  that give up. `RoomInv` has six parts, each proved from those before it. `Base` is
  the shape of the state. `QueueInv` adds to `EveryClipIsDriven` that of each text as
  many copies wait as threads drive it (`CopyForEach`): a thread finds its clip by
  the text, so that one driver per clip is not inductive. `SoundInv` says
  that a player belongs to a post that has begun, and is known to the thread that
  waits for it (`Held`) or was passed over when that wait ended (`overrun`), and that a
  stale one dies; it needs that what was passed over never becomes the remembered
  player again. `RowInv`: the log has
  at most one row of a member in a post, and a thread past the log has its row.
  `FrontInv`: unless two clips were alike, a thread between its turn and its voice has
  the clip at the front. `OrderInv`: what was heard is in the order of
  the rows, and what may still be heard comes later in the log.
* `HandsProofs`: `ConfirmOnce`, `DenyHolds`, `InstallsAsk`, `ActingStops`,
  `EffectsAnswered`, `ReplacedByInstall` and `OwnerRuns`. The
  properties are not inductive by themselves: that an id runs once needs that an
  id above `next_pending` has neither run nor gone (`IdsIssued`), and that a
  waiting record was issued. A chat call is followed in three lemmas: what
  `request` may leave, what applying an effect may leave, and both together; a
  confirmation adds a second effect (`BothSound`, `BothLeaves`).
  These hold for every `WireCalls` and `PeerCalls`, also for those the violation
  run uses; only `OwnerRuns` assumes that no tool frame and no peer turn switches
  the profile (`OnlyOwnTurnsSwitch`), and its invariant is that the acting
  profile is the active one while awake (`Pinned`).
* `CompanionProofs`: `LeaseApart` and `FiresTimely`, whatever fails. The invariant
  (`FireHolds`) ties each fire under a lease to the lease table: while the fire's
  lease runs, the table still holds that lease, across restarts and lost answers. A
  fire is judged by the clock its tick began with, as in the code.
  `FiresOnce` and `SlotsKept` assume that nothing fails and that the row is not
  the companion's alone (`Calm`), the second also that no two slots are as close
  as the grace (`Spaced`), and excepts slots that `lapsed`. Their invariant (`CalmInv`)
  is that the node sees the
  laptop as present, so that it never claims -- the handover of a slot is no part of
  these two -- and that the row in the file is never behind what was fired or given up.
* `TelegramProofs`: `NothingForgotten`, `AnsweredInOrder`, `RefinesMailbox`,
  `AnswersBounded`. Each side's batch is
  related to its offset (`BatchFollows`): everything before the next message of
  a batch had its reply sent or tried, and the offset runs ahead by the one message
  that is being answered, which is what a crash forgets. The same invariant shows that
  each step is a step of `Delivery` or leaves it unchanged; the liveness half of
  `IsMailbox` stays with TLC. That replies are bounded rests on a count
  (`Counted`): a side's offset passes a message once, and only a crash of that
  side takes it back. While no side has changed, one of them has not replied at all.
* `OutboxProofs`: `NothingPassed` and `ToldSeldom`. A cursor tells the truth if
  what it is past was written (`Truthful`), be its line in the file or `lost`. For a pull that is not at its end this
  needs how the rest of its answer relates to the outbox: an item in place is
  later than all that is left, or comes in the answer before whatever is later
  than it (`Ordered`); that in turn needs that what a thread pushes next is later
  than what it pushed (`Stamped`). For pulls that do not overlap, what a cursor has
  not passed was told no more often than the daemon died or a save failed (`Single`,
  `FreshIn`). That a line is lost only by a clash is `Drafts`: while writes do not
  clash, what each will write has all that is in the file.
* `ServeProofs`: `TypeCorrect`, `EventsArrive`. A client is subscribed from before
  its greeting until its handler leaves or its writer is gone (`Holds`), so a
  broadcast never finds a greeted client missing.
* `RuntimeProofs`: `TypeCorrect`, `AwakeHolds`, `ListenerAlone`, `QuestionFits`,
  `ClipsAwake`, `YesTimely`, `ChangesTold`: everything the run `runtime` checks.
  A handler is a composition of operators from record to record, and so is the
  proof: there is one lemma per operator, which says that it keeps the record
  `Good` and what it does to state, session, question and events; a handler's
  lemma is their chain. `Good` adds to the properties what a handler relies on
  from the one before: which flags go with which machine state, that the question
  belongs to the state it was asked in, and that no event is left over. `Tells`
  says of an operator that the state it ends in is the one it told last.
* `RuntimeProofs`, ask: `AskTyped`, `AnswerIsSaid`, `QueueDrops`, `CancelHolds`, for
  every set of answers, number of rounds, asks and cancels. `AskInv` is `Shapes`,
  in which the generation is bounded by the asks and cancels that may still raise it
  (`ToRaise`); `LinesInv`, by which a line past `speak_lock` holds it and a line
  that still speaks has the current generation or was let go as `late`; and
  `StreamInv`, by which what was said and what is in the air is the text as far as
  the offset (`Handed`), unless the round began with a delta as long as the offset the
  round before has left (`jumped`). The splitting of
  a text into sentences is a recursive function (`Taken`); that it has a value for
  every text is proved by its least counterexample, and the lemmas on it, on `Trim`
  and on `RestIsSaid` say that no sign is taken twice or passed over.
  `CancelHolds` is an action property and needs `HitInv`: once a cancel has found the
  stream running, the flag stays set until the ask has ended.
* `ProfilesProofs`: `FileWhole`, `OneFailure`, `SettingsKept`, `ActiveFound`. The
  invariant has five parts: types; who owns a file that is being written
  (`Owned`); what holds as long as calls were `Alone`; that what a call carries
  follows from what it loaded (`Following`); and, also under overlaps, that each
  active profile that can become the file's has its folder (`Reachable`).

Every invariant and every action property of the passing runs is proved. Only
model-checked is what must happen in the end: `EverySlotSettles`, the liveness half
of `IsMailbox`, `EveryItemNoticed`, `RoomDoesNotStall`, `AskEnds`, `NobodyWaits`,
`ThinkingEnds` and `StopEnds`. Liveness under fairness, ENABLED, the induction
theorems of the library (they take an operator) and RECURSIVE
operators are out of the prover's reach; no module uses a RECURSIVE operator.

## 5. Where code and documents disagree

`hands_switch` is a run that expects a violation: it checks one sentence of the
documentation that the code does not keep, and the finding in `PROJECT.json` has
the lines.

* `hands_switch`: a peer turn that switches the active profile puts back the old
  acting profile, whose `allow_all` then serves the new one's turns
  (ADR-0052:51).

The models also show the following, which no run is spent on. Each is why a
property is restricted as it is, or a hazard with a note.

*Voice and runtime*

* Near misses wait for a clock that does not move in sleep
  (`softwake-daemon/src/runtime.rs:843`, against docs/02-voice-states.md:63).
* A phrase heard while press-to-talk starts or stops changes the state, and no
  client is told (`runtime.rs:2190`, `2210`, `2238`, against ADR-0003:23). Nor is one
  of the change a `softwake_*` tool of the model makes: `apply_ctl_effect` drops the
  outcome with its events (`runtime.rs:1203-1216`). `ChangesAreTold` excepts both.
* A bare yes with no question waiting is a line for the model, whose tools may then
  put the runtime to sleep; `YesInTime` says that they can only leave awake.
* A phrase in the drain and the command after it are told in the opposite order
  (`Handle`), and a clip taken awake is transcribed and told later in any state
  (`AskClip`; `ClipsLeaveAwake` is about the taking).

*Hands*

* A second pending record: an install-looking shell line under an AlwaysAllow
  shell replaces a record that waits, where ADR-0005:31 keeps the first one
  (`Stages`; `ReplacedOnlyByInstall` says that nothing else does).
* A tool frame leaves its effect in Hands, and the next chat call applies it
  (`InvokeTool`; `EffectAnswersOwnCall` says that nothing else does).
* A confirmed call runs in the home of the profile that acts at the confirm
  (`Run` in `ConfirmTool`; `TurnRunsAsItsOwner` is about the other calls).

*Ask and speech*

* The offset of what was spoken early counts the streamed text, the answer is
  trimmed: one that begins or ends in a blank is said twice in part
  (`early_tts.rs:135`, against ADR-0048:37-38). The offset of a round goes into the
  next one and is dropped only where it is past the text there
  (`clamp_spoken_to_text`): a first delta as long as the old offset loses its
  beginning. `SaidAsStreamed` excepts both.
* A `CancelAsk` between the two moments at which an ask clears the flag is lost
  (`runtime.rs:1603`); tool calls whose fragments a cancelled stream had merged
  still run; the rest of a cancelled answer is still spoken.
* After a barge-in the fallback replays a line whose stream was killed, and the
  `abort()` of a player clears a mute another one has armed.
* A barge-in over speech calls for the ask's cancel as well, where no ask can be
  running (ADR-0049:17).

*Rooms*

* A clip goes with its row: a thread that gives up on its re-check leaves its clip
  at the front of the queue (`orphans`), and a clip whose row cannot be written is
  dropped (`team.rs:583`).
* Clips are found by their text, so that of two equal ones the first may be
  played for the second (`alike`).
* The wait for the line before ends after 120 s (`talk.rs:273-275`), while a player
  may be given up to 300 s (`softwake-soul/src/profile.rs:505`): the next line then
  starts over one that plays. Only the last player is remembered, and a barge-in does
  not kill the older one. `StaleVoiceDies` excepts such a player (`overrun`).
* The room files are replaced by a plain write, and a fan-out writes back the room
  it has read: an edit by the window in between is lost, and a deleted room is
  back (`softwake-tools/src/rooms.rs:386`).

*Server*

* The cached status is written after the lock was released, so that an older one
  can replace a newer one, and "thinking" may come back after the ask, until the
  next poll (`serve.rs:257`, `582`; `ThinkingEnds` is about the end).
* Two daemons that start at once can both find no listener and one of them take
  the socket file of the other (`socket_unix.rs:337`).

*Profiles*

* Setters that overlap lose one another's key (`profile.rs:513` promises
  "preserving active_profile"), and as the temporary file has one name, a process
  may rename the half-written file of another, or report a failed write whose
  content becomes the file. `FileStaysWhole`, `OneFailurePerCrash` and
  `SettingsSurvive` are about calls that do not overlap; `ActiveExists` is not.

*Companion, Telegram, outbox*

* The laptop advances a companion row before the node has fired it, and the mirror
  carries that over, so that nobody fires it (`schedule_tick.rs:61`, against
  ADR-0040:40).
* A message answered right before a handover is answered again after it, since
  each side has an offset of its own (`telegram.rs:62`, against ADR-0042:9). So is one
  whose answer takes the laptop longer than the presence grace: the heartbeat skips a
  runtime that is locked (`remote_agent.rs:553`), and the node takes over under a
  laptop that is up and answering. `RepliesBounded` has both as a change of sides.
* A reply that cannot be sent is not sent again (`softwake-daemon/src/telegram.rs:166`,
  `softwake-node/src/telegram.rs:134`): the message is confirmed as if it had been.
  `handled` is what was tried.
* The next slot of a cron row is looked for from the clock at the save, not from the
  slot that fired (`softwake-tools/src/schedule.rs:506-512`): one that comes due while
  the tick is at work is neither fired nor given up (`lapsed`).
* A tick judges what is due by the clock it began with (`softwake-node/src/state.rs:261`,
  `schedule_tick.rs:24`), so that a slot fires later than the grace when the tick is
  long; `FiresWhenDue` is about the clock of the tick.
* A companion row can fire twice: the mirror puts back a row the node has
  advanced, and the node's own lease does not stop it (`Claimed`; so `FiredOnce`
  is checked for an auto row with nothing failing).
* Giving up a slot older than the grace also gives up a later one within it
  (`SkippedOver`).
* Two pulls that overlap may both tell an item (`ToldRarely` excludes that), and
  an item pushed out of place stays behind the cursor for ever (`InPlace`).
* `hud-chat.json` is read, changed and replaced without a lock, through one temporary
  name and with no error looked at (`hud_chat_write.rs:268-345`): a notice may be
  overwritten by a pull, a Telegram exchange or the room that appends at the same
  time, and the cursor goes past it (`lost`, `clash`). A cursor that cannot be saved
  (`remote_agent.rs:404`), or is read while it is written, tells items again.

## 6. What is not modelled

`PROJECT.json` lists every part with the reason. In short:

* HTTP, OAuth, keyring, parsers and audio are data or I/O; their outcomes are
  inputs of the models. What a tool does when it runs is one execution record.
* The Voice Agent's frames are ordered by a remote service, and with it go the
  room utterances that are coalesced for it.
* Session compaction, memory, skills, policy, IPC framing and cron expressions are
  functions of data without an order of steps.
* Clock skew between laptop and node is a hazard without a property.
* `hud-chat.json` keeps the last 40 turns and an encrypted one sends its appends to an
  inbox file of the same shape; neither is in `Outbox`.
* What the server does after the reply is out is not in `Serve`: it asks about a
  pending clip, which is in `Runtime` (`AskClip`), and starts the fan-out of a room
  (`serve.rs:469-477`, `734-741`), which is in `RoomSpeech`.
* The window, the tray and the command line are clients of the server; their file
  edits are calls of `Profiles` and contents of `tools.json` in `Hands`.

The models cover the parts in which steps of several actors meet. Much of the
code by lines is the rest: request bodies, page layout, command parsing, the
texts the model is given.

## 7. Plan

Done: the voice machine, hands, runtime, companion, Telegram, outbox, rooms, ask,
server and profiles; proofs of every invariant and action property the passing
runs check.

Next, in this order:

1. `Runtime` shown to implement `VoiceMachine`: each handler is at most two of its
   steps.
2. The room files: `mark_room_turn` against the window, and joining a room by
   voice.
3. Pure algorithms against reference definitions: the policy (tightening never
   loosens), framing (a stream split anywhere gives the same frames), memory
   (caps), cron (the next fire of an expression).
4. The Voice Agent's session and the timers of `runtime.rs`.
