------------------------------ MODULE RoomSpeech ------------------------------
(***************************************************************************)
(* What room members say (softwake-daemon team.rs, room_recheck.rs and     *)
(* talk.rs).  An operator's post wakes every member on a thread of its     *)
(* own.  A reply waits in a queue; at the front of it the member may be    *)
(* asked once more, its line is logged, and it is played, one at a time.   *)
(* A barge-in clears the queue and starts a new generation; threads of an  *)
(* old one are to stop wherever they are.                                  *)
(***************************************************************************)
EXTENDS Naturals, Sequences, FiniteSets, SequencesExt

CONSTANTS
  Members,    \* the members of the room
  Texts,      \* what a member may say
  Recheck,    \* room_requeue_recheck
  MaxPosts,   \* bound on the operator's posts
  MaxClears,  \* bound on the clears, hence on the generation
  MaxGiveUps, \* bound on the threads that use up their 120 s in the queue
  NoPlayer

ASSUME RoomAssumption ==
  /\ Members # {} /\ IsFiniteSet(Members) /\ "none" \notin Members
  /\ Texts # {} /\ "none" \notin Texts
  /\ Recheck \in BOOLEAN
  /\ NoPlayer \notin Members \X (1..MaxPosts) \X (1..2)
  /\ MaxPosts \in Nat /\ MaxClears \in Nat /\ MaxGiveUps \in Nat

VARIABLES
  gen,       \* RoomSpeechQueue.generation
  waiting,   \* waiting_audio
  unposted,  \* replies staged and not claimed yet
  rechecks,  \* pending_rechecks: a clip, and its decision once there is one
  stamps,    \* the generation each post was stamped with
  started,   \* the posts whose fan-out took the single flight
  flight,    \* the fan-out that holds it, or 0
  says,      \* fanout_says of that fan-out
  thread,    \* what each member's thread does
  channel,   \* clips sent to the recheck worker
  worker,    \* the clip the recheck worker asks the model about
  holder,    \* who holds room_member_playback_lock
  out,       \* the player, as in Player
  clearing,  \* where a barge-in is: cancel, bump or interrupt is next
  rows,      \* history: the room log's rows of members
  spoken,    \* history: lines whose player was started, in order
  alike,     \* history: two clips of one text have waited at once
  orphans,   \* history: clips of this generation whose thread gave up
  overrun    \* history: players somebody stopped waiting for while they sounded

queueVars == <<gen, waiting, unposted, rechecks>>
postVars == <<stamps, started, flight>>
checkVars == <<channel, worker>>
voiceVars == <<holder, out, clearing>>
logVars == <<rows, spoken, alike>>
vars == <<queueVars, postVars, says, thread, checkVars, voiceVars, logVars, orphans, overrun>>

Play == INSTANCE Player

NoClip == "none"
NoOne == "none"
Nobody == [pc |-> "off", clip |-> NoClip, final |-> NoClip]

\* Members share a voice unless they set one of their own, so that the text
\* is what tells two clips apart.
Clips == Texts

\* One player process for each member, fan-out and attempt.
Players == Members \X (1..MaxPosts) \X (1..2)

Revise(t) == [kind |-> "revise", text |-> t]
Plain(kind) == [kind |-> kind, text |-> NoClip]
Undecided == Plain("undecided")

\* decision_from_oneshot: a failing call keeps the draft.
Decisions == {Plain("keep"), Plain("drop"), Plain("private")} \cup {Revise(t) : t \in Texts}

Row(m, k, text) == [who |-> m, post |-> k, text |-> text]

\* The row of a private note; its text is not the room's.
Note == "note"

Stamp == IF flight = 0 THEN 0 ELSE stamps[flight]

\* allows, asked with the stamp of the running fan-out.
Allows == Stamp = gen

Has(clip) == Contains(waiting, clip)
IsFront(clip) == waiting # <<>> /\ Head(waiting) = clip

\* take_matching: the first equal clip goes.
Without(clips, clip) == RemoveFirst(clips, clip)

FirstAbout(clip) == SelectInSeq(rechecks, LAMBDA r : r.clip = clip)
WithoutRecheck(clip) ==
  LET i == FirstAbout(clip) IN IF i = 0 THEN rechecks ELSE RemoveAt(rechecks, i)

SayOf(m, text) == SelectInSeq(says, LAMBDA s : s.who = m /\ s.text = text)

\* revise_fanout_say without and with a revised text.
SaysWithout(m, text) == LET i == SayOf(m, text) IN IF i = 0 THEN says ELSE RemoveAt(says, i)
SaysRevised(m, text, new) ==
  LET i == SayOf(m, text) IN IF i = 0 THEN says ELSE [says EXCEPT ![i].text = new]

At(m, pc) == thread[m].pc = pc
Goto(m, pc) == thread' = [thread EXCEPT ![m].pc = pc]
Leave(m) == thread' = [thread EXCEPT ![m] = Nobody]

\* claim_waiting_room_audio: the clip and its re-check go, in this generation only.
ClaimWaiting(clip) ==
  /\ waiting' = IF Allows THEN Without(waiting, clip) ELSE waiting
  /\ rechecks' = IF Allows /\ Has(clip) THEN WithoutRecheck(clip) ELSE rechecks

\* mutant: the line is struck from the fan-out and stays in the queue.
DropLineKeepsClip(m) ==
  /\ says' = SaysWithout(m, thread[m].clip)
  /\ UNCHANGED <<waiting, rechecks>>

\* A reply that will not be said: it is struck from the fan-out and the queue.
DropLine(m) ==
  /\ says' = SaysWithout(m, thread[m].clip)
  /\ ClaimWaiting(thread[m].clip)

-------------------------------------------------------------------------------
Init ==
  /\ gen = 0 /\ waiting = <<>> /\ unposted = <<>> /\ rechecks = <<>>
  /\ stamps = <<>> /\ started = {} /\ flight = 0
  /\ says = <<>>
  /\ thread = [m \in Members |-> Nobody]
  /\ channel = <<>> /\ worker = NoClip
  /\ holder = NoOne /\ out = Play!Silent /\ clearing = "no"
  /\ rows = <<>> /\ spoken = <<>> /\ alike = FALSE /\ orphans = 0
  /\ overrun = {}

\* commit_operator_room_post logs the operator's line and stamps the fan-out.
\* It reads the generation and does not change it.
PostRoom ==
  /\ Len(stamps) < MaxPosts
  /\ stamps' = Append(stamps, gen)
  /\ UNCHANGED <<queueVars, started, flight, says, thread, checkVars, voiceVars, logVars, orphans, overrun>>

\* run_room_fanout: one at a time, in any order the single-flight lock gives.
StartFanout(k) ==
  /\ flight = 0 /\ k \notin started
  /\ flight' = k /\ started' = started \cup {k}
  /\ thread' = [m \in Members |-> [Nobody EXCEPT !.pc = "ready"]]
  /\ UNCHANGED <<queueVars, stamps, says, checkVars, voiceVars, logVars, orphans, overrun>>

\* The scope ends when the members' threads and the worker have.
EndFanout ==
  /\ flight # 0
  /\ \A m \in Members : At(m, "off")
  /\ channel = <<>> /\ worker = NoClip
  /\ flight' = 0 /\ says' = <<>>
  /\ UNCHANGED <<queueVars, stamps, started, thread, checkVars, voiceVars, logVars, orphans, overrun>>

-------------------------------------------------------------------------------
\* run_one_room_member asks the model with what was said so far.
Ask(m) ==
  /\ At(m, "ready")
  /\ IF Allows THEN Goto(m, "asked") ELSE Leave(m)
  /\ UNCHANGED <<queueVars, postVars, says, checkVars, voiceVars, logVars, orphans, overrun>>

\* A public reply is staged (stage_unposted); a private note asks its recipient
\* first; an error or NO_REPLY ends the turn.
Reply(m, text) ==
  /\ At(m, "asked") /\ Allows
  /\ unposted' = Append(unposted, text)
  /\ thread' = [thread EXCEPT ![m] = [pc |-> "staged", clip |-> text, final |-> text]]
  /\ UNCHANGED <<gen, waiting, rechecks, postVars, says, checkVars, voiceVars, logVars, orphans, overrun>>

ReplyPrivately(m) ==
  /\ At(m, "asked") /\ Allows
  /\ Goto(m, "note")
  /\ UNCHANGED <<queueVars, postVars, says, checkVars, voiceVars, logVars, orphans, overrun>>

StayQuiet(m) ==
  /\ At(m, "asked")
  /\ Leave(m)
  /\ UNCHANGED <<queueVars, postVars, says, checkVars, voiceVars, logVars, orphans, overrun>>

\* publish_private_member_note: the recipient answered, or the note came to nothing.
SendNote(m) ==
  /\ At(m, "note")
  /\ Leave(m)
  /\ \/ UNCHANGED rows
     \/ Allows /\ rows' = Append(rows, Row(m, flight, Note))
  /\ UNCHANGED <<queueVars, postVars, says, checkVars, voiceVars, spoken, alike, orphans, overrun>>

\* claim_unposted_room_reply, then record_fanout_say.
ClaimAndRecord(m) ==
  LET clip == thread[m].clip
      mine == Allows /\ Contains(unposted, clip) IN
  /\ At(m, "staged")
  /\ IF mine THEN /\ unposted' = Without(unposted, clip)
                  /\ says' = Append(says, [who |-> m, text |-> clip])
                  /\ Goto(m, "recorded")
             ELSE Leave(m) /\ UNCHANGED <<unposted, says>>
  /\ UNCHANGED <<gen, waiting, rechecks, postVars, checkVars, voiceVars, logVars, orphans, overrun>>

\* enqueue_waiting_room_audio, or the say is taken back.
Enqueue(m) ==
  LET clip == thread[m].clip IN
  /\ At(m, "recorded")
  /\ IF Allows THEN /\ waiting' = Append(waiting, clip)
                    /\ alike' = (alike \/ Has(clip))
                    /\ Goto(m, "queued") /\ UNCHANGED says
               ELSE /\ says' = SaysWithout(m, clip)
                    /\ Leave(m) /\ UNCHANGED <<waiting, alike>>
  /\ UNCHANGED <<gen, unposted, rechecks, postVars, checkVars, voiceVars, rows, spoken, orphans, overrun>>

-------------------------------------------------------------------------------
\* A thread that waits for its turn and finds its clip gone ends, both before
\* its line is logged (drive_queued_room_line) and after (speak_room_member_line).
FindGone(m) ==
  /\ At(m, "queued") \/ At(m, "speak")
  /\ ~Allows \/ ~Has(thread[m].clip)
  /\ Leave(m)
  /\ UNCHANGED <<queueVars, postVars, says, checkVars, voiceVars, logVars, orphans, overrun>>

\* The 120 s of either wait are over: the thread ends and its clip stays.
GiveUp(m) ==
  /\ At(m, "queued") \/ At(m, "speak")
  /\ Allows /\ Has(thread[m].clip)
  /\ orphans < MaxGiveUps
  /\ orphans' = orphans + 1
  /\ Leave(m)
  /\ UNCHANGED <<queueVars, postVars, says, checkVars, voiceVars, logVars, overrun>>

\* request_recheck_for: the clip is the oldest, and something was said before it.
AskAgain(m) ==
  LET clip == thread[m].clip
      asks == /\ Recheck /\ SayOf(m, clip) > 1
              /\ FirstAbout(clip) = 0 IN
  /\ At(m, "queued") /\ Allows /\ IsFront(clip)
  /\ Goto(m, "wait")
  /\ IF asks THEN /\ rechecks' = Append(rechecks, [clip |-> clip, decision |-> Undecided])
                  /\ channel' = Append(channel, clip)
             ELSE UNCHANGED <<rechecks, channel>>
  /\ UNCHANGED <<gen, waiting, unposted, postVars, says, worker, voiceVars, logVars, orphans, overrun>>

\* run_recheck_worker: a request whose clip is gone is passed over.
TakeRequest ==
  /\ worker = NoClip /\ channel # <<>>
  /\ channel' = Tail(channel)
  /\ worker' = IF Allows /\ Has(Head(channel)) THEN Head(channel) ELSE NoClip
  /\ UNCHANGED <<queueVars, postVars, says, thread, voiceVars, logVars, orphans, overrun>>

\* The model answers; store_recheck keeps it only for a clip that still waits for it.
AnswerRequest(d) ==
  LET i == SelectInSeq(rechecks, LAMBDA r : r.clip = worker /\ r.decision = Undecided) IN
  /\ worker # NoClip
  /\ worker' = NoClip
  /\ rechecks' = IF Allows /\ Has(worker) /\ i # 0
                 THEN [rechecks EXCEPT ![i].decision = d] ELSE rechecks
  /\ UNCHANGED <<gen, waiting, unposted, postVars, says, thread, channel, voiceVars, logVars, orphans, overrun>>

\* apply_play_decision up to the row: KEEP and a revision go on to be logged,
\* NO_REPLY and a private note claim the clip.  Past gone, d is not looked at.
Decide(m, d) ==
  LET clip == thread[m].clip
      left == WithoutRecheck(clip) IN
  IF ~Allows \/ ~Has(clip)
  THEN Leave(m) /\ UNCHANGED <<waiting, rechecks, says>>
  ELSE \/ /\ d.kind \in {"keep", "revise"}
          /\ thread' = [thread EXCEPT ![m].pc = "append",
                          ![m].final = IF d.kind = "keep" THEN clip ELSE d.text]
          /\ rechecks' = left
          /\ UNCHANGED <<waiting, says>>
       \/ /\ d.kind \in {"drop", "private"}
          /\ IF d.kind = "private" THEN Goto(m, "note") ELSE Leave(m)
          /\ says' = SaysWithout(m, clip)
          /\ waiting' = Without(waiting, clip)
          /\ rechecks' = left

\* mutant: the wait for a re-check has no budget.
WaitWithoutBudget(m) ==
  LET i == FirstAbout(thread[m].clip) IN
  /\ At(m, "wait")
  /\ IF i = 0 \/ ~Allows THEN Decide(m, Plain("keep"))
     ELSE rechecks[i].decision # Undecided /\ Decide(m, rechecks[i].decision)
  /\ UNCHANGED <<gen, unposted, postVars, checkVars, voiceVars, logVars, orphans, overrun>>

\* wait_recheck: nothing was asked, it was decided, it took 1.5 s, or it is stale.
Wait(m) ==
  LET i == FirstAbout(thread[m].clip) IN
  /\ At(m, "wait")
  /\ IF i = 0 \/ ~Allows THEN Decide(m, Plain("keep"))
     ELSE \/ rechecks[i].decision # Undecided /\ Decide(m, rechecks[i].decision)
          \/ rechecks[i].decision = Undecided /\ Decide(m, Plain("keep"))
  /\ UNCHANGED <<gen, unposted, postVars, checkVars, voiceVars, logVars, orphans, overrun>>

\* mutant: the draft is logged and the revision spoken.
AppendDraft(m) ==
  /\ At(m, "append")
  /\ rows' = Append(rows, Row(m, flight, thread[m].clip))
  /\ says' = SaysRevised(m, thread[m].clip, thread[m].final)
  /\ Goto(m, IF thread[m].final = thread[m].clip THEN "speak" ELSE "rename")
  /\ UNCHANGED <<queueVars, postVars, checkVars, voiceVars, spoken, alike, orphans, overrun>>

\* commit_final_public_line: one row, with the text that will be spoken.
AppendRow(m) ==
  /\ At(m, "append")
  /\ rows' = Append(rows, Row(m, flight, thread[m].final))
  /\ says' = SaysRevised(m, thread[m].clip, thread[m].final)
  /\ Goto(m, IF thread[m].final = thread[m].clip THEN "speak" ELSE "rename")
  /\ UNCHANGED <<queueVars, postVars, checkVars, voiceVars, spoken, alike, orphans, overrun>>

\* The log cannot be written, or the line is empty.
LogFails(m) ==
  /\ At(m, "append")
  /\ DropLine(m)
  /\ Leave(m)
  /\ UNCHANGED <<gen, unposted, postVars, checkVars, voiceVars, logVars, orphans, overrun>>

\* rename_waiting: the clip that waits becomes the revised one.
Rename(m) ==
  LET i == SelectInSeq(waiting, LAMBDA c : c = thread[m].clip) IN
  /\ At(m, "rename")
  /\ IF Allows /\ i # 0
     THEN /\ waiting' = [waiting EXCEPT ![i] = thread[m].final]
          /\ alike' = (alike \/ Has(thread[m].final))
          /\ thread' = [thread EXCEPT ![m].pc = "speak", ![m].clip = thread[m].final]
     ELSE Leave(m) /\ UNCHANGED <<waiting, alike>>
  /\ UNCHANGED <<gen, unposted, rechecks, postVars, says, checkVars, voiceVars, rows, spoken, orphans, overrun>>

-------------------------------------------------------------------------------
\* speak_room_member_line takes the playback lock when its clip is the oldest.
Lock(m) ==
  /\ At(m, "speak") /\ Allows /\ IsFront(thread[m].clip)
  /\ holder = NoOne
  /\ holder' = m
  /\ Goto(m, "locked")
  /\ UNCHANGED <<queueVars, postVars, says, checkVars, out, clearing, logVars, orphans, overrun>>

Unlock(m) == holder' = NoOne /\ Leave(m)

\* wait_room_line_until_idle: it is quiet, or the wait used up its own 120 s
\* while a player sounds (a player's deadline may be as long as 300 s).
WaitsForIdle ==
  \/ ~Play!Muted(out) /\ UNCHANGED overrun
  \/ Play!Muted(out) /\ overrun' = overrun \cup out.alive

\* Waited, or stale: claim the clip, or leave it to whoever cleared it.
Claim(m) ==
  LET clip == thread[m].clip IN
  /\ At(m, "locked")
  /\ IF Allows /\ Has(clip)
     THEN /\ WaitsForIdle
          /\ ClaimWaiting(clip)
          /\ Goto(m, "claimed") /\ UNCHANGED holder
     ELSE Unlock(m) /\ UNCHANGED <<waiting, rechecks, overrun>>
  /\ UNCHANGED <<gen, unposted, postVars, says, checkVars, out, clearing, logVars, orphans>>

\* The last look at the generation before the voice service is called.
Synthesize(m) ==
  /\ At(m, "claimed")
  /\ IF Allows THEN Goto(m, "stream") /\ UNCHANGED holder ELSE Unlock(m)
  /\ UNCHANGED <<queueVars, postVars, says, checkVars, out, clearing, logVars, orphans, overrun>>

\* The chat settings cannot be loaded.
CannotSpeak(m) ==
  /\ At(m, "claimed")
  /\ Unlock(m)
  /\ UNCHANGED <<queueVars, postVars, says, checkVars, out, clearing, logVars, orphans, overrun>>

\* speak_reply_with_interrupt streams first and falls back to a whole clip.
Attempt(m) == IF At(m, "stream") \/ At(m, "heard") \/ At(m, "pipe") THEN 1 ELSE 2

PlayerOf(m) == <<m, flight, Attempt(m)>>

\* Audio arrived and a player process runs.
Spawn(m) ==
  /\ At(m, "stream") \/ At(m, "whole")
  /\ out' = Play!Spawned(out, PlayerOf(m))
  /\ spoken' = Append(spoken, Row(m, flight, thread[m].final))
  /\ Goto(m, IF At(m, "stream") THEN "heard" ELSE "heardWhole")
  /\ UNCHANGED <<queueVars, postVars, says, checkVars, holder, clearing, rows, alike, orphans, overrun>>

\* No audio, no voice, or no player; also a player that ended at once.
SpawnFails(m) ==
  /\ \/ At(m, "stream") \/ At(m, "whole")
     \/ (At(m, "heard") \/ At(m, "heardWhole")) /\ PlayerOf(m) \notin out.alive
  /\ Goto(m, IF Attempt(m) = 1 THEN "whole" ELSE "started")
  /\ UNCHANGED <<queueVars, postVars, says, checkVars, voiceVars, logVars, orphans, overrun>>

\* The process runs: mute the microphone and remember the process.  A pipe is
\* still being written to; a whole clip is its reaper's.
Remember(m) ==
  LET p == PlayerOf(m)
      heard == Play!Remembered(out, p) IN
  /\ p \in out.alive
  /\ \/ At(m, "heard") /\ out' = heard /\ Goto(m, "pipe")
     \/ At(m, "heardWhole") /\ out' = Play!HandedOver(heard, p) /\ Goto(m, "started")
  /\ UNCHANGED <<queueVars, postVars, says, checkVars, holder, clearing, logVars, orphans, overrun>>

\* The stream is written to its end; or the service breaks off, or writing fails
\* because the player is dead: then the clip is fetched again as a whole.
StreamEnds(m) ==
  /\ At(m, "pipe")
  /\ out' = Play!HandedOver(out, PlayerOf(m))
  /\ Goto(m, "started")
  /\ UNCHANGED <<queueVars, postVars, says, checkVars, holder, clearing, logVars, orphans, overrun>>

StreamBreaks(m) ==
  /\ At(m, "pipe")
  /\ out' = Play!Aborted(out, PlayerOf(m))
  /\ Goto(m, "whole")
  /\ UNCHANGED <<queueVars, postVars, says, checkVars, holder, clearing, logVars, orphans, overrun>>

\* mutant: a line that was started is left to play.
AfterStartUnchecked(m) ==
  /\ At(m, "started")
  /\ Goto(m, "playing")
  /\ UNCHANGED <<queueVars, postVars, says, checkVars, voiceVars, logVars, orphans, overrun>>

\* The look at the generation after the start: a stale player is interrupted.
AfterStart(m) ==
  /\ At(m, "started")
  /\ IF Allows THEN Goto(m, "playing") /\ UNCHANGED <<out, holder>>
                ELSE out' = Play!Interrupted(out) /\ Unlock(m)
  /\ UNCHANGED <<queueVars, postVars, says, checkVars, clearing, logVars, orphans, overrun>>

\* The lock is held until it is quiet, the wait is over, or the line is stale.
Finish(m) ==
  /\ At(m, "playing")
  /\ IF Allows THEN WaitsForIdle ELSE UNCHANGED overrun
  /\ Unlock(m)
  /\ UNCHANGED <<queueVars, postVars, says, checkVars, out, clearing, logVars, orphans>>

-------------------------------------------------------------------------------
\* A player ends; its reaper notices; the grace after a mute runs out.
PlayerEnds(p) ==
  /\ p \in out.alive
  /\ out' = Play!Ended(out, p)
  /\ UNCHANGED <<queueVars, postVars, says, thread, checkVars, holder, clearing, logVars, orphans, overrun>>

Reap(p) ==
  /\ p \in out.reaping \ out.alive
  /\ out' = Play!Reaped(out, p)
  /\ UNCHANGED <<queueVars, postVars, says, thread, checkVars, holder, clearing, logVars, orphans, overrun>>

GraceEnds ==
  /\ out.grace
  /\ out' = Play!GraceOver(out)
  /\ UNCHANGED <<queueVars, postVars, says, thread, checkVars, holder, clearing, logVars, orphans, overrun>>

\* drain_pcm: a loud frame while a voice plays cancels the voice first
\* (cancel_speech); speech the Voice Agent hears goes straight to the queue.
BargeIn ==
  /\ clearing = "no" /\ gen < MaxClears
  /\ Play!Muted(out)
  /\ out' = Play!Unmuted(Play!Interrupted(out))
  /\ clearing' = "bump"
  /\ UNCHANGED <<queueVars, postVars, says, thread, checkVars, holder, logVars, orphans, overrun>>

SpeechStarted ==
  /\ clearing = "no" /\ gen < MaxClears
  /\ clearing' = "bump"
  /\ UNCHANGED <<queueVars, postVars, says, thread, checkVars, holder, out, logVars, orphans, overrun>>

\* RoomSpeechQueue.clear.
Clear ==
  /\ clearing = "bump"
  /\ waiting' = <<>> /\ unposted' = <<>> /\ rechecks' = <<>>
  /\ gen' = gen + 1
  /\ orphans' = 0
  /\ clearing' = "interrupt"
  /\ UNCHANGED <<postVars, says, thread, checkVars, holder, out, logVars, overrun>>

\* clear_room_speech_queue then interrupts whatever plays.
InterruptAfterClear ==
  /\ clearing = "interrupt"
  /\ out' = Play!Interrupted(out)
  /\ clearing' = "no"
  /\ UNCHANGED <<queueVars, postVars, says, thread, checkVars, holder, logVars, orphans, overrun>>

-------------------------------------------------------------------------------
Turn(m) ==
  \/ Ask(m) \/ (\E text \in Texts : Reply(m, text)) \/ ReplyPrivately(m) \/ StayQuiet(m)
  \/ SendNote(m) \/ ClaimAndRecord(m) \/ Enqueue(m)
Queued(m) ==
  \/ FindGone(m) \/ AskAgain(m) \/ Wait(m) \/ AppendRow(m) \/ LogFails(m) \/ Rename(m)
Voice(m) ==
  \/ Lock(m) \/ Claim(m) \/ Synthesize(m) \/ CannotSpeak(m) \/ Spawn(m) \/ SpawnFails(m)
  \/ Remember(m) \/ StreamEnds(m) \/ StreamBreaks(m) \/ AfterStart(m) \/ Finish(m)

RoomStep ==
  \/ PostRoom \/ (\E k \in DOMAIN stamps : StartFanout(k)) \/ EndFanout
  \/ \E m \in Members : Turn(m) \/ Queued(m) \/ Voice(m)
CheckStep == TakeRequest \/ \E d \in Decisions : AnswerRequest(d)
SoundStep == (\E p \in Players : PlayerEnds(p) \/ Reap(p)) \/ GraceEnds
ClearStep == BargeIn \/ SpeechStarted \/ Clear \/ InterruptAfterClear

Next ==
  \/ RoomStep \/ CheckStep \/ SoundStep \/ ClearStep
  \/ \E m \in Members : GiveUp(m)

\* A thread in the queue goes on, sound ends (a reaper has a deadline), and a
\* clear that began is finished.  The model behind a re-check owes nothing.
Fairness ==
  /\ \A m \in Members : WF_vars(Turn(m) \/ Queued(m) \/ Voice(m))
  /\ WF_vars(SoundStep)
  /\ WF_vars(Clear \/ InterruptAfterClear)

Spec == Init /\ [][Next]_vars /\ Fairness

-------------------------------------------------------------------------------
Pcs == {"off", "ready", "asked", "note", "staged", "recorded", "queued", "wait", "append",
        "rename", "speak", "locked", "claimed", "stream", "heard", "pipe", "whole",
        "heardWhole", "started", "playing"}

TypeOK ==
  /\ gen \in 0..MaxClears
  /\ waiting \in Seq(Clips) /\ unposted \in Seq(Clips)
  /\ rechecks \in Seq([clip : Clips, decision : Decisions \cup {Undecided}])
  /\ stamps \in Seq(0..MaxClears) /\ Len(stamps) <= MaxPosts
  /\ started \subseteq DOMAIN stamps /\ flight \in {0} \cup DOMAIN stamps
  /\ says \in Seq([who : Members, text : Texts])
  /\ thread \in [Members -> [pc : Pcs, clip : Clips \cup {NoClip}, final : Clips \cup {NoClip}]]
  /\ channel \in Seq(Clips) /\ worker \in Clips \cup {NoClip}
  /\ holder \in Members \cup {NoOne}
  /\ out \in Play!Outputs(Players)
  /\ clearing \in {"no", "bump", "interrupt"}
  /\ orphans \in 0..MaxGiveUps
  /\ overrun \subseteq Players

Drives(m) == thread[m].pc \in {"queued", "wait", "append", "rename", "speak", "locked"}

\* Every clip in the queue has a thread that will play it or drop it, except
\* those whose thread gave up: a clip without one blocks all that come after.
EveryClipIsDriven ==
  Len(waiting) = orphans + (IF Allows THEN Cardinality({m \in Members : Drives(m)}) ELSE 0)

\* A barge-in silences the room: a player of an old generation is on its way
\* to be killed, by the clear or by the thread that started it.  Not a player
\* that outlived a 120 s wait and was forgotten for the next line's.
StaleVoiceDies ==
  \A p \in out.alive : stamps[p[2]] # gen =>
    \/ clearing = "interrupt" /\ out.last = p
    \/ p[2] = flight /\ thread[p[1]].pc \in {"heard", "pipe", "heardWhole", "started"}
    \/ p \in overrun /\ out.last # p

RowAt(line) == SelectInSeq(rows, LAMBDA r : r = line)

\* What is heard is what the log says: a member has one row for each post, a note
\* or a line, and a line is spoken only with its row.  The order is the log's too,
\* unless two equal texts have waited: the queue tells clips apart by their text.
HeardAsLogged ==
  /\ \A i, j \in DOMAIN rows :
       i # j => rows[i].who # rows[j].who \/ rows[i].post # rows[j].post
  /\ ~alike => \A i, j \in DOMAIN spoken : i < j => RowAt(spoken[i]) <= RowAt(spoken[j])
  /\ \A i \in DOMAIN spoken : RowAt(spoken[i]) # 0

\* The room does not stall on a model, a player or a clear: the queue empties
\* unless a thread gave up.
RoomDoesNotStall == waiting # <<>> ~> (waiting = <<>> \/ orphans > 0)

===============================================================================
