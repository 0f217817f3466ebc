---------------------------------- MODULE Ask ----------------------------------
(***************************************************************************)
(* One ask from the line the operator sends to the last word of the answer *)
(* (softwake-daemon runtime.rs, tool_loop.rs, early_tts.rs, announce.rs).  *)
(* The model streams text in rounds, between which tools run.  Sentences   *)
(* are handed to speech threads as they are complete, and the rest when    *)
(* the answer is.  The ask holds the runtime lock; a CancelAsk does not    *)
(* wait for it, and speech goes on after it.                               *)
(*                                                                         *)
(* A text is a sequence of "word", a word or part of one; "stop", a full   *)
(* stop, which ends a sentence once a blank follows; "cry", a ! or ?,      *)
(* which ends one at the end of what came so far as well; and "blank".     *)
(***************************************************************************)
EXTENDS Naturals, Sequences, FiniteSets, SequencesExt

CONSTANTS
  Replies,     \* what the model may say in a round
  Deltas,      \* how many signs one delta of a stream may bring
  MinSentence, \* MIN_SENTENCE_CHARS
  MinTotal,    \* MIN_TOTAL_BEFORE_FIRST
  MaxRounds,   \* MAX_TOOL_ROUNDS
  MaxAsks, MaxCancels, MaxLines, \* bounds on the asks, the cancels, the spawned lines
  NoPlayer

ASSUME AskAssumption ==
  /\ Replies \subseteq Seq({"word", "stop", "cry", "blank"})
  /\ Deltas \subseteq Nat \ {0}
  /\ MinSentence \in Nat \ {0} /\ MinTotal \in Nat
  /\ MaxRounds \in Nat \ {0}
  /\ MaxAsks \in Nat /\ MaxCancels \in Nat /\ MaxLines \in Nat

VARIABLES
  ask,       \* the ask that holds the runtime lock, as AskStates
  asks,      \* how many there were
  cancelled, \* ask_cancel
  canceller, \* where a CancelAsk is
  cancels,   \* how many there were
  gen,       \* speak_generation
  line,      \* the speech threads; 0 is the ask itself, speaking
  lock,      \* who holds speak_lock
  player,    \* the player, as in Player
  said,      \* history: the text of this ask handed to speech since the round began
  late,      \* history: lines past their last look at a generation that is over
  hit        \* history: a cancel was set while this ask streams

askVars == <<ask, asks>>
cancelVars == <<cancelled, canceller, cancels>>
speechVars == <<line, lock, player>>
allVars == <<askVars, cancelVars, gen, speechVars, said, late, hit>>

Play == INSTANCE Player

Nobody == MaxLines + 1
Lines == 0..MaxLines
Players == Lines \X (1..MaxAsks) \X (1..2)
Off == [pc |-> "off", gen |-> 0, ask |-> 0]

-------------------------------------------------------------------------------
\* early_tts.rs.

IsBlank(text, i) == i \in DOMAIN text /\ text[i] = "blank"

\* The blanks after a sentence belong to it.
AfterBlanks(text, i) ==
  CHOOSE j \in i..Len(text) :
    /\ \A k \in i + 1..j : IsBlank(text, k)
    /\ ~IsBlank(text, j + 1)

Stops(text, from) ==
  {i \in from + 1..Len(text) :
     /\ \/ text[i] \in {"stop", "cry"} /\ IsBlank(text, i + 1)
        \/ text[i] = "cry" /\ i = Len(text)
     /\ i - from >= MinSentence}

Least(S) == CHOOSE i \in S : \A j \in S : i <= j

\* next_speakable_end, from itself where there is none.
NextEnd(text, from) ==
  IF Stops(text, from) = {} \/ (from = 0 /\ Len(text) < MinTotal) THEN from
  ELSE AfterBlanks(text, Least(Stops(text, from)))

\* mutant: an offset into an earlier round's text is kept, as its end.
KeepOffset(text, spoken) == IF spoken > Len(text) THEN Len(text) ELSE spoken

\* clamp_spoken_to_text: an offset past the text is one into an earlier round's.
Clamp(text, spoken) == IF spoken > Len(text) THEN 0 ELSE spoken

\* take_new_speech: how far the text is spoken now.
Taken(text, spoken) ==
  LET f[from \in 0..Len(text)] ==
        LET end == NextEnd(text, from) IN IF end = from THEN from ELSE f[end]
  IN f[Clamp(text, spoken)]

Trim(text) ==
  LET words == {i \in DOMAIN text : text[i] # "blank"} IN
  IF words = {} THEN <<>>
  ELSE SubSeq(text, Least(words), CHOOSE i \in words : \A j \in words : j <= i)

\* remainder_after.
Remainder(text, spoken) == Trim(SubSeq(text, Clamp(text, spoken) + 1, Len(text)))

-------------------------------------------------------------------------------
NoText == <<>>

\* What tool results and a confirmation that waits are reported with.
Snippets == <<"word", "word", "word">>
PendingText == <<"word", "word">>

Idle == [pc |-> "idle", round |-> 0, partial |-> NoText, content |-> NoText,
         spoken |-> 0, reply |-> NoText, streamed |-> FALSE, jumped |-> FALSE]

\* soft_finalize: the last text beside a tool call, or the tools' results.
SoftFinal(last) ==
  IF Trim(last) # NoText THEN Trim(last)
  ELSE IF ask.content # NoText THEN ask.content ELSE Snippets

IsLast == ask.round = MaxRounds

At(pc) == ask.pc = pc
Speaking(l) == line[l].pc \in {"stream", "heard", "pipe", "whole", "heardWhole"}

AskInit ==
  /\ ask = Idle /\ asks = 0
  /\ cancelled = FALSE /\ canceller = "no" /\ cancels = 0
  /\ gen = 1
  /\ line = [l \in Lines |-> Off] /\ lock = Nobody /\ player = Play!Silent
  /\ said = <<>> /\ late = {} /\ hit = FALSE

\* ask: the lock is taken and the flag cleared.
Begin ==
  /\ At("idle") /\ asks < MaxAsks
  /\ asks' = asks + 1
  /\ ask' = [Idle EXCEPT !.pc = "prepare"]
  /\ cancelled' = FALSE
  /\ said' = <<>> /\ hit' = FALSE
  /\ UNCHANGED <<canceller, cancels, gen, speechVars, late>>

\* A gate, the settings or the session refuse; chat_rejected.
Reject ==
  /\ At("prepare")
  /\ ask' = Idle
  /\ UNCHANGED <<asks, cancelVars, gen, speechVars, said, late, hit>>

\* prepare_ask_session is done: ask_disk clears the flag once more and begins
\* with cancel_speech.
Prepare ==
  /\ At("prepare")
  /\ ask' = [ask EXCEPT !.pc = "bump"]
  /\ cancelled' = FALSE
  /\ UNCHANGED <<asks, canceller, cancels, gen, speechVars, said, late, hit>>

\* The three steps of cancel_speech, by the ask and by a CancelAsk.
Bump ==
  /\ gen' = gen + 1
  /\ late' = late \cup {l \in Lines : Speaking(l)}
  /\ UNCHANGED <<speechVars, asks, cancelled, cancels, said, hit>>
Kill ==
  /\ player' = Play!Interrupted(player)
  /\ UNCHANGED <<gen, line, lock, asks, cancelled, cancels, said, late, hit>>
Unmute ==
  /\ player' = Play!Unmuted(player)
  /\ UNCHANGED <<gen, line, lock, asks, cancelled, cancels, said, late, hit>>

Silence ==
  /\ UNCHANGED canceller
  /\ \/ At("bump") /\ ask' = [ask EXCEPT !.pc = "kill"] /\ Bump
     \/ At("kill") /\ ask' = [ask EXCEPT !.pc = "unmute"] /\ Kill
     \/ At("unmute") /\ ask' = [ask EXCEPT !.pc = "round", !.round = 1] /\ Unmute

-------------------------------------------------------------------------------
\* run_tool_loop_with_hooks: each round asks first whether it was cancelled.
StartRound ==
  /\ At("round")
  /\ IF cancelled
     THEN ask' = [ask EXCEPT !.pc = "reply", !.reply = SoftFinal(NoText)]
     ELSE ask' = [ask EXCEPT !.pc = "stream", !.partial = NoText, !.streamed = TRUE,
                             !.jumped = FALSE]
  /\ said' = IF cancelled THEN said ELSE <<>>
  /\ UNCHANGED <<asks, cancelVars, gen, speechVars, late, hit>>

\* spawn_fixed_line stamps the thread with the generation there is.
SpawnedLine == [pc |-> "lock", gen |-> gen, ask |-> asks]

FreeLines ==
  {l \in Lines \ {0} :
     line[l].pc = "off" /\ \A k \in 1..2 : <<l, asks, k>> \notin player.alive \cup player.reaping}

\* spawn_fixed_line, with text from the answer.
Hand(text) ==
  /\ FreeLines # {}
  /\ LET l == Least(FreeLines) IN line' = [line EXCEPT ![l] = SpawnedLine]
  /\ said' = said \o text

\* One delta: note_disk_stream_delta speaks what is complete, then the flag
\* says whether the stream goes on.  The offset of an earlier round goes only
\* when it is past the first delta; else the round's beginning is not spoken,
\* which the history jumped keeps.
Delta(whole, n) ==
  LET partial == SubSeq(whole, 1, Len(ask.partial) + n)
      from == Clamp(partial, ask.spoken)
      to == Taken(partial, ask.spoken) IN
  /\ At("stream")
  /\ IsPrefix(ask.partial, whole) /\ Len(ask.partial) + n <= Len(whole)
  /\ ask' = [ask EXCEPT !.partial = partial, !.spoken = to,
                        !.jumped = @ \/ (ask.partial = NoText /\ ask.spoken \in 1..n),
                        !.pc = IF cancelled THEN "turn" ELSE "stream"]
  /\ IF to = from THEN UNCHANGED <<line, said>> ELSE Hand(SubSeq(partial, from + 1, to))
  /\ UNCHANGED <<asks, cancelVars, gen, lock, player, late, hit>>

StreamEnds ==
  /\ At("stream")
  /\ ask.partial \in Replies \cup {NoText}
  /\ ask' = [ask EXCEPT !.pc = "turn"]
  /\ UNCHANGED <<asks, cancelVars, gen, speechVars, said, late, hit>>

\* The provider fails: finish_tool_loop_ask rejects.
StreamFails ==
  /\ At("stream")
  /\ ask' = Idle
  /\ UNCHANGED <<asks, cancelVars, gen, speechVars, said, late, hit>>

\* A turn of text ends the loop; an empty one fails it, but not in the last round.
TextTurn ==
  /\ At("turn")
  /\ ask' = IF Trim(ask.partial) # NoText
            THEN [ask EXCEPT !.pc = "reply", !.reply = Trim(ask.partial)]
            ELSE IF IsLast
            THEN [ask EXCEPT !.pc = "reply", !.reply = SoftFinal(NoText), !.streamed = FALSE]
            ELSE Idle
  /\ UNCHANGED <<asks, cancelVars, gen, speechVars, said, late, hit>>

\* mutant: the last round runs tools like any other.
ToolTurnUncapped ==
  LET content == IF Trim(ask.partial) # NoText THEN Trim(ask.partial) ELSE ask.content IN
  /\ At("turn")
  /\ ask' = [ask EXCEPT !.pc = "round", !.content = content, !.streamed = FALSE]
  /\ UNCHANGED <<asks, cancelVars, gen, speechVars, said, late, hit>>

\* Tool calls run, also those of a stream that was cancelled, and their results
\* go back to the model; the last round ends the loop instead.
ToolTurn ==
  LET content == IF Trim(ask.partial) # NoText THEN Trim(ask.partial) ELSE ask.content IN
  /\ At("turn")
  /\ ask' = IF IsLast
            THEN [ask EXCEPT !.pc = "reply", !.reply = SoftFinal(ask.partial),
                    !.streamed = Trim(ask.partial) # NoText]
            ELSE [ask EXCEPT !.pc = "round", !.round = @ + 1, !.content = content,
                    !.streamed = FALSE]
  /\ UNCHANGED <<asks, cancelVars, gen, speechVars, said, late, hit>>

\* A call that waits for Approve ends the loop with a sentence about it.
PendingTurn ==
  /\ At("turn") /\ ~IsLast
  /\ ask' = [ask EXCEPT !.pc = "reply", !.reply = PendingText, !.streamed = FALSE]
  /\ UNCHANGED <<asks, cancelVars, gen, speechVars, said, late, hit>>

-------------------------------------------------------------------------------
\* finish_ask_reply: the rest is queued behind the early sentences, or spoken
\* by the ask itself when there were none.
Finish ==
  LET rest == Remainder(ask.reply, ask.spoken) IN
  /\ At("reply")
  /\ IF rest = NoText
     THEN ask' = [ask EXCEPT !.pc = "done"] /\ UNCHANGED <<line, said, player>>
     ELSE IF ask.spoken > 0
     THEN ask' = [ask EXCEPT !.pc = "done"] /\ Hand(rest) /\ UNCHANGED player
     ELSE /\ ask' = [ask EXCEPT !.pc = "speak"]
          /\ line' = [line EXCEPT ![0] = [pc |-> "stream", gen |-> gen, ask |-> asks]]
          /\ said' = said \o rest
          /\ UNCHANGED player
  /\ UNCHANGED <<asks, cancelVars, gen, lock, late, hit>>

\* The desktop does not speak, or the ambient latch puts it to sleep.
FinishSilently ==
  /\ At("reply")
  /\ ask' = Idle
  /\ UNCHANGED <<asks, cancelVars, gen, speechVars, said, late, hit>>

Release ==
  /\ At("done") \/ (At("speak") /\ line[0].pc = "off")
  /\ ask' = Idle
  /\ UNCHANGED <<asks, cancelVars, gen, speechVars, said, late, hit>>

-------------------------------------------------------------------------------
\* cancel_ask_outcome: the flag, the three steps, and, when no ask holds the
\* lock, the flag again.
CancelAsk ==
  /\ canceller = "no" /\ cancels < MaxCancels
  /\ cancels' = cancels + 1
  /\ cancelled' = TRUE
  /\ canceller' = "bump"
  /\ hit' = (hit \/ ask.pc \in {"bump", "kill", "unmute", "round", "stream", "turn"})
  /\ UNCHANGED <<askVars, gen, speechVars, said, late>>

CancelSpeech ==
  /\ UNCHANGED ask
  /\ \/ canceller = "bump" /\ canceller' = "kill" /\ Bump
     \/ canceller = "kill" /\ canceller' = "unmute" /\ Kill
     \/ canceller = "unmute" /\ canceller' = "try" /\ Unmute

\* mutant: the flag is cleared whether or not an ask holds the lock.
TryClearAlways ==
  /\ canceller = "try"
  /\ canceller' = "no"
  /\ cancelled' = FALSE
  /\ UNCHANGED <<askVars, cancels, gen, speechVars, said, late, hit>>

TryClear ==
  /\ canceller = "try"
  /\ canceller' = "no"
  /\ cancelled' = IF At("idle") THEN FALSE ELSE cancelled
  /\ UNCHANGED <<askVars, cancels, gen, speechVars, said, late, hit>>

-------------------------------------------------------------------------------
\* A speech thread: the lock, the generation, quiet, the generation again.
Goto(l, pc) == line' = [line EXCEPT ![l].pc = pc]
Current(l) == line[l].gen = gen

TakeLock(l) ==
  /\ line[l].pc = "lock" /\ lock = Nobody
  /\ IF Current(l) THEN lock' = l /\ Goto(l, "idle")
                   ELSE line' = [line EXCEPT ![l] = Off] /\ UNCHANGED lock
  /\ UNCHANGED <<askVars, cancelVars, gen, player, said, late, hit>>

\* mutant: the wait is over and the generation is not looked at again.
WaitIdleUnchecked(l) ==
  /\ line[l].pc = "idle" /\ ~Play!Muted(player)
  /\ Goto(l, "stream")
  /\ UNCHANGED <<askVars, cancelVars, gen, lock, player, said, late, hit>>

WaitIdle(l) ==
  /\ line[l].pc = "idle" /\ ~Play!Muted(player)
  /\ IF Current(l) THEN Goto(l, "stream") /\ UNCHANGED lock
                   ELSE line' = [line EXCEPT ![l] = Off] /\ lock' = Nobody
  /\ UNCHANGED <<askVars, cancelVars, gen, player, said, late, hit>>

\* speak_reply_with_interrupt: the voice service streams into a player, or what
\* it says is fetched again as a whole.  Only the ask itself interrupts.
Attempt(l) == IF line[l].pc \in {"stream", "heard", "pipe"} THEN 1 ELSE 2
PlayerOf(l) == <<l, line[l].ask, Attempt(l)>>

Spawn(l) ==
  LET before == IF l = 0 THEN Play!Interrupted(player) ELSE player IN
  /\ line[l].pc \in {"stream", "whole"}
  /\ player' = Play!Spawned(before, PlayerOf(l))
  /\ Goto(l, IF line[l].pc = "stream" THEN "heard" ELSE "heardWhole")
  /\ UNCHANGED <<askVars, cancelVars, gen, lock, said, late, hit>>

Over(l) ==
  /\ line' = [line EXCEPT ![l] = Off]
  /\ lock' = IF lock = l THEN Nobody ELSE lock
  /\ late' = late \ {l}

SpawnFails(l) ==
  /\ \/ line[l].pc \in {"stream", "whole"}
     \/ line[l].pc \in {"heard", "heardWhole"} /\ PlayerOf(l) \notin player.alive
  /\ IF Attempt(l) = 1 THEN Goto(l, "whole") /\ UNCHANGED <<lock, late>> ELSE Over(l)
  /\ UNCHANGED <<askVars, cancelVars, gen, player, said, hit>>

Remember(l) ==
  LET p == PlayerOf(l)
      heard == Play!Remembered(player, p) IN
  /\ p \in player.alive
  /\ \/ /\ line[l].pc = "heard"
        /\ player' = heard /\ Goto(l, "pipe") /\ UNCHANGED <<lock, late>>
     \/ line[l].pc = "heardWhole" /\ player' = Play!HandedOver(heard, p) /\ Over(l)
  /\ UNCHANGED <<askVars, cancelVars, gen, said, hit>>

StreamDone(l) ==
  /\ line[l].pc = "pipe"
  /\ player' = Play!HandedOver(player, PlayerOf(l))
  /\ Over(l)
  /\ UNCHANGED <<askVars, cancelVars, gen, said, hit>>

StreamBreaks(l) ==
  /\ line[l].pc = "pipe"
  /\ player' = Play!Aborted(player, PlayerOf(l))
  /\ Goto(l, "whole")
  /\ UNCHANGED <<askVars, cancelVars, gen, lock, said, late, hit>>

PlayerEnds(p) ==
  /\ p \in player.alive
  /\ player' = Play!Ended(player, p)
  /\ UNCHANGED <<askVars, cancelVars, gen, line, lock, said, late, hit>>
Reap(p) ==
  /\ p \in player.reaping \ player.alive
  /\ player' = Play!Reaped(player, p)
  /\ UNCHANGED <<askVars, cancelVars, gen, line, lock, said, late, hit>>
GraceEnds ==
  /\ player.grace
  /\ player' = Play!GraceOver(player)
  /\ UNCHANGED <<askVars, cancelVars, gen, line, lock, said, late, hit>>

-------------------------------------------------------------------------------
AskStep ==
  \/ Begin \/ Reject \/ Prepare \/ Silence \/ StartRound \/ StreamEnds \/ StreamFails
  \/ (\E whole \in Replies, n \in Deltas : Delta(whole, n))
  \/ TextTurn \/ ToolTurn \/ PendingTurn \/ Finish \/ FinishSilently \/ Release
CancelStep == CancelAsk \/ CancelSpeech \/ TryClear
LineStep(l) ==
  \/ TakeLock(l) \/ WaitIdle(l) \/ Spawn(l) \/ SpawnFails(l) \/ Remember(l)
  \/ StreamDone(l) \/ StreamBreaks(l)
SoundStep == (\E p \in Players : PlayerEnds(p) \/ Reap(p)) \/ GraceEnds

AskNext == AskStep \/ CancelStep \/ (\E l \in Lines : LineStep(l)) \/ SoundStep

\* A request ends (it has a timeout), a thread goes on, sound ends.
Fairness ==
  /\ WF_allVars(AskStep /\ asks' = asks)
  /\ \A l \in Lines : WF_allVars(LineStep(l))
  /\ WF_allVars(SoundStep)

AskSpec == AskInit /\ [][AskNext]_allVars /\ Fairness

-------------------------------------------------------------------------------
AskPcs == {"idle", "prepare", "bump", "kill", "unmute", "round", "stream", "turn",
           "reply", "speak", "done"}
LinePcs == {"off", "lock", "idle", "stream", "heard", "pipe", "whole", "heardWhole"}

AskTypeOK ==
  /\ ask.pc \in AskPcs /\ ask.round \in 0..MaxRounds
  /\ ask.spoken \in Nat
  /\ asks \in 0..MaxAsks /\ cancels \in 0..MaxCancels /\ cancelled \in BOOLEAN
  /\ canceller \in {"no", "bump", "kill", "unmute", "try"}
  /\ gen \in 1..1 + MaxAsks + MaxCancels
  /\ line \in [Lines -> [pc : LinePcs, gen : 0..1 + MaxAsks + MaxCancels, ask : 0..MaxAsks]]
  /\ lock \in Lines \cup {Nobody}
  /\ player \in Play!Outputs(Players)
  /\ late \subseteq Lines /\ hit \in BOOLEAN

\* The text is all that the answer says: it leaves out one run of blanks at most.
Says(text, reply) ==
  \E i \in 0..Len(reply) : \E j \in i..Len(reply) :
    /\ text = SubSeq(reply, 1, i) \o SubSeq(reply, j + 1, Len(reply))
    /\ \A k \in i + 1..j : reply[k] = "blank"

Answered == At("done") \/ At("speak")

\* What the operator hears of an answer is the answer: the sentences handed over
\* while it streamed and the rest are its words in their order, once each, whichever
\* rounds came before.  The answer has to have streamed, to have no blank at its ends,
\* and to have come in a first delta shorter than what an earlier round had spoken.
SaidAsStreamed ==
  Answered /\ ask.streamed /\ Trim(ask.partial) = ask.partial /\ ~ask.jumped
    => Says(said, ask.reply)

\* A new ask or a cancel drops the speech queue: a line that had not had its last
\* look at the generation is never spoken, and one line at most had.
QueueIsDropped ==
  /\ \A l \in Lines : Speaking(l) => Current(l) \/ l \in late
  /\ Cardinality(late \ {0}) <= 1

\* A cancel that finds the stream running keeps the ask from calling the model
\* again, whichever tools still run and whoever clears the flag.
CancelEndsRounds ==
  [][hit /\ hit' => ~(ask.pc = "round" /\ ask'.pc = "stream")]_allVars

\* Every ask ends, however often the model calls tools: the lock is free again.
AskEnds == ~At("idle") ~> At("idle")

===============================================================================
