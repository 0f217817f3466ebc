------------------------------- MODULE Runtime -------------------------------
(***************************************************************************)
(* The daemon's Runtime (softwake-daemon/src/runtime.rs): the voice machine *)
(* together with what it switches on and off -- capture, the text session, *)
(* press-to-talk, free speech, and the spoken question before a mode change *)
(* (mode_confirm.rs) -- and the serve thread that takes a finished clip and *)
(* asks it later (serve.rs handle_next).                                   *)
(*                                                                         *)
(* A handler holds the runtime lock from start to end, so each is one step *)
(* built from operators on the record rt.  One handler may make two        *)
(* transitions: audio drained first, then the command itself.  An ask that *)
(* reaches the model is several steps -- its beginning, the tool calls of  *)
(* the model that change the voice state, the reply -- with the lock held  *)
(* by "turn" throughout.                                                   *)
(***************************************************************************)
EXTENDS Integers, Sequences

CONSTANTS
  PostWake, PostSleep, \* phrase cooldowns of the machine
  ConfirmWindow,       \* how long a question waits
  FuzzyCooldown,       \* least gap between two "were you trying to wake me?"
  MaxNow,              \* bound on the wall clock
  None                 \* no question

VARIABLES
  rt,    \* the Runtime struct
  wall,  \* Instant::now
  soul,  \* the pack on disk loads
  mic,   \* the capture device opens
  job,   \* a serve thread holds a clip it took and will ask
  turn,  \* the ask the model is working on, under the lock: how it came in
  out    \* history: what the last handler told clients, in order

vars == <<rt, wall, soul, mic, job, turn, out>>

VM == INSTANCE VoiceMachine
  WITH state <- rt.state, now <- rt.now, gate <- rt.gate,
       since <- rt.since, last <- rt.last

Kind == {"Sleep", "Hibernate", "FuzzyWake"}

ASSUME RuntimeAssumption ==
  /\ {PostWake, PostSleep, MaxNow} \subseteq Nat
  /\ {ConfirmWindow, FuzzyCooldown} \subseteq Nat \ {0}
  /\ None \notin [kind : Kind, deadline : Nat]

Text == {"/sleep", "/hibernate", "/resume", "yes", "no", "wake up",
         "go to sleep", "hibernate", "hello"}
Hit == {"None", "Wake", "Sleep", "Hibernate"}

\* What one drain of the capture queue holds: the first phrase scored, a near
\* miss of a wake phrase, and how far a free-speech utterance came ("muffled"
\* while a reply plays or has just played).
Frames == { fr \in [hit : Hit, near : BOOLEAN,
                    speech : {"none", "partial", "whole", "muffled"}] :
              fr.near => fr.hit = "None" /\ fr.speech = "none" }

\* While the button is held free speech is off, so only phrases are scored.
HeldFrames == {fr \in Frames : fr.speech = "none"}

Request == {"GetStatus", "ReloadSoul", "Hibernate", "WakeFromUi", "Sleep"}

\* The softwake_* tools that touch the voice state or reload the pack.
CtlEffect == {"Sleep", "Hibernate", "Resume", "Refresh"}

\* Typed, held down to talk, or free speech.
AskFrom == {"typed", "held", "free"}

-----------------------------------------------------------------------------
(* The question before a mode change. *)

\* mutant: a question is still open at its deadline, and after it.
ExpiredNever(r) == r

Expired(r) ==
  IF r.mode # None /\ wall >= r.mode.deadline THEN [r EXCEPT !.mode = None] ELSE r

FuzzyCooled(r) == wall - r.asked >= FuzzyCooldown

FuzzyAllowed(r) ==
  /\ r.mode = None
  /\ FuzzyCooled(r)
  /\ ~VM!PhraseCooling(r.gate, r.now, "WakePhrase")

Arm(r, kind) ==
  IF r.mode # None \/ (kind = "FuzzyWake" /\ ~FuzzyCooled(r)) THEN r
  ELSE [r EXCEPT !.mode = [kind |-> kind, deadline |-> wall + ConfirmWindow],
                 !.asked = IF kind = "FuzzyWake" THEN wall ELSE @]

-----------------------------------------------------------------------------
(* Voice transitions.  r.out collects the StateChanged events. *)

Does(s, e, effect) ==
  \E i \in DOMAIN VM!Effects(s, e) : VM!Effects(s, e)[i] = effect

\* mutant: leaving awake forgets the held button.
ReleasedKeepsTalk(r) ==
  [r EXCEPT !.session = FALSE, !.utt = FALSE, !.clip = FALSE]

\* mutant: leaving awake forgets the clip that waits to be asked.
ReleasedKeepsClip(r) ==
  [r EXCEPT !.session = FALSE, !.talk = FALSE, !.utt = FALSE]

Released(r) ==
  [r EXCEPT !.session = FALSE, !.talk = FALSE, !.utt = FALSE, !.clip = FALSE]

EffectsOf(r, e) ==
  LET q == IF Does(r.state, e, "ReleaseActingResources") THEN Released(r) ELSE r
  IN  [q EXCEPT !.session = @ \/ Does(r.state, e, "OpenSession"),
                !.capture = CASE Does(r.state, e, "StopCapture") -> FALSE
                              [] Does(r.state, e, "StartCapture") -> mic
                              [] OTHER -> @]

\* mutant: a transition leaves the question waiting.
EnteredKeepsQuestion(r, e) ==
  [EffectsOf(r, e) EXCEPT
     !.state = VM!Target(e), !.gate = VM!ArmCooldown(r.now, e),
     !.since = r.now, !.last = e, !.out = Append(@, VM!Target(e))]

Entered(r, e) ==
  [EffectsOf(r, e) EXCEPT
     !.state = VM!Target(e), !.gate = VM!ArmCooldown(r.now, e),
     !.since = r.now, !.last = e, !.out = Append(@, VM!Target(e)),
     !.mode = None]

Ticked(r) == [Expired(r) EXCEPT !.now = wall]

\* tick, then apply_voice: a rejection keeps the clock that was advanced.
ApplyVoice(r, e) ==
  LET q == Ticked(r)
  IN  IF VM!Accepts(q.state, q.gate, q.now, e) THEN Entered(q, e) ELSE q

WakePhrase(r) == IF soul THEN ApplyVoice(r, "WakePhrase") ELSE Ticked(r)

-----------------------------------------------------------------------------
(* drain_pcm: what was heard since the last drain. *)

\* Free speech is listened to.
AutoOk(r) == /\ r.state = "Awake"
             /\ ~r.voice_test /\ ~r.talk /\ ~r.clip /\ ~r.muted

Listened(r, fr) ==
  IF ~AutoOk(r) \/ fr.speech = "muffled" THEN [r EXCEPT !.utt = FALSE]
  ELSE CASE fr.speech = "partial" /\ r.capture -> [r EXCEPT !.utt = TRUE]
         [] fr.speech = "whole" /\ r.capture -> [r EXCEPT !.utt = FALSE, !.clip = TRUE]
         [] OTHER -> r

ApplyPcmHit(r, hit) ==
  CASE hit = "Wake" /\ r.state = "Sleep" -> WakePhrase(r)
    [] hit = "Sleep" /\ r.state = "Awake" -> ApplyVoice(r, "SleepPhrase")
    [] hit = "Hibernate" /\ r.state # "Hibernate" -> ApplyVoice(r, "HibernatePhrase")
    [] OTHER -> r

\* A near miss asks only when nothing fired.
ArmFuzzyFromProbe(r) ==
  IF r.state = "Sleep" /\ FuzzyAllowed(r) THEN Arm(r, "FuzzyWake") ELSE r

DrainPcm(r, fr) ==
  LET l == Listened(r, fr)
  IN  IF ~r.capture \/ r.muted THEN l
      ELSE IF fr.near THEN ArmFuzzyFromProbe(l) ELSE ApplyPcmHit(l, fr.hit)

-----------------------------------------------------------------------------
(* Text that reached the ask path. *)

CommitMode(r, kind) ==
  LET q == [r EXCEPT !.mode = None]
  IN  CASE kind = "Sleep" -> ApplyVoice(q, "SleepPhrase")
        [] kind = "Hibernate" -> ApplyVoice(q, "HibernatePhrase")
        [] kind = "FuzzyWake" -> WakePhrase(q)

\* A wake phrase is a yes to the wake question only.  Anything unclear keeps
\* the wake question and drops the others.
ReplyToMode(r, text) ==
  CASE text = "yes" \/ (text = "wake up" /\ r.mode.kind = "FuzzyWake") ->
         CommitMode(r, r.mode.kind)
    [] text = "no" -> [r EXCEPT !.mode = None]
    [] OTHER -> IF r.mode.kind = "FuzzyWake" \/ r.state # "Awake" THEN r
                ELSE [r EXCEPT !.mode = None]

RouteModeAsk(r, text) ==
  CASE r.mode # None -> ReplyToMode(r, text)
    [] r.mode = None /\ r.state = "Awake" /\ text = "go to sleep" -> Arm(r, "Sleep")
    [] r.mode = None /\ r.state = "Awake" /\ text = "hibernate" -> Arm(r, "Hibernate")
    [] r.mode = None /\ r.state = "Sleep" /\ text = "wake up" /\ FuzzyAllowed(r) ->
         Arm(r, "FuzzyWake")
    [] OTHER -> r

\* Slash commands come first and ask no question.
Ask(r, text) ==
  CASE text = "/sleep" -> ApplyVoice(r, "SleepPhrase")
    [] text = "/hibernate" -> ApplyVoice(r, "HibernatePhrase")
    [] text = "/resume" -> IF r.state = "Hibernate" THEN ApplyVoice(r, "UiResume") ELSE r
    [] OTHER -> RouteModeAsk(Expired(r), text)

\* No slash command, no question answered or asked: the text goes to the model,
\* which wants an open session.
ToModel(r, text) ==
  LET q == Expired(r)
  IN  /\ text \notin {"/sleep", "/hibernate", "/resume"}
      /\ q.state = "Awake" /\ q.session
      /\ \/ q.mode = None /\ text \notin {"go to sleep", "hibernate"}
         \/ q.mode # None /\ q.mode.kind # "FuzzyWake" /\ text \notin {"yes", "no"}

\* apply_ctl_effect.
Ctl(r, effect) ==
  CASE effect = "Sleep" -> ApplyVoice(r, "SleepPhrase")
    [] effect = "Hibernate" -> ApplyVoice(r, "HibernatePhrase")
    [] effect = "Resume" /\ r.state = "Hibernate" -> ApplyVoice(r, "UiResume")
    [] OTHER -> r

\* finish_ask_reply: the reply ends the utterance being heard.  One to free
\* speech may put Runtime to sleep: the latch that breaks a loop with the room
\* does before the utterance is ended, a reply that says it sleeps does after.
Replied(r, from) ==
  LET q == [r EXCEPT !.utt = FALSE]
  IN  {q} \cup IF from = "free"
               THEN {ApplyVoice(r, "SleepPhrase"), ApplyVoice(q, "SleepPhrase")} ELSE {}

-----------------------------------------------------------------------------
Runtime0 ==
  [state |-> "Sleep", now |-> 0, gate |-> VM!Open, since |-> -PostSleep,
   last |-> "UiSleep", capture |-> mic, session |-> FALSE, talk |-> FALSE,
   utt |-> FALSE, clip |-> FALSE, mode |-> None, asked |-> -FuzzyCooldown,
   muted |-> FALSE, voice_test |-> FALSE, out |-> <<>>]

Init ==
  /\ wall = 0
  /\ soul = TRUE
  /\ mic \in BOOLEAN
  /\ rt = Runtime0
  /\ job = FALSE
  /\ turn = "no"
  /\ out = <<>>

\* The handler left Runtime as r and told clients the events in sent.
Done(r, sent) ==
  /\ rt' = [r EXCEPT !.out = <<>>]
  /\ out' = sent

\* mutant: the events of the drain are dropped.
ToldByCommand(r, d) == r.out

\* outcome.events.append(&mut pcm_events).
Told(r, d) == r.out \o d.out

\* Runtime::handle, then handle_next takes the clip that is ready, both under
\* one lock.  The command's own events go out before those of the drain.
Handle(command, fr) ==
  LET d == DrainPcm(Expired(rt), fr)
      q == [d EXCEPT !.out = <<>>]
      r == CASE command = "Hibernate" -> ApplyVoice(q, "UiHibernate")
             [] command = "WakeFromUi" -> ApplyVoice(q, "UiResume")
             [] command = "Sleep" -> ApplyVoice(q, "UiSleep")
             [] OTHER -> q
  IN  /\ turn = "no"
      /\ r.clip => ~job          \* bound: one clip in flight
      /\ Done([r EXCEPT !.clip = FALSE], Told(r, d))
      /\ job' = (job \/ r.clip)
      /\ soul' \in IF command = "ReloadSoul" THEN BOOLEAN ELSE {soul}
      /\ UNCHANGED <<wall, mic, turn>>

\* Wake from a client, a webhook, or the boot of serve.
Wake ==
  /\ turn = "no"
  /\ LET r == WakePhrase(rt) IN Done(r, r.out)
  /\ UNCHANGED <<wall, soul, mic, job, turn>>

\* Press-to-talk takes over from free speech.
TalkReady(r) == [r EXCEPT !.utt = FALSE, !.clip = FALSE]

SpeechDropped(r) == [r EXCEPT !.utt = FALSE, !.clip = FALSE, !.talk = FALSE]

\* talk_start.  What the drain changes is not told.
TalkStart(fr) ==
  /\ turn = "no"
  /\ LET q == TalkReady(rt)
         r == IF q.state = "Sleep" THEN WakePhrase(q) ELSE q
         refused == rt.muted \/ rt.state = "Hibernate"
     IN  CASE rt.voice_test -> Done(SpeechDropped(rt), <<>>)
           [] ~rt.voice_test /\ refused -> Done(rt, <<>>)
           [] ~rt.voice_test /\ ~refused /\ r.state # "Awake" -> Done(r, <<>>)
           [] OTHER -> Done(DrainPcm([r EXCEPT !.talk = TRUE], fr), r.out)
  /\ UNCHANGED <<wall, soul, mic, job, turn>>

\* What an utterance tells besides the events of its ask.
Transcript(from) == IF from = "typed" THEN <<>> ELSE <<"Transcript">>

\* An ask that reaches the model keeps the lock, and tells when it is over.
Asked(r, text, from) ==
  LET a == Ask(r, text)
  IN  IF ToModel(r, text) THEN turn' = from /\ Done(a, <<>>)
      ELSE turn' = "no" /\ Done(a, Transcript(from) \o a.out)

\* The handler left Runtime as r and asked nothing.
Quiet(r) == Done(r, <<>>) /\ turn' = "no"

\* talk_stop: the held clip is transcribed and asked in the same step, as
\* text, unless it is too short or the drain has put Runtime to sleep.
TalkStop(fr, text) ==
  /\ turn = "no"
  /\ LET d == DrainPcm(rt, fr)
         q == [d EXCEPT !.talk = FALSE, !.out = <<>>]
     IN  CASE rt.voice_test -> Quiet(SpeechDropped(rt))
           [] ~rt.voice_test /\ ~rt.talk -> Quiet(rt)
           [] ~rt.voice_test /\ rt.talk /\ (~d.talk \/ text = "") -> Quiet(q)
           [] OTHER -> Asked(q, text, "held")
  /\ UNCHANGED <<wall, soul, mic, job>>

\* A typed line, or a slash command.
AskText(text) ==
  /\ turn = "no"
  /\ Asked(rt, text, "typed")
  /\ UNCHANGED <<wall, soul, mic, job>>

\* The serve thread gets the lock again with the clip it took; no text when it
\* cannot be transcribed.
AskClip(text) ==
  /\ turn = "no"
  /\ job
  /\ job' = FALSE
  /\ CASE rt.voice_test -> Quiet(SpeechDropped(rt))
       [] ~rt.voice_test /\ text = "" -> Quiet(rt)
       [] OTHER -> Asked(rt, text, "free")
  /\ UNCHANGED <<wall, soul, mic>>

\* A softwake_* tool runs, of the ask in progress or of a call that is made
\* without one: a Telegram message, a scheduled task, a peer, a confirm.  Its
\* outcome is dropped, with the events in it.  Hands runs a tool only while
\* awake; what a tool frame left there may be drained by a later call.
ToolEffect(effect) ==
  /\ turn # "no" => rt.state = "Awake"
  /\ Done(Ctl(rt, effect), <<>>)
  /\ soul' \in IF effect = "Refresh" THEN BOOLEAN ELSE {soul}
  /\ UNCHANGED <<wall, mic, job, turn>>

\* The model answers, or fails.  A reply needs the session: none is finished
\* after a tool that closed it.
TurnEnds ==
  /\ turn # "no"
  /\ turn' = "no"
  /\ \E r \in {rt} \cup (IF rt.session THEN Replied(rt, turn) ELSE {}) :
       Done(r, Transcript(turn) \o r.out)
  /\ UNCHANGED <<wall, soul, mic, job>>

SetVoiceTest(enabled) ==
  /\ turn = "no"
  /\ Done([(IF enabled THEN SpeechDropped(rt) ELSE rt) EXCEPT !.voice_test = enabled], <<>>)
  /\ UNCHANGED <<wall, soul, mic, job, turn>>

\* mutant: muting leaves press-to-talk armed.
MutedKeepsTalk(r, muted) ==
  [(IF muted THEN [r EXCEPT !.utt = FALSE, !.clip = FALSE] ELSE r) EXCEPT !.muted = muted]

Muted(r, muted) ==
  [(IF muted THEN SpeechDropped(r) ELSE r) EXCEPT !.muted = muted]

SetMicMute(muted) ==
  /\ turn = "no"
  /\ Done(Muted(rt, muted), <<>>)
  /\ UNCHANGED <<wall, soul, mic, job, turn>>

\* Time passes; the capture device comes or goes.
Tick ==
  /\ wall < MaxNow
  /\ wall' = wall + 1
  /\ out' = <<>>
  /\ UNCHANGED <<rt, soul, mic, job, turn>>

MicChanges ==
  /\ mic' = ~mic
  /\ out' = <<>>
  /\ UNCHANGED <<rt, wall, soul, job, turn>>

Next ==
  \/ \E command \in Request, fr \in Frames : Handle(command, fr)
  \/ Wake
  \/ \E fr \in HeldFrames : TalkStart(fr)
  \/ \E fr \in HeldFrames, text \in Text \cup {""} : TalkStop(fr, text)
  \/ \E text \in Text : AskText(text)
  \/ \E text \in Text \cup {""} : AskClip(text)
  \/ \E effect \in CtlEffect : ToolEffect(effect)
  \/ TurnEnds
  \/ \E b \in BOOLEAN : SetVoiceTest(b) \/ SetMicMute(b)
  \/ Tick
  \/ MicChanges

Spec == Init /\ [][Next]_vars

-----------------------------------------------------------------------------
TypeOK ==
  /\ rt \in [state : VM!VoiceState, now : 0..wall, gate : VM!PhraseGate,
             since : Int, last : VM!Event, capture : BOOLEAN, session : BOOLEAN,
             talk : BOOLEAN, utt : BOOLEAN, clip : BOOLEAN,
             mode : [kind : Kind, deadline : Nat] \cup {None}, asked : Int,
             muted : BOOLEAN, voice_test : BOOLEAN, out : {<<>>}]
  /\ wall \in 0..MaxNow
  /\ soul \in BOOLEAN /\ mic \in BOOLEAN /\ job \in BOOLEAN
  /\ turn \in AskFrom \cup {"no"}

(* The session is open exactly while awake, nothing that was being said -- a
   held button, a half-heard utterance -- is left over after it, and no frame is
   captured in hibernate, however each was entered (docs/02-voice-states.md
   invariants 2 and 3; apply_effects). *)
AwakeHoldsItAll ==
  /\ rt.session <=> rt.state = "Awake"
  /\ rt.state # "Awake" => ~rt.talk /\ ~rt.utt
  /\ rt.state = "Hibernate" => ~rt.capture

(* A clip leaves for the chat only from an awake Runtime: speech that was
   finished in the same batch of frames as a sleep phrase, or just before a
   sleep command, is not taken by the serve thread (apply_effects drops
   pending_auto_pcm; serve.rs handle_next takes it). *)
ClipsLeaveAwake ==
  [][ (~job /\ job') => rt'.state = "Awake" /\ ~rt.muted /\ ~rt.voice_test ]_vars

(* A question that waits is one the present state can answer: a yes to "sleep
   now?" never reaches a daemon that has since fallen asleep and woken again
   for another reason (runtime.rs apply_voice clears the question). *)
QuestionFitsState ==
  rt.mode # None =>
    /\ rt.mode.kind = "FuzzyWake" <=> rt.state = "Sleep"
    /\ rt.state # "Hibernate"
    /\ rt.mode.deadline >= rt.since

(* One listener owns the speech: a held button excludes free speech, and
   neither collects anything while the mic is muted or under voice test
   (runtime.rs talk_start, set_mic_mute, set_voice_test). *)
OneListener ==
  /\ rt.talk => ~rt.utt
  /\ rt.muted \/ rt.voice_test => ~rt.talk /\ ~rt.utt

(* A bare "yes" changes the state by itself only while its question is open,
   within the window, and only to what was asked (docs/02-voice-states.md "The
   wait is 15 seconds from the question"); it is either the answer or a line for
   the model, never both.  A typed line that the model works on changes the state
   by its tools only, and those only leave awake. *)
YesInTime ==
  [][ LET waits == rt.mode # None /\ wall < rt.mode.deadline
      IN  /\ rt'.state # rt.state /\ AskText("yes") =>
               waits /\ rt'.state = CASE rt.mode.kind = "FuzzyWake" -> "Awake"
                                      [] OTHER -> rt.mode.kind
          /\ turn' = "typed" /\ AskText("yes") => ~waits
          /\ turn = "typed" /\ rt'.state # rt.state =>
               rt.state = "Awake" /\ rt'.state \in {"Sleep", "Hibernate"} ]_vars

(* Every change of state is told to the clients by the handler that made it,
   also the second of two and the one by a reply to free speech.  Two kinds of
   change are told to nobody, against ADR-0003:23 "A state change is broadcast as
   `state_changed`": a phrase heard in the frames that press-to-talk drains
   (runtime.rs:2190, 2210, 2238), and a softwake_* tool of the model
   (runtime.rs:1203-1216). *)
ChangesAreTold ==
  [][ (rt'.state # rt.state /\ \A i \in DOMAIN out' : out'[i] # rt'.state) =>
        \/ \E fr \in HeldFrames :
             TalkStart(fr) \/ \E text \in Text \cup {""} : TalkStop(fr, text)
        \/ \E effect \in CtlEffect : ToolEffect(effect) ]_vars
=============================================================================
