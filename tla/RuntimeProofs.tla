----------------------------- MODULE RuntimeProofs -----------------------------
(***************************************************************************)
(* Proofs about Runtime, for every cooldown, window and clock bound, and   *)
(* about Ask, for every set of answers and number of rounds, cancels and   *)
(* lines.                                                                  *)
(*                                                                         *)
(* A handler of Runtime is a composition of operators on the record rt, so *)
(* there is one lemma per operator: from a good record it makes a good     *)
(* one, and a state it changes is among the events it collected.  Ask has  *)
(* lemmas about its texts first, and then one per part of its invariant    *)
(* and group of steps.                                                     *)
(***************************************************************************)
EXTENDS Runtime, Ask, SequenceTheorems, FiniteSetTheorems, TLAPS

Record ==
  [state : VM!VoiceState, now : Nat, gate : VM!PhraseGate, since : Int,
   last : VM!Event, capture : BOOLEAN, session : BOOLEAN, talk : BOOLEAN,
   utt : BOOLEAN, clip : BOOLEAN, mode : [kind : Kind, deadline : Nat] \cup {None},
   asked : Int, muted : BOOLEAN, voice_test : BOOLEAN, out : Seq(VM!VoiceState)]

(* What every handler leaves, and every operator inside a handler: the clip
   that waits is added to what OneListener and AwakeHoldsItAll speak of, and the
   clock of the machine to what a deadline is compared with. *)
Good(r) ==
  /\ r \in Record
  /\ r.since <= r.now /\ r.now <= wall
  /\ r.session <=> r.state = "Awake"
  /\ r.state # "Awake" => ~r.talk /\ ~r.utt /\ ~r.clip
  /\ r.state = "Hibernate" => ~r.capture
  /\ r.mode # None => /\ r.mode.kind = "FuzzyWake" <=> r.state = "Sleep"
                      /\ r.state # "Hibernate"
                      /\ r.mode.deadline >= r.since
  /\ r.talk => ~r.utt
  /\ r.muted \/ r.voice_test => ~r.talk /\ ~r.utt /\ ~r.clip

\* No phrase mutes, and no phrase starts a voice test.
Keeps(r, q) == q.muted = r.muted /\ q.voice_test = r.voice_test
Same(r, q) == q.state = r.state /\ Keeps(r, q)

\* A change of state from r to q is among the events q has collected.
Tells(r, q) ==
  /\ Keeps(r, q)
  /\ q.state = r.state \/ \E i \in DOMAIN q.out : q.out[i] = q.state

Surroundings == wall \in Nat /\ mic \in BOOLEAN /\ soul \in BOOLEAN

-------------------------------------------------------------------------------
\* What the effects of a legal transition switch on and off.
LEMMA EffectsKnown ==
  ASSUME NEW s \in VM!VoiceState, NEW e \in VM!Event, VM!Legal(s, e)
  PROVE  /\ Does(s, e, "ReleaseActingResources") <=> s = "Awake"
         /\ Does(s, e, "OpenSession") <=> VM!Target(e) = "Awake"
         /\ Does(s, e, "StopCapture") <=> VM!Target(e) = "Hibernate"
         /\ Does(s, e, "StartCapture") => VM!Target(e) = "Sleep"
<1>1. CASE e = "WakePhrase"
  <2>1. VM!Effects(s, e) = <<"OpenSession">>
    BY <1>1 DEF VM!Effects
  <2>2. VM!Target(e) = "Awake" /\ s = "Sleep"
    BY <1>1 DEF VM!Target, VM!Legal
  <2> QED
    BY <2>1, <2>2 DEF Does
<1>2. CASE e \in {"SleepPhrase", "UiSleep"}
  <2>1. VM!Effects(s, e) = <<"ReleaseActingResources">>
    BY <1>2 DEF VM!Effects
  <2>2. VM!Target(e) = "Sleep" /\ s = "Awake"
    BY <1>2 DEF VM!Target, VM!Legal
  <2> QED
    BY <2>1, <2>2 DEF Does
<1>3. CASE e \in {"HibernatePhrase", "UiHibernate"}
  <2>0. VM!Target(e) = "Hibernate"
    BY <1>3 DEF VM!Target
  <2>1. CASE s = "Awake"
    <3>1. VM!Effects(s, e) = <<"ReleaseActingResources", "StopCapture">>
      BY <1>3, <2>1 DEF VM!Effects
    <3> QED
      BY <2>0, <2>1, <3>1 DEF Does
  <2>2. CASE s # "Awake"
    <3>1. VM!Effects(s, e) = <<"StopCapture">>
      BY <1>3, <2>2 DEF VM!Effects
    <3> QED
      BY <2>0, <2>2, <3>1 DEF Does
  <2> QED
    BY <2>1, <2>2
<1>4. CASE e = "UiResume"
  <2>1. VM!Effects(s, e) = <<"StartCapture">>
    BY <1>4 DEF VM!Effects
  <2>2. VM!Target(e) = "Sleep" /\ s = "Hibernate"
    BY <1>4 DEF VM!Target, VM!Legal
  <2> QED
    BY <2>1, <2>2 DEF Does
<1> QED
  BY <1>1, <1>2, <1>3, <1>4 DEF VM!Event, VM!Phrases

\* A transition switches off what the state it enters does not allow.
LEMMA EnteredGood ==
  ASSUME Surroundings, NEW r, Good(r), NEW e \in VM!Event, VM!Legal(r.state, e)
  PROVE  /\ Good(Entered(r, e)) /\ Tells(r, Entered(r, e))
         /\ Entered(r, e).state = VM!Target(e) /\ ~Entered(r, e).utt
<1> USE RuntimeAssumption
<1>1. r.state \in VM!VoiceState /\ r.now \in Nat /\ r \in Record
  BY DEF Good, Record
<1>2. VM!Target(e) \in VM!VoiceState /\ VM!ArmCooldown(r.now, e) \in VM!PhraseGate
  BY <1>1 DEF VM!Target, VM!ArmCooldown, VM!VoiceState, VM!PhraseGate, VM!Open, VM!Event,
              VM!Phrases
<1> DEFINE q == EffectsOf(r, e)  n == Entered(r, e)
<1> DEFINE b == IF Does(r.state, e, "ReleaseActingResources") THEN Released(r) ELSE r
           session == b.session \/ Does(r.state, e, "OpenSession")
           capture == CASE Does(r.state, e, "StopCapture") -> FALSE
                        [] Does(r.state, e, "StartCapture") -> mic
                        [] OTHER -> b.capture
<1>0. \A effect : Does(r.state, e, effect) \in BOOLEAN
  BY DEF Does
<1>3. /\ q \in Record /\ q.state = r.state /\ q.now = r.now /\ q.out = r.out
      /\ q.muted = r.muted /\ q.voice_test = r.voice_test
      /\ q.talk = b.talk /\ q.utt = b.utt /\ q.clip = b.clip
      /\ q.session = session /\ q.capture = capture
  <2>1. Released(r) \in Record
    BY <1>1 DEF Released, Record
  <2>6. b \in Record
    BY <1>1, <2>1
  <2>7. session \in BOOLEAN
    OBVIOUS
  <2>8. capture \in BOOLEAN
    BY <2>6, <1>0 DEF Record, Surroundings
  <2>3. b \in Record /\ session \in BOOLEAN /\ capture \in BOOLEAN
    BY <2>6, <2>7, <2>8
  <2>4. q = [b EXCEPT !.session = session, !.capture = capture]
    BY <2>3 DEF EffectsOf, Record
  <2>5. /\ b.state = r.state /\ b.now = r.now /\ b.out = r.out
        /\ b.muted = r.muted /\ b.voice_test = r.voice_test
    BY <1>1 DEF Released, Record
  <2> HIDE DEF b, session, capture, q
  <2> QED
    BY <2>3, <2>4, <2>5 DEF Record
<1>4. /\ n \in Record /\ n.state = VM!Target(e) /\ n.now = r.now /\ n.since = r.now
      /\ n.mode = None /\ n.out = Append(r.out, VM!Target(e)) /\ n.session = q.session
      /\ n.talk = q.talk /\ n.utt = q.utt /\ n.clip = q.clip /\ n.capture = q.capture
      /\ n.muted = r.muted /\ n.voice_test = r.voice_test
  <2> DEFINE t == VM!Target(e)  g == VM!ArmCooldown(r.now, e)
  <2>1. n = [q EXCEPT !.state = t, !.gate = g, !.since = r.now, !.last = e,
                      !.out = Append(r.out, t), !.mode = None]
    BY <1>3 DEF Entered
  <2>2. Append(r.out, t) \in Seq(VM!VoiceState)
    BY <1>1, <1>2 DEF Record
  <2>3. t \in VM!VoiceState /\ g \in VM!PhraseGate /\ r.now \in Int
    BY <1>1, <1>2
  <2> HIDE DEF n, q, t, g
  <2>4. n \in Record
    BY <1>3, <2>1, <2>2, <2>3 DEF Record
  <2> QED
    BY <1>3, <2>1, <2>4 DEF Record, t
\* Awake is only entered from a state in which nothing was said.
<1>5. /\ q.session <=> VM!Target(e) = "Awake"
      /\ ~q.talk /\ ~q.utt /\ ~q.clip
      /\ VM!Target(e) = "Hibernate" => ~q.capture
  <2>1. VM!Target(e) = "Awake" => r.state = "Sleep"
    BY DEF VM!Target, VM!Legal, VM!Event, VM!Phrases
  <2>0. VM!Target(e) = "Hibernate" => capture = FALSE
    BY <1>0, <1>1, EffectsKnown
  <2>2. CASE r.state = "Awake"
    <3>1. b = Released(r) /\ VM!Target(e) # "Awake"
      BY <1>1, <2>1, <2>2, EffectsKnown
    <3>2. ~b.session /\ ~b.talk /\ ~b.utt /\ ~b.clip
      BY <1>1, <3>1 DEF Released, Record
    <3>3. session = FALSE
      BY <1>0, <1>1, <3>1, <3>2, EffectsKnown
    <3> HIDE DEF session, capture, b, q
    <3> QED
      BY <1>3, <2>0, <3>1, <3>2, <3>3
  <2>3. CASE r.state # "Awake"
    <3>1. b = r
      BY <1>1, <2>3, EffectsKnown
    <3>2. ~b.session /\ ~b.talk /\ ~b.utt /\ ~b.clip
      BY <2>3, <3>1 DEF Good
    <3>3. session <=> VM!Target(e) = "Awake"
      BY <1>0, <1>1, <3>1, <3>2, EffectsKnown
    <3> HIDE DEF session, capture, b, q
    <3> QED
      BY <1>3, <2>0, <3>2, <3>3
  <2> QED
    BY <2>2, <2>3
<1> HIDE DEF q, n
<1>6. Good(n)
  BY <1>1, <1>4, <1>5 DEF Good
<1>7. Tells(r, n)
  <2>1. Len(r.out) + 1 \in DOMAIN n.out /\ n.out[Len(r.out) + 1] = n.state
    BY <1>1, <1>2, <1>4 DEF Record
  <2> QED
    BY <1>4, <2>1 DEF Tells, Keeps
<1> QED
  BY <1>4, <1>5, <1>6, <1>7 DEF n

\* A question can always be dropped.
LEMMA ModeDropped ==
  ASSUME NEW r, Good(r)
  PROVE  LET q == [r EXCEPT !.mode = None]
         IN  Good(q) /\ Same(r, q) /\ q.out = r.out /\ q.mode = None /\ q.utt = r.utt
<1> DEFINE q == [r EXCEPT !.mode = None]
<1>1. /\ q \in Record /\ q.mode = None /\ q.state = r.state /\ q.out = r.out
      /\ q.since = r.since /\ q.now = r.now /\ q.session = r.session /\ q.talk = r.talk
      /\ q.utt = r.utt /\ q.clip = r.clip /\ q.capture = r.capture
      /\ q.muted = r.muted /\ q.voice_test = r.voice_test
  BY DEF Good, Record
<1> HIDE DEF q
<1>2. Good(q)
  BY <1>1 DEF Good
<1> QED
  BY <1>1, <1>2 DEF q, Same, Keeps

\* What is collected of speech may change as long as it is allowed.
LEMMA SpeechGood ==
  ASSUME NEW r, Good(r), NEW q, NEW talk \in BOOLEAN, NEW utt \in BOOLEAN,
         NEW clip \in BOOLEAN, q = [r EXCEPT !.talk = talk, !.utt = utt, !.clip = clip],
         talk \/ utt \/ clip => r.state = "Awake" /\ ~r.muted /\ ~r.voice_test,
         talk => ~utt
  PROVE  /\ Good(q) /\ Same(r, q) /\ q.out = r.out
         /\ q.muted = r.muted /\ q.voice_test = r.voice_test
         /\ q.talk = talk /\ q.utt = utt /\ q.clip = clip
<1>1. /\ q \in Record /\ q.mode = r.mode /\ q.state = r.state /\ q.out = r.out
      /\ q.since = r.since /\ q.now = r.now /\ q.session = r.session /\ q.talk = talk
      /\ q.utt = utt /\ q.clip = clip /\ q.capture = r.capture
      /\ q.muted = r.muted /\ q.voice_test = r.voice_test
  BY DEF Good, Record
<1>2. Good(q)
  BY <1>1 DEF Good
<1> QED
  BY <1>1, <1>2 DEF Same, Keeps

\* The events of a handler are sent and forgotten.
LEMMA OutDropped ==
  ASSUME NEW r, Good(r)
  PROVE  LET q == [r EXCEPT !.out = <<>>]
         IN  /\ Good(q) /\ q.out = <<>> /\ q.state = r.state /\ q.talk = r.talk
             /\ q.utt = r.utt /\ q.clip = r.clip /\ q.muted = r.muted
             /\ q.voice_test = r.voice_test
<1> DEFINE q == [r EXCEPT !.out = <<>>]
<1>1. /\ q \in Record /\ q.mode = r.mode /\ q.state = r.state /\ q.out = <<>>
      /\ q.since = r.since /\ q.now = r.now /\ q.session = r.session /\ q.talk = r.talk
      /\ q.utt = r.utt /\ q.clip = r.clip /\ q.capture = r.capture
      /\ q.muted = r.muted /\ q.voice_test = r.voice_test
  <2>1. <<>> \in Seq(VM!VoiceState)
    OBVIOUS
  <2> QED
    BY <2>1 DEF Good, Record
<1> HIDE DEF q
<1>2. Good(q)
  BY <1>1 DEF Good
<1> QED
  BY <1>1, <1>2 DEF q

\* The question that is over is dropped, and one that is not is still open.
LEMMA ExpiredGood ==
  ASSUME Surroundings, NEW r, Good(r)
  PROVE  /\ Good(Expired(r)) /\ Same(r, Expired(r)) /\ Expired(r).out = r.out
         /\ Expired(r).utt = r.utt
         /\ Expired(r).mode # None => Expired(r).mode = r.mode /\ wall < r.mode.deadline
<1>1. CASE r.mode # None /\ wall >= r.mode.deadline
  <2>1. Expired(r) = [r EXCEPT !.mode = None]
    BY <1>1 DEF Expired
  <2> QED
    BY <2>1, ModeDropped
<1>2. CASE ~(r.mode # None /\ wall >= r.mode.deadline)
  <2>1. Expired(r) = r
    BY <1>2 DEF Expired
  <2>2. r.mode # None => r.mode.deadline \in Nat
    BY DEF Good, Record
  <2> QED
    BY <1>2, <2>1, <2>2 DEF Surroundings, Same, Keeps
<1> QED
  BY <1>1, <1>2

LEMMA TickedGood ==
  ASSUME Surroundings, NEW r, Good(r)
  PROVE  /\ Good(Ticked(r)) /\ Same(r, Ticked(r)) /\ Ticked(r).out = r.out
         /\ Ticked(r).utt = r.utt
<1> DEFINE x == Expired(r)  q == [x EXCEPT !.now = wall]
<1>1. Good(x) /\ Same(r, x) /\ x.out = r.out /\ x.utt = r.utt
  BY ExpiredGood
<1> HIDE DEF x
<1>2. /\ q \in Record /\ q.mode = x.mode /\ q.state = x.state /\ q.out = x.out
      /\ q.since = x.since /\ q.now = wall /\ q.session = x.session /\ q.talk = x.talk
      /\ q.utt = x.utt /\ q.clip = x.clip /\ q.capture = x.capture
      /\ q.muted = x.muted /\ q.voice_test = x.voice_test
  BY <1>1 DEF Good, Record, Surroundings
<1>3. x.since \in Int /\ x.now \in Nat
  BY <1>1 DEF Good, Record
<1>4. Ticked(r) = q
  BY DEF Ticked, x
<1> HIDE DEF q
<1>5. Good(q)
  BY <1>1, <1>2, <1>3 DEF Good, Surroundings
<1> QED
  BY <1>1, <1>2, <1>4, <1>5 DEF Same, Keeps

\* apply_voice: a rejected event leaves the state.
LEMMA ApplyVoiceGood ==
  ASSUME Surroundings, NEW r, Good(r), NEW e \in VM!Event
  PROVE  /\ Good(ApplyVoice(r, e)) /\ Tells(r, ApplyVoice(r, e))
         /\ ApplyVoice(r, e).state \in {r.state, VM!Target(e)}
         /\ ~r.utt => ~ApplyVoice(r, e).utt
<1> DEFINE q == Ticked(r)
<1>1. Good(q) /\ Same(r, q) /\ q.utt = r.utt
  BY TickedGood
<1> HIDE DEF q
<1>2. CASE VM!Accepts(q.state, q.gate, q.now, e)
  <2>1. ApplyVoice(r, e) = Entered(q, e) /\ VM!Legal(q.state, e)
    BY <1>2 DEF ApplyVoice, q, VM!Accepts
  <2> QED
    BY <1>1, <2>1, EnteredGood DEF Tells, Same, Keeps
<1>3. CASE ~VM!Accepts(q.state, q.gate, q.now, e)
  <2>1. ApplyVoice(r, e) = q
    BY <1>3 DEF ApplyVoice, q
  <2> QED
    BY <1>1, <2>1 DEF Tells, Same, Keeps
<1> QED
  BY <1>2, <1>3

LEMMA WakePhraseGood ==
  ASSUME Surroundings, NEW r, Good(r)
  PROVE  /\ Good(WakePhrase(r)) /\ Tells(r, WakePhrase(r))
         /\ WakePhrase(r).state \in {r.state, "Awake"}
         /\ ~r.utt => ~WakePhrase(r).utt
<1>1. "WakePhrase" \in VM!Event /\ VM!Target("WakePhrase") = "Awake"
  BY DEF VM!Event, VM!Phrases, VM!Target
<1>2. CASE soul
  BY <1>1, <1>2, ApplyVoiceGood DEF WakePhrase
<1>3. CASE ~soul
  BY <1>3, TickedGood DEF WakePhrase, Tells, Same, Keeps
<1> QED
  BY <1>2, <1>3

\* A question is asked only of a state that can answer it.
LEMMA ArmGood ==
  ASSUME Surroundings, NEW r, Good(r), NEW kind \in Kind, r.state # "Hibernate",
         kind = "FuzzyWake" <=> r.state = "Sleep"
  PROVE  Good(Arm(r, kind)) /\ Same(r, Arm(r, kind))
<1>1. CASE r.mode # None \/ (kind = "FuzzyWake" /\ ~FuzzyCooled(r))
  BY <1>1 DEF Arm, Same, Keeps
<1>2. CASE ~(r.mode # None \/ (kind = "FuzzyWake" /\ ~FuzzyCooled(r)))
  <2> DEFINE d == wall + ConfirmWindow
             m == [kind |-> kind, deadline |-> d]
             a == IF kind = "FuzzyWake" THEN wall ELSE r.asked
             q == [r EXCEPT !.mode = m, !.asked = a]
  <2>1. d \in Nat /\ d >= wall
    BY RuntimeAssumption DEF Surroundings
  <2> HIDE DEF d
  <2>2. m \in [kind : Kind, deadline : Nat] /\ m.kind = kind /\ m.deadline = d
    BY <2>1
  <2>3. a \in Int
    BY DEF Good, Record, Surroundings
  <2> HIDE DEF m, a
  <2>4. /\ q \in Record /\ q.mode = m /\ q.state = r.state
        /\ q.since = r.since /\ q.now = r.now /\ q.session = r.session /\ q.talk = r.talk
        /\ q.utt = r.utt /\ q.clip = r.clip /\ q.capture = r.capture
        /\ q.muted = r.muted /\ q.voice_test = r.voice_test
    BY <2>2, <2>3 DEF Good, Record
  <2>5. r.since \in Int /\ r.now \in Nat /\ r.since <= r.now /\ r.now <= wall
    BY DEF Good, Record
  <2>6. d >= r.since
    BY <2>1, <2>5 DEF Surroundings
  <2>7. Arm(r, kind) = q
    BY <1>2 DEF Arm, q, m, a, d
  <2> HIDE DEF q
  <2>8. Good(q)
    BY <2>2, <2>4, <2>6 DEF Good
  <2> QED
    BY <2>4, <2>7, <2>8 DEF Same, Keeps
<1> QED
  BY <1>1, <1>2

-------------------------------------------------------------------------------
(* The drain of the audio and the text of the ask path. *)

LEMMA ListenedGood ==
  ASSUME NEW r, Good(r), NEW fr
  PROVE  Good(Listened(r, fr)) /\ Same(r, Listened(r, fr)) /\ Listened(r, fr).out = r.out
<1>1. /\ r \in Record /\ r.talk \in BOOLEAN /\ r.clip \in BOOLEAN /\ r.utt \in BOOLEAN
      /\ TRUE \in BOOLEAN /\ FALSE \in BOOLEAN
  BY DEF Good, Record
<1>2. CASE ~AutoOk(r) \/ fr.speech = "muffled"
  <2> DEFINE q == [r EXCEPT !.utt = FALSE]
  <2>1. /\ q \in Record /\ q.mode = r.mode /\ q.state = r.state /\ q.out = r.out
        /\ q.since = r.since /\ q.now = r.now /\ q.session = r.session /\ q.talk = r.talk
        /\ ~q.utt /\ q.clip = r.clip /\ q.capture = r.capture
        /\ q.muted = r.muted /\ q.voice_test = r.voice_test
    BY <1>1 DEF Record
  <2> HIDE DEF q
  <2>2. Good(q)
    BY <2>1 DEF Good
  <2>3. Listened(r, fr) = q
    BY <1>2 DEF Listened, q
  <2> QED
    BY <2>1, <2>2, <2>3 DEF Same, Keeps
<1>3. CASE ~(~AutoOk(r) \/ fr.speech = "muffled") /\ fr.speech = "partial" /\ r.capture
  <2>1. Listened(r, fr) = [r EXCEPT !.talk = FALSE, !.utt = TRUE, !.clip = FALSE]
    BY <1>1, <1>3 DEF Listened, Record, AutoOk
  <2> QED
    BY <1>1, <1>3, <2>1, SpeechGood DEF AutoOk
<1>4. CASE ~(~AutoOk(r) \/ fr.speech = "muffled") /\ fr.speech = "whole" /\ r.capture
  <2>1. Listened(r, fr) = [r EXCEPT !.talk = FALSE, !.utt = FALSE, !.clip = TRUE]
    BY <1>1, <1>4 DEF Listened, Record, AutoOk
  <2> QED
    BY <1>1, <1>4, <2>1, SpeechGood DEF AutoOk
<1>5. CASE /\ ~(~AutoOk(r) \/ fr.speech = "muffled") /\ ~(fr.speech = "partial" /\ r.capture)
           /\ ~(fr.speech = "whole" /\ r.capture)
  BY <1>5 DEF Listened, Same, Keeps
<1> QED
  BY <1>2, <1>3, <1>4, <1>5

LEMMA DrainPcmGood ==
  ASSUME Surroundings, NEW r, Good(r), NEW fr
  PROVE  Good(DrainPcm(r, fr)) /\ Tells(r, DrainPcm(r, fr))
<1> DEFINE l == Listened(r, fr)
<1>1. Good(l) /\ Same(r, l)
  BY ListenedGood
<1> HIDE DEF l
<1>2. Good(ArmFuzzyFromProbe(l)) /\ Same(l, ArmFuzzyFromProbe(l))
  <2>1. CASE l.state = "Sleep" /\ FuzzyAllowed(l)
    BY <1>1, <2>1, ArmGood DEF ArmFuzzyFromProbe, Kind
  <2>2. CASE ~(l.state = "Sleep" /\ FuzzyAllowed(l))
    BY <1>1, <2>2 DEF ArmFuzzyFromProbe, Same, Keeps
  <2> QED
    BY <2>1, <2>2
<1>3. ASSUME NEW ph PROVE Good(ApplyPcmHit(l, ph)) /\ Tells(l, ApplyPcmHit(l, ph))
  <2>1. {"SleepPhrase", "HibernatePhrase"} \subseteq VM!Event
    BY DEF VM!Event, VM!Phrases
  <2>2. /\ Good(WakePhrase(l)) /\ Tells(l, WakePhrase(l))
        /\ \A e \in VM!Event : Good(ApplyVoice(l, e)) /\ Tells(l, ApplyVoice(l, e))
        /\ Tells(l, l)
    BY <1>1, WakePhraseGood, ApplyVoiceGood DEF Tells, Same, Keeps
  <2>3. ApplyPcmHit(l, ph) \in {WakePhrase(l), ApplyVoice(l, "SleepPhrase"),
                                 ApplyVoice(l, "HibernatePhrase"), l}
    BY DEF ApplyPcmHit
  <2> QED
    BY <1>1, <2>1, <2>2, <2>3
<1>4. DrainPcm(r, fr) \in {l, ArmFuzzyFromProbe(l), ApplyPcmHit(l, fr.hit)}
  BY DEF DrainPcm, l
<1> QED
  BY <1>1, <1>2, <1>3, <1>4 DEF Tells, Same, Keeps

\* A yes makes the change that was asked about.
LEMMA CommitModeGood ==
  ASSUME Surroundings, NEW r, Good(r), r.mode # None
  PROVE  /\ Good(CommitMode(r, r.mode.kind)) /\ Tells(r, CommitMode(r, r.mode.kind))
         /\ CommitMode(r, r.mode.kind).state \in
              {r.state, IF r.mode.kind = "FuzzyWake" THEN "Awake" ELSE r.mode.kind}
<1> DEFINE q == [r EXCEPT !.mode = None]
<1>1. Good(q) /\ Same(r, q)
  BY ModeDropped
<1> HIDE DEF q
<1>2. r.mode.kind \in Kind
  BY DEF Good, Record
<1>3. CASE r.mode.kind = "FuzzyWake"
  <2>1. CommitMode(r, r.mode.kind) = WakePhrase(q)
    BY <1>3 DEF CommitMode, q
  <2> QED
    BY <1>1, <1>3, <2>1, WakePhraseGood DEF Tells, Same, Keeps
<1>4. ASSUME NEW e \in VM!Event, CommitMode(r, r.mode.kind) = ApplyVoice(q, e),
             VM!Target(e) = r.mode.kind, r.mode.kind # "FuzzyWake"
      PROVE  /\ Good(CommitMode(r, r.mode.kind)) /\ Tells(r, CommitMode(r, r.mode.kind))
             /\ CommitMode(r, r.mode.kind).state \in {r.state, r.mode.kind}
  BY <1>1, <1>4, ApplyVoiceGood DEF Tells, Same, Keeps
<1>5. CASE r.mode.kind = "Sleep"
  <2>1. CommitMode(r, r.mode.kind) = ApplyVoice(q, "SleepPhrase")
    BY <1>5 DEF CommitMode, q
  <2>2. "SleepPhrase" \in VM!Event /\ VM!Target("SleepPhrase") = "Sleep"
    BY DEF VM!Event, VM!Phrases, VM!Target
  <2> QED
    BY <1>4, <1>5, <2>1, <2>2
<1>6. CASE r.mode.kind = "Hibernate"
  <2>1. CommitMode(r, r.mode.kind) = ApplyVoice(q, "HibernatePhrase")
    BY <1>6 DEF CommitMode, q
  <2>2. "HibernatePhrase" \in VM!Event /\ VM!Target("HibernatePhrase") = "Hibernate"
    BY DEF VM!Event, VM!Phrases, VM!Target
  <2> QED
    BY <1>4, <1>6, <2>1, <2>2
<1> QED
  BY <1>2, <1>3, <1>5, <1>6 DEF Kind

LEMMA RouteModeAskGood ==
  ASSUME Surroundings, NEW r, Good(r), NEW text
  PROVE  Good(RouteModeAsk(r, text)) /\ Tells(r, RouteModeAsk(r, text))
<1>0. Tells(r, r)
  BY DEF Tells, Same, Keeps
<1>1. CASE r.mode # None
  <2> DEFINE q == [r EXCEPT !.mode = None]
  <2>1. Good(q) /\ Tells(r, q)
    BY ModeDropped DEF Tells, Same, Keeps
  <2>2. ReplyToMode(r, text) \in {CommitMode(r, r.mode.kind), q, r}
    BY DEF ReplyToMode
  <2>3. RouteModeAsk(r, text) = ReplyToMode(r, text)
    BY <1>1 DEF RouteModeAsk
  <2> HIDE DEF q
  <2> QED
    BY <1>0, <1>1, <2>1, <2>2, <2>3, CommitModeGood
<1>2. CASE r.mode = None /\ r.state = "Awake" /\ text = "go to sleep"
  BY <1>2, ArmGood DEF RouteModeAsk, Kind, Tells, Same, Keeps
<1>3. CASE r.mode = None /\ r.state = "Awake" /\ text = "hibernate"
  BY <1>3, ArmGood DEF RouteModeAsk, Kind, Tells, Same, Keeps
<1>4. CASE r.mode = None /\ r.state = "Sleep" /\ text = "wake up" /\ FuzzyAllowed(r)
  BY <1>4, ArmGood DEF RouteModeAsk, Kind, Tells, Same, Keeps
<1>5. CASE /\ r.mode = None /\ ~(r.state = "Awake" /\ text \in {"go to sleep", "hibernate"})
           /\ ~(r.state = "Sleep" /\ text = "wake up" /\ FuzzyAllowed(r))
  <2>1. RouteModeAsk(r, text) = r
    BY <1>5 DEF RouteModeAsk
  <2> QED
    BY <1>0, <2>1
<1> QED
  BY <1>1, <1>2, <1>3, <1>4, <1>5

LEMMA AskGood ==
  ASSUME Surroundings, NEW r, Good(r), NEW text
  PROVE  Good(Ask(r, text)) /\ Tells(r, Ask(r, text))
<1>1. {"SleepPhrase", "HibernatePhrase", "UiResume"} \subseteq VM!Event
  BY DEF VM!Event, VM!Phrases
<1>2. /\ \A e \in VM!Event : Good(ApplyVoice(r, e)) /\ Tells(r, ApplyVoice(r, e))
      /\ Tells(r, r)
  BY ApplyVoiceGood DEF Tells, Same, Keeps
<1>3. Good(Expired(r)) /\ Same(r, Expired(r))
  BY ExpiredGood
<1>4. Good(RouteModeAsk(Expired(r), text)) /\ Tells(r, RouteModeAsk(Expired(r), text))
  BY <1>3, RouteModeAskGood DEF Tells, Same, Keeps
<1>5. Ask(r, text) \in {ApplyVoice(r, "SleepPhrase"), ApplyVoice(r, "HibernatePhrase"),
                        ApplyVoice(r, "UiResume"), r, RouteModeAsk(Expired(r), text)}
  BY DEF Ask
<1> QED
  BY <1>1, <1>2, <1>4, <1>5

\* An ask that reaches the model has dropped at most a question.
LEMMA ModelKeeps ==
  ASSUME Surroundings, NEW r, Good(r), NEW text, ToModel(r, text)
  PROVE  Same(r, Ask(r, text))
<1> DEFINE x == Expired(r)  d == [x EXCEPT !.mode = None]
<1>1. Good(x) /\ Same(r, x)
  BY ExpiredGood
<1>2. Ask(r, text) = RouteModeAsk(x, text) /\ x.state = "Awake"
  BY DEF ToModel, Ask
<1>3. /\ x.mode = None => text \notin {"go to sleep", "hibernate"}
      /\ x.mode # None => x.mode.kind # "FuzzyWake" /\ text \notin {"yes", "no"}
  BY DEF ToModel
<1> HIDE DEF x
<1>4. CASE x.mode = None
  <2>1. RouteModeAsk(x, text) = x
    BY <1>2, <1>3, <1>4 DEF RouteModeAsk
  <2> QED
    BY <1>1, <1>2, <2>1
<1>5. CASE x.mode # None
  <2>1. RouteModeAsk(x, text) = ReplyToMode(x, text)
    BY <1>5 DEF RouteModeAsk
  <2>2. ReplyToMode(x, text) = d
    BY <1>2, <1>3, <1>5 DEF ReplyToMode
  <2>3. Same(x, d)
    BY <1>1, ModeDropped
  <2> HIDE DEF d
  <2> QED
    BY <1>1, <1>2, <2>1, <2>2, <2>3 DEF Same, Keeps
<1> QED
  BY <1>4, <1>5

\* A tool of the model is a transition like another; from awake it only leaves.
LEMMA CtlGood ==
  ASSUME Surroundings, NEW r, Good(r), NEW effect \in CtlEffect
  PROVE  /\ Good(Ctl(r, effect)) /\ Keeps(r, Ctl(r, effect))
         /\ r.state = "Awake" => Ctl(r, effect).state \in {"Awake", "Sleep", "Hibernate"}
<1>1. /\ {"SleepPhrase", "HibernatePhrase", "UiResume"} \subseteq VM!Event
      /\ \A e \in VM!Event : Good(ApplyVoice(r, e)) /\ Keeps(r, ApplyVoice(r, e))
  BY ApplyVoiceGood DEF Tells, VM!Event, VM!Phrases
<1>2. Ctl(r, effect) \in {ApplyVoice(r, "SleepPhrase"), ApplyVoice(r, "HibernatePhrase"),
                          ApplyVoice(r, "UiResume"), r}
  BY DEF Ctl
<1>3. \A q : Good(q) => q.state \in {"Awake", "Sleep", "Hibernate"}
  BY DEF Good, Record, VM!VoiceState
<1> QED
  BY <1>1, <1>2, <1>3 DEF Keeps

\* A reply leaves the state, unless it is to free speech: then it may sleep.
LEMMA RepliedGood ==
  ASSUME Surroundings, NEW r, Good(r), NEW from, NEW q \in Replied(r, from)
  PROVE  /\ Good(q) /\ Tells(r, q)
         /\ from # "free" => q.state = r.state
<1> DEFINE u == [r EXCEPT !.utt = FALSE]
<1>1. Good(u) /\ Same(r, u)
  <2>1. /\ r \in Record /\ r.talk \in BOOLEAN /\ r.clip \in BOOLEAN /\ FALSE \in BOOLEAN
    BY DEF Good, Record
  <2>2. u = [r EXCEPT !.talk = r.talk, !.utt = FALSE, !.clip = r.clip]
    BY <2>1 DEF Record
  <2>3. r.talk \/ r.clip => r.state = "Awake" /\ ~r.muted /\ ~r.voice_test
    BY DEF Good
  <2> HIDE DEF u
  <2> QED
    BY <2>1, <2>2, <2>3, SpeechGood
<1>2. /\ q \in {u, ApplyVoice(r, "SleepPhrase"), ApplyVoice(u, "SleepPhrase")}
      /\ from # "free" => q = u
  BY DEF Replied
<1> HIDE DEF u
<1>3. "SleepPhrase" \in VM!Event
  BY DEF VM!Event, VM!Phrases
<1>4. /\ Good(ApplyVoice(r, "SleepPhrase")) /\ Tells(r, ApplyVoice(r, "SleepPhrase"))
      /\ Good(ApplyVoice(u, "SleepPhrase")) /\ Tells(u, ApplyVoice(u, "SleepPhrase"))
  BY <1>1, <1>3, ApplyVoiceGood
<1> QED
  BY <1>1, <1>2, <1>4 DEF Tells, Same, Keeps

-------------------------------------------------------------------------------
(* The handlers. *)

Inv ==
  /\ wall \in 0 .. MaxNow /\ mic \in BOOLEAN /\ soul \in BOOLEAN /\ job \in BOOLEAN
  /\ Good(rt) /\ rt.out = <<>>
  /\ turn \in AskFrom \cup {"no"}

LEMMA InvSurrounds == Inv => Surroundings
BY RuntimeAssumption DEF Inv, Surroundings

LEMMA InvInit == Init => Inv
<1> SUFFICES ASSUME Init PROVE Inv
  OBVIOUS
<1> USE RuntimeAssumption
<1>1. /\ VM!Open \in VM!PhraseGate /\ "Sleep" \in VM!VoiceState /\ "UiSleep" \in VM!Event
      /\ -PostSleep \in Int /\ -FuzzyCooldown \in Int /\ -PostSleep <= 0
  BY DEF VM!Open, VM!PhraseGate, VM!VoiceState, VM!Event
<1>2. <<>> \in Seq(VM!VoiceState)
  OBVIOUS
<1>3. rt \in Record
  BY <1>1, <1>2 DEF Init, Runtime0, Record
<1>4. wall = 0 /\ rt = Runtime0
  BY DEF Init
<1>5. Good(rt)
  BY <1>1, <1>3, <1>4 DEF Good, Runtime0
<1>6. /\ mic \in BOOLEAN /\ soul \in BOOLEAN /\ job \in BOOLEAN
      /\ turn \in AskFrom \cup {"no"}
  BY DEF Init
<1>7. wall \in 0 .. MaxNow /\ rt.out = <<>>
  BY <1>4 DEF Runtime0
<1> QED
  BY <1>5, <1>6, <1>7 DEF Inv

\* What a handler leaves is good when what it worked on was.
LEMMA DoneGood ==
  ASSUME NEW r, Good(r), NEW sent, Done(r, sent), wall' = wall
  PROVE  /\ Good(rt)' /\ rt'.out = <<>> /\ out' = sent /\ Same(r, rt')
         /\ rt'.clip = r.clip
<1> DEFINE q == [r EXCEPT !.out = <<>>]
<1>1. rt' = q
  BY DEF Done
<1>2. Good(q) /\ q.out = <<>> /\ q.state = r.state /\ q.muted = r.muted
      /\ q.voice_test = r.voice_test /\ q.clip = r.clip
  BY OutDropped
<1> HIDE DEF q
<1>3. Good(rt)'
  BY <1>1, <1>2 DEF Good
<1> QED
  BY <1>1, <1>2, <1>3 DEF Done, Same, Keeps

\* Both parts of a concatenation are in it.
LEMMA FirstPart ==
  ASSUME NEW S, NEW s \in Seq(S), NEW t \in Seq(S), NEW i \in DOMAIN s
  PROVE  i \in DOMAIN (s \o t) /\ (s \o t)[i] = s[i]
OBVIOUS

LEMMA SecondPart ==
  ASSUME NEW S, NEW s \in Seq(S), NEW t \in Seq(S), NEW i \in DOMAIN t
  PROVE  \E j \in DOMAIN (s \o t) : (s \o t)[j] = t[i]
<1>1. Len(s) + i \in DOMAIN (s \o t) /\ (s \o t)[Len(s) + i] = t[i]
  OBVIOUS
<1> QED
  BY <1>1

\* The two halves of a command: the drain, and the command itself.
LEMMA HandleStep ==
  ASSUME Inv, NEW command \in Request, NEW fr, Handle(command, fr)
  PROVE  /\ Good(rt)' /\ rt'.out = <<>> /\ wall' = wall
         /\ rt'.state # rt.state => \E i \in DOMAIN out' : out'[i] = rt'.state
         /\ ~job /\ job' => rt'.state = "Awake" /\ ~rt.muted /\ ~rt.voice_test
<1> DEFINE x == Expired(rt)
           d == DrainPcm(x, fr)
           q == [d EXCEPT !.out = <<>>]
           r == CASE command = "Hibernate" -> ApplyVoice(q, "UiHibernate")
                  [] command = "WakeFromUi" -> ApplyVoice(q, "UiResume")
                  [] command = "Sleep" -> ApplyVoice(q, "UiSleep")
                  [] OTHER -> q
           z == [r EXCEPT !.clip = FALSE]
<1>1. Surroundings /\ Good(rt)
  BY InvSurrounds DEF Inv
<1>2. Good(x) /\ Same(rt, x)
  BY <1>1, ExpiredGood
<1> HIDE DEF x
<1>3. Good(d) /\ Tells(x, d)
  BY <1>1, <1>2, DrainPcmGood
<1> HIDE DEF d
<1>4. Good(q) /\ Same(d, q)
  BY <1>3, OutDropped DEF Same, Keeps
<1> HIDE DEF q
<1>5. Good(r) /\ Tells(q, r)
  <2>1. {"UiHibernate", "UiResume", "UiSleep"} \subseteq VM!Event
    BY DEF VM!Event
  <2>2. /\ \A e \in VM!Event : Good(ApplyVoice(q, e)) /\ Tells(q, ApplyVoice(q, e))
        /\ Tells(q, q)
    BY <1>1, <1>4, ApplyVoiceGood DEF Tells, Keeps
  <2>3. r \in {ApplyVoice(q, "UiHibernate"), ApplyVoice(q, "UiResume"),
              ApplyVoice(q, "UiSleep"), q}
    OBVIOUS
  <2> QED
    BY <1>4, <2>1, <2>2, <2>3
<1>6. /\ r.clip => ~job
      /\ Done(z, r.out \o d.out) /\ job' = (job \/ r.clip) /\ wall' = wall
  BY DEF Handle, Told, z, r, q, d, x
<1> HIDE DEF r
<1>7. Good(z) /\ Same(r, z)
  <2>1. /\ z \in Record /\ z.mode = r.mode /\ z.state = r.state
        /\ z.since = r.since /\ z.now = r.now /\ z.session = r.session /\ z.talk = r.talk
        /\ z.utt = r.utt /\ ~z.clip /\ z.capture = r.capture
        /\ z.muted = r.muted /\ z.voice_test = r.voice_test
    BY <1>5 DEF Good, Record
  <2> HIDE DEF z
  <2> QED
    BY <1>5, <2>1 DEF Good, Same, Keeps
<1> HIDE DEF z
<1>8. Good(rt)' /\ rt'.out = <<>> /\ out' = r.out \o d.out /\ Same(z, rt')
  BY <1>6, <1>7, DoneGood
<1>9. ASSUME rt'.state # rt.state PROVE \E i \in DOMAIN out' : out'[i] = rt'.state
  <2>1. r.out \in Seq(VM!VoiceState) /\ d.out \in Seq(VM!VoiceState) /\ rt'.state = r.state
    BY <1>3, <1>5, <1>7, <1>8 DEF Good, Record, Same
  <2>2. CASE r.state # q.state
    <3>1. PICK i \in DOMAIN r.out : r.out[i] = r.state
      BY <1>5, <2>2 DEF Tells
    <3>2. i \in DOMAIN out' /\ out'[i] = r.out[i]
      BY <1>8, <2>1, <3>1, FirstPart
    <3> QED
      BY <2>1, <3>1, <3>2
  <2>3. CASE r.state = q.state
    <3>1. d.state = r.state /\ d.state # x.state
      BY <1>2, <1>4, <1>9, <2>1, <2>3 DEF Same
    <3>2. PICK i \in DOMAIN d.out : d.out[i] = d.state
      BY <1>3, <3>1 DEF Tells
    <3>3. \E j \in DOMAIN (r.out \o d.out) : (r.out \o d.out)[j] = d.out[i]
      <4> DEFINE a == r.out  b == d.out
      <4>1. a \in Seq(VM!VoiceState) /\ b \in Seq(VM!VoiceState) /\ i \in DOMAIN b
        BY <2>1, <3>2
      <4> HIDE DEF a, b
      <4>2. \E j \in DOMAIN (a \o b) : (a \o b)[j] = b[i]
        BY <4>1, SecondPart
      <4> QED
        BY <4>2 DEF a, b
    <3> QED
      BY <1>8, <2>1, <3>1, <3>2, <3>3
  <2> QED
    BY <2>2, <2>3
<1>10. ASSUME ~job, job' PROVE rt'.state = "Awake" /\ ~rt.muted /\ ~rt.voice_test
  <2>1. r.clip
    BY <1>6, <1>10
  <2>2. r.state = "Awake" /\ ~r.muted /\ ~r.voice_test
    BY <1>5, <2>1 DEF Good
  <2>3. r.muted = rt.muted /\ r.voice_test = rt.voice_test /\ rt'.state = r.state
    BY <1>2, <1>3, <1>4, <1>5, <1>7, <1>8 DEF Same, Tells, Keeps
  <2> QED
    BY <2>2, <2>3
<1> QED
  BY <1>6, <1>8, <1>9, <1>10

\* What press-to-talk and the switches do to the speech that is collected.
LEMMA SpeechDroppedGood ==
  ASSUME NEW r, Good(r)
  PROVE  /\ Good(SpeechDropped(r)) /\ Same(r, SpeechDropped(r))
         /\ ~SpeechDropped(r).talk /\ ~SpeechDropped(r).utt /\ ~SpeechDropped(r).clip
<1>1. SpeechDropped(r) = [r EXCEPT !.talk = FALSE, !.utt = FALSE, !.clip = FALSE]
  BY DEF Good, Record, SpeechDropped
<1>2. FALSE \in BOOLEAN
  OBVIOUS
<1> QED
  BY <1>1, <1>2, SpeechGood DEF Same, Keeps

LEMMA TalkReadyGood ==
  ASSUME NEW r, Good(r)
  PROVE  Good(TalkReady(r)) /\ Same(r, TalkReady(r)) /\ ~TalkReady(r).utt /\ ~TalkReady(r).clip
<1> DEFINE q == TalkReady(r)
<1>1. /\ q \in Record /\ q.mode = r.mode /\ q.state = r.state
      /\ q.since = r.since /\ q.now = r.now /\ q.session = r.session /\ q.talk = r.talk
      /\ ~q.utt /\ ~q.clip /\ q.capture = r.capture
      /\ q.muted = r.muted /\ q.voice_test = r.voice_test
  BY DEF Good, Record, TalkReady
<1> HIDE DEF q
<1>2. Good(q)
  BY <1>1 DEF Good
<1> QED
  BY <1>1, <1>2 DEF q, Same, Keeps

LEMMA SwitchedGood ==
  ASSUME NEW r, Good(r), NEW b \in BOOLEAN
  PROVE  LET muted == Muted(r, b)
             tested == [(IF b THEN SpeechDropped(r) ELSE r) EXCEPT !.voice_test = b]
         IN  /\ Good(muted) /\ muted.state = r.state
             /\ Good(tested) /\ tested.state = r.state
<1> DEFINE x == IF b THEN SpeechDropped(r) ELSE r
           m == [x EXCEPT !.muted = b]
           v == [x EXCEPT !.voice_test = b]
<1>1. /\ Good(x) /\ x.state = r.state
      /\ b => ~x.talk /\ ~x.utt /\ ~x.clip
  BY SpeechDroppedGood DEF Same
<1>2. Muted(r, b) = m
  BY DEF Muted
<1> HIDE DEF x
<1>3. /\ m \in Record /\ m.mode = x.mode /\ m.state = x.state
      /\ m.since = x.since /\ m.now = x.now /\ m.session = x.session /\ m.talk = x.talk
      /\ m.utt = x.utt /\ m.clip = x.clip /\ m.capture = x.capture
      /\ m.muted = b /\ m.voice_test = x.voice_test
  BY <1>1 DEF Good, Record
<1>4. /\ v \in Record /\ v.mode = x.mode /\ v.state = x.state
      /\ v.since = x.since /\ v.now = x.now /\ v.session = x.session /\ v.talk = x.talk
      /\ v.utt = x.utt /\ v.clip = x.clip /\ v.capture = x.capture
      /\ v.voice_test = b /\ v.muted = x.muted
  BY <1>1 DEF Good, Record
<1> HIDE DEF m, v
<1>5. Good(m) /\ Good(v)
  BY <1>1, <1>3, <1>4 DEF Good
<1> QED
  BY <1>1, <1>2, <1>3, <1>4, <1>5 DEF x, v

LEMMA TalkStartStep ==
  ASSUME Inv, NEW fr, TalkStart(fr)
  PROVE  Good(rt)' /\ rt'.out = <<>> /\ wall' = wall
<1>1. Surroundings /\ Good(rt) /\ wall' = wall
  BY InvSurrounds DEF Inv, TalkStart
<1> DEFINE q == TalkReady(rt)
           r == IF q.state = "Sleep" THEN WakePhrase(q) ELSE q
           t == [r EXCEPT !.talk = TRUE]
           refused == rt.muted \/ rt.state = "Hibernate"
<1>2. Good(q) /\ Same(rt, q) /\ ~q.utt
  BY <1>1, TalkReadyGood
<1> HIDE DEF q
<1>3. Good(r) /\ Keeps(q, r) /\ ~r.utt
  BY <1>1, <1>2, WakePhraseGood DEF Tells, Keeps
<1>4. \/ Done(SpeechDropped(rt), <<>>)
      \/ Done(rt, <<>>)
      \/ Done(r, <<>>)
      \/ /\ ~rt.voice_test /\ ~refused /\ r.state = "Awake"
         /\ Done(DrainPcm(t, fr), r.out)
  BY DEF TalkStart, t, r, q
<1> HIDE DEF r
<1>5. ASSUME ~rt.voice_test, ~refused, r.state = "Awake" PROVE Good(t)
  <2>1. /\ t \in Record /\ t.mode = r.mode /\ t.state = r.state
        /\ t.since = r.since /\ t.now = r.now /\ t.session = r.session /\ t.talk
        /\ t.utt = r.utt /\ t.clip = r.clip /\ t.capture = r.capture
        /\ t.muted = r.muted /\ t.voice_test = r.voice_test
    BY <1>3 DEF Good, Record
  <2>2. ~r.muted /\ ~r.voice_test
    BY <1>2, <1>3, <1>5 DEF Same, Keeps
  <2> HIDE DEF t
  <2> QED
    BY <1>3, <1>5, <2>1, <2>2 DEF Good
<1> HIDE DEF t
<1>6. Good(t) => Good(DrainPcm(t, fr))
  BY <1>1, DrainPcmGood
<1> QED
  BY <1>1, <1>3, <1>4, <1>5, <1>6, SpeechDroppedGood, DoneGood

\* One operator on a record, told by its own events.
LEMMA ToldStep ==
  ASSUME NEW b, NEW r, Good(r), Tells(b, r), wall' = wall,
         Done(r, r.out) \/ Done(r, <<"Transcript">> \o r.out)
  PROVE  /\ Good(rt)' /\ rt'.out = <<>>
         /\ rt'.state # b.state => \E i \in DOMAIN out' : out'[i] = rt'.state
<1>1. Good(rt)' /\ rt'.out = <<>> /\ rt'.state = r.state
  BY DoneGood DEF Same
<1>2. ASSUME rt'.state # b.state PROVE \E i \in DOMAIN out' : out'[i] = rt'.state
  <2>1. PICK i \in DOMAIN r.out : r.out[i] = r.state
    BY <1>1, <1>2 DEF Tells
  <2>2. CASE Done(r, r.out)
    BY <1>1, <2>1, <2>2 DEF Done
  <2>3. CASE Done(r, <<"Transcript">> \o r.out)
    <3> DEFINE S == VM!VoiceState \cup {"Transcript"}  a == <<"Transcript">>  c == r.out
    <3>1. c \in Seq(VM!VoiceState) /\ a \in Seq(S)
      BY DEF Good, Record
    <3>2. c \in Seq(S) /\ i \in DOMAIN c
      BY <2>1, <3>1
    <3>4. out' = a \o c
      BY <2>3 DEF Done
    <3> HIDE DEF a, c, S
    <3>3. \E j \in DOMAIN (a \o c) : (a \o c)[j] = c[i]
      BY <3>1, <3>2, SecondPart
    <3> QED
      BY <1>1, <2>1, <3>3, <3>4 DEF c
  <2> QED
    BY <2>2, <2>3
<1> QED
  BY <1>1, <1>2

\* What an utterance tells first is its text, and a typed line has none.
LEMMA TranscriptFirst ==
  ASSUME NEW from, NEW r, Good(r)
  PROVE  Transcript(from) \o r.out \in {r.out, <<"Transcript">> \o r.out}
<1>1. r.out \in Seq(VM!VoiceState)
  BY DEF Good, Record
<1>2. <<>> \o r.out = r.out
  BY <1>1
<1> QED
  BY <1>2 DEF Transcript

\* An ask is told at once, or changes no state and is told at the end of its turn.
LEMMA AskedStep ==
  ASSUME Surroundings, NEW r, Good(r), NEW text, NEW from \in AskFrom,
         Asked(r, text, from), wall' = wall
  PROVE  /\ Good(rt)' /\ rt'.out = <<>> /\ turn' \in AskFrom \cup {"no"}
         /\ rt'.state = Ask(r, text).state
         /\ rt'.state # r.state => \E i \in DOMAIN out' : out'[i] = rt'.state
<1> DEFINE a == Ask(r, text)
<1>1. Good(a) /\ Tells(r, a)
  BY AskGood
<1>2. CASE ToModel(r, text)
  <2>1. turn' = from /\ Done(a, <<>>)
    BY <1>2 DEF Asked
  <2>2. a.state = r.state
    BY <1>2, ModelKeeps DEF Same
  <2> HIDE DEF a
  <2>3. Good(rt)' /\ rt'.out = <<>> /\ rt'.state = a.state
    BY <1>1, <2>1, DoneGood DEF Same
  <2> QED
    BY <2>1, <2>2, <2>3 DEF a
<1>3. CASE ~ToModel(r, text)
  <2>1. turn' = "no" /\ Done(a, Transcript(from) \o a.out)
    BY <1>3 DEF Asked
  <2> HIDE DEF a
  <2>2. Done(a, a.out) \/ Done(a, <<"Transcript">> \o a.out)
    BY <1>1, <2>1, TranscriptFirst DEF Done
  <2>3. /\ Good(rt)' /\ rt'.out = <<>>
        /\ rt'.state # r.state => \E i \in DOMAIN out' : out'[i] = rt'.state
    BY <1>1, <2>2, ToldStep
  <2>4. rt'.state = a.state
    BY <1>1, <2>2, DoneGood DEF Same
  <2> QED
    BY <2>1, <2>3, <2>4 DEF a
<1> QED
  BY <1>2, <1>3

LEMMA TalkStopStep ==
  ASSUME Inv, NEW fr, NEW text, TalkStop(fr, text)
  PROVE  Good(rt)' /\ rt'.out = <<>> /\ wall' = wall /\ turn' \in AskFrom \cup {"no"}
<1>1. Surroundings /\ Good(rt) /\ wall' = wall
  BY InvSurrounds DEF Inv, TalkStop
<1> DEFINE d == DrainPcm(rt, fr)
           q == [d EXCEPT !.talk = FALSE, !.out = <<>>]
<1>2. Good(d)
  BY <1>1, DrainPcmGood
<1>3. \/ Quiet(SpeechDropped(rt)) \/ Quiet(rt) \/ Quiet(q)
      \/ Asked(q, text, "held")
  BY DEF TalkStop
<1> HIDE DEF d
<1>4. Good(q)
  <2>1. <<>> \in Seq(VM!VoiceState)
    OBVIOUS
  <2>2. /\ q \in Record /\ q.mode = d.mode /\ q.state = d.state
        /\ q.since = d.since /\ q.now = d.now /\ q.session = d.session /\ ~q.talk
        /\ q.utt = d.utt /\ q.clip = d.clip /\ q.capture = d.capture
        /\ q.muted = d.muted /\ q.voice_test = d.voice_test
    BY <1>2, <2>1 DEF Good, Record
  <2> HIDE DEF q
  <2> QED
    BY <1>2, <2>2 DEF Good
<1> HIDE DEF q
<1>5. Asked(q, text, "held") =>
        Good(rt)' /\ rt'.out = <<>> /\ turn' \in AskFrom \cup {"no"}
  BY <1>1, <1>4, AskedStep DEF AskFrom
<1> QED
  BY <1>1, <1>3, <1>4, <1>5, SpeechDroppedGood, DoneGood DEF Quiet

-------------------------------------------------------------------------------
(* The steps of the specification. *)

\* What one step tells, takes and answers.
Told1 ==
  (rt'.state # rt.state /\ \A i \in DOMAIN out' : out'[i] # rt'.state) =>
    \/ \E fr \in HeldFrames :
         TalkStart(fr) \/ \E text \in Text \cup {""} : TalkStop(fr, text)
    \/ \E effect \in CtlEffect : ToolEffect(effect)

Taken1 == (~job /\ job') => rt'.state = "Awake" /\ ~rt.muted /\ ~rt.voice_test

LEMMA StepGood ==
  ASSUME Inv, [Next]_vars
  PROVE  Inv' /\ Told1 /\ Taken1
<1>0. /\ Surroundings /\ Good(rt) /\ rt.out = <<>> /\ wall \in 0 .. MaxNow
      /\ MaxNow \in Nat
  BY InvSurrounds, RuntimeAssumption DEF Inv
<1>b. mic \in BOOLEAN /\ soul \in BOOLEAN /\ job \in BOOLEAN /\ turn \in AskFrom \cup {"no"}
  BY DEF Inv
\* Most steps leave the clock and take no clip.
<1>q. ASSUME Good(rt)', rt'.out = <<>>, wall' = wall, mic' \in BOOLEAN, soul' \in BOOLEAN,
             job' = job \/ job' = FALSE, turn' \in AskFrom \cup {"no"}
      PROVE  Inv' /\ Taken1
  <2>1. job' \in BOOLEAN
    BY <1>b, <1>q
  <2>2. ~(~job /\ job')
    BY <1>b, <1>q
  <2> QED
    BY <1>0, <1>q, <2>1, <2>2 DEF Inv, Taken1
<1>1. ASSUME NEW command \in Request, NEW fr \in Frames, Handle(command, fr)
      PROVE  Inv' /\ Told1 /\ Taken1
  <2>1. mic' \in BOOLEAN /\ soul' \in BOOLEAN
    BY <1>1, <1>b DEF Handle
  <2>2. job' \in BOOLEAN /\ turn' = turn
    BY <1>1, <1>b DEF Handle
  <2> QED
    BY <1>0, <1>1, <1>b, <2>1, <2>2, HandleStep DEF Inv, Told1, Taken1
<1>2. ASSUME Wake PROVE Inv' /\ Told1 /\ Taken1
  <2>1. /\ Good(WakePhrase(rt)) /\ Tells(rt, WakePhrase(rt))
        /\ Done(WakePhrase(rt), WakePhrase(rt).out) /\ UNCHANGED <<wall, soul, mic, job, turn>>
    BY <1>0, <1>2, WakePhraseGood DEF Wake
  <2> QED
    BY <1>b, <1>q, <2>1, ToldStep DEF Told1
<1>3. ASSUME NEW fr \in HeldFrames, TalkStart(fr) PROVE Inv' /\ Told1 /\ Taken1
  <2>1. UNCHANGED <<soul, mic, job, turn>>
    BY <1>3 DEF TalkStart
  <2>2. Inv' /\ Taken1
    BY <1>3, <1>b, <1>q, <2>1, TalkStartStep
  <2>3. Told1
    BY <1>3 DEF Told1
  <2> QED
    BY <2>2, <2>3
<1>4. ASSUME NEW fr \in HeldFrames, NEW text \in Text \cup {""}, TalkStop(fr, text)
      PROVE  Inv' /\ Told1 /\ Taken1
  <2>1. UNCHANGED <<soul, mic, job>>
    BY <1>4 DEF TalkStop
  <2>2. Inv' /\ Taken1
    BY <1>4, <1>b, <1>q, <2>1, TalkStopStep
  <2>3. Told1
    BY <1>4 DEF Told1
  <2> QED
    BY <2>2, <2>3
<1>5. ASSUME NEW text \in Text, AskText(text) PROVE Inv' /\ Told1 /\ Taken1
  <2>1. Asked(rt, text, "typed") /\ UNCHANGED <<wall, soul, mic, job>>
    BY <1>5 DEF AskText
  <2> QED
    BY <1>0, <1>b, <1>q, <2>1, AskedStep DEF Told1, AskFrom
<1>6. ASSUME NEW text \in Text \cup {""}, AskClip(text) PROVE Inv' /\ Told1 /\ Taken1
  <2>1. UNCHANGED <<wall, soul, mic>> /\ job' = FALSE
    BY <1>6 DEF AskClip
  <2>2. ASSUME Quiet(SpeechDropped(rt)) \/ Quiet(rt)
        PROVE  Good(rt)' /\ rt'.out = <<>> /\ rt'.state = rt.state /\ turn' = "no"
    BY <1>0, <2>1, <2>2, SpeechDroppedGood, DoneGood DEF Same, Quiet
  <2>3. CASE Quiet(SpeechDropped(rt)) \/ Quiet(rt)
    BY <1>b, <1>q, <2>1, <2>2, <2>3 DEF Told1
  <2>4. CASE Asked(rt, text, "free")
    BY <1>0, <1>b, <1>q, <2>1, <2>4, AskedStep DEF Told1, AskFrom
  <2> QED
    BY <1>6, <2>3, <2>4 DEF AskClip
<1>10. ASSUME NEW effect \in CtlEffect, ToolEffect(effect) PROVE Inv' /\ Told1 /\ Taken1
  <2>1. Done(Ctl(rt, effect), <<>>) /\ UNCHANGED <<wall, mic, job, turn>> /\ soul' \in BOOLEAN
    BY <1>10, <1>b DEF ToolEffect
  <2>2. Good(rt)' /\ rt'.out = <<>>
    BY <1>0, <2>1, CtlGood, DoneGood
  <2> QED
    BY <1>10, <1>b, <1>q, <2>1, <2>2 DEF Told1
<1>11. ASSUME TurnEnds PROVE Inv' /\ Told1 /\ Taken1
  <2>1. PICK r \in {rt} \cup (IF rt.session THEN Replied(rt, turn) ELSE {}) :
          Done(r, Transcript(turn) \o r.out)
    BY <1>11 DEF TurnEnds
  <2>2. UNCHANGED <<wall, soul, mic, job>> /\ turn' = "no"
    BY <1>11 DEF TurnEnds
  <2>3. Good(r) /\ Tells(rt, r)
    <3>1. r = rt \/ r \in Replied(rt, turn)
      BY <2>1
    <3> QED
      BY <1>0, <3>1, RepliedGood DEF Tells, Keeps
  <2>4. Done(r, r.out) \/ Done(r, <<"Transcript">> \o r.out)
    BY <2>1, <2>3, TranscriptFirst DEF Done
  <2> QED
    BY <1>b, <1>q, <2>2, <2>3, <2>4, ToldStep DEF Told1
<1>7. ASSUME NEW b \in BOOLEAN, SetVoiceTest(b) \/ SetMicMute(b)
      PROVE  Inv' /\ Told1 /\ Taken1
  <2> DEFINE tested == [(IF b THEN SpeechDropped(rt) ELSE rt) EXCEPT !.voice_test = b]
  <2>1. /\ Good(Muted(rt, b)) /\ Muted(rt, b).state = rt.state
        /\ Good(tested) /\ tested.state = rt.state
    BY <1>0, SwitchedGood
  <2>2. UNCHANGED <<wall, soul, mic, job, turn>> /\ (Done(tested, <<>>) \/ Done(Muted(rt, b), <<>>))
    BY <1>7 DEF SetVoiceTest, SetMicMute
  <2> HIDE DEF tested
  <2>3. Good(rt)' /\ rt'.out = <<>> /\ rt'.state = rt.state
    BY <2>1, <2>2, DoneGood DEF Same
  <2> QED
    BY <1>b, <1>q, <2>2, <2>3 DEF Told1
<1>8. ASSUME Tick PROVE Inv' /\ Told1 /\ Taken1
  <2>1. wall' \in 0 .. MaxNow /\ UNCHANGED <<rt, soul, mic, job, turn>> /\ wall <= wall'
    BY <1>0, <1>8 DEF Tick
  <2>2. Good(rt)'
    <3>1. rt.now \in Nat
      BY <1>0 DEF Good, Record
    <3> QED
      BY <1>0, <2>1, <3>1 DEF Good
  <2> QED
    BY <1>0, <1>b, <2>1, <2>2 DEF Inv, Told1, Taken1
<1>9. ASSUME MicChanges \/ UNCHANGED vars PROVE Inv' /\ Told1 /\ Taken1
  <2>1. UNCHANGED <<rt, wall, soul, job, turn>> /\ mic' \in BOOLEAN
    BY <1>9, <1>b DEF MicChanges, vars
  <2>2. Good(rt)'
    BY <1>0, <2>1 DEF Good
  <2> QED
    BY <1>0, <1>b, <1>q, <2>1, <2>2 DEF Told1
<1> QED
  BY <1>1, <1>2, <1>3, <1>4, <1>5, <1>6, <1>7, <1>8, <1>9, <1>10, <1>11 DEF Next

\* A bare yes that changes the state answered an open question.
LEMMA YesStep ==
  ASSUME Inv, AskText("yes"), rt'.state # rt.state
  PROVE  /\ rt.mode # None
         /\ wall < rt.mode.deadline
         /\ rt'.state = CASE rt.mode.kind = "FuzzyWake" -> "Awake" [] OTHER -> rt.mode.kind
<1> DEFINE x == Expired(rt)
<1>1. /\ Surroundings /\ Good(rt) /\ Good(x) /\ Same(rt, x)
      /\ x.mode # None => x.mode = rt.mode /\ wall < rt.mode.deadline
  BY InvSurrounds, ExpiredGood DEF Inv
<1>2. Ask(rt, "yes") = RouteModeAsk(x, "yes")
  BY DEF Ask
<1> HIDE DEF x
<1>3. rt'.state = RouteModeAsk(x, "yes").state
  <2>1. Asked(rt, "yes", "typed") /\ wall' = wall
    BY DEF AskText
  <2> QED
    BY <1>1, <1>2, <2>1, AskedStep DEF AskFrom
<1>4. CASE x.mode = None
  <2>1. RouteModeAsk(x, "yes") = x
    BY <1>4 DEF RouteModeAsk
  <2> QED
    BY <1>1, <1>3, <2>1 DEF Same
<1>5. CASE x.mode # None
  <2>1. RouteModeAsk(x, "yes") = CommitMode(x, x.mode.kind)
    BY <1>5 DEF RouteModeAsk, ReplyToMode
  <2> QED
    BY <1>1, <1>3, <1>5, <2>1, CommitModeGood DEF Same
<1> QED
  BY <1>4, <1>5

\* A yes to an open question is not for the model.
LEMMA YesIsAnswer ==
  ASSUME Inv, AskText("yes"), rt.mode # None, wall < rt.mode.deadline
  PROVE  turn' = "no"
<1>1. Expired(rt) = rt
  <2>1. rt.mode.deadline \in Nat /\ wall \in Nat
    BY InvSurrounds DEF Inv, Good, Record, Surroundings
  <2> QED
    BY <2>1 DEF Expired
<1>2. ~ToModel(rt, "yes")
  BY <1>1 DEF ToModel
<1> QED
  BY <1>2 DEF AskText, Asked

\* The model changes the state under a typed line by tools that leave awake.
LEMMA TypedStep ==
  ASSUME Inv, Next, turn = "typed", rt'.state # rt.state
  PROVE  rt.state = "Awake" /\ rt'.state \in {"Sleep", "Hibernate"}
<1>1. Surroundings /\ Good(rt)
  BY InvSurrounds DEF Inv
<1>2. CASE TurnEnds
  <2>1. PICK r \in {rt} \cup (IF rt.session THEN Replied(rt, turn) ELSE {}) :
          Done(r, Transcript(turn) \o r.out)
    BY <1>2 DEF TurnEnds
  <2>2. Good(r) /\ r.state = rt.state /\ wall' = wall
    <3>1. r = rt \/ r \in Replied(rt, turn)
      BY <2>1
    <3> QED
      BY <1>1, <1>2, <3>1, RepliedGood DEF TurnEnds
  <2> QED
    BY <2>1, <2>2, DoneGood DEF Same
<1>3. ASSUME NEW effect \in CtlEffect, ToolEffect(effect)
      PROVE  rt.state = "Awake" /\ rt'.state \in {"Sleep", "Hibernate"}
  <2>1. rt.state = "Awake" /\ Done(Ctl(rt, effect), <<>>) /\ wall' = wall
    BY <1>3 DEF ToolEffect
  <2>2. rt'.state = Ctl(rt, effect).state
    BY <1>1, <2>1, CtlGood, DoneGood DEF Same
  <2> QED
    BY <1>1, <2>1, <2>2, CtlGood
<1>4. CASE Tick \/ MicChanges
  BY <1>4 DEF Tick, MicChanges
<1>5. turn # "no"
  OBVIOUS
<1> QED
  BY <1>2, <1>3, <1>4, <1>5 DEF Next, Handle, Wake, TalkStart, TalkStop, AskText, AskClip,
     SetVoiceTest, SetMicMute

LEMMA Invariance == Spec => []Inv
<1>1. Inv /\ [Next]_vars => Inv'
  BY StepGood
<1> QED
  BY InvInit, <1>1, PTL DEF Spec

-------------------------------------------------------------------------------
\* Every field of the runtime keeps its type, and no events are left over.
THEOREM TypeCorrect == Spec => []TypeOK
<1>1. Inv => TypeOK
  <2> SUFFICES ASSUME Inv PROVE TypeOK
    OBVIOUS
  <2>1. rt \in Record /\ rt.now <= wall /\ rt.now \in Nat /\ rt.out = <<>>
    BY DEF Inv, Good, Record
  <2>2. rt.now \in 0 .. wall /\ wall \in 0 .. MaxNow
    BY <2>1, RuntimeAssumption DEF Inv
  <2> QED
    BY <2>1, <2>2 DEF Inv, TypeOK, Record
<1> QED
  BY <1>1, Invariance, PTL

\* Awake holds the session and all that is said, and hibernate captures nothing,
\* whichever handler and whichever of its transitions came last (apply_effects).
THEOREM AwakeHolds == Spec => []AwakeHoldsItAll
<1>1. Inv => AwakeHoldsItAll
  BY DEF Inv, Good, AwakeHoldsItAll
<1> QED
  BY <1>1, Invariance, PTL

\* The button and free speech exclude one another, and mute and voice test both
\* (talk_start, set_mic_mute, set_voice_test).
THEOREM ListenerAlone == Spec => []OneListener
<1>1. Inv => OneListener
  BY DEF Inv, Good, OneListener
<1> QED
  BY <1>1, Invariance, PTL

\* The question that waits can be answered in the state the daemon is in
\* (apply_voice clears it, route_mode_ask arms it).
THEOREM QuestionFits == Spec => []QuestionFitsState
<1>1. Inv => QuestionFitsState
  BY DEF Inv, Good, QuestionFitsState
<1> QED
  BY <1>1, Invariance, PTL

\* A clip is taken from an awake runtime only (handle_next).
THEOREM ClipsAwake == Spec => ClipsLeaveAwake
<1>1. Inv /\ [Next]_vars => [(~job /\ job') => rt'.state = "Awake" /\ ~rt.muted /\ ~rt.voice_test]_vars
  BY StepGood DEF Taken1
<1> QED
  BY <1>1, Invariance, PTL DEF Spec, ClipsLeaveAwake

\* A bare yes changes the state only within the window of its question, and to
\* what was asked; then it is no line for the model, which can only leave awake
\* (mode_confirm.rs, route_mode_ask, apply_ctl_effect).
THEOREM YesTimely == Spec => YesInTime
<1>1. Inv /\ [Next]_vars =>
        [ LET waits == rt.mode # None /\ wall < rt.mode.deadline
          IN  /\ rt'.state # rt.state /\ AskText("yes") =>
                   waits /\ rt'.state = CASE rt.mode.kind = "FuzzyWake" -> "Awake"
                                          [] OTHER -> rt.mode.kind
              /\ turn' = "typed" /\ AskText("yes") => ~waits
              /\ turn = "typed" /\ rt'.state # rt.state =>
                   rt.state = "Awake" /\ rt'.state \in {"Sleep", "Hibernate"} ]_vars
  <2>1. SUFFICES ASSUME Inv, Next
        PROVE  LET waits == rt.mode # None /\ wall < rt.mode.deadline
               IN  /\ rt'.state # rt.state /\ AskText("yes") =>
                        waits /\ rt'.state = CASE rt.mode.kind = "FuzzyWake" -> "Awake"
                                               [] OTHER -> rt.mode.kind
                   /\ turn' = "typed" /\ AskText("yes") => ~waits
                   /\ turn = "typed" /\ rt'.state # rt.state =>
                        rt.state = "Awake" /\ rt'.state \in {"Sleep", "Hibernate"}
    OBVIOUS
  <2> QED
    BY <2>1, YesStep, YesIsAnswer, TypedStep
<1> QED
  BY <1>1, Invariance, PTL DEF Spec, YesInTime

\* No handler changes the state untold but those of press-to-talk, for what they
\* drain, and a tool of the model (handle, ask, wake, finish_ask_reply: the events
\* of the drain and of the command are both sent).
THEOREM ChangesTold == Spec => ChangesAreTold
<1>1. Inv /\ [Next]_vars =>
        [ (rt'.state # rt.state /\ \A i \in DOMAIN out' : out'[i] # rt'.state) =>
            \/ \E fr \in HeldFrames :
                 TalkStart(fr) \/ \E text \in Text \cup {""} : TalkStop(fr, text)
            \/ \E effect \in CtlEffect : ToolEffect(effect) ]_vars
  BY StepGood DEF Told1
<1> QED
  BY <1>1, Invariance, PTL DEF Spec, ChangesAreTold

-------------------------------------------------------------------------------
(* The ask: its texts. *)

USE AskAssumption

Signs == {"word", "stop", "cry", "blank"}

LEMMA LeastIsLeast ==
  ASSUME NEW I, I \subseteq Nat, I # {}
  PROVE  Least(I) \in I /\ \A i \in I : Least(I) <= i
<1>1. PICK i \in I : \A j \in I : <<j, i>> \notin OpToRel(<, Nat)
  BY WFMin, NatLessThanWellFounded, Zenon
<1>2. \A j \in I : ~(j < i)
  BY <1>1, Zenon DEF OpToRel
<1>3. \A j \in I : i <= j
  BY <1>2
<1> QED BY <1>3, Zenon DEF Least

\* The blanks after a sentence end inside the text.
LEMMA BlanksEnd ==
  ASSUME NEW text \in Seq(Signs), NEW i \in 1..Len(text)
  PROVE  AfterBlanks(text, i) \in i..Len(text)
<1> DEFINE Ends == {j \in i..Len(text) : ~IsBlank(text, j + 1)}
           Fits(j) == (\A k \in i + 1..j : IsBlank(text, k)) /\ ~IsBlank(text, j + 1)
<1>1. Len(text) \in Nat /\ Len(text) \in Ends /\ Ends \subseteq Nat
  BY DEF IsBlank
<1>2. PICK m \in Ends : \A j \in Ends : m <= j
  <2> HIDE DEF Ends
  <2>1. Least(Ends) \in Ends /\ \A j \in Ends : Least(Ends) <= j
    BY <1>1, LeastIsLeast
  <2> QED BY <2>1
<1>3. ASSUME NEW k \in i + 1..m PROVE IsBlank(text, k)
  <2>0. m \in Nat /\ k \in Nat /\ k <= m
    BY <1>1, <1>2
  <2>1. k - 1 \notin Ends
    <3>1. ~(m <= k - 1)
      BY <2>0
    <3> QED BY <1>2, <3>1
  <2>2. k - 1 \in i..Len(text) /\ (k - 1) + 1 = k
    BY <1>1, <1>2
  <2> QED BY <2>1, <2>2
<1>4. \E j \in i..Len(text) : Fits(j)
  BY <1>2, <1>3
<1> QED BY <1>4, Zenon DEF AfterBlanks

\* A sentence ends further on than it begins.
LEMMA NextEndIs ==
  ASSUME NEW text \in Seq(Signs), NEW from \in 0..Len(text)
  PROVE  NextEnd(text, from) = from \/ NextEnd(text, from) \in from + 1..Len(text)
<1>1. CASE Stops(text, from) = {} \/ (from = 0 /\ Len(text) < MinTotal)
  BY <1>1 DEF NextEnd
<1>2. CASE ~(Stops(text, from) = {} \/ (from = 0 /\ Len(text) < MinTotal))
  <2>0. Len(text) \in Nat /\ Stops(text, from) \subseteq Nat
    BY DEF Stops
  <2>1. PICK i \in Stops(text, from) : i = Least(Stops(text, from))
    BY <1>2, <2>0, LeastIsLeast
  <2>2. i \in 1..Len(text) /\ i > from
    BY DEF Stops
  <2>3. AfterBlanks(text, i) \in i..Len(text)
    BY <2>2, BlanksEnd
  <2>4. NextEnd(text, from) = AfterBlanks(text, i)
    BY <1>2, <2>1 DEF NextEnd
  <2> QED BY <2>0, <2>2, <2>3, <2>4
<1> QED BY <1>1, <1>2


\* What take_new_speech takes ends where it began or a sentence further on.  The
\* function it is defined by is total: built up from the end of the text.
LEMMA TakenIs ==
  ASSUME NEW text \in Seq(Signs), NEW spoken \in Nat
  PROVE  /\ Clamp(text, spoken) \in 0..Len(text)
         /\ \/ Taken(text, spoken) = Clamp(text, spoken)
            \/ Taken(text, spoken) \in Clamp(text, spoken) + 1..Len(text)
<1> DEFINE N == Len(text)
           End(x) == NextEnd(text, x)
           Goes(h, x) == h[x] = IF End(x) = x THEN x ELSE h[End(x)]
           Built(k) == \E h \in [N - k..N -> Int] : \A x \in N - k..N : Goes(h, x)
           Total(f) == f = [x \in 0..N |-> IF End(x) = x THEN x ELSE f[End(x)]]
<1>1. N \in Nat
  OBVIOUS
<1>2. Clamp(text, spoken) \in 0..N
  BY DEF Clamp
<1>3. \A x \in 0..N : End(x) = x \/ End(x) \in x + 1..N
  BY NextEndIs
<1> HIDE DEF N, End
<1>4. \A k \in 0..N : Built(k)
  <2> SUFFICES ASSUME \E k \in 0..N : ~Built(k) PROVE FALSE
    OBVIOUS
  <2> DEFINE Bad == {k \in 0..N : ~Built(k)}
  <2>1. PICK m \in Bad : \A k \in Bad : m <= k
    <3> HIDE DEF Built
    <3>1. Bad # {} /\ Bad \subseteq Nat
      BY <1>1
    <3> HIDE DEF Bad
    <3>2. Least(Bad) \in Bad /\ \A k \in Bad : Least(Bad) <= k
      BY <3>1, LeastIsLeast
    <3> QED BY <3>2
  <2>2. m \in 0..N /\ ~Built(m)
    OBVIOUS
  <2>3. CASE m = 0
    <3>1. End(N) = N
      BY <1>1, <1>3
    <3> DEFINE h == [x \in N - 0..N |-> N]
    <3>2. h \in [N - 0..N -> Int] /\ \A x \in N - 0..N : Goes(h, x)
      BY <1>1, <3>1
    <3> QED BY <2>2, <2>3, <3>2
  <2>4. CASE m # 0
    <3>1. Built(m - 1)
      <4> HIDE DEF Built
      <4>1. m - 1 \in 0..N /\ ~(m <= m - 1)
        BY <1>1, <2>2, <2>4
      <4>2. m - 1 \notin Bad
        BY <2>1, <4>1
      <4> QED BY <4>1, <4>2
    <3>2. PICK h \in [N - (m - 1)..N -> Int] : \A x \in N - (m - 1)..N : Goes(h, x)
      BY <3>1
    <3> DEFINE g == [x \in N - m..N |-> IF x = N - m THEN IF End(x) = x THEN x ELSE h[End(x)] ELSE h[x]]
    <3>3. \A x \in N - m..N : x = N - m \/ x \in N - (m - 1)..N
      BY <1>1, <2>2
    <3>4. \A x \in N - m..N : End(x) = x \/ End(x) \in N - (m - 1)..N
      BY <1>1, <1>3, <2>2
    <3>5. g \in [N - m..N -> Int]
      BY <1>1, <2>2, <3>3, <3>4
    <3>6. \A x \in N - (m - 1)..N : x \in N - m..N /\ x # N - m
      BY <1>1, <2>2
    <3>7. \A x \in N - m..N : Goes(g, x)
      <4>1. \A x \in N - (m - 1)..N : g[x] = h[x]
        BY <3>6
      <4>2. ASSUME NEW x \in N - (m - 1)..N PROVE Goes(g, x)
        BY <3>2, <3>4, <3>6, <4>1, <4>2
      <4>3. Goes(g, N - m)
        BY <1>1, <2>2, <3>4, <4>1
      <4> QED BY <3>3, <4>2, <4>3
    <3> QED BY <2>2, <3>5, <3>7
  <2> QED BY <2>3, <2>4
<1>5. \E h : Total(h)
  <2>1. PICK h \in [N - N..N -> Int] : \A x \in N - N..N : Goes(h, x)
    <3>1. Built(N)
      <4> HIDE DEF Built
      <4> QED BY <1>1, <1>4
    <3> QED BY <3>1
  <2>2. N - N = 0
    BY <1>1
  <2>3. h = [x \in 0..N |-> IF End(x) = x THEN x ELSE h[End(x)]]
    BY <2>1, <2>2
  <2> QED BY <2>3
<1>6. PICK f : Total(f) /\ Taken(text, spoken) = f[Clamp(text, spoken)]
  <2>1. Taken(text, spoken) = (CHOOSE f : Total(f))[Clamp(text, spoken)]
    BY DEF Taken, N, End
  <2>2. Total(CHOOSE f : Total(f))
    BY <1>5
  <2> QED BY <2>1, <2>2
<1> DEFINE Fine(x) == f[x] = x \/ f[x] \in x + 1..N
<1>7. \A x \in 0..N : Fine(x)
  <2> SUFFICES ASSUME NEW y \in 0..N, ~Fine(y) PROVE FALSE
    OBVIOUS
  <2> DEFINE Bad == {k \in 0..N : ~Fine(N - k)}
  <2>1. PICK m \in Bad : \A k \in Bad : m <= k
    <3>1. N - y \in Bad /\ Bad \subseteq Nat
      BY <1>1
    <3> HIDE DEF Bad
    <3>2. Least(Bad) \in Bad /\ \A k \in Bad : Least(Bad) <= k
      BY <3>1, LeastIsLeast
    <3> QED BY <3>2
  <2>2. PICK x \in 0..N : x = N - m /\ m = N - x /\ ~Fine(x) /\ m \in 0..N
    BY <1>1, <2>1
  <2>3. f[x] = IF End(x) = x THEN x ELSE f[End(x)]
    BY <1>6
  <2>4. End(x) # x /\ f[x] = f[End(x)]
    BY <2>2, <2>3
  <2>5. PICK z \in x + 1..N : z = End(x)
    BY <1>3, <2>4
  <2>6. N - z \in 0..N /\ N - z < m /\ N - (N - z) = z
    BY <1>1, <2>2, <2>5
  <2>7. Fine(z)
    <3>0. ~(m <= N - z)
      BY <1>1, <2>2, <2>6
    <3>1. N - z \notin Bad
      <4> HIDE DEF Bad
      <4> QED BY <2>1, <3>0
    <3> QED BY <2>6, <3>1
  <2>8. f[x] = f[z] /\ z > x
    BY <1>1, <2>4, <2>5
  <2> QED BY <1>1, <2>2, <2>5, <2>7, <2>8
<1> QED BY <1>2, <1>6, <1>7 DEF N

-------------------------------------------------------------------------------
(* The ask: what is left of a text. *)

LEMMA PieceOf ==
  ASSUME NEW text \in Seq(Signs), NEW a \in 1..Len(text) + 1, NEW b \in a - 1..Len(text)
  PROVE  /\ SubSeq(text, a, b) \in Seq(Signs)
         /\ Len(SubSeq(text, a, b)) = b - a + 1
         /\ \A i \in 1..b - a + 1 : SubSeq(text, a, b)[i] = text[a + i - 1]
<1>1. Len(text) \in Nat /\ a \in Int /\ b \in Int /\ b - a + 1 \in Nat
  OBVIOUS
<1>2. \A i \in a..b : text[i] \in Signs
  <2> SUFFICES ASSUME NEW i \in a..b PROVE text[i] \in Signs
    OBVIOUS
  <2>1. i \in 1..Len(text)
    OBVIOUS
  <2> QED BY <2>1, ElementOfSeq
<1> QED BY <1>1, <1>2, SubSeqProperties

\* Trim keeps what is between the first word and the last.
LEMMA TrimIs ==
  ASSUME NEW text \in Seq(Signs)
  PROVE  /\ Trim(text) \in Seq(Signs)
         /\ Trim(text) = <<>> => \A i \in 1..Len(text) : text[i] = "blank"
         /\ Trim(text) # <<>> =>
              \E a \in 1..Len(text), b \in 1..Len(text) :
                /\ a <= b /\ Trim(text) = SubSeq(text, a, b)
                /\ text[a] # "blank" /\ text[b] # "blank"
                /\ \A i \in 1..a - 1 : text[i] = "blank"
                /\ \A i \in b + 1..Len(text) : text[i] = "blank"
<1> DEFINE words == {i \in 1..Len(text) : text[i] # "blank"}
           Largest(i) == i \in words /\ \A j \in words : j <= i
           mirror == {Len(text) - i : i \in words}
<1>0. Len(text) \in Nat /\ DOMAIN text = 1..Len(text)
  OBVIOUS
<1>1. CASE words = {}
  <2>1. Trim(text) = <<>>
    BY <1>0, <1>1 DEF Trim
  <2> QED BY <1>1, <2>1, EmptySeq
<1>2. CASE words # {}
  <2>1. PICK a \in words : a = Least(words) /\ \A j \in words : a <= j
    <3>1. words \subseteq Nat
      BY <1>0
    <3> HIDE DEF words
    <3> QED BY <1>2, <3>1, LeastIsLeast
  <2>2. \E i \in words : Largest(i)
    <3>1. mirror # {} /\ mirror \subseteq Nat
      BY <1>0, <1>2
    <3>2. PICK m \in mirror : \A j \in mirror : m <= j
      <4> HIDE DEF mirror
      <4>1. Least(mirror) \in mirror /\ \A j \in mirror : Least(mirror) <= j
        BY <3>1, LeastIsLeast
      <4> QED BY <4>1
    <3>3. PICK i \in words : m = Len(text) - i
      BY <3>2
    <3>4. ASSUME NEW j \in words PROVE j <= i
      <4>1. m <= Len(text) - j
        BY <3>2
      <4> QED BY <1>0, <3>3, <4>1
    <3> QED BY <3>3, <3>4
  <2>3. PICK b \in words : b = (CHOOSE i \in words : \A j \in words : j <= i) /\ Largest(b)
    BY <2>2
  <2>4. Trim(text) = SubSeq(text, a, b)
    BY <1>0, <1>2, <2>1, <2>3 DEF Trim
  <2>5. a \in 1..Len(text) /\ b \in 1..Len(text) /\ a <= b
    BY <2>1, <2>3
  <2>6. Trim(text) \in Seq(Signs) /\ Len(Trim(text)) = b - a + 1
    BY <1>0, <2>4, <2>5, PieceOf
  <2>7. Trim(text) # <<>>
    BY <2>5, <2>6
  <2>8. text[a] # "blank" /\ text[b] # "blank"
    OBVIOUS
  <2>9. ASSUME NEW i \in 1..a - 1 PROVE text[i] = "blank"
    <3>1. i \in 1..Len(text) /\ ~(a <= i)
      BY <1>0, <2>5
    <3> QED BY <2>1, <3>1
  <2>10. ASSUME NEW i \in b + 1..Len(text) PROVE text[i] = "blank"
    <3>1. i \in 1..Len(text) /\ ~(i <= b)
      BY <1>0, <2>5
    <3> QED BY <2>3, <3>1
  <2> HIDE DEF words
  <2> QED BY <2>4, <2>5, <2>6, <2>7, <2>8, <2>9, <2>10
<1> QED BY <1>1, <1>2

\* What is handed over while an answer streams and what Trim leaves of the rest
\* are the answer; nothing is left only when all of it was handed over.
LEMMA RestIsSaid ==
  ASSUME NEW text \in Seq(Signs), text # <<>>, Trim(text) = text, NEW s \in 0..Len(text)
  PROVE  LET rest == Trim(SubSeq(text, s + 1, Len(text))) IN
         /\ rest \in Seq(Signs)
         /\ rest = <<>> => s = Len(text)
         /\ Says(SubSeq(text, 1, s) \o rest, text)
<1> DEFINE N == Len(text)
           tail == SubSeq(text, s + 1, N)
           rest == Trim(tail)
<1>1. N \in Nat \ {0} /\ s \in Nat /\ s <= N
  BY EmptySeq
<1>2. text[N] # "blank"
  <2>1. PICK a \in 1..N, b \in 1..N :
          /\ a <= b /\ text = SubSeq(text, a, b) /\ text[b] # "blank"
    BY TrimIs
  <2>2. Len(SubSeq(text, a, b)) = b - a + 1
    <3>1. a \in 1..N + 1 /\ b \in a - 1..N
      BY <1>1, <2>1
    <3> HIDE DEF tail
    <3> QED BY <3>1, PieceOf
  <2>3. b = N
    BY <1>1, <2>1, <2>2
  <2> QED BY <2>1, <2>3
<1>3. tail \in Seq(Signs) /\ Len(tail) = N - s /\ \A i \in 1..N - s : tail[i] = text[s + i]
  <2>1. s + 1 \in 1..N + 1 /\ N \in (s + 1) - 1..N /\ N - (s + 1) + 1 = N - s
    BY <1>1
  <2>2. /\ tail \in Seq(Signs) /\ Len(tail) = N - s
        /\ \A i \in 1..N - s : tail[i] = text[(s + 1) + i - 1]
    BY <2>1, PieceOf
  <2>3. \A i \in 1..N - s : (s + 1) + i - 1 = s + i
    BY <1>1
  <2> QED BY <2>2, <2>3
<1>4. rest \in Seq(Signs)
  <2> HIDE DEF tail
  <2> QED BY <1>3, TrimIs
<1>5. SubSeq(text, 1, s) \in Seq(Signs) /\ SubSeq(text, 1, N) = text
  <2>1. 1 \in 1..N + 1 /\ s \in 1 - 1..N
    BY <1>1
  <2> QED BY <2>1, PieceOf, SubSeqFull
<1>6. CASE rest = <<>>
  <2>1. \A i \in 1..N - s : tail[i] = "blank"
    <3> HIDE DEF tail
    <3> QED BY <1>3, <1>6, TrimIs
  <2>2. s = N
    <3> SUFFICES ASSUME s # N PROVE FALSE
      OBVIOUS
    <3>1. N - s \in 1..N - s /\ s + (N - s) = N
      BY <1>1
    <3> QED BY <1>2, <1>3, <2>1, <3>1
  <2>3. SubSeq(text, N + 1, N) = <<>>
    BY <1>1, SubSeqEmpty
  <2>4. \A k \in N + 1..N : text[k] = "blank"
    BY <1>1
  <2>5. Says(SubSeq(text, 1, s) \o rest, text)
    <3>1. SubSeq(text, 1, s) \o rest = SubSeq(text, 1, N) \o SubSeq(text, N + 1, N)
      BY <1>6, <2>2, <2>3
    <3>2. N \in 0..N /\ N \in N..N
      BY <1>1
    <3> QED BY <2>4, <3>1, <3>2 DEF Says
  <2> QED BY <1>4, <2>2, <2>5
<1>7. CASE rest # <<>>
  <2>1. PICK a \in 1..N - s, b \in 1..N - s :
          /\ a <= b /\ rest = SubSeq(tail, a, b)
          /\ tail[a] # "blank" /\ tail[b] # "blank"
          /\ \A i \in 1..a - 1 : tail[i] = "blank"
          /\ \A i \in b + 1..N - s : tail[i] = "blank"
    <3> HIDE DEF tail
    <3> QED BY <1>3, <1>7, TrimIs
  <2>2. b = N - s
    <3> SUFFICES ASSUME b # N - s PROVE FALSE
      OBVIOUS
    <3>1. N - s \in b + 1..N - s /\ N - s \in 1..N - s /\ s + (N - s) = N
      BY <1>1
    <3> QED BY <1>2, <1>3, <2>1, <3>1
  <2>3. rest = SubSeq(text, (s + a - 1) + 1, N)
    <3>1. /\ s + 1 \in 1..N /\ N \in 1..N
          /\ a \in 1..N - (s + 1) + 1 /\ b \in 1..N - (s + 1) + 1
      BY <1>1
    <3>2. SubSeq(tail, a, b) = SubSeq(text, (s + 1) + a - 1, (s + 1) + b - 1)
      BY <3>1, SubSeqOfSubSeq
    <3>3. (s + 1) + a - 1 = (s + a - 1) + 1 /\ (s + 1) + b - 1 = N
      BY <1>1, <2>2
    <3> QED BY <2>1, <3>2, <3>3
  <2>4. ASSUME NEW k \in s + 1..s + a - 1 PROVE text[k] = "blank"
    <3>1. k - s \in 1..a - 1 /\ k - s \in 1..N - s /\ s + (k - s) = k
      BY <1>1
    <3> QED BY <1>3, <2>1, <3>1
  <2>5. s + a - 1 \in s..N
    BY <1>1
  <2>6. Says(SubSeq(text, 1, s) \o rest, text)
    BY <2>3, <2>4, <2>5 DEF Says
  <2> QED BY <1>4, <1>7, <2>6
<1> QED BY <1>6, <1>7

LEMMA StartOf ==
  ASSUME NEW text \in Seq(Signs), NEW n \in 0..Len(text)
  PROVE  /\ SubSeq(text, 1, n) \in Seq(Signs) /\ Len(SubSeq(text, 1, n)) = n
         /\ \A i \in 1..n : SubSeq(text, 1, n)[i] = text[i]
<1>1. Len(text) \in Nat
  OBVIOUS
<1>2. 1 \in 1..Len(text) + 1 /\ n \in 1 - 1..Len(text) /\ n - 1 + 1 = n
  BY <1>1
<1>3. \A i \in 1..n : 1 + i - 1 = i
  OBVIOUS
<1> QED BY <1>2, <1>3, PieceOf

LEMMA PrefixIs ==
  ASSUME NEW text \in Seq(Signs), NEW whole \in Seq(Signs), IsPrefix(text, whole)
  PROVE  Len(text) <= Len(whole) /\ \A i \in 1..Len(text) : whole[i] = text[i]
<1>1. SubSeq(text, 1, Len(text)) = SubSeq(whole, 1, Len(text)) /\ Len(text) <= Len(whole)
  BY DEF IsPrefix
<1>2. SubSeq(text, 1, Len(text)) = text
  BY SubSeqFull
<1>3. Len(text) \in 0..Len(whole)
  BY <1>1
<1>4. \A i \in 1..Len(text) : SubSeq(whole, 1, Len(text))[i] = whole[i]
  BY <1>3, StartOf
<1> QED BY <1>1, <1>2, <1>4

LEMMA StartKept ==
  ASSUME NEW text \in Seq(Signs), NEW longer \in Seq(Signs), Len(text) <= Len(longer),
         \A i \in 1..Len(text) : longer[i] = text[i],
         NEW s \in 0..Len(text), NEW start, start = SubSeq(text, 1, s)
  PROVE  start = SubSeq(longer, 1, s)
<1>1. s \in 0..Len(longer) /\ \A i \in 1..s : i \in 1..Len(text)
  OBVIOUS
<1>2. start \in Seq(Signs) /\ Len(start) = s /\ \A i \in 1..s : start[i] = text[i]
  BY StartOf
<1>3. /\ SubSeq(longer, 1, s) \in Seq(Signs) /\ Len(SubSeq(longer, 1, s)) = s
      /\ \A i \in 1..s : SubSeq(longer, 1, s)[i] = longer[i]
  BY <1>1, StartOf
<1>4. \A i \in 1..s : start[i] = SubSeq(longer, 1, s)[i]
  BY <1>1, <1>2, <1>3
<1> QED BY <1>2, <1>3, <1>4, SeqEqual

-------------------------------------------------------------------------------
(* The ask: its invariant. *)

AskStates ==
  [pc : AskPcs, round : 0..MaxRounds, partial : Seq(Signs), content : Seq(Signs),
   spoken : Nat, reply : Seq(Signs), streamed : BOOLEAN, jumped : BOOLEAN]

ToRaise == (IF ask.pc \in {"prepare", "bump"} THEN 1 ELSE 0) + (IF canceller = "bump" THEN 1 ELSE 0)

(* Every ask and every cancel raises the generation once, so that it is bounded
   by what was raised and by what has yet to be. *)
Shapes ==
  /\ ask \in AskStates
  /\ asks \in 0..MaxAsks /\ cancels \in 0..MaxCancels
  /\ cancelled \in BOOLEAN /\ hit \in BOOLEAN
  /\ canceller \in {"no", "bump", "kill", "unmute", "try"}
  /\ gen \in Nat \ {0}
  /\ gen + ToRaise <= 1 + asks + cancels
  /\ ask.pc # "idle" => asks > 0
  /\ said \in Seq(Signs)

(* A thread past speak_lock holds it; one that speaks has seen the generation
   there is, or is among the lines a bump found speaking. *)
LineStates == [pc : LinePcs, gen : 0..1 + MaxAsks + MaxCancels, ask : 0..MaxAsks]

LinesInv ==
  /\ line \in [Lines -> LineStates]
  /\ \A l \in Lines : line[l].pc # "off" => line[l].ask # 0
  /\ lock \in Lines \cup {Nobody}
  /\ late \subseteq Lines
  /\ player \in Play!Outputs(Players)
  /\ line[0].pc \notin {"lock", "idle"}
  /\ \A l \in Lines \ {0} : line[l].pc \notin {"off", "lock"} => lock = l
  /\ \A l \in late : Speaking(l)
  /\ \A l \in Lines : Speaking(l) => Current(l) \/ l \in late

(* What is handed over is the text as far as the offset, unless the first delta
   of the round was as long as the offset an earlier round left. *)
Handed ==
  /\ ask.partial # NoText /\ ask.spoken <= Len(ask.partial)
  /\ said = SubSeq(ask.partial, 1, ask.spoken)

StreamInv ==
  /\ ask.pc \in {"prepare", "bump", "kill", "unmute", "round"} => ~ask.streamed
  /\ ask.pc \in {"stream", "turn"} =>
       /\ ask.partial = NoText => said = NoText /\ ~ask.jumped
       /\ ask.partial # NoText => ask.jumped \/ Handed
  /\ ask.pc = "reply" /\ ask.streamed =>
       ask.reply = Trim(ask.partial) /\ (ask.jumped \/ Handed)

AskInv == Shapes /\ LinesInv /\ StreamInv /\ SaidAsStreamed

LEMMA AskConstants ==
  /\ NoText \in Seq(Signs) /\ Snippets \in Seq(Signs) /\ PendingText \in Seq(Signs)
  /\ Idle \in AskStates
  /\ \A whole \in Replies : whole \in Seq(Signs)
<1>1. NoText \in Seq(Signs)
  BY EmptySeq DEF NoText
<1>2. Snippets \in Seq(Signs) /\ PendingText \in Seq(Signs)
  BY DEF Snippets, PendingText, Signs
<1>3. Idle \in AskStates
  BY <1>1 DEF Idle, AskStates, AskPcs
<1> QED BY <1>1, <1>2, <1>3 DEF Signs

LEMMA SoftFinalIs ==
  ASSUME ask \in AskStates, NEW text \in Seq(Signs)
  PROVE  SoftFinal(text) \in Seq(Signs)
<1>1. Trim(text) \in Seq(Signs)
  BY TrimIs
<1> QED BY <1>1, AskConstants DEF SoftFinal, AskStates

LEMMA NoTextTrims == Trim(NoText) = NoText
  BY DEF Trim, NoText

LEMMA PlayerShapes ==
  ASSUME NEW play \in Play!Outputs(Players), NEW p \in Players
  PROVE  /\ Play!Silent \in Play!Outputs(Players)
         /\ Play!Spawned(play, p) \in Play!Outputs(Players)
         /\ Play!Remembered(play, p) \in Play!Outputs(Players)
         /\ Play!Ended(play, p) \in Play!Outputs(Players)
         /\ Play!HandedOver(play, p) \in Play!Outputs(Players)
         /\ Play!Reaped(play, p) \in Play!Outputs(Players)
         /\ Play!Aborted(play, p) \in Play!Outputs(Players)
  BY ZenonT(30) DEF Play!Outputs, Play!Silent, Play!Spawned, Play!Remembered, Play!Ended,
         Play!HandedOver, Play!Reaped, Play!Forgot, Play!Aborted, Play!Unmuted

LEMMA QuietShapes ==
  ASSUME NEW play \in Play!Outputs(Players)
  PROVE  /\ Play!Silent \in Play!Outputs(Players)
         /\ Play!Interrupted(play) \in Play!Outputs(Players)
         /\ Play!Unmuted(play) \in Play!Outputs(Players)
         /\ Play!GraceOver(play) \in Play!Outputs(Players)
  BY DEF Play!Outputs, Play!Silent, Play!Interrupted, Play!Unmuted, Play!GraceOver

\* The invariant bounds the generation and leaves one line past its last look.
LEMMA AskInvMeans ==
  ASSUME AskInv
  PROVE  AskTypeOK /\ SaidAsStreamed /\ QueueIsDropped
<1> USE DEF AskInv
<1>1. gen \in 1..1 + MaxAsks + MaxCancels
  BY DEF Shapes, ToRaise
<1>2. AskTypeOK
  BY <1>1 DEF AskTypeOK, Shapes, LinesInv, LineStates, AskStates
<1>3. late \ {0} \subseteq {lock}
  BY DEF LinesInv, Speaking
<1>4. Cardinality(late \ {0}) <= 1
  <2>1. CASE late \ {0} = {}
    <3>1. Cardinality({}) = 0
      BY FS_EmptySet, Zenon
    <3>2. Cardinality(late \ {0}) = 0
      BY <2>1, <3>1, Zenon
    <3> QED BY <3>2
  <2>2. CASE late \ {0} # {}
    <3>1. late \ {0} = {lock}
      BY <1>3, <2>2
    <3>2. Cardinality({lock}) = 1
      BY FS_Singleton, Zenon
    <3>3. Cardinality(late \ {0}) = 1
      BY <3>1, <3>2, Zenon
    <3> QED BY <3>3
  <2> QED BY <2>1, <2>2
<1> QED BY <1>2, <1>4 DEF QueueIsDropped, LinesInv

LEMMA AskInvInit == AskInit => AskInv
<1> SUFFICES ASSUME AskInit PROVE AskInv
  OBVIOUS
<1> USE DEF AskInit
<1>1. Shapes
  <2>1. ask.pc = "idle" /\ canceller = "no"
    BY DEF Idle
  <2>2. gen + ToRaise <= 1 + asks + cancels
    BY <2>1 DEF ToRaise
  <2>3. said \in Seq(Signs)
    BY AskConstants DEF NoText
  <2>4. ask \in AskStates
    BY AskConstants
  <2>5. /\ asks \in 0..MaxAsks /\ cancels \in 0..MaxCancels
        /\ gen \in Nat \ {0}
        /\ canceller \in {"no", "bump", "kill", "unmute", "try"}
    OBVIOUS
  <2>6. cancelled \in BOOLEAN /\ hit \in BOOLEAN
    BY Zenon
  <2> HIDE DEF AskInit
  <2> QED BY <2>1, <2>2, <2>3, <2>4, <2>5, <2>6 DEF Shapes
<1>2. LinesInv
  <2>1. Play!Silent \in Play!Outputs(Players)
    BY DEF Play!Outputs, Play!Silent
  <2>2. 0 \in Lines
    BY DEF Lines
  <2> QED BY <2>1, <2>2 DEF LinesInv, LineStates, LinePcs, Off, Speaking
<1>3. StreamInv /\ SaidAsStreamed
  BY DEF StreamInv, SaidAsStreamed, Answered, At, Idle
<1> QED BY <1>1, <1>2, <1>3 DEF AskInv

-------------------------------------------------------------------------------
(* The ask: its steps and the texts. *)

LEMMA ShapesFrame ==
  ASSUME Shapes, ask.pc # "idle", ask' \in AskStates, ask'.pc \notin {"prepare", "bump"},
         said' \in Seq(Signs), UNCHANGED <<asks, cancelVars, gen, hit>>
  PROVE  Shapes'
<1>1. PICK t \in Nat, u \in Nat : t = ToRaise /\ u = ToRaise' /\ u <= t
  <2>1. ToRaise' <= ToRaise /\ ToRaise \in Nat /\ ToRaise' \in Nat
    BY DEF ToRaise, cancelVars
  <2> QED BY <2>1
<1>2. gen' + ToRaise' <= 1 + asks' + cancels'
  <2>1. /\ gen' = gen /\ asks' = asks /\ cancels' = cancels
        /\ gen + t <= 1 + asks + cancels
        /\ gen \in Nat /\ asks \in Nat /\ cancels \in Nat
    BY <1>1 DEF Shapes, cancelVars
  <2>2. gen + u <= 1 + asks + cancels
    <3>1. u <= t
      BY <1>1
    <3>2. gen + u <= gen + t
      BY <2>1, <3>1
    <3>3. gen + t <= 1 + asks + cancels
      BY <2>1
    <3> QED BY <2>1, <3>2, <3>3
  <2> QED BY <1>1, <2>1, <2>2, Zenon
<1>3. cancelled' \in BOOLEAN /\ hit' \in BOOLEAN
  BY Zenon DEF Shapes, cancelVars
<1> QED BY <1>2, <1>3 DEF Shapes, cancelVars

\* The steps that leave the text handed over alone.
LEMMA QuietAskTypes ==
  ASSUME Shapes,
         Reject \/ StartRound \/ StreamEnds \/ StreamFails \/ TextTurn \/ ToolTurn
           \/ PendingTurn \/ FinishSilently \/ Release
  PROVE  Shapes'
<1>1. ask \in AskStates /\ said \in Seq(Signs) /\ ask.pc # "idle"
  BY DEF Shapes, Reject, StartRound, StreamEnds, StreamFails, TextTurn, ToolTurn,
         PendingTurn, FinishSilently, Release, At
<1>2. /\ Trim(ask.partial) \in Seq(Signs) /\ SoftFinal(NoText) \in Seq(Signs)
      /\ SoftFinal(ask.partial) \in Seq(Signs)
  BY <1>1, TrimIs, SoftFinalIs, AskConstants DEF AskStates
<1>3. said' \in Seq(Signs)
  BY <1>1, AskConstants DEF Reject, StartRound, StreamEnds, StreamFails, TextTurn, ToolTurn,
     PendingTurn, FinishSilently, Release, NoText
<1>4. ask' \in AskStates /\ ask'.pc \notin {"prepare", "bump"}
  <2>1. CASE Reject \/ StreamFails \/ FinishSilently \/ Release
    <3>1. ask' = Idle /\ Idle.pc = "idle"
      BY <2>1 DEF Reject, StreamFails, FinishSilently, Release, Idle
    <3> QED BY <3>1, AskConstants
  <2>2. CASE StartRound
    <3>1. CASE cancelled
      BY <1>1, <1>2, <2>2, <3>1 DEF StartRound, AskStates, AskPcs
    <3>2. CASE ~cancelled
      BY <1>1, AskConstants, <2>2, <3>2, ZenonT(30) DEF StartRound, AskStates, AskPcs
    <3> QED BY <3>1, <3>2
  <2>3. CASE StreamEnds
    BY <1>1, <2>3 DEF StreamEnds, AskStates, AskPcs
  <2>4. CASE TextTurn
    BY <1>1, <1>2, AskConstants, <2>4 DEF TextTurn, AskStates, AskPcs, Idle
  <2>5. CASE ToolTurn
    <3>1. CASE IsLast
      BY <1>1, <1>2, <2>5, <3>1 DEF ToolTurn, AskStates, AskPcs
    <3>2. CASE ~IsLast
      <4>1. ask.round + 1 \in 0..MaxRounds
        BY <1>1, <3>2 DEF IsLast, AskStates
      <4>2. (IF Trim(ask.partial) # NoText THEN Trim(ask.partial) ELSE ask.content) \in Seq(Signs)
        BY <1>1, <1>2 DEF AskStates
      <4> QED BY <1>1, <2>5, <3>2, <4>1, <4>2 DEF ToolTurn, AskStates, AskPcs
    <3> QED BY <3>1, <3>2
  <2>6. CASE PendingTurn
    BY <1>1, AskConstants, <2>6 DEF PendingTurn, AskStates, AskPcs
  <2> QED BY <2>1, <2>2, <2>3, <2>4, <2>5, <2>6
<1>5. UNCHANGED <<asks, cancelVars, gen, hit>>
  BY DEF Reject, StartRound, StreamEnds, StreamFails, TextTurn, ToolTurn, PendingTurn,
         FinishSilently, Release
<1> QED BY <1>1, <1>3, <1>4, <1>5, ShapesFrame

\* The generation is raised once by each ask, and once by each cancel.
LEMMA RaisingTypes ==
  ASSUME Shapes, Begin \/ Prepare \/ Silence \/ CancelStep
  PROVE  Shapes'
<1> USE DEF Shapes, cancelVars, askVars, ToRaise
<1>1. CASE Begin
  <2>1. ask' \in AskStates /\ ask.pc = "idle" /\ ask'.pc = "prepare"
    BY <1>1, AskConstants DEF Begin, At, AskStates, AskPcs
  <2>2. asks' = asks + 1 /\ asks' \in 0..MaxAsks /\ UNCHANGED <<cancels, canceller, gen>>
    BY <1>1, SMTT(20) DEF Begin
  <2>3. cancelled' \in BOOLEAN /\ hit' \in BOOLEAN /\ said' \in Seq(Signs)
    BY <1>1, AskConstants, Zenon DEF Begin, NoText
  <2>4. gen' + ToRaise' <= 1 + asks' + cancels'
    BY <2>1, <2>2
  <2> HIDE DEF ToRaise
  <2> QED BY <2>1, <2>2, <2>3, <2>4
<1>2. CASE Prepare
  <2>1. ask' \in AskStates /\ ask.pc = "prepare" /\ ask'.pc = "bump"
    BY <1>2 DEF Prepare, At, AskStates, AskPcs
  <2>2. UNCHANGED <<asks, cancels, canceller, gen, said>>
    BY <1>2 DEF Prepare
  <2>3. cancelled' \in BOOLEAN /\ hit' \in BOOLEAN
    BY <1>2, Zenon DEF Prepare
  <2>4. gen' + ToRaise' <= 1 + asks' + cancels'
    BY <2>1, <2>2
  <2> HIDE DEF ToRaise
  <2> QED BY <2>1, <2>2, <2>3, <2>4
<1>3. CASE Silence
  <2>0. 1 \in 0..MaxRounds
    OBVIOUS
  <2>1. /\ ask' \in AskStates /\ ask.pc # "idle" /\ ask'.pc \in {"kill", "unmute", "round"}
        /\ IF ask.pc = "bump" THEN gen' = gen + 1 ELSE gen' = gen
    <3>1. CASE At("bump") /\ ask' = [ask EXCEPT !.pc = "kill"] /\ Bump
      BY <3>1 DEF At, AskStates, AskPcs, Bump
    <3>2. CASE At("kill") /\ ask' = [ask EXCEPT !.pc = "unmute"] /\ Kill
      BY <3>2 DEF At, AskStates, AskPcs, Kill
    <3>3. CASE At("unmute") /\ ask' = [ask EXCEPT !.pc = "round", !.round = 1] /\ Unmute
      BY <2>0, <3>3 DEF At, AskStates, AskPcs, Unmute
    <3> QED BY <1>3, <3>1, <3>2, <3>3 DEF Silence
  <2>2. UNCHANGED <<asks, cancels, canceller, said>>
    BY <1>3 DEF Silence, Bump, Kill, Unmute
  <2>3. cancelled' \in BOOLEAN /\ hit' \in BOOLEAN
    BY <1>3, Zenon DEF Silence, Bump, Kill, Unmute
  <2>4. gen' + ToRaise' <= 1 + asks' + cancels' /\ gen' \in Nat \ {0}
    BY <2>1, <2>2
  <2> HIDE DEF ToRaise
  <2> QED BY <2>1, <2>2, <2>3, <2>4
<1>4. CASE CancelStep
  <2>1. UNCHANGED <<ask, asks, said>>
    BY <1>4 DEF CancelStep, CancelAsk, CancelSpeech, TryClear, Bump, Kill, Unmute
  <2>2. /\ canceller' \in {"no", "bump", "kill", "unmute", "try"}
        /\ cancels' \in 0..MaxCancels /\ gen' \in Nat \ {0}
        /\ gen' + ToRaise' <= 1 + asks' + cancels'
    <3>1. CASE CancelAsk
      BY <2>1, <3>1 DEF CancelAsk
    <3>2. CASE CancelSpeech
      BY <2>1, <3>2 DEF CancelSpeech, Bump, Kill, Unmute
    <3>3. CASE TryClear
      BY <2>1, <3>3 DEF TryClear
    <3> QED BY <1>4, <3>1, <3>2, <3>3 DEF CancelStep
  <2>3. cancelled' \in BOOLEAN
    <3>1. CASE CancelAsk
      BY <3>1, Zenon DEF CancelAsk
    <3>2. CASE CancelSpeech
      BY <3>2, Zenon DEF CancelSpeech, Bump, Kill, Unmute
    <3>3. CASE TryClear
      <4>1. cancelled' = FALSE \/ cancelled' = cancelled
        BY <3>3, Zenon DEF TryClear
      <4> QED BY <4>1, Zenon
    <3> QED BY <1>4, <3>1, <3>2, <3>3, Zenon DEF CancelStep
  <2>4. hit' \in BOOLEAN
    <3>1. CASE CancelAsk
      BY <3>1, Zenon DEF CancelAsk
    <3>2. CASE CancelSpeech
      BY <3>2, Zenon DEF CancelSpeech, Bump, Kill, Unmute
    <3>3. CASE TryClear
      BY <3>3, Zenon DEF TryClear
    <3> QED BY <1>4, <3>1, <3>2, <3>3, Zenon DEF CancelStep
  <2> HIDE DEF ToRaise
  <2> QED BY <2>1, <2>2, <2>3, <2>4
<1> QED BY <1>1, <1>2, <1>3, <1>4

\* One delta: the offset of an earlier round is clamped or the round is given up,
\* that of this one is kept, and what is handed over is the text as far as the
\* offset again.
LEMMA DeltaHands ==
  ASSUME Shapes, StreamInv, NEW whole \in Replies, NEW n \in Deltas, Delta(whole, n)
  PROVE  Shapes' /\ StreamInv'
<1> DEFINE longer == SubSeq(whole, 1, Len(ask.partial) + n)
           from == Clamp(longer, ask.spoken)
           to == Taken(longer, ask.spoken)
           jumps == ask.jumped \/ (ask.partial = NoText /\ ask.spoken \in 1..n)
<1>1. /\ whole \in Seq(Signs) /\ ask \in AskStates /\ ask.partial \in Seq(Signs)
      /\ Len(ask.partial) \in Nat /\ ask.spoken \in Nat /\ n \in Nat \ {0}
      /\ said \in Seq(Signs) /\ ask.pc = "stream"
  BY AskConstants DEF Shapes, AskStates, Delta, At
<1>2. /\ longer \in Seq(Signs) /\ Len(longer) = Len(ask.partial) + n
      /\ \A i \in 1..Len(ask.partial) : longer[i] = ask.partial[i]
  <2>1. /\ n \in Nat /\ Len(ask.partial) + n <= Len(whole) /\ Len(whole) \in Nat
        /\ IsPrefix(ask.partial, whole)
    BY <1>1 DEF Delta
  <2>2. PICK m \in 0..Len(whole) : m = Len(ask.partial) + n
    BY <1>1, <2>1
  <2>3. longer = SubSeq(whole, 1, m)
    BY <2>2
  <2>4. longer \in Seq(Signs) /\ Len(longer) = m /\ \A i \in 1..m : longer[i] = whole[i]
    BY <1>1, <2>3, StartOf
  <2>5. \A i \in 1..Len(ask.partial) : whole[i] = ask.partial[i]
    BY <1>1, <2>1, PrefixIs
  <2> HIDE DEF longer
  <2> QED BY <1>1, <2>1, <2>2, <2>4, <2>5
<1>3. /\ ask' = [ask EXCEPT !.partial = longer, !.spoken = to,
                            !.jumped = jumps,
                            !.pc = IF cancelled THEN "turn" ELSE "stream"]
      /\ IF to = from THEN UNCHANGED <<line, said>> ELSE Hand(SubSeq(longer, from + 1, to))
      /\ UNCHANGED <<asks, cancelVars, gen, hit>>
  BY DEF Delta
<1> HIDE DEF longer, jumps
<1>4. from \in 0..Len(longer) /\ (to = from \/ to \in from + 1..Len(longer))
  BY <1>1, <1>2, TakenIs
<1>5. ASSUME ~jumps PROVE said = SubSeq(longer, 1, from)
  <2>1. CASE ask.partial = NoText
    <3>1. Len(longer) = n /\ said = <<>>
      BY <1>1, <1>2, <2>1, EmptySeq DEF StreamInv, NoText
    <3>2. from = 0
      BY <1>1, <1>5, <2>1, <3>1 DEF jumps, Clamp
    <3>3. SubSeq(longer, 1, 0) = <<>>
      BY SubSeqEmpty
    <3> QED BY <3>1, <3>2, <3>3
  <2>2. CASE ask.partial # NoText
    <3>1. ask.spoken <= Len(ask.partial) /\ said = SubSeq(ask.partial, 1, ask.spoken)
      BY <1>1, <1>5, <2>2 DEF StreamInv, Handed, jumps
    <3>2. from = ask.spoken
      BY <1>1, <1>2, <3>1 DEF Clamp
    <3>3. ask.spoken \in 0..Len(ask.partial)
      BY <1>1, <3>1
    <3> HIDE DEF from
    <3>4. said = SubSeq(longer, 1, from)
      <4>0. PICK s \in 0..Len(ask.partial) : s = ask.spoken
        BY <3>3
      <4>1. PICK text \in Seq(Signs) : text = ask.partial /\ s \in 0..Len(text) /\ s = ask.spoken
        BY <1>1, <4>0
      <4>2. said = SubSeq(text, 1, s)
        BY <3>1, <4>1
      <4>3. Len(text) <= Len(longer) /\ \A i \in 1..Len(text) : longer[i] = text[i]
        BY <1>1, <1>2, <4>1
      <4>4. said = SubSeq(longer, 1, s)
        BY <1>2, <4>1, <4>2, <4>3, StartKept, ZenonT(60)
      <4> QED BY <3>2, <4>1, <4>4
    <3> QED BY <3>4
  <2> QED BY <2>1, <2>2
<1> HIDE DEF from, to
<1>6. to \in 0..Len(longer) /\ to \in from..Len(longer)
  BY <1>1, <1>2, <1>4
<1>11. said' \in Seq(Signs) /\ (~jumps => said' = SubSeq(longer, 1, to))
  <2>1. CASE to = from
    BY <1>1, <1>3, <1>5, <2>1
  <2>2. CASE to # from
    <3>1. said' = said \o SubSeq(longer, from + 1, to)
      BY <1>3, <2>2 DEF Hand
    <3>2. /\ 1 \in 1..Len(longer) + 1 /\ from \in 1 - 1..Len(longer) /\ to \in 1 - 1..Len(longer)
          /\ from + 1 \in 1..Len(longer) + 1 /\ to \in (from + 1) - 1..Len(longer)
      BY <1>1, <1>2, <1>4, <1>6
    <3>3. SubSeq(longer, 1, from) \o SubSeq(longer, from + 1, to) = SubSeq(longer, 1, to)
      BY <1>2, <1>6, <3>2, ConcatAdjacentSubSeq
    <3>4. SubSeq(longer, from + 1, to) \in Seq(Signs)
      BY <1>2, <3>2, PieceOf
    <3>5. said' \in Seq(Signs)
      BY <1>1, <3>1, <3>4, ConcatProperties
    <3> QED BY <1>5, <3>1, <3>3, <3>5
  <2> QED BY <2>1, <2>2
<1>7. /\ ask' \in AskStates /\ ask'.pc \in {"stream", "turn"}
      /\ ask'.partial = longer /\ ask'.spoken = to /\ (ask'.jumped <=> jumps)
  <2>1. PICK pc \in {"stream", "turn"} : pc = IF cancelled THEN "turn" ELSE "stream"
    BY Zenon
  <2>2. PICK j \in BOOLEAN : j <=> jumps
    BY Zenon
  <2>3. PICK t \in Seq(Signs), k \in Nat : t = longer /\ k = to
    BY <1>1, <1>2, <1>6
  <2>4. jumps \in BOOLEAN
    BY <1>1, Zenon DEF jumps, AskStates
  <2>5. j = jumps
    BY <2>2, <2>4, Zenon
  <2>6. ask' = [ask EXCEPT !.partial = t, !.spoken = k, !.jumped = j, !.pc = pc]
    BY <1>3, <2>1, <2>3, <2>5, Zenon
  <2> QED BY <1>1, <2>2, <2>3, <2>6 DEF AskStates, AskPcs
<1>8. longer # <<>>
  BY <1>1, <1>2, EmptySeq
<1>9. Shapes'
  BY <1>1, <1>3, <1>7, <1>11, ShapesFrame
<1>10. ask'.jumped \/ Handed'
  BY <1>6, <1>7, <1>8, <1>11 DEF Handed, NoText
<1> QED BY <1>7, <1>8, <1>9, <1>10 DEF StreamInv, NoText

\* The rounds, the turns and what ends an ask.
LEMMA QuietAskTexts ==
  ASSUME Shapes, StreamInv,
         Begin \/ Reject \/ Prepare \/ Silence \/ StartRound \/ StreamEnds \/ StreamFails
           \/ TextTurn \/ ToolTurn \/ PendingTurn \/ FinishSilently \/ Release
  PROVE  StreamInv' /\ SaidAsStreamed'
<1>0. ask \in AskStates
  BY DEF Shapes
<1> USE DEF StreamInv, AskStates, At, Handed
<1>1. CASE ask' = Idle
  BY <1>1 DEF Idle, SaidAsStreamed, Answered
<1>2. CASE Begin
  BY <1>2 DEF Begin, Idle, SaidAsStreamed, Answered
<1>3. CASE Prepare
  BY <1>0, <1>3 DEF Prepare, SaidAsStreamed, Answered
<1>4. CASE Silence
  BY <1>0, <1>4 DEF Silence, SaidAsStreamed, Answered
<1>5. CASE StartRound
  <2>1. ask.pc = "round" /\ ~ask.streamed
    BY <1>5 DEF StartRound
  <2>2. CASE cancelled
    <3>1. ask' = [ask EXCEPT !.pc = "reply", !.reply = SoftFinal(NoText)]
      BY <1>5, <2>2, Zenon DEF StartRound
    <3> QED BY <1>0, <2>1, <3>1 DEF SaidAsStreamed, Answered
  <2>3. CASE ~cancelled
    <3>1. /\ ask' = [ask EXCEPT !.pc = "stream", !.partial = NoText, !.streamed = TRUE,
                                !.jumped = FALSE]
          /\ said' = NoText
      BY <1>5, <2>3, Zenon DEF StartRound, NoText
    <3> QED BY <1>0, <2>1, <3>1 DEF SaidAsStreamed, Answered
  <2> QED BY <2>2, <2>3
<1>6. CASE StreamEnds
  BY <1>0, <1>6 DEF StreamEnds, SaidAsStreamed, Answered
<1>7. CASE TextTurn
  <2>1. Trim(ask.partial) # NoText => ask.partial # NoText
    BY NoTextTrims
  <2> QED BY <1>0, <1>1, <1>7, <2>1 DEF TextTurn, SaidAsStreamed, Answered
<1>8. CASE ToolTurn
  <2>1. Trim(ask.partial) # NoText => ask.partial # NoText
    BY NoTextTrims
  <2>2. SoftFinal(ask.partial) = IF Trim(ask.partial) # NoText THEN Trim(ask.partial)
                                 ELSE SoftFinal(ask.partial)
    BY DEF SoftFinal
  <2> QED BY <1>0, <1>8, <2>1, <2>2 DEF ToolTurn, SaidAsStreamed, Answered
<1>9. CASE PendingTurn
  BY <1>0, <1>9 DEF PendingTurn, SaidAsStreamed, Answered
<1> QED BY <1>1, <1>2, <1>3, <1>4, <1>5, <1>6, <1>7, <1>8, <1>9
        DEF Reject, StreamFails, FinishSilently, Release

\* The rest of an answer that streamed is what was not handed over.
LEMMA FinishSays ==
  ASSUME Shapes, StreamInv, Finish
  PROVE  Shapes' /\ StreamInv' /\ SaidAsStreamed'
<1> DEFINE rest == Remainder(ask.reply, ask.spoken)
<1>1. /\ ask \in AskStates /\ ask.pc = "reply" /\ ask.spoken \in Nat
      /\ ask.reply \in Seq(Signs) /\ said \in Seq(Signs)
  BY DEF Shapes, AskStates, Finish, At
<1>2. rest \in Seq(Signs)
  <2>1. Clamp(ask.reply, ask.spoken) \in 0..Len(ask.reply)
    BY <1>1, TakenIs
  <2>2. SubSeq(ask.reply, Clamp(ask.reply, ask.spoken) + 1, Len(ask.reply)) \in Seq(Signs)
    <3>1. /\ Clamp(ask.reply, ask.spoken) + 1 \in 1..Len(ask.reply) + 1
          /\ Len(ask.reply) \in (Clamp(ask.reply, ask.spoken) + 1) - 1..Len(ask.reply)
      BY <1>1, <2>1
    <3> QED BY <1>1, <3>1, PieceOf
  <2> QED BY <2>2, TrimIs DEF Remainder
<1>3. /\ ask' = [ask EXCEPT !.pc = "done"] \/ ask' = [ask EXCEPT !.pc = "speak"]
      /\ IF rest = NoText THEN said' = said ELSE said' = said \o rest
      /\ UNCHANGED <<asks, cancelVars, gen, hit>>
  BY DEF Finish, Hand
<1> HIDE DEF rest
<1>4. said' = said \o rest /\ said' \in Seq(Signs)
  <2>1. said \o rest \in Seq(Signs)
    BY <1>1, <1>2, ConcatProperties
  <2>2. said \o <<>> = said
    BY <1>1, ConcatEmptySeq
  <2> QED BY <1>3, <2>1, <2>2 DEF NoText
<1>5. /\ ask' \in AskStates /\ ask'.pc \in {"done", "speak"}
      /\ ask'.partial = ask.partial /\ ask'.reply = ask.reply /\ ask'.streamed = ask.streamed
      /\ ask'.jumped = ask.jumped
  BY <1>1, <1>3 DEF AskStates, AskPcs
<1>6. Shapes'
  BY <1>1, <1>3, <1>4, <1>5, ShapesFrame
<1>7. StreamInv'
  BY <1>5 DEF StreamInv
<1>8. ASSUME ask.streamed, Trim(ask.partial) = ask.partial, ~ask.jumped
      PROVE  Says(said', ask.reply)
  <2>1. /\ ask.reply = ask.partial /\ ask.reply # <<>>
        /\ ask.spoken <= Len(ask.reply) /\ said = SubSeq(ask.reply, 1, ask.spoken)
    BY <1>1, <1>8 DEF StreamInv, Handed, NoText
  <2>2. ask.spoken \in 0..Len(ask.reply) /\ Clamp(ask.reply, ask.spoken) = ask.spoken
    BY <1>1, <2>1 DEF Clamp
  <2>3. rest = Trim(SubSeq(ask.reply, ask.spoken + 1, Len(ask.reply)))
    BY <2>2 DEF rest, Remainder
  <2>4. Says(SubSeq(ask.reply, 1, ask.spoken) \o rest, ask.reply)
    BY <1>1, <1>8, <2>1, <2>2, <2>3, RestIsSaid
  <2> QED BY <1>4, <2>1, <2>4
<1>9. SaidAsStreamed'
  BY <1>5, <1>8 DEF SaidAsStreamed
<1> QED BY <1>6, <1>7, <1>9

-------------------------------------------------------------------------------
(* The ask: its speech threads. *)

LEMMA LinesFrame ==
  ASSUME LinesInv, UNCHANGED <<gen, speechVars, late>>
  PROVE  LinesInv'
BY DEF LinesInv, speechVars, Speaking, Current

\* The player may be another; the threads are the same.
LEMMA PlayerFrame ==
  ASSUME LinesInv, player' \in Play!Outputs(Players), UNCHANGED <<gen, line, lock, late>>
  PROVE  LinesInv'
BY DEF LinesInv, Speaking, Current

LEMMA SilencedLines ==
  ASSUME LinesInv, Bump \/ Kill \/ Unmute
  PROVE  LinesInv'
<1>1. CASE Bump
  <2>1. UNCHANGED speechVars /\ late' = late \cup {l \in Lines : Speaking(l)}
    BY <1>1 DEF Bump
  <2>2. late' = {l \in Lines : Speaking(l)}
    BY <2>1 DEF LinesInv
  <2> QED BY <2>1, <2>2 DEF LinesInv, speechVars, Speaking
<1>2. CASE Kill
  BY <1>2, QuietShapes, PlayerFrame DEF Kill, LinesInv
<1>3. CASE Unmute
  BY <1>3, QuietShapes, PlayerFrame DEF Unmute, LinesInv
<1> QED BY <1>1, <1>2, <1>3

LEMMA GenBound ==
  ASSUME Shapes
  PROVE  gen \in 0..1 + MaxAsks + MaxCancels /\ asks \in 0..MaxAsks
<1>1. /\ gen \in Nat /\ asks \in 0..MaxAsks /\ cancels \in 0..MaxCancels
      /\ ToRaise \in Nat /\ gen + ToRaise <= 1 + asks + cancels
  BY DEF Shapes, ToRaise
<1> QED BY <1>1

\* A thread is spawned with the generation there is, and waits for speak_lock.
LEMMA HandedLines ==
  ASSUME Shapes, LinesInv, ask.pc # "idle", NEW text, Hand(text),
         UNCHANGED <<gen, lock, player, late>>
  PROVE  LinesInv'
<1>1. PICK l \in Lines \ {0} : line[l].pc = "off" /\ line' = [line EXCEPT ![l] = SpawnedLine]
  <2>1. FreeLines # {} /\ FreeLines \subseteq Nat
    <3>1. FreeLines \subseteq Lines /\ FreeLines # {}
      BY DEF Hand, FreeLines
    <3>2. Lines \subseteq Nat
      BY DEF Lines
    <3> QED BY <3>1, <3>2
  <2>2. Least(FreeLines) \in FreeLines
    BY <2>1, LeastIsLeast
  <2> QED BY <2>2 DEF Hand, FreeLines
<1>2. SpawnedLine \in LineStates /\ SpawnedLine.pc = "lock" /\ SpawnedLine.ask # 0
  BY GenBound DEF Shapes, SpawnedLine, LineStates, LinePcs
<1>3. line' \in [Lines -> LineStates]
  BY <1>1, <1>2 DEF LinesInv
<1>4. \A k \in Lines : line'[k] = IF k = l THEN SpawnedLine ELSE line[k]
  BY <1>1 DEF LinesInv
<1>5. \A k \in Lines : Speaking(k)' <=> Speaking(k)
  BY <1>1, <1>2, <1>4 DEF Speaking
<1>6. 0 \in Lines
  BY DEF Lines
<1>7. ASSUME NEW k \in Lines \ {0}, line'[k].pc \notin {"off", "lock"} PROVE lock' = k
  <2>1. line[k].pc \notin {"off", "lock"}
    BY <1>2, <1>4, <1>7
  <2> QED BY <2>1 DEF LinesInv
<1>8. ASSUME NEW k \in Lines, Speaking(k)' PROVE Current(k)' \/ k \in late
  <2>1. Speaking(k) /\ k # l
    BY <1>1, <1>5, <1>8 DEF Speaking
  <2> QED BY <1>4, <2>1 DEF LinesInv, Current
<1>9. \A k \in Lines : line'[k].pc # "off" => line'[k].ask # 0
  BY <1>2, <1>4 DEF LinesInv
<1> QED BY <1>1, <1>3, <1>4, <1>5, <1>6, <1>7, <1>8, <1>9 DEF LinesInv

\* The ask speaks the answer itself.
LEMMA AskSpeaks ==
  ASSUME Shapes, LinesInv, ask.pc # "idle",
         line' = [line EXCEPT ![0] = [pc |-> "stream", gen |-> gen, ask |-> asks]],
         UNCHANGED <<gen, lock, player, late>>
  PROVE  LinesInv'
<1> DEFINE own == [pc |-> "stream", gen |-> gen, ask |-> asks]
<1>1. own \in LineStates /\ own.pc = "stream" /\ own.ask # 0 /\ own.gen = gen
  BY GenBound DEF Shapes, LineStates, LinePcs
<1>2. 0 \in Lines
  BY DEF Lines
<1>3. line' = [line EXCEPT ![0] = own]
  OBVIOUS
<1> HIDE DEF own
<1>4. line' \in [Lines -> LineStates] /\ \A k \in Lines : line'[k] = IF k = 0 THEN own ELSE line[k]
  BY <1>1, <1>2, <1>3 DEF LinesInv
<1>5. \A k \in Lines \ {0} : Speaking(k)' <=> Speaking(k)
  BY <1>4 DEF Speaking
<1>6. \A k \in late : Speaking(k)'
  BY <1>1, <1>4 DEF LinesInv, Speaking
<1>7. \A k \in Lines : Speaking(k)' => Current(k)' \/ k \in late
  BY <1>1, <1>2, <1>4, <1>5 DEF LinesInv, Current
<1> QED BY <1>1, <1>2, <1>4, <1>6, <1>7 DEF LinesInv

\* A thread that speaks goes on: what it has seen stays what it has seen.
LEMMA LineGoes ==
  ASSUME LinesInv, NEW l \in Lines, NEW pc \in {"heard", "pipe", "whole", "heardWhole"},
         Speaking(l), Goto(l, pc), player' \in Play!Outputs(Players),
         UNCHANGED <<gen, lock, late>>
  PROVE  LinesInv'
<1>1. line' = [line EXCEPT ![l].pc = pc] /\ line \in [Lines -> LineStates]
  BY DEF Goto, LinesInv
<1>2. line' \in [Lines -> LineStates]
  BY <1>1 DEF LineStates, LinePcs
<1>3. \A k \in Lines : /\ line'[k].gen = line[k].gen /\ line'[k].ask = line[k].ask
                       /\ line'[k].pc = IF k = l THEN pc ELSE line[k].pc
  BY <1>1 DEF LineStates
<1>4. \A k \in Lines : Speaking(k)' <=> Speaking(k)
  BY <1>3 DEF Speaking
<1>5. \A k \in Lines : Current(k)' <=> Current(k)
  BY <1>3 DEF Current
<1>6. line[l].pc \notin {"off", "lock", "idle"}
  BY DEF Speaking
<1> QED BY <1>2, <1>3, <1>4, <1>5, <1>6 DEF LinesInv, Lines

\* A thread that is done lets go of speak_lock.
LEMMA LineOver ==
  ASSUME LinesInv, NEW l \in Lines, Over(l), gen' = gen, player' \in Play!Outputs(Players)
  PROVE  LinesInv'
<1>1. /\ line' = [line EXCEPT ![l] = Off] /\ line \in [Lines -> LineStates]
      /\ lock' = (IF lock = l THEN Nobody ELSE lock) /\ late' = late \ {l}
  BY DEF Over, LinesInv
<1>2. Off \in LineStates /\ Off.pc = "off"
  BY DEF Off, LineStates, LinePcs
<1>3. line' \in [Lines -> LineStates] /\ \A k \in Lines : line'[k] = IF k = l THEN Off ELSE line[k]
  BY <1>1, <1>2
<1>4. \A k \in Lines \ {l} : (Speaking(k)' <=> Speaking(k)) /\ (Current(k)' <=> Current(k))
  BY <1>3 DEF Speaking, Current
<1>5. ~Speaking(l)'
  BY <1>2, <1>3 DEF Speaking
<1>6. ASSUME NEW k \in Lines \ {0}, line'[k].pc \notin {"off", "lock"} PROVE lock' = k
  <2>1. k # l /\ line[k].pc \notin {"off", "lock"}
    BY <1>2, <1>3, <1>6
  <2> QED BY <1>1, <2>1 DEF LinesInv
<1> QED BY <1>1, <1>2, <1>3, <1>4, <1>5, <1>6 DEF LinesInv, Lines

\* The lock is taken by a thread of the generation there is, and the generation
\* looked at once more when it is quiet.
LEMMA LineWaits ==
  ASSUME LinesInv, NEW l \in Lines, TakeLock(l) \/ WaitIdle(l)
  PROVE  LinesInv'
<1>1. line \in [Lines -> LineStates] /\ UNCHANGED <<gen, player, late>> /\ l \notin late /\ l # 0
  BY DEF TakeLock, WaitIdle, LinesInv, Speaking
<1>2. CASE line' = [line EXCEPT ![l] = Off] /\ lock' \in {lock, Nobody} /\ (lock' # lock => lock = l)
  <2>1. Off \in LineStates /\ Off.pc = "off"
    BY DEF Off, LineStates, LinePcs
  <2>2. line' \in [Lines -> LineStates] /\ \A k \in Lines : line'[k] = IF k = l THEN Off ELSE line[k]
    BY <1>1, <1>2, <2>1
  <2>3. \A k \in Lines \ {l} : (Speaking(k)' <=> Speaking(k)) /\ (Current(k)' <=> Current(k))
    BY <1>1, <2>2 DEF Speaking, Current
  <2>4. ~Speaking(l)'
    BY <2>1, <2>2 DEF Speaking
  <2>5. ASSUME NEW k \in Lines \ {0}, line'[k].pc \notin {"off", "lock"} PROVE lock' = k
    <3>1. k # l /\ line[k].pc \notin {"off", "lock"}
      BY <2>1, <2>2, <2>5
    <3> QED BY <1>2, <3>1 DEF LinesInv
  <2> QED BY <1>1, <1>2, <2>1, <2>2, <2>3, <2>4, <2>5 DEF LinesInv, Lines
<1>3. ASSUME NEW pc \in {"idle", "stream"}, Goto(l, pc), lock' = l, Current(l),
             line[l].pc \in {"lock", "idle"}, lock \in {Nobody, l}
      PROVE  LinesInv'
  <2>1. line' = [line EXCEPT ![l].pc = pc]
    BY <1>3 DEF Goto
  <2>2. line' \in [Lines -> LineStates]
    BY <1>1, <2>1 DEF LineStates, LinePcs
  <2>3. \A k \in Lines : /\ line'[k].gen = line[k].gen /\ line'[k].ask = line[k].ask
                         /\ line'[k].pc = IF k = l THEN pc ELSE line[k].pc
    BY <1>1, <2>1 DEF LineStates
  <2>4. \A k \in Lines \ {l} : Speaking(k)' <=> Speaking(k)
    BY <2>3 DEF Speaking
  <2>5. \A k \in Lines : Current(k)' <=> Current(k)
    BY <1>1, <2>3 DEF Current
  <2>6. ASSUME NEW k \in Lines \ {0}, line'[k].pc \notin {"off", "lock"} PROVE lock' = k
    <3>1. CASE k # l
      <4>1. line[k].pc \notin {"off", "lock"}
        BY <2>3, <2>6, <3>1
      <4>2. lock = k
        BY <4>1 DEF LinesInv
      <4> QED BY <1>3, <3>1, <4>2 DEF Nobody, Lines
    <3> QED BY <1>3, <3>1
  <2> QED BY <1>1, <1>3, <2>2, <2>3, <2>4, <2>5, <2>6 DEF LinesInv, Lines
<1>4. CASE TakeLock(l)
  <2>1. CASE Current(l)
    BY <1>3, <1>4, <2>1 DEF TakeLock
  <2>2. CASE ~Current(l)
    BY <1>2, <1>4, <2>2 DEF TakeLock
  <2> QED BY <2>1, <2>2
<1>5. CASE WaitIdle(l)
  <2>0. lock = l
    BY <1>1, <1>5 DEF WaitIdle, LinesInv
  <2>1. CASE Current(l)
    BY <1>3, <1>5, <2>0, <2>1 DEF WaitIdle
  <2>2. CASE ~Current(l)
    BY <1>2, <1>5, <2>0, <2>2 DEF WaitIdle
  <2> QED BY <2>1, <2>2
<1> QED BY <1>4, <1>5

LEMMA PlayerOfIs ==
  ASSUME LinesInv, NEW l \in Lines, Speaking(l)
  PROVE  PlayerOf(l) \in Players
<1>1. line[l].ask \in 1..MaxAsks /\ Attempt(l) \in 1..2
  BY DEF LinesInv, LineStates, Speaking, Attempt
<1> QED BY <1>1 DEF PlayerOf, Players

LEMMA LineStepLines ==
  ASSUME LinesInv, NEW l \in Lines, LineStep(l)
  PROVE  LinesInv'
<1>1. player \in Play!Outputs(Players)
  BY DEF LinesInv
<1>2. CASE TakeLock(l) \/ WaitIdle(l)
  BY <1>2, LineWaits
<1>3. CASE Spawn(l)
  <2>1. Speaking(l) /\ UNCHANGED <<gen, lock, late>>
    BY <1>3 DEF Spawn, Speaking
  <2>2. PICK before \in Play!Outputs(Players) : player' = Play!Spawned(before, PlayerOf(l))
    BY <1>1, <1>3, QuietShapes DEF Spawn
  <2>3. player' \in Play!Outputs(Players)
    BY <2>1, <2>2, PlayerOfIs, PlayerShapes
  <2>4. Goto(l, "heard") \/ Goto(l, "heardWhole")
    BY <1>3 DEF Spawn
  <2> QED BY <2>1, <2>3, <2>4, LineGoes
<1>4. CASE SpawnFails(l)
  <2>1. Speaking(l) /\ UNCHANGED <<gen, player>>
    BY <1>4 DEF SpawnFails, Speaking
  <2>2. Over(l) \/ (Goto(l, "whole") /\ UNCHANGED <<lock, late>>)
    BY <1>4 DEF SpawnFails
  <2> QED BY <1>1, <2>1, <2>2, LineGoes, LineOver
<1>5. CASE Remember(l)
  <2>1. Speaking(l) /\ gen' = gen
    BY <1>5 DEF Remember, Speaking
  <2>2. PICK p \in Players : p = PlayerOf(l)
    BY <2>1, PlayerOfIs
  <2>3. PICK heard \in Play!Outputs(Players) : heard = Play!Remembered(player, p)
    BY <1>1, PlayerShapes
  <2>4. \/ player' = heard /\ Goto(l, "pipe") /\ UNCHANGED <<lock, late>>
        \/ player' = Play!HandedOver(heard, p) /\ Over(l)
    BY <1>5, <2>2, <2>3 DEF Remember
  <2>5. player' \in Play!Outputs(Players)
    BY <2>3, <2>4, PlayerShapes
  <2> QED BY <2>1, <2>4, <2>5, LineGoes, LineOver
<1>6. CASE StreamDone(l)
  <2>1. Speaking(l) /\ gen' = gen /\ Over(l)
    BY <1>6 DEF StreamDone, Speaking
  <2>2. player' \in Play!Outputs(Players)
    BY <1>1, <1>6, <2>1, PlayerOfIs, PlayerShapes DEF StreamDone
  <2> QED BY <2>1, <2>2, LineOver
<1>7. CASE StreamBreaks(l)
  <2>1. Speaking(l) /\ Goto(l, "whole") /\ UNCHANGED <<gen, lock, late>>
    BY <1>7 DEF StreamBreaks, Speaking
  <2>2. player' \in Play!Outputs(Players)
    BY <1>1, <1>7, <2>1, PlayerOfIs, PlayerShapes DEF StreamBreaks
  <2> QED BY <2>1, <2>2, LineGoes
<1> QED BY <1>2, <1>3, <1>4, <1>5, <1>6, <1>7 DEF LineStep

LEMMA SoundStepLines ==
  ASSUME LinesInv, SoundStep
  PROVE  LinesInv'
<1>1. player \in Play!Outputs(Players)
  BY DEF LinesInv
<1>2. player' \in Play!Outputs(Players) /\ UNCHANGED <<gen, line, lock, late>>
  <2>1. ASSUME NEW p \in Players, PlayerEnds(p) \/ Reap(p)
        PROVE  player' \in Play!Outputs(Players) /\ UNCHANGED <<gen, line, lock, late>>
    BY <1>1, <2>1, PlayerShapes DEF PlayerEnds, Reap
  <2>2. ASSUME GraceEnds
        PROVE  player' \in Play!Outputs(Players) /\ UNCHANGED <<gen, line, lock, late>>
    BY <1>1, <2>2, QuietShapes DEF GraceEnds
  <2> QED BY <2>1, <2>2 DEF SoundStep
<1> QED BY <1>2, PlayerFrame

LEMMA AskStepLines ==
  ASSUME Shapes, LinesInv, AskStep \/ CancelStep
  PROVE  LinesInv'
<1>1. CASE \/ Begin \/ Reject \/ Prepare \/ StartRound \/ StreamEnds \/ StreamFails \/ TextTurn
           \/ ToolTurn \/ PendingTurn \/ FinishSilently \/ Release \/ CancelAsk \/ TryClear
  <2>1. UNCHANGED <<gen, speechVars, late>>
    BY <1>1 DEF Begin, Reject, Prepare, StartRound, StreamEnds, StreamFails, TextTurn,
       ToolTurn, PendingTurn, FinishSilently, Release, CancelAsk, TryClear
  <2> QED BY <2>1, LinesFrame
<1>2. CASE Silence \/ CancelSpeech
  <2>1. Bump \/ Kill \/ Unmute
    BY <1>2 DEF Silence, CancelSpeech
  <2> QED BY <2>1, SilencedLines
<1>3. ASSUME NEW whole \in Replies, NEW n \in Deltas, Delta(whole, n) PROVE LinesInv'
  <2>1. ask.pc # "idle" /\ UNCHANGED <<gen, lock, player, late>>
    BY <1>3 DEF Delta, At
  <2>2. line' = line \/ \E text : Hand(text)
    BY <1>3 DEF Delta
  <2> QED BY <2>1, <2>2, LinesFrame, HandedLines DEF speechVars
<1>4. CASE Finish
  <2>1. ask.pc # "idle" /\ UNCHANGED <<gen, lock, player, late>>
    BY <1>4 DEF Finish, At
  <2>2. \/ line' = line
        \/ \E text : Hand(text)
        \/ line' = [line EXCEPT ![0] = [pc |-> "stream", gen |-> gen, ask |-> asks]]
    BY <1>4 DEF Finish
  <2> QED BY <2>1, <2>2, LinesFrame, HandedLines, AskSpeaks DEF speechVars
<1> QED BY <1>1, <1>2, <1>3, <1>4 DEF AskStep, CancelStep

LEMMA OthersTexts ==
  ASSUME Shapes, StreamInv, SaidAsStreamed,
         CancelStep \/ (\E l \in Lines : LineStep(l)) \/ SoundStep
  PROVE  StreamInv' /\ SaidAsStreamed'
<1>1. UNCHANGED <<ask, said>>
  <2>1. CASE CancelStep
    BY <2>1 DEF CancelStep, CancelAsk, CancelSpeech, TryClear, Bump, Kill, Unmute, askVars
  <2>2. ASSUME NEW l \in Lines, LineStep(l) PROVE UNCHANGED <<ask, said>>
    BY <2>2 DEF LineStep, TakeLock, WaitIdle, Spawn, SpawnFails, Remember, StreamDone,
       StreamBreaks, askVars
  <2>3. CASE SoundStep
    BY <2>3 DEF SoundStep, PlayerEnds, Reap, GraceEnds, askVars
  <2> QED BY <2>1, <2>2, <2>3
<1> QED BY <1>1 DEF StreamInv, SaidAsStreamed, Handed, Answered, At

LEMMA OthersShapes ==
  ASSUME Shapes, (\E l \in Lines : LineStep(l)) \/ SoundStep
  PROVE  Shapes'
<1>1. UNCHANGED <<ask, asks, cancelled, canceller, cancels, gen, said, hit>>
  <2>1. ASSUME NEW l \in Lines, LineStep(l)
        PROVE  UNCHANGED <<ask, asks, cancelled, canceller, cancels, gen, said, hit>>
    BY <2>1 DEF LineStep, TakeLock, WaitIdle, Spawn, SpawnFails, Remember, StreamDone,
       StreamBreaks, askVars, cancelVars
  <2>2. CASE SoundStep
    BY <2>2 DEF SoundStep, PlayerEnds, Reap, GraceEnds, askVars, cancelVars
  <2> QED BY <2>1, <2>2
<1>2. cancelled' \in BOOLEAN /\ hit' \in BOOLEAN
  BY <1>1, Zenon DEF Shapes
<1> QED BY <1>1, <1>2 DEF Shapes, ToRaise

LEMMA AskInvNext == AskInv /\ [AskNext]_allVars => AskInv'
<1> SUFFICES ASSUME Shapes, LinesInv, StreamInv, SaidAsStreamed, [AskNext]_allVars
             PROVE  Shapes' /\ LinesInv' /\ StreamInv' /\ SaidAsStreamed'
  BY DEF AskInv
<1>1. CASE AskStep
  <2>1. LinesInv'
    BY <1>1, AskStepLines
  <2>2. Shapes' /\ StreamInv' /\ SaidAsStreamed'
    <3>1. ASSUME NEW whole \in Replies, NEW n \in Deltas, Delta(whole, n)
          PROVE  Shapes' /\ StreamInv' /\ SaidAsStreamed'
      <4>1. Shapes' /\ StreamInv'
        BY <3>1, DeltaHands
      <4>2. ask'.pc \in {"stream", "turn"}
        BY <3>1 DEF Delta, Shapes, AskStates
      <4>3. SaidAsStreamed'
        BY <4>2 DEF SaidAsStreamed, Answered, At
      <4> QED BY <4>1, <4>3
    <3>2. CASE Finish
      BY <3>2, FinishSays
    <3>3. CASE Begin \/ Prepare \/ Silence
      BY <3>3, RaisingTypes, QuietAskTexts
    <3>4. CASE \/ Reject \/ StartRound \/ StreamEnds \/ StreamFails \/ TextTurn \/ ToolTurn
               \/ PendingTurn \/ FinishSilently \/ Release
      BY <3>4, QuietAskTypes, QuietAskTexts
    <3> QED BY <1>1, <3>1, <3>2, <3>3, <3>4 DEF AskStep
  <2> QED BY <2>1, <2>2
<1>2. CASE CancelStep
  BY <1>2, RaisingTypes, AskStepLines, OthersTexts
<1>3. ASSUME NEW l \in Lines, LineStep(l)
      PROVE  Shapes' /\ LinesInv' /\ StreamInv' /\ SaidAsStreamed'
  BY <1>3, OthersShapes, LineStepLines, OthersTexts
<1>4. CASE SoundStep
  BY <1>4, OthersShapes, SoundStepLines, OthersTexts
<1>5. CASE UNCHANGED allVars
  <2>1. UNCHANGED <<ask, asks, cancelled, canceller, cancels, gen, said, hit>>
    BY <1>5 DEF allVars, askVars, cancelVars
  <2>2. cancelled' \in BOOLEAN /\ hit' \in BOOLEAN
    BY <2>1, Zenon DEF Shapes
  <2>3. Shapes'
    BY <2>1, <2>2 DEF Shapes, ToRaise
  <2>4. LinesInv'
    BY <1>5, LinesFrame DEF allVars
  <2> QED BY <2>1, <2>3, <2>4 DEF StreamInv, SaidAsStreamed, Handed, Answered, At
<1> QED BY <1>1, <1>2, <1>3, <1>4, <1>5 DEF AskNext

(* The ask is typed, and the generation bounded: cancel_speech is run once for
   each ask and once for each CancelAsk. *)
THEOREM AskTyped == AskSpec => []AskTypeOK
<1>1. AskInv => AskTypeOK
  BY AskInvMeans
<1> QED BY <1>1, AskInvInit, AskInvNext, PTL DEF AskSpec

(* What finish_ask_reply queues after the sentences note_disk_stream_delta handed
   over completes the answer, for every answer, rounds and deltas, but for a round
   whose first delta was as long as the offset an earlier round left. *)
THEOREM AnswerIsSaid == AskSpec => []SaidAsStreamed
<1>1. AskInv => SaidAsStreamed
  BY AskInvMeans
<1> QED BY <1>1, AskInvInit, AskInvNext, PTL DEF AskSpec

(* No line that waits in spawn_fixed_line outlives cancel_speech, and one line at
   most is past its last look at speak_generation, since speak_lock is held. *)
THEOREM QueueDrops == AskSpec => []QueueIsDropped
<1>1. AskInv => QueueIsDropped
  BY AskInvMeans
<1> QED BY <1>1, AskInvInit, AskInvNext, PTL DEF AskSpec

-------------------------------------------------------------------------------
(* The ask: what a cancel that found the stream running leaves behind. *)

Running == {"bump", "kill", "unmute", "round", "stream", "turn"}

(* Nobody clears the flag while the ask is running: prepare did before any cancel
   could count, and a CancelAsk only does when no ask is there. *)
HitInv ==
  /\ ask.pc = "prepare" => ~hit
  /\ hit /\ ask.pc \in Running => cancelled

LEMMA HitStep == Shapes /\ HitInv /\ [AskNext]_allVars => HitInv'
<1> SUFFICES ASSUME Shapes, HitInv, [AskNext]_allVars PROVE HitInv'
  OBVIOUS
<1>0. ask \in AskStates
  BY DEF Shapes
<1>1. CASE Begin
  <2>1. hit' = FALSE
    BY <1>1, Zenon DEF Begin
  <2> QED BY <2>1, Zenon DEF HitInv
<1>2. CASE Prepare
  <2>1. hit' = hit /\ ask.pc = "prepare"
    BY <1>2, Zenon DEF Prepare, At
  <2>2. ~hit'
    BY <2>1, Zenon DEF HitInv
  <2> QED BY <2>2, Zenon DEF HitInv
<1>3. CASE CancelAsk
  <2>1. cancelled' = TRUE /\ ask' = ask
    BY <1>3, Zenon DEF CancelAsk, askVars
  <2>2. ask.pc = "prepare" => hit' = hit
    <3>1. CASE ask.pc = "prepare"
      <4>1. ~(ask.pc \in {"bump", "kill", "unmute", "round", "stream", "turn"})
        BY <3>1
      <4>2. hit' = (hit \/ ask.pc \in {"bump", "kill", "unmute", "round", "stream", "turn"})
        BY <1>3, Zenon DEF CancelAsk
      <4>3. ~hit
        BY <3>1, Zenon DEF HitInv
      <4>4. hit \in BOOLEAN
        BY Zenon DEF Shapes
      <4> QED BY <4>1, <4>2, <4>3, <4>4, Zenon
    <3> QED BY <3>1
  <2>3. ask'.pc = "prepare" => ~hit'
    BY <2>1, <2>2, Zenon DEF HitInv
  <2> QED BY <2>1, <2>3, Zenon DEF HitInv
<1>4. CASE TryClear
  <2>1. hit' = hit /\ ask' = ask
    BY <1>4, Zenon DEF TryClear, askVars
  <2>2. CASE At("idle")
    <3>1. ask.pc \notin Running /\ ask.pc # "prepare"
      BY <2>2 DEF At, Running
    <3> QED BY <2>1, <3>1, Zenon DEF HitInv
  <2>3. CASE ~At("idle")
    <3>1. cancelled' = cancelled
      BY <1>4, <2>3, Zenon DEF TryClear
    <3> QED BY <2>1, <3>1, Zenon DEF HitInv
  <2> QED BY <2>2, <2>3
<1>5. ASSUME hit' = hit, cancelled' = cancelled, ask'.pc # "prepare" \/ ask' = ask,
             ask'.pc \in Running => ask.pc \in Running
      PROVE  HitInv'
  BY <1>5, Zenon DEF HitInv
<1>6. CASE Silence
  <2>1. ask'.pc \in {"kill", "unmute", "round"} /\ ask.pc \in Running
    BY <1>0, <1>6 DEF Silence, At, AskStates, Running
  <2>2. hit' = hit /\ cancelled' = cancelled
    BY <1>6, Zenon DEF Silence, Bump, Kill, Unmute
  <2>3. ask'.pc # "prepare"
    BY <2>1
  <2> QED BY <1>5, <2>1, <2>2, <2>3, Zenon
<1>7. CASE ask' = ask /\ hit' = hit /\ cancelled' = cancelled
  BY <1>7, Zenon DEF HitInv
<1>8. CASE CancelSpeech
  BY <1>7, <1>8, Zenon DEF CancelSpeech, Bump, Kill, Unmute
<1>9. CASE \/ Reject \/ StartRound \/ StreamEnds \/ StreamFails \/ TextTurn \/ ToolTurn
           \/ PendingTurn \/ FinishSilently \/ Release \/ Finish
           \/ (\E whole \in Replies, n \in Deltas : Delta(whole, n))
  <2>1. hit' = hit /\ cancelled' = cancelled
    BY <1>9, Zenon DEF Reject, StartRound, StreamEnds, StreamFails, TextTurn, ToolTurn,
       PendingTurn, FinishSilently, Release, Finish, Delta, cancelVars
  <2>2. ask'.pc # "prepare" /\ (ask'.pc \in Running => ask.pc \in Running)
    <3>1. CASE \/ Reject \/ StreamEnds \/ StreamFails \/ FinishSilently \/ Release \/ Finish
      BY <1>0, <3>1 DEF Reject, StreamEnds, StreamFails, FinishSilently, Release, Finish,
         Idle, At, AskStates, Running
    <3>2. CASE StartRound \/ TextTurn \/ ToolTurn \/ PendingTurn
      <4>1. ask.pc \in Running
        BY <3>2 DEF StartRound, TextTurn, ToolTurn, PendingTurn, At, Running
      <4>2. ask'.pc # "prepare"
        <5>1. CASE StartRound
          <6>1. \/ ask' = [ask EXCEPT !.pc = "reply", !.reply = SoftFinal(NoText)]
                \/ ask' = [ask EXCEPT !.pc = "stream", !.partial = NoText, !.streamed = TRUE,
                                !.jumped = FALSE]
            BY <5>1, Zenon DEF StartRound
          <6> QED BY <1>0, <6>1 DEF AskStates
        <5>2. CASE TextTurn
          BY <1>0, <5>2 DEF TextTurn, Idle, AskStates
        <5>3. CASE ToolTurn
          BY <1>0, <5>3 DEF ToolTurn, AskStates
        <5>4. CASE PendingTurn
          BY <1>0, <5>4 DEF PendingTurn, AskStates
        <5> QED BY <3>2, <5>1, <5>2, <5>3, <5>4
      <4> QED BY <4>1, <4>2
    <3>3. ASSUME NEW whole \in Replies, NEW n \in Deltas, Delta(whole, n)
          PROVE  ask.pc \in Running /\ ask'.pc # "prepare"
      BY <1>0, <3>3 DEF Delta, At, AskStates, Running
    <3> QED BY <1>9, <3>1, <3>2, <3>3
  <2> QED BY <1>5, <2>1, <2>2, Zenon
<1>10. ASSUME NEW l \in Lines, LineStep(l) PROVE HitInv'
  <2>1. ask' = ask /\ hit' = hit /\ cancelled' = cancelled
    BY <1>10, Zenon DEF LineStep, TakeLock, WaitIdle, Spawn, SpawnFails, Remember, StreamDone,
       StreamBreaks, askVars, cancelVars
  <2> QED BY <1>7, <2>1, Zenon
<1>11. CASE SoundStep
  <2>1. ask' = ask /\ hit' = hit /\ cancelled' = cancelled
    BY <1>11, Zenon DEF SoundStep, PlayerEnds, Reap, GraceEnds, askVars, cancelVars
  <2> QED BY <1>7, <2>1, Zenon
<1>12. CASE UNCHANGED allVars
  <2>1. ask' = ask /\ hit' = hit /\ cancelled' = cancelled
    BY <1>12, Zenon DEF allVars, askVars, cancelVars
  <2> QED BY <1>7, <2>1, Zenon
<1> QED BY <1>1, <1>2, <1>3, <1>4, <1>6, <1>8, <1>9, <1>10, <1>11, <1>12
        DEF AskNext, AskStep, CancelStep

\* The step from a round to a stream is one of StartRound that found the flag clear.
LEMMA StreamsWhenClear ==
  Shapes /\ HitInv /\ [AskNext]_allVars
    => [hit /\ hit' => ~(ask.pc = "round" /\ ask'.pc = "stream")]_allVars
<1> SUFFICES ASSUME Shapes, HitInv, [AskNext]_allVars, hit, ask.pc = "round", ask'.pc = "stream"
             PROVE  FALSE
  OBVIOUS
<1>1. cancelled
  <2>1. ask.pc \in Running
    BY DEF Running
  <2> QED BY <2>1, Zenon DEF HitInv
<1>2. ask \in AskStates /\ ask' # ask
  BY DEF Shapes
<1>3. CASE AskStep
  <2>1. ~(\E whole \in Replies, n \in Deltas : Delta(whole, n))
    BY DEF Delta, At
  <2>2. ~(Begin \/ Reject \/ Prepare \/ Silence \/ StreamEnds \/ StreamFails \/ TextTurn
            \/ ToolTurn \/ PendingTurn \/ Finish \/ FinishSilently \/ Release)
    BY DEF Begin, Reject, Prepare, Silence, StreamEnds, StreamFails, TextTurn, ToolTurn,
       PendingTurn, Finish, FinishSilently, Release, At
  <2>3. ~StartRound
    <3>1. StartRound => ask' = [ask EXCEPT !.pc = "reply", !.reply = SoftFinal(NoText)]
      BY <1>1, Zenon DEF StartRound
    <3>2. [ask EXCEPT !.pc = "reply", !.reply = SoftFinal(NoText)].pc # "stream"
      BY <1>2 DEF AskStates
    <3> QED BY <3>1, <3>2, Zenon
  <2> QED BY <1>3, <2>1, <2>2, <2>3 DEF AskStep
<1>4. CASE CancelStep
  BY <1>2, <1>4 DEF CancelStep, CancelAsk, CancelSpeech, TryClear, Bump, Kill, Unmute, askVars
<1>5. ASSUME NEW l \in Lines, LineStep(l) PROVE FALSE
  BY <1>2, <1>5 DEF LineStep, TakeLock, WaitIdle, Spawn, SpawnFails, Remember, StreamDone,
     StreamBreaks, askVars
<1>6. CASE SoundStep
  BY <1>2, <1>6 DEF SoundStep, PlayerEnds, Reap, GraceEnds, askVars
<1>7. CASE UNCHANGED allVars
  BY <1>2, <1>7 DEF allVars, askVars
<1> QED BY <1>3, <1>4, <1>5, <1>6, <1>7 DEF AskNext

(* A cancel that finds the stream running keeps the ask from calling the model
   again: run_tool_loop_with_hooks looks at ask_cancel before each round, and
   nobody clears the flag from then on while the ask holds the lock. *)
THEOREM CancelHolds == AskSpec => CancelEndsRounds
<1>1. AskInit => HitInv
  <2>1. AskInit => ask.pc = "idle" /\ ~hit
    BY DEF AskInit, Idle
  <2> QED BY <2>1 DEF HitInv
<1>2. AskInv => Shapes
  BY DEF AskInv
<1> QED BY <1>1, <1>2, AskInvInit, AskInvNext, HitStep, StreamsWhenClear, PTL
        DEF AskSpec, CancelEndsRounds
===============================================================================
