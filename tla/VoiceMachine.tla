---------------------------- MODULE VoiceMachine ----------------------------
(***************************************************************************)
(* The voice-state machine of crates/softwake-state: three states, the     *)
(* transition table, and the phrase gate that keeps a phrase heard just    *)
(* after a transition from undoing it.                                     *)
(*                                                                         *)
(* The clock is supplied by the caller (Machine::advance).  A rejected     *)
(* event leaves the machine unchanged, so a rejection is a stuttering step *)
(* and Apply describes accepted events only.                               *)
(***************************************************************************)
EXTENDS Integers

CONSTANTS
  PostWake,   \* CooldownConfig::post_wake, in clock ticks
  PostSleep,  \* CooldownConfig::post_sleep, in clock ticks
  MaxNow      \* bound on the clock (the code's Duration has no such bound)

ASSUME CooldownAssumption ==
  /\ PostWake \in Nat
  /\ PostSleep \in Nat
  /\ MaxNow \in Nat

VARIABLES
  state,      \* Machine::state
  now,        \* Machine::now
  gate,       \* Machine::gate
  since,      \* history: clock reading of the last accepted event
  last        \* history: the last accepted event

machineVars == <<state, now, gate, since, last>>

VoiceState == {"Sleep", "Awake", "Hibernate"}
Phrases == {"WakePhrase", "SleepPhrase", "HibernatePhrase"}
Event == Phrases \cup {"UiSleep", "UiHibernate", "UiResume"}
PhraseGate == [kind : {"Open", "BlockWake", "BlockSleep"}, until : Nat]
Open == [kind |-> "Open", until |-> 0]

-----------------------------------------------------------------------------
(* The transition table.  Target(e) is meaningful only when Legal(s, e).   *)

Target(e) ==
  CASE e = "WakePhrase" -> "Awake"
    [] e \in {"SleepPhrase", "UiSleep", "UiResume"} -> "Sleep"
    [] e \in {"HibernatePhrase", "UiHibernate"} -> "Hibernate"

Legal(s, e) ==
  CASE e = "WakePhrase" -> s = "Sleep"
    [] e \in {"SleepPhrase", "UiSleep"} -> s = "Awake"
    [] e \in {"HibernatePhrase", "UiHibernate"} -> s # "Hibernate"
    [] e = "UiResume" -> s = "Hibernate"

(* What the daemon must do after the transition from s by e, in order. *)
Effects(s, e) ==
  CASE e = "WakePhrase" -> <<"OpenSession">>
    [] e \in {"SleepPhrase", "UiSleep"} -> <<"ReleaseActingResources">>
    [] e \in {"HibernatePhrase", "UiHibernate"} ->
         IF s = "Awake" THEN <<"ReleaseActingResources", "StopCapture">>
                        ELSE <<"StopCapture">>
    [] e = "UiResume" -> <<"StartCapture">>

-----------------------------------------------------------------------------
(* The phrase gate: g is the gate, t the clock reading. *)

\* mutant: the gate opens one tick early.
PhraseCoolingEndsEarly(g, t, e) ==
  /\ \/ g.kind = "BlockWake" /\ e = "WakePhrase"
     \/ g.kind = "BlockSleep" /\ e = "SleepPhrase"
  /\ g.until > t + 1

PhraseCooling(g, t, e) ==
  /\ \/ g.kind = "BlockWake" /\ e = "WakePhrase"
     \/ g.kind = "BlockSleep" /\ e = "SleepPhrase"
  /\ g.until > t

ArmCooldown(t, e) ==
  CASE e = "WakePhrase" -> [kind |-> "BlockSleep", until |-> t + PostWake]
    [] e \in {"SleepPhrase", "UiSleep", "UiResume"} ->
         [kind |-> "BlockWake", until |-> t + PostSleep]
    [] e \in {"HibernatePhrase", "UiHibernate"} -> Open

Accepts(s, g, t, e) == Legal(s, e) /\ ~PhraseCooling(g, t, e)

-----------------------------------------------------------------------------
MachineInit ==
  /\ state = "Sleep"
  /\ now = 0
  /\ gate = Open
  /\ since = -PostSleep   \* nothing has happened: as if a cooldown ago
  /\ last = "UiSleep"

Apply(e) ==
  /\ Accepts(state, gate, now, e)
  /\ state' = Target(e)
  /\ gate' = ArmCooldown(now, e)
  /\ since' = now
  /\ last' = e
  /\ UNCHANGED now

Advance(elapsed) ==
  /\ now + elapsed <= MaxNow
  /\ now' = now + elapsed
  /\ UNCHANGED <<state, gate, since, last>>

MachineNext ==
  \/ \E e \in Event : Apply(e)
  \/ \E elapsed \in 1..MaxNow : Advance(elapsed)

MachineSpec == MachineInit /\ [][MachineNext]_machineVars

-----------------------------------------------------------------------------
MachineTypeOK ==
  /\ state \in VoiceState
  /\ now \in Nat
  /\ gate \in PhraseGate
  /\ since \in Int
  /\ last \in Event

(* The gate always belongs to the state the machine is in: awake holds back
   a sleep phrase until a full post_wake after it was entered, sleep holds
   back a wake phrase until a full post_sleep after it was entered (also
   when it was entered from hibernate), and hibernate has no gate to leave
   behind (machine.rs arm_cooldown). *)
GateMatchesState ==
  /\ state = "Awake" => gate = [kind |-> "BlockSleep", until |-> since + PostWake]
  /\ state = "Hibernate" => gate = Open
  /\ state = "Sleep" =>
       \/ gate = Open /\ since = -PostSleep
       \/ gate = [kind |-> "BlockWake", until |-> since + PostSleep]

(* A phrase never undoes a transition within its cooldown: awake is entered
   only when the machine has been asleep for post_sleep, however sleep was
   entered, and a sleep phrase is obeyed only after post_wake of awake.  UI
   events are never held (machine.rs:6-10, docs/02-voice-states.md
   invariant 5). *)
NoPhraseLoop ==
  [][ /\ (state # "Awake" /\ state' = "Awake") => now - since >= PostSleep
      /\ (state' # state /\ last' = "SleepPhrase") => now - since >= PostWake ]_machineVars

(* Hibernate is left only by the UI and only into sleep, so nothing heard
   before, during or just after hibernate carries it into awake
   (transition.rs:3-4, docs/02-voice-states.md invariant 4): every step out
   of hibernate is UiResume, and it leaves a gate that blocks wake phrases. *)
ResumeLandsAsleep ==
  [][ (state = "Hibernate" /\ state' # "Hibernate") =>
        /\ state' = "Sleep"
        /\ last' = "UiResume"
        /\ gate' = [kind |-> "BlockWake", until |-> now + PostSleep] ]_machineVars
=============================================================================
