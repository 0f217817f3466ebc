------------------------------ MODULE VoiceProofs ------------------------------
(***************************************************************************)
(* The voice machine and the voices of a room, for every value of their    *)
(* constants.                                                              *)
(*                                                                         *)
(* VoiceMachine: GateMatchesState says which deadline the gate of each     *)
(* state carries; with MachineTypeOK it is inductive, and the two action   *)
(* properties follow from it one step at a time.                           *)
(*                                                                         *)
(* RoomSpeech: the invariant RoomInv has a part for the shapes (Base), for *)
(* the queue and its threads (QueueInv), for the players that run          *)
(* (SoundInv), for the rows of the log (RowInv), for the oldest clip       *)
(* (FrontInv) and for the order of what is heard (OrderInv).  Each part    *)
(* has a lemma per kind of step and one that a step keeps it.              *)
(***************************************************************************)
EXTENDS VoiceMachine, RoomSpeech, FiniteSetTheorems, SequenceTheorems, TLAPS

-------------------------------------------------------------------------------
(* The voice machine. *)

MachineInv == MachineTypeOK /\ GateMatchesState

USE CooldownAssumption

\* A new machine is asleep with an open gate.
LEMMA MachineInvInit == MachineInit => MachineInv
  BY DEF MachineInit, MachineInv, MachineTypeOK, GateMatchesState, VoiceState, Event, Phrases,
         PhraseGate, Open

\* Accepting an event arms exactly the gate of the state it leads to.
LEMMA MachineInvApply ==
  ASSUME MachineInv, NEW e \in Event, Apply(e)
  PROVE  MachineInv'
<1>1. CASE e = "WakePhrase"
  BY <1>1 DEF MachineInv, MachineTypeOK, GateMatchesState, Apply, Target, ArmCooldown,
              VoiceState, Event, Phrases, PhraseGate, Open
<1>2. CASE e \in {"SleepPhrase", "UiSleep", "UiResume"}
  BY <1>2 DEF MachineInv, MachineTypeOK, GateMatchesState, Apply, Target, ArmCooldown,
              VoiceState, Event, Phrases, PhraseGate, Open
<1>3. CASE e \in {"HibernatePhrase", "UiHibernate"}
  BY <1>3 DEF MachineInv, MachineTypeOK, GateMatchesState, Apply, Target, ArmCooldown,
              VoiceState, Event, Phrases, PhraseGate, Open
<1>4. QED
  BY <1>1, <1>2, <1>3 DEF Event, Phrases

LEMMA MachineInvNext == MachineInv /\ [MachineNext]_machineVars => MachineInv'
<1> SUFFICES ASSUME MachineInv, [MachineNext]_machineVars PROVE MachineInv'
  OBVIOUS
<1>1. ASSUME NEW e \in Event, Apply(e) PROVE MachineInv'
  BY <1>1, MachineInvApply
<1>2. ASSUME NEW elapsed \in 1..MaxNow, Advance(elapsed) PROVE MachineInv'
  BY <1>2 DEF MachineInv, MachineTypeOK, GateMatchesState, Advance
<1>3. CASE UNCHANGED machineVars
  BY <1>3 DEF MachineInv, MachineTypeOK, GateMatchesState, machineVars
<1>4. QED
  BY <1>1, <1>2, <1>3 DEF MachineNext

\* The strengthening holds in every reachable state.
THEOREM MachineInvariant == MachineSpec => []MachineInv
  BY MachineInvInit, MachineInvNext, PTL DEF MachineSpec

\* Every variable of the machine keeps its type.
THEOREM MachineTyped == MachineSpec => []MachineTypeOK
  BY MachineInvariant, PTL DEF MachineInv

\* The armed gate is always that of the current state.
THEOREM GateCorrect == MachineSpec => []GateMatchesState
  BY MachineInvariant, PTL DEF MachineInv

\* No phrase undoes a transition before its cooldown is over, whatever the
\* cooldowns are (machine.rs apply, arm_cooldown).
THEOREM PhraseLoopFree == MachineSpec => NoPhraseLoop
<1> DEFINE Step == /\ (state # "Awake" /\ state' = "Awake") => now - since >= PostSleep
                   /\ (state' # state /\ last' = "SleepPhrase") => now - since >= PostWake
<1>1. ASSUME MachineInv, NEW e \in Event, Apply(e) PROVE Step
  <2>1. CASE e = "WakePhrase"
    BY <1>1, <2>1 DEF MachineInv, MachineTypeOK, GateMatchesState, Apply, Accepts, Legal,
       PhraseCooling, Target, VoiceState, PhraseGate, Open
  <2>2. CASE e = "SleepPhrase"
    BY <1>1, <2>2 DEF MachineInv, MachineTypeOK, GateMatchesState, Apply, Accepts, Legal,
       PhraseCooling, Target, VoiceState, PhraseGate, Open
  <2>3. CASE e \in Event \ {"WakePhrase", "SleepPhrase"}
    <3>1. Target(e) # "Awake"
      BY <2>3 DEF Target, Event, Phrases
    <3>2. QED
      BY <1>1, <2>3, <3>1 DEF Apply
  <2>4. QED
    BY <2>1, <2>2, <2>3
<1>2. MachineInv /\ [MachineNext]_machineVars => [Step]_machineVars
  BY <1>1 DEF MachineNext, Advance, machineVars
<1>3. QED
  BY <1>2, MachineInvariant, PTL DEF MachineSpec, NoPhraseLoop

\* Hibernate is left only through the UI, only into sleep, and with wake
\* phrases held back (transition.rs decide, machine.rs arm_cooldown).
THEOREM ResumeSafe == MachineSpec => ResumeLandsAsleep
<1> DEFINE Step == (state = "Hibernate" /\ state' # "Hibernate") =>
                     /\ state' = "Sleep"
                     /\ last' = "UiResume"
                     /\ gate' = [kind |-> "BlockWake", until |-> now + PostSleep]
<1>1. ASSUME NEW e \in Event, Apply(e) PROVE Step
  <2>1. CASE e = "UiResume"
    BY <1>1, <2>1 DEF Apply, Target, ArmCooldown
  <2>2. CASE e # "UiResume"
    BY <1>1, <2>2 DEF Apply, Accepts, Legal, Target, Event, Phrases
  <2>3. QED
    BY <2>1, <2>2
<1>2. [MachineNext]_machineVars => [Step]_machineVars
  BY <1>1 DEF MachineNext, Advance, machineVars
<1>3. QED
  BY <1>2, PTL DEF MachineSpec, ResumeLandsAsleep

HIDE CooldownAssumption

--------------------------------------------------------------
(* Sequences: the first place of a value, and a sequence without it. *)

LEMMA MinIsLeast ==
  ASSUME NEW I, I \subseteq Nat, I # {}
  PROVE  Min(I) \in I /\ \A i \in I : Min(I) <= i
<1>1. PICK i \in I : \A j \in I : <<j, i>> \notin OpToRel(<, Nat)
  BY WFMin, NatLessThanWellFounded, Zenon
<1>2. \A j \in I : ~(j < i)
  BY <1>1, Zenon DEF OpToRel
<1>3. \A j \in I : i <= j
  BY <1>2
<1>4. Min(I) = CHOOSE x \in I : \A y \in I : x =< y
  BY DEF Min
<1>5. Min(I) \in I /\ \A y \in I : Min(I) =< y
  BY <1>3, <1>4, Zenon
<1> QED BY <1>5

\* The place of the first equal element, or 0.
FirstAt(s, e) == SelectInSeq(s, LAMBDA x : x = e)

LEMMA FirstPlace ==
  ASSUME NEW S, NEW s \in Seq(S), NEW e
  PROVE  /\ FirstAt(s, e) \in 0..Len(s)
         /\ FirstAt(s, e) = 0 <=> ~Contains(s, e)
         /\ FirstAt(s, e) # 0 => s[FirstAt(s, e)] = e
         /\ \A i \in 1..Len(s) : s[i] = e => FirstAt(s, e) <= i
<1> DEFINE I == {i \in 1..Len(s) : s[i] = e}
<1>0. Len(s) \in Nat
  OBVIOUS
<1>1. FirstAt(s, e) = IF I # {} THEN Min(I) ELSE 0
  BY DEF FirstAt, SelectInSeq
<1>2. Contains(s, e) <=> I # {}
  BY DEF Contains
<1>3. CASE I = {}
  BY <1>0, <1>1, <1>2, <1>3
<1>4. CASE I # {}
  <2>1. Min(I) \in I /\ \A i \in I : Min(I) <= i
    <3>1. I \subseteq Nat
      BY <1>0
    <3> QED BY <1>4, <3>1, MinIsLeast
  <2> QED BY <1>0, <1>1, <1>2, <1>4, <2>1
<1> QED BY <1>3, <1>4

LEMMA RemovedAt ==
  ASSUME NEW S, NEW s \in Seq(S), NEW i \in 1..Len(s)
  PROVE  /\ RemoveAt(s, i) \in Seq(S)
         /\ Len(RemoveAt(s, i)) = Len(s) - 1
         /\ \A j \in 1..(Len(s) - 1) : RemoveAt(s, i)[j] = IF j < i THEN s[j] ELSE s[j + 1]
<1> DEFINE a == SubSeq(s, 1, i - 1)
           b == SubSeq(s, i + 1, Len(s))
<1>1. a \in Seq(S) /\ Len(a) = i - 1 /\ \A j \in 1..(i - 1) : a[j] = s[j]
  OBVIOUS
<1>2. b \in Seq(S) /\ Len(b) = Len(s) - i /\ \A j \in 1..(Len(s) - i) : b[j] = s[i + j]
  OBVIOUS
<1>3. RemoveAt(s, i) = a \o b
  BY DEF RemoveAt
<1> HIDE DEF a, b
<1>4. a \o b \in Seq(S) /\ Len(a \o b) = Len(s) - 1
  <2>1. a \o b \in Seq(S) /\ Len(a \o b) = Len(a) + Len(b)
    BY <1>1, <1>2, ConcatProperties
  <2> QED BY <1>1, <1>2, <2>1
<1>5. ASSUME NEW j \in 1..(Len(s) - 1)
      PROVE  (a \o b)[j] = IF j < i THEN s[j] ELSE s[j + 1]
  <2>1. CASE j < i
    BY <2>1, <1>1, <1>2
  <2>2. CASE ~(j < i)
    <3>1. (a \o b)[j] = b[j - (i - 1)]
      BY <2>2, <1>1, <1>2
    <3>2. b[j - (i - 1)] = s[i + (j - (i - 1))]
      BY <2>2, <1>2
    <3> QED BY <2>2, <3>1, <3>2
  <2> QED BY <2>1, <2>2
<1> QED BY <1>3, <1>4, <1>5

LEMMA RemovedFirst ==
  ASSUME NEW S, NEW s \in Seq(S), NEW e
  PROVE  /\ RemoveFirst(s, e) = IF Contains(s, e) THEN RemoveAt(s, FirstAt(s, e)) ELSE s
         /\ RemoveFirst(s, e) \in Seq(S)
         /\ Len(RemoveFirst(s, e)) = IF Contains(s, e) THEN Len(s) - 1 ELSE Len(s)
<1>1. RemoveFirst(s, e) = IF Contains(s, e) THEN RemoveAt(s, FirstAt(s, e)) ELSE s
  BY DEF RemoveFirst, Contains, FirstAt
<1>2. CASE Contains(s, e)
  <2>1. FirstAt(s, e) \in 1..Len(s)
    BY <1>2, FirstPlace
  <2> QED BY <1>1, <1>2, <2>1, RemovedAt
<1>3. CASE ~Contains(s, e)
  BY <1>1, <1>3
<1> QED BY <1>1, <1>2, <1>3

-------------------------------------------------------------------------------
(* How often a value is in a sequence. *)

Places(s, e) == {i \in 1..Len(s) : s[i] = e}

LEMMA PlacesFinite ==
  ASSUME NEW S, NEW s \in Seq(S), NEW e
  PROVE  /\ IsFiniteSet(Places(s, e)) /\ Cardinality(Places(s, e)) \in Nat
         /\ Cardinality(Places(s, e)) > 0 <=> Contains(s, e)
<1>1. IsFiniteSet(1..Len(s))
  BY FS_Interval
<1>2. IsFiniteSet(Places(s, e)) /\ Cardinality(Places(s, e)) \in Nat
  BY <1>1, FS_Subset, FS_CardinalityType DEF Places
<1>3. Cardinality(Places(s, e)) = 0 <=> Places(s, e) = {}
  BY <1>2, FS_EmptySet
<1>4. Places(s, e) = {} <=> ~Contains(s, e)
  BY DEF Places, Contains
<1> QED BY <1>2, <1>3, <1>4

LEMMA PlacesOfAppend ==
  ASSUME NEW S, NEW s \in Seq(S), NEW x \in S, NEW e
  PROVE  Cardinality(Places(Append(s, x), e)) =
           Cardinality(Places(s, e)) + (IF x = e THEN 1 ELSE 0)
<1>1. /\ Len(Append(s, x)) = Len(s) + 1 /\ Append(s, x)[Len(s) + 1] = x
      /\ \A i \in 1..Len(s) : Append(s, x)[i] = s[i]
  OBVIOUS
<1>2. IsFiniteSet(Places(s, e)) /\ Cardinality(Places(s, e)) \in Nat
  BY PlacesFinite
<1>3. CASE x = e
  <2>1. Places(Append(s, x), e) = Places(s, e) \cup {Len(s) + 1}
    BY <1>1, <1>3 DEF Places
  <2>2. Len(s) + 1 \notin Places(s, e)
    BY DEF Places
  <2> QED BY <1>2, <1>3, <2>1, <2>2, FS_AddElement
<1>4. CASE x # e
  <2>1. Places(Append(s, x), e) = Places(s, e)
    BY <1>1, <1>4 DEF Places
  <2> QED BY <1>2, <1>4, <2>1
<1> QED BY <1>3, <1>4

LEMMA PlacesOfRemoveAt ==
  ASSUME NEW S, NEW s \in Seq(S), NEW i \in 1..Len(s), NEW e
  PROVE  Cardinality(Places(RemoveAt(s, i), e)) =
           Cardinality(Places(s, e)) - (IF s[i] = e THEN 1 ELSE 0)
<1> DEFINE t == RemoveAt(s, i)
           P == Places(t, e)
           Q == Places(s, e) \ {i}
           f == [j \in P |-> IF j < i THEN j ELSE j + 1]
<1>1. /\ t \in Seq(S) /\ Len(t) = Len(s) - 1
      /\ \A j \in 1..(Len(s) - 1) : t[j] = IF j < i THEN s[j] ELSE s[j + 1]
  BY RemovedAt
<1> HIDE DEF t
<1>2. IsFiniteSet(Places(s, e)) /\ Cardinality(Places(s, e)) \in Nat /\ IsFiniteSet(P)
  BY <1>1, PlacesFinite
<1>3. ASSUME NEW j \in P PROVE f[j] \in Q
  BY <1>1 DEF Places
<1>4. ASSUME NEW j \in P, NEW k \in P, f[j] = f[k] PROVE j = k
  BY <1>4 DEF Places
<1>5. ASSUME NEW k \in Q PROVE \E j \in P : f[j] = k
  <2>1. CASE k < i
    <3>1. k \in P
      BY <1>1, <2>1 DEF Places
    <3> QED BY <2>1, <3>1
  <2>2. CASE ~(k < i)
    <3>1. k - 1 \in P
      BY <1>1, <2>2 DEF Places
    <3>2. ~(k - 1 < i) /\ (k - 1) + 1 = k
      BY <2>2 DEF Places
    <3> QED BY <3>1, <3>2
  <2> QED BY <2>1, <2>2
<1>6. f \in Bijection(P, Q)
  <2>1. f \in [P -> Q]
    BY <1>3
  <2> HIDE DEF f, P, Q
  <2>2. f \in Injection(P, Q)
    BY <2>1, <1>4 DEF Injection, IsInjective
  <2>3. f \in Surjection(P, Q)
    BY <2>1, <1>5 DEF Surjection
  <2> QED BY <2>2, <2>3 DEF Bijection
<1>7. Cardinality(P) = Cardinality(Q)
  BY <1>2, <1>6, FS_Bijection DEF ExistsBijection
<1>8. i \in Places(s, e) <=> s[i] = e
  BY DEF Places
<1>9. Cardinality(Q) = Cardinality(Places(s, e)) - (IF s[i] = e THEN 1 ELSE 0)
  <2>1. CASE s[i] = e
    BY <1>2, <1>8, <2>1, FS_RemoveElement
  <2>2. CASE s[i] # e
    <3>1. Q = Places(s, e)
      BY <1>8, <2>2
    <3> HIDE DEF P, Q
    <3>2. Cardinality(Q) = Cardinality(Places(s, e))
      BY <3>1
    <3> QED BY <1>2, <2>2, <3>2
  <2> QED BY <2>1, <2>2
<1> QED BY <1>7, <1>9 DEF t

LEMMA PlacesOfExcept ==
  ASSUME NEW S, NEW s \in Seq(S), NEW i \in 1..Len(s), NEW x \in S, NEW e
  PROVE  Cardinality(Places([s EXCEPT ![i] = x], e)) =
           Cardinality(Places(s, e)) - (IF s[i] = e THEN 1 ELSE 0) + (IF x = e THEN 1 ELSE 0)
<1> DEFINE t == [s EXCEPT ![i] = x]
           Q == Places(s, e) \ {i}
<1>1. /\ t \in Seq(S) /\ Len(t) = Len(s) /\ t[i] = x
      /\ \A j \in 1..Len(s) : j # i => t[j] = s[j]
  OBVIOUS
<1> HIDE DEF t
<1>2. IsFiniteSet(Places(s, e)) /\ Cardinality(Places(s, e)) \in Nat
  BY PlacesFinite
<1>3. i \in Places(s, e) <=> s[i] = e
  BY DEF Places
<1>4. /\ IsFiniteSet(Q)
      /\ Cardinality(Q) = Cardinality(Places(s, e)) - (IF s[i] = e THEN 1 ELSE 0)
  BY <1>2, <1>3, FS_RemoveElement
<1>5. Cardinality(Q) \in Nat
  BY <1>4, FS_CardinalityType
<1>6. ASSUME x = e
      PROVE  Cardinality(Places(t, e)) = Cardinality(Places(s, e)) - (IF s[i] = e THEN 1 ELSE 0) + 1
  <2>1. Places(t, e) = Q \cup {i}
    BY <1>1, <1>6 DEF Places
  <2>2. i \notin Q
    OBVIOUS
  <2>3. Cardinality(Q \cup {i}) = Cardinality(Q) + 1
    BY <1>4, <2>2, FS_AddElement
  <2> QED BY <1>2, <1>4, <1>6, <2>1, <2>3
<1>7. ASSUME x # e
      PROVE  Cardinality(Places(t, e)) = Cardinality(Places(s, e)) - (IF s[i] = e THEN 1 ELSE 0)
  <2>1. Places(t, e) = Q
    BY <1>1, <1>7 DEF Places
  <2> QED BY <1>2, <1>4, <1>7, <2>1
<1>8. Cardinality(Places(t, e)) =
        Cardinality(Places(s, e)) - (IF s[i] = e THEN 1 ELSE 0) + (IF x = e THEN 1 ELSE 0)
  <2>1. CASE x = e
    BY <1>6, <2>1, <1>2
  <2>2. CASE x # e
    BY <1>7, <2>2, <1>2
  <2> QED BY <2>1, <2>2
<1> QED BY <1>8 DEF t

-------------------------------------------------------------------------------
(* What a thread is at, and the shape of the variables. *)

VoicePcs == {"locked", "claimed", "stream", "heard", "pipe", "whole", "heardWhole",
             "started", "playing"}
Textless == {"off", "ready", "asked", "note"}
Threads == [pc : Pcs, clip : Clips \cup {NoClip}, final : Clips \cup {NoClip}]

Apart(m) == \A n \in Members : n # m => thread'[n] = thread[n]

DataOK ==
  /\ waiting \in Seq(Clips) /\ unposted \in Seq(Clips)
  /\ rechecks \in Seq([clip : Clips, decision : Decisions \cup {Undecided}])
  /\ says \in Seq([who : Members, text : Texts])
  /\ channel \in Seq(Clips) /\ worker \in Clips \cup {NoClip}
  /\ orphans \in 0..MaxGiveUps

\* A post is stamped with a generation that has been.
PostsOK ==
  /\ gen \in 0..MaxClears
  /\ stamps \in Seq(0..MaxClears) /\ Len(stamps) <= MaxPosts
  /\ \A k \in DOMAIN stamps : stamps[k] <= gen
  /\ started \subseteq DOMAIN stamps
  /\ flight = 0 \/ flight \in started
  /\ clearing \in {"no", "bump", "interrupt"}
  /\ clearing = "bump" => gen < MaxClears

\* Threads run only in a fan-out, and only the holder of the lock is at its voice.
ThreadsOK ==
  /\ thread \in [Members -> Threads]
  /\ \A m \in Members : thread[m].pc \notin Textless =>
       thread[m].clip \in Texts /\ thread[m].final \in Texts
  /\ flight = 0 => \A m \in Members : thread[m].pc = "off"
  /\ holder \in Members \cup {NoOne}
  /\ \A m \in Members : thread[m].pc \in VoicePcs => holder = m

OutOK == out \in Play!Outputs(Players)

Base == DataOK /\ PostsOK /\ ThreadsOK /\ OutOK /\ overrun \subseteq Players

USE RoomAssumption

LEMMA BaseIsTyped == Base => TypeOK
  BY DEF Base, DataOK, PostsOK, ThreadsOK, OutOK, TypeOK, Threads

LEMMA BaseInit == Init => Base
<1> SUFFICES ASSUME Init PROVE Base
  OBVIOUS
<1>0. \A S : <<>> \in Seq(S)
  OBVIOUS
<1>1. DataOK
  BY <1>0 DEF Init, DataOK, NoClip
<1>2. PostsOK
  BY <1>0 DEF Init, PostsOK
<1>3. ThreadsOK
  BY DEF Init, ThreadsOK, Threads, Nobody, Pcs, Textless, VoicePcs, NoClip, NoOne
<1>4. OutOK
  BY DEF Init, OutOK, Play!Outputs, Play!Silent
<1>5. overrun \subseteq Players
  BY DEF Init
<1> QED BY <1>1, <1>2, <1>3, <1>4, <1>5 DEF Base

LEMMA FirstAboutPlace ==
  ASSUME NEW clip, DataOK
  PROVE  FirstAbout(clip) \in 0..Len(rechecks)
<1> DEFINE I == {i \in 1..Len(rechecks) : rechecks[i].clip = clip}
<1>1. Len(rechecks) \in Nat
  BY DEF DataOK
<1>2. I \subseteq Nat
  BY <1>1
<1>3. FirstAbout(clip) = IF I # {} THEN Min(I) ELSE 0
  BY DEF FirstAbout, SelectInSeq
<1>4. I # {} => Min(I) \in I
  BY <1>2, MinIsLeast
<1> QED BY <1>1, <1>3, <1>4

LEMMA GotoMoves ==
  ASSUME ThreadsOK, NEW m \in Members, NEW pc \in Pcs, Goto(m, pc)
  PROVE  /\ thread' \in [Members -> Threads] /\ Apart(m)
         /\ thread'[m].pc = pc
         /\ thread'[m].clip = thread[m].clip /\ thread'[m].final = thread[m].final
  BY DEF ThreadsOK, Threads, Goto, Apart

LEMMA LeaveMoves ==
  ASSUME ThreadsOK, NEW m \in Members, Leave(m)
  PROVE  /\ thread' \in [Members -> Threads] /\ Apart(m)
         /\ thread'[m].pc = "off"
  BY DEF ThreadsOK, Threads, Leave, Apart, Nobody, Pcs

\* One thread moves, and the lock with it.
LEMMA ThreadMoves ==
  ASSUME ThreadsOK, NEW m \in Members, flight' = flight,
         thread' \in [Members -> Threads], Apart(m), thread[m].pc # "off",
         thread'[m].pc \notin Textless => thread'[m].clip \in Texts /\ thread'[m].final \in Texts,
         \/ holder' = holder /\ (thread'[m].pc \in VoicePcs => holder = m)
         \/ holder' = m /\ holder = NoOne
         \/ holder' = NoOne /\ holder = m /\ thread'[m].pc \notin VoicePcs
  PROVE  ThreadsOK'
<1>1. flight' # 0
  BY DEF ThreadsOK
<1>2. \A n \in Members : thread'[n].pc \notin Textless =>
        thread'[n].clip \in Texts /\ thread'[n].final \in Texts
  BY DEF ThreadsOK, Apart
<1>3. holder' \in Members \cup {NoOne}
  BY DEF ThreadsOK
<1>4. \A n \in Members : thread'[n].pc \in VoicePcs => holder' = n
  BY DEF ThreadsOK, Apart, NoOne
<1> QED BY <1>1, <1>2, <1>3, <1>4 DEF ThreadsOK

LEMMA GotoKeeps ==
  ASSUME ThreadsOK, NEW m \in Members, NEW pc \in Pcs, Goto(m, pc), flight' = flight,
         thread[m].pc # "off", pc \in Textless \/ thread[m].pc \notin Textless,
         \/ holder' = holder /\ (pc \in VoicePcs => thread[m].pc \in VoicePcs)
         \/ holder' = m /\ holder = NoOne
  PROVE  ThreadsOK'
<1>1. /\ thread' \in [Members -> Threads] /\ Apart(m) /\ thread'[m].pc = pc
      /\ thread'[m].clip = thread[m].clip /\ thread'[m].final = thread[m].final
  BY GotoMoves
<1>2. thread'[m].pc \notin Textless => thread'[m].clip \in Texts /\ thread'[m].final \in Texts
  BY <1>1 DEF ThreadsOK
<1>3. pc \in VoicePcs /\ thread[m].pc \in VoicePcs => holder = m
  BY DEF ThreadsOK
<1> QED BY <1>1, <1>2, <1>3, ThreadMoves

LEMMA LeaveKeeps ==
  ASSUME ThreadsOK, NEW m \in Members, Leave(m), flight' = flight, thread[m].pc # "off",
         \/ holder' = holder
         \/ holder' = NoOne /\ thread[m].pc \in VoicePcs
  PROVE  ThreadsOK'
<1>1. /\ thread' \in [Members -> Threads] /\ Apart(m) /\ thread'[m].pc = "off"
  BY LeaveMoves
<1>2. thread'[m].pc \in Textless /\ thread'[m].pc \notin VoicePcs
  BY <1>1 DEF Textless, VoicePcs
<1>3. thread[m].pc \in VoicePcs => holder = m
  BY DEF ThreadsOK
<1> QED BY <1>1, <1>2, <1>3, ThreadMoves

-------------------------------------------------------------------------------
(* The base is kept, one part at a time. *)

LEMMA ThreadsStep ==
  ASSUME Base, [Next]_vars
  PROVE  ThreadsOK'
<1> USE DEF At
<1>0. ThreadsOK /\ PostsOK /\ DataOK
  BY DEF Base
<1>1. ASSUME NEW k \in DOMAIN stamps, StartFanout(k) PROVE ThreadsOK'
  <2>1. thread' \in [Members -> Threads] /\ \A m \in Members : thread'[m].pc = "ready"
    BY <1>1 DEF StartFanout, Threads, Nobody, Pcs
  <2>2. k # 0
    BY <1>0 DEF PostsOK
  <2> QED BY <1>0, <1>1, <2>1, <2>2 DEF StartFanout, ThreadsOK, Textless, VoicePcs, voiceVars
<1>2. CASE EndFanout
  BY <1>0, <1>2 DEF EndFanout, ThreadsOK, voiceVars
<1>3. ASSUME NEW m \in Members, Ask(m) PROVE ThreadsOK'
  BY <1>0, <1>3, GotoKeeps, LeaveKeeps DEF Ask, Pcs, Textless, VoicePcs, voiceVars, postVars
<1>4. ASSUME NEW m \in Members, NEW text \in Texts, Reply(m, text) PROVE ThreadsOK'
  <2>1. /\ thread' \in [Members -> Threads] /\ Apart(m) /\ thread'[m].pc = "staged"
        /\ thread'[m].clip = text /\ thread'[m].final = text
    BY <1>0, <1>4 DEF Reply, ThreadsOK, Threads, Pcs, Clips, Apart
  <2>2. thread'[m].pc \notin VoicePcs
    BY <2>1 DEF VoicePcs
  <2> QED BY <1>0, <1>4, <2>1, <2>2, ThreadMoves DEF Reply, postVars, voiceVars
<1>5. ASSUME NEW m \in Members, ReplyPrivately(m) PROVE ThreadsOK'
  BY <1>0, <1>5, GotoKeeps DEF ReplyPrivately, Pcs, Textless, VoicePcs, voiceVars, postVars
<1>6. ASSUME NEW m \in Members, StayQuiet(m) \/ SendNote(m) PROVE ThreadsOK'
  BY <1>0, <1>6, LeaveKeeps DEF StayQuiet, SendNote, voiceVars, postVars
<1>7. ASSUME NEW m \in Members, ClaimAndRecord(m) PROVE ThreadsOK'
  BY <1>0, <1>7, GotoKeeps, LeaveKeeps DEF ClaimAndRecord, Pcs, Textless, VoicePcs, voiceVars, postVars
<1>8. ASSUME NEW m \in Members, Enqueue(m) PROVE ThreadsOK'
  BY <1>0, <1>8, GotoKeeps, LeaveKeeps DEF Enqueue, Pcs, Textless, VoicePcs, voiceVars, postVars
<1>9. ASSUME NEW m \in Members, FindGone(m) \/ GiveUp(m) PROVE ThreadsOK'
  BY <1>0, <1>9, LeaveKeeps DEF FindGone, GiveUp, voiceVars, postVars
<1>10. ASSUME NEW m \in Members, AskAgain(m) PROVE ThreadsOK'
  BY <1>0, <1>10, GotoKeeps DEF AskAgain, Pcs, Textless, VoicePcs, voiceVars, postVars
<1>11. ASSUME NEW m \in Members, NEW d \in Decisions \cup {Undecided}, At(m, "wait"), Decide(m, d),
              UNCHANGED postVars, UNCHANGED voiceVars
       PROVE  ThreadsOK'
  <2>1. thread[m].clip \in Texts
    BY <1>0, <1>11 DEF ThreadsOK, Textless
  <2>2. CASE Leave(m)
    BY <1>0, <1>11, <2>2, LeaveKeeps DEF voiceVars, postVars
  <2>3. CASE Goto(m, "note")
    BY <1>0, <1>11, <2>3, GotoKeeps DEF Pcs, Textless, VoicePcs, voiceVars, postVars
  <2>4. CASE /\ d.kind \in {"keep", "revise"}
             /\ thread' = [thread EXCEPT ![m].pc = "append",
                             ![m].final = IF d.kind = "keep" THEN thread[m].clip ELSE d.text]
    <3>1. (IF d.kind = "keep" THEN thread[m].clip ELSE d.text) \in Texts
      BY <2>1, <2>4 DEF Decisions, Plain, Revise, Undecided
    <3>2. /\ thread' \in [Members -> Threads] /\ Apart(m) /\ thread'[m].pc = "append"
          /\ thread'[m].clip \in Texts /\ thread'[m].final \in Texts
      BY <1>0, <2>1, <2>4, <3>1, ZenonT(30) DEF ThreadsOK, Threads, Pcs, Clips, Apart
    <3> QED BY <1>0, <1>11, <3>2, ThreadMoves DEF VoicePcs, voiceVars, postVars
  <2> QED BY <1>11, <2>2, <2>3, <2>4 DEF Decide
<1>12. ASSUME NEW m \in Members, Wait(m) PROVE ThreadsOK'
  <2>1. Plain("keep") \in Decisions
    BY DEF Decisions
  <2>2. FirstAbout(thread[m].clip) \in 0..Len(rechecks)
    BY <1>0, FirstAboutPlace DEF DataOK
  <2>3. FirstAbout(thread[m].clip) # 0 =>
          rechecks[FirstAbout(thread[m].clip)].decision \in Decisions \cup {Undecided}
    <3> DEFINE i == FirstAbout(thread[m].clip)
               Checks == [clip : Clips, decision : Decisions \cup {Undecided}]
    <3>1. SUFFICES ASSUME i # 0 PROVE rechecks[i].decision \in Decisions \cup {Undecided}
      OBVIOUS
    <3>2. rechecks \in Seq(Checks)
      BY <1>0 DEF DataOK
    <3>3. i \in 1..Len(rechecks)
      BY <2>2, <3>1, <3>2
    <3> HIDE DEF i
    <3>4. rechecks[i] \in Checks
      BY <3>2, <3>3, ElementOfSeq
    <3> QED BY <3>4
  <2> QED BY <1>11, <1>12, <2>1, <2>3 DEF Wait
<1>13. ASSUME NEW m \in Members, AppendRow(m) PROVE ThreadsOK'
  BY <1>0, <1>13, GotoKeeps DEF AppendRow, Pcs, Textless, VoicePcs, voiceVars, postVars
<1>14. ASSUME NEW m \in Members, LogFails(m) PROVE ThreadsOK'
  BY <1>0, <1>14, LeaveKeeps DEF LogFails, voiceVars, postVars
<1>15. ASSUME NEW m \in Members, Rename(m) PROVE ThreadsOK'
  <2>1. CASE Leave(m)
    BY <1>0, <1>15, <2>1, LeaveKeeps DEF Rename, voiceVars, postVars
  <2>2. CASE thread' = [thread EXCEPT ![m].pc = "speak", ![m].clip = thread[m].final]
    <3>1. thread[m].final \in Texts
      BY <1>0, <1>15 DEF ThreadsOK, Textless, Rename
    <3>2. /\ thread' \in [Members -> Threads] /\ Apart(m) /\ thread'[m].pc = "speak"
          /\ thread'[m].clip \in Texts /\ thread'[m].final \in Texts
      BY <1>0, <2>2, <3>1, ZenonT(30) DEF ThreadsOK, Threads, Pcs, Clips, Apart
    <3> QED BY <1>0, <1>15, <3>2, ThreadMoves DEF Rename, VoicePcs, voiceVars, postVars
  <2> QED BY <1>15, <2>1, <2>2 DEF Rename
<1>16. ASSUME NEW m \in Members, Lock(m) PROVE ThreadsOK'
  BY <1>0, <1>16, GotoKeeps DEF Lock, Pcs, Textless, VoicePcs, postVars
<1>17. ASSUME NEW m \in Members, Claim(m) \/ Synthesize(m) \/ CannotSpeak(m) PROVE ThreadsOK'
  BY <1>0, <1>17, GotoKeeps, LeaveKeeps
     DEF Claim, Synthesize, CannotSpeak, Unlock, Pcs, Textless, VoicePcs, postVars
<1>18. ASSUME NEW m \in Members, Spawn(m) \/ SpawnFails(m) \/ Remember(m) PROVE ThreadsOK'
  BY <1>0, <1>18, GotoKeeps
     DEF Spawn, SpawnFails, Remember, Attempt, Pcs, Textless, VoicePcs, postVars, voiceVars
<1>19. ASSUME NEW m \in Members, StreamEnds(m) \/ StreamBreaks(m) PROVE ThreadsOK'
  BY <1>0, <1>19, GotoKeeps DEF StreamEnds, StreamBreaks, Pcs, Textless, VoicePcs, postVars
<1>20. ASSUME NEW m \in Members, AfterStart(m) \/ Finish(m) PROVE ThreadsOK'
  BY <1>0, <1>20, GotoKeeps, LeaveKeeps
     DEF AfterStart, Finish, Unlock, Pcs, Textless, VoicePcs, postVars
<1>21. CASE UNCHANGED <<thread, flight, holder>>
  BY <1>0, <1>21 DEF ThreadsOK
<1>22. CASE PostRoom \/ CheckStep \/ SoundStep \/ ClearStep \/ UNCHANGED vars
  BY <1>21, <1>22 DEF PostRoom, CheckStep, TakeRequest, AnswerRequest, SoundStep, PlayerEnds, Reap,
     GraceEnds, ClearStep, BargeIn, SpeechStarted, Clear, InterruptAfterClear, vars, voiceVars, postVars
<1> HIDE DEF At
<1> QED
  BY <1>1, <1>2, <1>3, <1>4, <1>5, <1>6, <1>7, <1>8, <1>9, <1>10, <1>12, <1>13, <1>14, <1>15,
     <1>16, <1>17, <1>18, <1>19, <1>20, <1>22 DEF Next, RoomStep, Turn, Queued, Voice

LEMMA SayPlace ==
  ASSUME NEW m, NEW text, DataOK
  PROVE  SayOf(m, text) \in 0..Len(says)
<1> DEFINE I == {i \in 1..Len(says) : says[i].who = m /\ says[i].text = text}
<1>1. Len(says) \in Nat
  BY DEF DataOK
<1>2. I \subseteq Nat
  BY <1>1
<1>3. SayOf(m, text) = IF I # {} THEN Min(I) ELSE 0
  BY DEF SayOf, SelectInSeq
<1>4. I # {} => Min(I) \in I
  BY <1>2, MinIsLeast
<1> QED BY <1>1, <1>3, <1>4

\* What is struck from a fan-out or from the re-checks leaves the others.
LEMMA StruckSays ==
  ASSUME DataOK, NEW m, NEW text
  PROVE  /\ SaysWithout(m, text) \in Seq([who : Members, text : Texts])
         /\ \A new \in Texts : SaysRevised(m, text, new) \in Seq([who : Members, text : Texts])
<1> DEFINE i == SayOf(m, text)
           Says == [who : Members, text : Texts]
<1>1. says \in Seq(Says) /\ Len(says) \in Nat
  BY DEF DataOK
<1>2. i \in 0..Len(says)
  BY SayPlace
<1>3. SaysWithout(m, text) = IF i = 0 THEN says ELSE RemoveAt(says, i)
  BY DEF SaysWithout
<1>4. \A new : SaysRevised(m, text, new) = IF i = 0 THEN says ELSE [says EXCEPT ![i].text = new]
  BY DEF SaysRevised
<1> HIDE DEF i, Says
<1>5. CASE i = 0
  BY <1>1, <1>3, <1>4, <1>5 DEF Says
<1>6. CASE i # 0
  <2>1. i \in 1..Len(says)
    BY <1>1, <1>2, <1>6
  <2>2. RemoveAt(says, i) \in Seq(Says)
    BY <1>1, <2>1, RemovedAt
  <2>3. ASSUME NEW new \in Texts PROVE [says EXCEPT ![i].text = new] \in Seq(Says)
    <3>1. says[i] \in Says
      BY <1>1, <2>1, ElementOfSeq
    <3> DEFINE r == [says[i] EXCEPT !.text = new]
    <3>2. r \in Says
      BY <3>1 DEF Says
    <3>3. [says EXCEPT ![i].text = new] = [says EXCEPT ![i] = r]
      OBVIOUS
    <3> HIDE DEF r
    <3> QED BY <1>1, <2>1, <3>2, <3>3, ExceptSeq
  <2> QED BY <1>3, <1>4, <1>6, <2>2, <2>3 DEF Says
<1> QED BY <1>5, <1>6

Checks == [clip : Clips, decision : Decisions \cup {Undecided}]

LEMMA StruckRecheck ==
  ASSUME DataOK, NEW clip
  PROVE  WithoutRecheck(clip) \in Seq(Checks)
<1>1. rechecks \in Seq(Checks) /\ Len(rechecks) \in Nat
  BY DEF DataOK, Checks
<1>2. FirstAbout(clip) \in 0..Len(rechecks)
  BY FirstAboutPlace
<1>3. CASE FirstAbout(clip) = 0
  BY <1>1, <1>3 DEF WithoutRecheck
<1>4. CASE FirstAbout(clip) # 0
  <2>1. FirstAbout(clip) \in 1..Len(rechecks)
    BY <1>1, <1>2, <1>4
  <2>2. RemoveAt(rechecks, FirstAbout(clip)) \in Seq(Checks)
    BY <1>1, <2>1, RemovedAt
  <2> QED BY <1>4, <2>2 DEF WithoutRecheck
<1> QED BY <1>3, <1>4

LEMMA ClaimedData ==
  ASSUME DataOK, NEW clip, ClaimWaiting(clip)
  PROVE  waiting' \in Seq(Clips) /\ rechecks' \in Seq(Checks)
<1>1. Without(waiting, clip) \in Seq(Clips)
  BY RemovedFirst DEF DataOK, Without
<1>2. WithoutRecheck(clip) \in Seq(Checks)
  BY StruckRecheck
<1> QED BY <1>1, <1>2 DEF ClaimWaiting, DataOK, Checks

LEMMA DataStep ==
  ASSUME Base, [Next]_vars
  PROVE  DataOK'
<1> USE DEF At
<1>0. ThreadsOK /\ DataOK
  BY DEF Base
<1>1. ASSUME NEW m \in Members, thread[m].pc \notin Textless
      PROVE  thread[m].clip \in Texts /\ thread[m].final \in Texts
  BY <1>0, <1>1 DEF ThreadsOK
<1>2. CASE UNCHANGED <<waiting, unposted, rechecks, says, channel, worker, orphans>>
  BY <1>0, <1>2 DEF DataOK
<1>3. CASE EndFanout
  <2>1. <<>> \in Seq([who : Members, text : Texts])
    OBVIOUS
  <2> QED BY <1>0, <1>3, <2>1 DEF EndFanout, DataOK, queueVars, checkVars
<1>4. ASSUME NEW m \in Members, NEW text \in Texts, Reply(m, text) PROVE DataOK'
  <2>1. Append(unposted, text) \in Seq(Clips)
    BY <1>0, AppendProperties DEF DataOK, Clips
  <2> QED BY <1>0, <1>4, <2>1 DEF Reply, DataOK, checkVars
<1>5. ASSUME NEW m \in Members, ClaimAndRecord(m) PROVE DataOK'
  <2> DEFINE say == [who |-> m, text |-> thread[m].clip]
  <2>1. say \in [who : Members, text : Texts]
    BY <1>1, <1>5 DEF ClaimAndRecord, Textless
  <2>2. Append(says, say) \in Seq([who : Members, text : Texts])
    BY <1>0, <2>1, AppendProperties DEF DataOK
  <2>3. Without(unposted, thread[m].clip) \in Seq(Clips)
    BY <1>0, RemovedFirst DEF DataOK, Without
  <2> QED BY <1>0, <1>5, <2>2, <2>3 DEF ClaimAndRecord, DataOK, checkVars
<1>6. ASSUME NEW m \in Members, Enqueue(m) PROVE DataOK'
  <2>1. Append(waiting, thread[m].clip) \in Seq(Clips)
    BY <1>0, <1>1, <1>6, AppendProperties DEF Enqueue, DataOK, Clips, Textless
  <2>2. SaysWithout(m, thread[m].clip) \in Seq([who : Members, text : Texts])
    BY <1>0, StruckSays
  <2> QED BY <1>0, <1>6, <2>1, <2>2 DEF Enqueue, DataOK, checkVars
<1>7. ASSUME NEW m \in Members, GiveUp(m) PROVE DataOK'
  BY <1>0, <1>7 DEF GiveUp, DataOK, queueVars, checkVars
<1>8. ASSUME NEW m \in Members, AskAgain(m) PROVE DataOK'
  <2> DEFINE ask == [clip |-> thread[m].clip, decision |-> Undecided]
  <2>1. thread[m].clip \in Clips
    BY <1>1, <1>8 DEF AskAgain, Clips, Textless
  <2>2. Append(rechecks, ask) \in Seq(Checks) /\ Append(channel, thread[m].clip) \in Seq(Clips)
    BY <1>0, <2>1, AppendProperties DEF DataOK, Checks
  <2> QED BY <1>0, <1>8, <2>2 DEF AskAgain, DataOK, Checks
<1>9. CASE TakeRequest
  <2>1. Tail(channel) \in Seq(Clips) /\ Head(channel) \in Clips
    BY <1>0, <1>9, HeadTailProperties DEF TakeRequest, DataOK
  <2> QED BY <1>0, <1>9, <2>1 DEF TakeRequest, DataOK, queueVars
<1>10. ASSUME NEW d \in Decisions, AnswerRequest(d) PROVE DataOK'
  <2> DEFINE I == {i \in 1..Len(rechecks) : rechecks[i].clip = worker /\ rechecks[i].decision = Undecided}
             k == IF I # {} THEN Min(I) ELSE 0
  <2>1. rechecks \in Seq(Checks) /\ Len(rechecks) \in Nat
    BY <1>0 DEF DataOK, Checks
  <2>2. I \subseteq Nat
    BY <2>1
  <2>3. k \in 0..Len(rechecks)
    <3>1. I # {} => Min(I) \in I
      BY <2>2, MinIsLeast
    <3> QED BY <2>1, <3>1
  <2>4. rechecks' = rechecks \/ (k # 0 /\ rechecks' = [rechecks EXCEPT ![k].decision = d])
    BY <1>10 DEF AnswerRequest, SelectInSeq
  <2> HIDE DEF k
  <2>5. rechecks' \in Seq(Checks)
    <3>1. CASE k # 0 /\ rechecks' = [rechecks EXCEPT ![k].decision = d]
      <4>1. k \in 1..Len(rechecks)
        BY <2>1, <2>3, <3>1
      <4>2. rechecks[k] \in Checks
        BY <2>1, <4>1, ElementOfSeq
      <4> DEFINE r == [rechecks[k] EXCEPT !.decision = d]
      <4>3. r \in Checks
        BY <4>2 DEF Checks
      <4>4. rechecks' = [rechecks EXCEPT ![k] = r]
        BY <3>1
      <4> HIDE DEF r
      <4> QED BY <2>1, <4>1, <4>3, <4>4, ExceptSeq
    <3> QED BY <2>1, <2>4, <3>1
  <2> QED BY <1>0, <1>10, <2>5 DEF AnswerRequest, DataOK, Checks
<1>11. ASSUME NEW m \in Members, NEW d, Decide(m, d), UNCHANGED <<unposted, channel, worker, orphans>>
       PROVE  DataOK'
  <2>1. Without(waiting, thread[m].clip) \in Seq(Clips)
    BY <1>0, RemovedFirst DEF DataOK, Without
  <2>2. WithoutRecheck(thread[m].clip) \in Seq(Checks)
    BY <1>0, StruckRecheck
  <2>3. SaysWithout(m, thread[m].clip) \in Seq([who : Members, text : Texts])
    BY <1>0, StruckSays
  <2> QED BY <1>0, <1>11, <2>1, <2>2, <2>3 DEF Decide, DataOK, Checks
<1>12. ASSUME NEW m \in Members, Wait(m) PROVE DataOK'
  BY <1>11, <1>12 DEF Wait, checkVars
<1>13. ASSUME NEW m \in Members, AppendRow(m) PROVE DataOK'
  <2>1. thread[m].final \in Texts
    BY <1>1, <1>13 DEF AppendRow, Textless
  <2> QED BY <1>0, <1>13, <2>1, StruckSays DEF AppendRow, DataOK, queueVars, checkVars
<1>14. ASSUME NEW m \in Members, LogFails(m) PROVE DataOK'
  BY <1>0, <1>14, StruckSays, ClaimedData DEF LogFails, DropLine, DataOK, Checks, checkVars
<1>15. ASSUME NEW m \in Members, Rename(m) PROVE DataOK'
  <2>1. thread[m].final \in Clips
    BY <1>1, <1>15 DEF Rename, Textless, Clips
  <2> DEFINE k == FirstAt(waiting, thread[m].clip)
  <2>2. waiting \in Seq(Clips) /\ Len(waiting) \in Nat
    BY <1>0 DEF DataOK
  <2>3. k \in 0..Len(waiting)
    BY <2>2, FirstPlace
  <2>4. waiting' = waiting \/ (k # 0 /\ waiting' = [waiting EXCEPT ![k] = thread[m].final])
    BY <1>15 DEF Rename, FirstAt
  <2> HIDE DEF k
  <2>5. waiting' \in Seq(Clips)
    BY <2>1, <2>2, <2>3, <2>4, ExceptSeq
  <2> QED BY <1>0, <1>15, <2>5 DEF Rename, DataOK, checkVars
<1>16. ASSUME NEW m \in Members, Claim(m) PROVE DataOK'
  BY <1>0, <1>16, ClaimedData DEF Claim, DataOK, Checks, checkVars
<1>17. CASE Clear
  <2>1. \A S : <<>> \in Seq(S)
    OBVIOUS
  <2> QED BY <1>0, <1>17, <2>1 DEF Clear, DataOK, checkVars
<1>18. CASE PostRoom \/ (\E k \in DOMAIN stamps : StartFanout(k)) \/ SoundStep \/ UNCHANGED vars
            \/ BargeIn \/ SpeechStarted \/ InterruptAfterClear
  BY <1>2, <1>18 DEF PostRoom, StartFanout, SoundStep, PlayerEnds, Reap, GraceEnds,
     BargeIn, SpeechStarted, InterruptAfterClear, vars, queueVars, checkVars
<1>19. ASSUME NEW m \in Members,
              Ask(m) \/ ReplyPrivately(m) \/ StayQuiet(m) \/ SendNote(m) \/ FindGone(m) \/ Lock(m)
       PROVE  DataOK'
  BY <1>2, <1>19 DEF Ask, ReplyPrivately, StayQuiet, SendNote, FindGone, Lock, queueVars, checkVars
<1>20. ASSUME NEW m \in Members,
              Synthesize(m) \/ CannotSpeak(m) \/ Spawn(m) \/ SpawnFails(m) \/ Remember(m)
                \/ StreamEnds(m) \/ StreamBreaks(m) \/ AfterStart(m) \/ Finish(m)
       PROVE  DataOK'
  BY <1>2, <1>20 DEF Synthesize, CannotSpeak, Spawn, SpawnFails, Remember, StreamEnds, StreamBreaks,
     AfterStart, Finish, queueVars, checkVars
<1> HIDE DEF At
<1> QED
  BY <1>3, <1>4, <1>5, <1>6, <1>7, <1>8, <1>9, <1>10, <1>12, <1>13, <1>14, <1>15, <1>16, <1>17, <1>18,
     <1>19, <1>20 DEF Next, RoomStep, CheckStep, ClearStep, Turn, Queued, Voice

LEMMA PostsStep ==
  ASSUME Base, [Next]_vars
  PROVE  PostsOK'
<1>0. PostsOK
  BY DEF Base
<1>1. CASE UNCHANGED <<gen, stamps, started, flight, clearing>>
  BY <1>0, <1>1 DEF PostsOK
<1>2. CASE PostRoom
  <2>1. /\ stamps' \in Seq(0..MaxClears) /\ Len(stamps') = Len(stamps) + 1
        /\ \A k \in 1..Len(stamps) : stamps'[k] = stamps[k]
        /\ stamps'[Len(stamps) + 1] = gen
    BY <1>0, <1>2, AppendProperties DEF PostsOK, PostRoom
  <2>2. DOMAIN stamps = 1..Len(stamps) /\ DOMAIN stamps' = 1..Len(stamps') /\ Len(stamps) \in Nat
    BY <1>0, <2>1 DEF PostsOK
  <2>3. \A k \in DOMAIN stamps' : k \in 1..Len(stamps) \/ k = Len(stamps) + 1
    BY <2>1, <2>2
  <2>4. \A k \in DOMAIN stamps' : stamps'[k] <= gen
    BY <1>0, <2>1, <2>2, <2>3 DEF PostsOK
  <2>5. DOMAIN stamps \subseteq DOMAIN stamps'
    BY <2>1, <2>2
  <2>6. Len(stamps') <= MaxPosts
    BY <1>0, <1>2, <2>1, <2>2 DEF PostsOK, PostRoom
  <2> QED BY <1>0, <1>2, <2>1, <2>4, <2>5, <2>6 DEF PostsOK, PostRoom, queueVars, voiceVars
<1>3. ASSUME NEW k \in DOMAIN stamps, StartFanout(k) PROVE PostsOK'
  BY <1>0, <1>3 DEF PostsOK, StartFanout, queueVars, voiceVars
<1>4. CASE EndFanout
  BY <1>0, <1>4 DEF PostsOK, EndFanout, queueVars, voiceVars
<1>5. CASE BargeIn \/ SpeechStarted
  BY <1>0, <1>5 DEF PostsOK, BargeIn, SpeechStarted, queueVars, postVars
<1>6. CASE Clear
  <2>1. gen' \in 0..MaxClears /\ gen' = gen + 1
    BY <1>0, <1>6 DEF PostsOK, Clear
  <2>2. \A k \in DOMAIN stamps : stamps[k] \in Nat
    BY <1>0 DEF PostsOK
  <2>3. \A k \in DOMAIN stamps : stamps[k] <= gen'
    BY <1>0, <2>1, <2>2 DEF PostsOK
  <2> QED BY <1>0, <1>6, <2>1, <2>3 DEF PostsOK, Clear, postVars
<1>7. CASE InterruptAfterClear
  BY <1>0, <1>7 DEF PostsOK, InterruptAfterClear, queueVars, postVars
<1>8. CASE CheckStep \/ SoundStep \/ UNCHANGED vars
  BY <1>1, <1>8 DEF CheckStep, TakeRequest, AnswerRequest, SoundStep, PlayerEnds, Reap,
     GraceEnds, vars, queueVars, postVars, voiceVars
<1>9. ASSUME NEW m \in Members, Turn(m) PROVE PostsOK'
  BY <1>1, <1>9 DEF Turn, Ask, Reply, ReplyPrivately, StayQuiet, SendNote, ClaimAndRecord, Enqueue,
     queueVars, postVars, voiceVars
<1>10. ASSUME NEW m \in Members, Queued(m) \/ GiveUp(m) PROVE PostsOK'
  BY <1>1, <1>10 DEF Queued, FindGone, GiveUp, AskAgain, Wait, AppendRow, LogFails, Rename,
     queueVars, postVars, voiceVars
<1>11. ASSUME NEW m \in Members, Voice(m) PROVE PostsOK'
  BY <1>1, <1>11 DEF Voice, Lock, Claim, Synthesize, CannotSpeak, Spawn, SpawnFails, Remember,
     StreamEnds, StreamBreaks, AfterStart, Finish, queueVars, postVars, voiceVars
<1> QED
  BY <1>2, <1>3, <1>4, <1>5, <1>6, <1>7, <1>8, <1>9, <1>10, <1>11 DEF Next, RoomStep, ClearStep

LEMMA PlayerOfThread ==
  ASSUME Base, NEW m \in Members, thread[m].pc # "off"
  PROVE  PlayerOf(m) \in Players /\ flight # 0
<1>1. flight # 0
  BY DEF Base, ThreadsOK
<1>2. flight \in 1..MaxPosts
  BY <1>1 DEF Base, PostsOK
<1> QED BY <1>1, <1>2 DEF PlayerOf, Players, Attempt

\* Every operation of the player keeps its shape.
LEMMA PlayerShapes ==
  ASSUME OutOK, NEW p \in Players
  PROVE  /\ Play!Spawned(out, p) \in Play!Outputs(Players)
         /\ Play!Remembered(out, p) \in Play!Outputs(Players)
         /\ Play!HandedOver(out, p) \in Play!Outputs(Players)
         /\ Play!HandedOver(Play!Remembered(out, p), p) \in Play!Outputs(Players)
         /\ Play!Aborted(out, p) \in Play!Outputs(Players)
         /\ Play!Ended(out, p) \in Play!Outputs(Players)
         /\ Play!Reaped(out, p) \in Play!Outputs(Players)
<1>1. ASSUME NEW o \in Play!Outputs(Players)
      PROVE  /\ Play!Remembered(o, p) \in Play!Outputs(Players)
             /\ Play!HandedOver(o, p) \in Play!Outputs(Players)
             /\ Play!Ended(o, p) \in Play!Outputs(Players)
             /\ Play!Forgot(o, p) \in Play!Outputs(Players)
             /\ Play!Unmuted(o) \in Play!Outputs(Players)
  BY DEF Play!Outputs, Play!Remembered, Play!HandedOver, Play!Ended, Play!Forgot, Play!Unmuted
<1>2. Play!Spawned(out, p) \in Play!Outputs(Players)
  BY DEF OutOK, Play!Outputs, Play!Spawned
<1>3. Play!Aborted(out, p) \in Play!Outputs(Players)
  BY <1>1 DEF OutOK, Play!Aborted
<1>4. Play!Reaped(out, p) \in Play!Outputs(Players)
  <2> DEFINE after == [Play!Forgot(out, p) EXCEPT !.reaping = @ \ {p}]
  <2>1. after \in Play!Outputs(Players)
    BY <1>1 DEF OutOK, Play!Outputs
  <2>2. Play!Reaped(out, p) =
          IF out.armed # p THEN after
          ELSE [after EXCEPT !.armed = NoPlayer, !.hold = FALSE, !.grace = TRUE]
    BY DEF Play!Reaped
  <2> HIDE DEF after
  <2> QED BY <2>1, <2>2 DEF Play!Outputs
<1> QED BY <1>1, <1>2, <1>3, <1>4 DEF OutOK

LEMMA QuietShapes ==
  ASSUME OutOK
  PROVE  /\ Play!Interrupted(out) \in Play!Outputs(Players)
         /\ Play!Unmuted(Play!Interrupted(out)) \in Play!Outputs(Players)
         /\ Play!GraceOver(out) \in Play!Outputs(Players)
<1>1. ASSUME NEW o \in Play!Outputs(Players)
      PROVE  Play!Interrupted(o) \in Play!Outputs(Players) /\ Play!Unmuted(o) \in Play!Outputs(Players)
  BY DEF Play!Outputs, Play!Interrupted, Play!Unmuted
<1>2. Play!GraceOver(out) \in Play!Outputs(Players)
  BY DEF OutOK, Play!Outputs, Play!GraceOver
<1> QED BY <1>1, <1>2 DEF OutOK

LEMMA OutStep ==
  ASSUME Base, [Next]_vars
  PROVE  OutOK'
<1>0. OutOK
  BY DEF Base
<1>1. CASE out' = out
  BY <1>0, <1>1 DEF OutOK
<1>2. ASSUME NEW m \in Members,
             Spawn(m) \/ Remember(m) \/ StreamEnds(m) \/ StreamBreaks(m) \/ AfterStart(m)
      PROVE  OutOK'
  <2>1. PlayerOf(m) \in Players
    BY <1>2, PlayerOfThread DEF Spawn, Remember, StreamEnds, StreamBreaks, AfterStart, At
  <2> QED BY <1>0, <1>1, <1>2, <2>1, PlayerShapes, QuietShapes
         DEF Spawn, Remember, StreamEnds, StreamBreaks, AfterStart, OutOK
<1>3. CASE SoundStep
  BY <1>0, <1>3, PlayerShapes, QuietShapes DEF SoundStep, PlayerEnds, Reap, GraceEnds, OutOK
<1>4. CASE ClearStep
  BY <1>0, <1>1, <1>4, QuietShapes
     DEF ClearStep, BargeIn, SpeechStarted, Clear, InterruptAfterClear, OutOK
<1>5. CASE PostRoom \/ (\E k \in DOMAIN stamps : StartFanout(k)) \/ EndFanout \/ CheckStep \/ UNCHANGED vars
  BY <1>1, <1>5 DEF PostRoom, StartFanout, EndFanout, CheckStep, TakeRequest, AnswerRequest, vars, voiceVars
<1>6. ASSUME NEW m \in Members, Turn(m) PROVE OutOK'
  BY <1>1, <1>6 DEF Turn, Ask, Reply, ReplyPrivately, StayQuiet, SendNote, ClaimAndRecord, Enqueue, voiceVars
<1>7. ASSUME NEW m \in Members, Queued(m) \/ GiveUp(m) PROVE OutOK'
  BY <1>1, <1>7 DEF Queued, FindGone, GiveUp, AskAgain, Wait, AppendRow, LogFails, Rename, voiceVars
<1>8. ASSUME NEW m \in Members, Voice(m) PROVE OutOK'
  BY <1>1, <1>2, <1>8 DEF Voice, Lock, Claim, Synthesize, CannotSpeak, SpawnFails, Finish, voiceVars
<1> QED BY <1>3, <1>4, <1>5, <1>6, <1>7, <1>8 DEF Next, RoomStep

\* Only the two waits for quiet look at who has outlived them.
LEMMA OverrunKeeps ==
  ASSUME Next,
         \A m \in Members : ~Claim(m) /\ ~Finish(m)
  PROVE  overrun' = overrun
<1>1. CASE PostRoom \/ (\E k \in DOMAIN stamps : StartFanout(k)) \/ EndFanout
  BY <1>1 DEF PostRoom, StartFanout, EndFanout
<1>2. CASE CheckStep \/ SoundStep \/ ClearStep
  BY <1>2 DEF CheckStep, TakeRequest, AnswerRequest, SoundStep, PlayerEnds, Reap, GraceEnds,
     ClearStep, BargeIn, SpeechStarted, Clear, InterruptAfterClear
<1>3. ASSUME NEW m \in Members, Turn(m) PROVE overrun' = overrun
  BY <1>3 DEF Turn, Ask, Reply, ReplyPrivately, StayQuiet, SendNote, ClaimAndRecord, Enqueue
<1>4. ASSUME NEW m \in Members, Queued(m) \/ GiveUp(m) PROVE overrun' = overrun
  BY <1>4 DEF Queued, FindGone, GiveUp, AskAgain, Wait, AppendRow, LogFails, Rename
<1>5. ASSUME NEW m \in Members, Voice(m) PROVE overrun' = overrun
  BY <1>5 DEF Voice, Lock, Synthesize, CannotSpeak, Spawn, SpawnFails, Remember,
     StreamEnds, StreamBreaks, AfterStart
<1> QED BY <1>1, <1>2, <1>3, <1>4, <1>5 DEF Next, RoomStep

LEMMA OverrunStep ==
  ASSUME Base, [Next]_vars
  PROVE  overrun' \subseteq Players
<1>1. overrun \subseteq Players /\ out.alive \subseteq Players
  BY DEF Base, OutOK, Play!Outputs
<1>2. ASSUME NEW m \in Members, Claim(m) \/ Finish(m) PROVE overrun' \subseteq Players
  BY <1>1, <1>2 DEF Claim, Finish, WaitsForIdle
<1>3. CASE UNCHANGED vars
  BY <1>1, <1>3 DEF vars
<1> QED BY <1>1, <1>2, <1>3, OverrunKeeps

LEMMA BaseStep == Base /\ [Next]_vars => Base'
  BY DataStep, PostsStep, ThreadsStep, OutStep, OverrunStep DEF Base

-------------------------------------------------------------------------------
(* Every clip is driven.  A thread finds its clip in the queue by its text, *)
(* so that no text may have more drivers than copies there.                 *)

DriverPcs == {"queued", "wait", "append", "rename", "speak", "locked"}
Driving == {m \in Members : Drives(m)}
DriversOf(c) == {m \in Members : Drives(m) /\ thread[m].clip = c}

CopyForEach ==
  Allows => \A c \in Texts : Cardinality(DriversOf(c)) <= Cardinality(Places(waiting, c))

QueueInv == EveryClipIsDriven /\ CopyForEach

LEMMA AllowsStays ==
  ASSUME gen' = gen, UNCHANGED postVars
  PROVE  Allows' <=> Allows
  BY DEF postVars, Allows, Stamp

LEMMA DriversFinite ==
  /\ IsFiniteSet(Driving) /\ Cardinality(Driving) \in Nat
  /\ \A c : IsFiniteSet(DriversOf(c)) /\ Cardinality(DriversOf(c)) \in Nat
<1>1. Driving \in SUBSET Members /\ \A c : DriversOf(c) \in SUBSET Members
  BY DEF Driving, DriversOf
<1> QED BY <1>1, FS_Subset, FS_CardinalityType

\* The drivers when one thread moves.
LEMMA DriversMove ==
  ASSUME NEW m \in Members, Apart(m)
  PROVE  /\ Cardinality(Driving') = Cardinality(Driving)
              - (IF Drives(m) THEN 1 ELSE 0) + (IF Drives(m)' THEN 1 ELSE 0)
         /\ \A c : Cardinality(DriversOf(c)') = Cardinality(DriversOf(c))
              - (IF Drives(m) /\ thread[m].clip = c THEN 1 ELSE 0)
              + (IF Drives(m)' /\ thread'[m].clip = c THEN 1 ELSE 0)
<1>1. ASSUME NEW D, IsFiniteSet(D), Cardinality(D) \in Nat, NEW E, E \ {m} = D \ {m}
      PROVE  Cardinality(E) = Cardinality(D)
               - (IF m \in D THEN 1 ELSE 0) + (IF m \in E THEN 1 ELSE 0)
  <2> DEFINE R == D \ {m}
  <2>1. IsFiniteSet(R)
    BY <1>1, FS_RemoveElement
  <2>2. Cardinality(R) = Cardinality(D) - (IF m \in D THEN 1 ELSE 0)
    <3>1. CASE m \in D
      BY <1>1, <3>1, FS_RemoveElement
    <3>2. CASE m \notin D
      <4>1. R = D
        BY <3>2
      <4> HIDE DEF R
      <4> QED BY <1>1, <3>2, <4>1
    <3> QED BY <3>1, <3>2
  <2>3. Cardinality(R) \in Nat
    BY <2>1, FS_CardinalityType
  <2>4. CASE m \in E
    <3>1. E = R \cup {m} /\ m \notin R
      BY <1>1, <2>4
    <3> HIDE DEF R
    <3> QED BY <2>1, <2>2, <2>3, <2>4, <3>1, FS_AddElement
  <2>5. CASE m \notin E
    <3>1. E = R
      BY <1>1, <2>5
    <3> HIDE DEF R
    <3> QED BY <1>1, <2>2, <2>3, <2>5, <3>1
  <2> QED BY <2>4, <2>5
<1>2. Driving' \ {m} = Driving \ {m}
  BY DEF Driving, Drives, Apart
<1>3. ASSUME NEW c PROVE DriversOf(c)' \ {m} = DriversOf(c) \ {m}
  BY DEF DriversOf, Drives, Apart
<1>4. /\ m \in Driving <=> Drives(m)
      /\ m \in Driving' <=> Drives(m)'
  BY DEF Driving
<1>5. ASSUME NEW c
      PROVE  /\ m \in DriversOf(c) <=> Drives(m) /\ thread[m].clip = c
             /\ m \in DriversOf(c)' <=> Drives(m)' /\ thread'[m].clip = c
  BY DEF DriversOf
<1> HIDE DEF Driving, DriversOf
<1>6. Cardinality(Driving') = Cardinality(Driving)
        - (IF Drives(m) THEN 1 ELSE 0) + (IF Drives(m)' THEN 1 ELSE 0)
  BY <1>1, <1>2, <1>4, DriversFinite
<1>7. ASSUME NEW c
      PROVE  Cardinality(DriversOf(c)') = Cardinality(DriversOf(c))
              - (IF Drives(m) /\ thread[m].clip = c THEN 1 ELSE 0)
              + (IF Drives(m)' /\ thread'[m].clip = c THEN 1 ELSE 0)
  BY <1>1, <1>3, <1>5, DriversFinite
<1> QED BY <1>6, <1>7

\* A thread that drives a clip finds it.
LEMMA DriverHasClip ==
  ASSUME Base, QueueInv, Allows, NEW m \in Members, Drives(m)
  PROVE  thread[m].clip \in Texts /\ Has(thread[m].clip)
<1> DEFINE c == thread[m].clip
<1>1. c \in Texts
  BY DEF Base, ThreadsOK, Drives, Textless
<1>2. Cardinality(DriversOf(c)) # 0
  <2>1. m \in DriversOf(c)
    BY DEF DriversOf
  <2> QED BY <2>1, DriversFinite, FS_EmptySet
<1>3. Cardinality(DriversOf(c)) <= Cardinality(Places(waiting, c))
  BY <1>1 DEF QueueInv, CopyForEach
<1>4. waiting \in Seq(Clips)
  BY DEF Base, DataOK
<1> HIDE DEF c
<1>5. Cardinality(Places(waiting, c)) > 0
  BY <1>2, <1>3, <1>4, DriversFinite, PlacesFinite
<1> QED BY <1>1, <1>4, <1>5, PlacesFinite DEF Has, c

\* Nothing is driven in a queue that is stale.
LEMMA QueueStale ==
  ASSUME QueueInv, ~Allows, gen' = gen, UNCHANGED postVars, waiting' = waiting, orphans' = orphans
  PROVE  QueueInv'
<1>1. ~Allows'
  BY AllowsStays
<1> QED BY <1>1 DEF QueueInv, EveryClipIsDriven, CopyForEach

LEMMA QueueStays ==
  ASSUME Base, QueueInv, NEW m \in Members, Apart(m), gen' = gen, UNCHANGED postVars,
         waiting' = waiting, orphans' = orphans,
         thread'[m].pc \in DriverPcs <=> thread[m].pc \in DriverPcs,
         thread[m].pc \in DriverPcs => thread'[m].clip = thread[m].clip
  PROVE  QueueInv'
<1>1. Drives(m) <=> Drives(m)'
  BY DEF Drives, DriverPcs
<1>2. Drives(m) => thread'[m].clip = thread[m].clip
  BY DEF Drives, DriverPcs
<1>3. Allows <=> Allows'
  BY AllowsStays
<1>4. Driving' = Driving
  BY <1>1 DEF Driving, Drives, Apart
<1>5. ASSUME NEW c PROVE DriversOf(c)' = DriversOf(c)
  BY <1>1, <1>2 DEF DriversOf, Drives, Apart
<1>6. EveryClipIsDriven'
  BY <1>3, <1>4 DEF QueueInv, EveryClipIsDriven, Driving
<1>7. CopyForEach'
  BY <1>3, <1>5 DEF QueueInv, CopyForEach
<1> QED BY <1>6, <1>7 DEF QueueInv

\* A thread leaves the queue with its clip.
LEMMA QueueServed ==
  ASSUME Base, QueueInv, Allows, NEW m \in Members, Apart(m), gen' = gen, UNCHANGED postVars,
         Drives(m), ~Drives(m)', orphans' = orphans, waiting' = Without(waiting, thread[m].clip)
  PROVE  QueueInv'
<1> DEFINE c == thread[m].clip
           i == FirstAt(waiting, c)
<1>1. c \in Texts /\ Contains(waiting, c)
  BY DriverHasClip DEF Has
<1>2. waiting \in Seq(Clips) /\ Len(waiting) \in Nat
  BY DEF Base, DataOK
<1>3. i \in 1..Len(waiting) /\ waiting[i] = c
  BY <1>1, <1>2, FirstPlace
<1>4. waiting' = RemoveAt(waiting, i)
  BY <1>1, <1>2, RemovedFirst DEF Without
<1>5. Len(waiting') = Len(waiting) - 1
  BY <1>2, <1>3, <1>4, RemovedAt
<1>6. \A e : Cardinality(Places(waiting', e)) =
               Cardinality(Places(waiting, e)) - (IF c = e THEN 1 ELSE 0)
  BY <1>2, <1>3, <1>4, PlacesOfRemoveAt
<1>7. Allows'
  BY AllowsStays
<1>8. Cardinality(Driving') = Cardinality(Driving) - 1
  BY DriversMove, DriversFinite
<1>9. \A e : Cardinality(DriversOf(e)') = Cardinality(DriversOf(e)) - (IF c = e THEN 1 ELSE 0)
  BY DriversMove, DriversFinite
<1> HIDE DEF c, i
<1>10. Len(waiting') = orphans' + Cardinality(Driving')
  <2>1. Len(waiting) = orphans + Cardinality(Driving)
    BY DEF QueueInv, EveryClipIsDriven, Driving
  <2>2. orphans \in Nat
    BY DEF Base, DataOK
  <2> QED BY <1>2, <1>5, <1>8, <2>1, <2>2, DriversFinite
<1>11. EveryClipIsDriven'
  BY <1>7, <1>10 DEF EveryClipIsDriven, Driving
<1>12. ASSUME NEW e \in Texts PROVE Cardinality(DriversOf(e)') <= Cardinality(Places(waiting', e))
  <2>1. Cardinality(DriversOf(e)) <= Cardinality(Places(waiting, e))
    BY DEF QueueInv, CopyForEach
  <2> QED BY <1>2, <1>6, <1>9, <2>1, DriversFinite, PlacesFinite
<1> QED BY <1>11, <1>12 DEF QueueInv, CopyForEach

LEMMA QueueUndriven ==
  ASSUME Base, QueueInv, \A m \in Members : thread[m].pc \notin DriverPcs,
         \A m \in Members : thread'[m].pc \notin DriverPcs,
         waiting' = waiting, orphans' = orphans
  PROVE  QueueInv'
<1>1. Driving = {} /\ Driving' = {} /\ \A c : DriversOf(c)' = {}
  BY DEF Driving, DriversOf, Drives, DriverPcs
<1>2. Cardinality(Driving) = 0 /\ Cardinality(Driving') = 0
      /\ \A c : Cardinality(DriversOf(c)') = 0
  BY <1>1, FS_EmptySet
<1>3. Len(waiting) = orphans + 0
  BY <1>2 DEF QueueInv, EveryClipIsDriven, Driving
<1>4. EveryClipIsDriven'
  BY <1>2, <1>3 DEF EveryClipIsDriven, Driving
<1>5. waiting \in Seq(Clips)
  BY DEF Base, DataOK
<1>6. \A c : Cardinality(Places(waiting, c)) \in Nat
  BY <1>5, PlacesFinite
<1>7. CopyForEach'
  BY <1>2, <1>6 DEF CopyForEach
<1> QED BY <1>4, <1>7 DEF QueueInv

LEMMA QueueGrows ==
  ASSUME Base, QueueInv, NEW m \in Members, Enqueue(m)
  PROVE  QueueInv'
<1> DEFINE c == thread[m].clip
<1>0. thread[m].pc = "recorded" /\ gen' = gen /\ UNCHANGED postVars /\ orphans' = orphans
  BY DEF Enqueue, At
<1>1. CASE Allows
  <2>1. Goto(m, "queued") /\ waiting' = Append(waiting, c)
    BY <1>1 DEF Enqueue
  <2>2. Apart(m) /\ thread'[m].pc = "queued" /\ thread'[m].clip = c
    BY <2>1, GotoMoves DEF Base, Pcs
  <2>3. ~Drives(m) /\ Drives(m)'
    BY <1>0, <2>2 DEF Drives
  <2>4. waiting \in Seq(Clips) /\ Len(waiting) \in Nat /\ c \in Clips /\ orphans \in Nat
    BY <1>0 DEF Base, DataOK, ThreadsOK, Textless, Clips
  <2>5. Len(waiting') = Len(waiting) + 1
    BY <2>1, <2>4
  <2>6. \A e : Cardinality(Places(waiting', e)) =
                 Cardinality(Places(waiting, e)) + (IF c = e THEN 1 ELSE 0)
    BY <2>1, <2>4, PlacesOfAppend
  <2>7. Cardinality(Driving') = Cardinality(Driving) + 1
    BY <2>2, <2>3, DriversMove, DriversFinite
  <2>8. \A e : Cardinality(DriversOf(e)') = Cardinality(DriversOf(e)) + (IF c = e THEN 1 ELSE 0)
    BY <2>2, <2>3, DriversMove, DriversFinite
  <2> HIDE DEF c
  <2>9. Allows'
    BY <1>0, <1>1, AllowsStays
  <2>10. EveryClipIsDriven'
    BY <1>0, <1>1, <2>4, <2>5, <2>7, <2>9, DriversFinite DEF QueueInv, EveryClipIsDriven, Driving
  <2>11. ASSUME NEW e \in Texts PROVE Cardinality(DriversOf(e)') <= Cardinality(Places(waiting', e))
    <3>1. Cardinality(DriversOf(e)) <= Cardinality(Places(waiting, e))
      BY <1>1 DEF QueueInv, CopyForEach
    <3> QED BY <2>4, <2>6, <2>8, <3>1, DriversFinite, PlacesFinite
  <2> QED BY <2>10, <2>11 DEF QueueInv, CopyForEach
<1>2. CASE ~Allows
  BY <1>0, <1>2, QueueStale DEF Enqueue
<1> QED BY <1>1, <1>2

LEMMA QueueRenames ==
  ASSUME Base, QueueInv, NEW m \in Members, Rename(m)
  PROVE  QueueInv'
<1> DEFINE c == thread[m].clip
           f == thread[m].final
           i == FirstAt(waiting, c)
<1>0. thread[m].pc = "rename" /\ gen' = gen /\ UNCHANGED postVars /\ orphans' = orphans
  BY DEF Rename, At
<1>1. CASE Allows
  <2>1. waiting \in Seq(Clips) /\ Len(waiting) \in Nat /\ c \in Clips /\ f \in Clips /\ orphans \in Nat
    <3>1. waiting \in Seq(Clips) /\ orphans \in Nat
      BY DEF Base, DataOK
    <3>2. c \in Clips /\ f \in Clips
      BY <1>0 DEF Base, ThreadsOK, Textless, Clips
    <3> QED BY <3>1, <3>2
  <2>2. Drives(m)
    BY <1>0 DEF Drives
  <2>3. Contains(waiting, c)
    BY <1>1, <2>2, DriverHasClip DEF Has
  <2>4. i \in 1..Len(waiting) /\ waiting[i] = c /\ i # 0
    BY <2>1, <2>3, FirstPlace
  <2>5. /\ waiting' = [waiting EXCEPT ![i] = f]
        /\ thread' = [thread EXCEPT ![m].pc = "speak", ![m].clip = f]
    BY <1>1, <2>4 DEF Rename, FirstAt
  <2>6. Apart(m) /\ thread'[m].pc = "speak" /\ thread'[m].clip = f
    BY <2>5 DEF Base, ThreadsOK, Threads, Apart
  <2>7. Drives(m)'
    BY <2>6 DEF Drives
  <2> HIDE DEF c, f, i
  <2>8. Len(waiting') = Len(waiting)
    BY <2>1, <2>4, <2>5, ExceptSeq
  <2>9. \A e : Cardinality(Places(waiting', e)) =
                 Cardinality(Places(waiting, e)) - (IF c = e THEN 1 ELSE 0) + (IF f = e THEN 1 ELSE 0)
    <3>1. \A e : Cardinality(Places([waiting EXCEPT ![i] = f], e)) = Cardinality(Places(waiting, e))
                   - (IF waiting[i] = e THEN 1 ELSE 0) + (IF f = e THEN 1 ELSE 0)
      BY <2>1, <2>4, PlacesOfExcept
    <3> QED BY <2>4, <2>5, <3>1
  <2>10. Cardinality(Driving') = Cardinality(Driving)
    BY <2>2, <2>6, <2>7, DriversMove, DriversFinite
  <2>11. \A e : Cardinality(DriversOf(e)') =
                  Cardinality(DriversOf(e)) - (IF c = e THEN 1 ELSE 0) + (IF f = e THEN 1 ELSE 0)
    BY <2>2, <2>6, <2>7, DriversMove, DriversFinite DEF c
  <2>12. Allows'
    BY <1>0, <1>1, AllowsStays
  <2>13. EveryClipIsDriven'
    BY <1>0, <1>1, <2>1, <2>8, <2>10, <2>12, DriversFinite DEF QueueInv, EveryClipIsDriven, Driving
  <2>14. ASSUME NEW e \in Texts PROVE Cardinality(DriversOf(e)') <= Cardinality(Places(waiting', e))
    <3>1. Cardinality(DriversOf(e)) <= Cardinality(Places(waiting, e))
      BY <1>1 DEF QueueInv, CopyForEach
    <3> QED BY <2>1, <2>9, <2>11, <3>1, DriversFinite, PlacesFinite
  <2> QED BY <2>13, <2>14 DEF QueueInv, CopyForEach
<1>2. CASE ~Allows
  BY <1>0, <1>2, QueueStale DEF Rename
<1> QED BY <1>1, <1>2

LEMMA QueueAbandoned ==
  ASSUME Base, QueueInv, NEW m \in Members, GiveUp(m)
  PROVE  QueueInv'
<1>1. /\ thread[m].pc \in {"queued", "speak"} /\ Allows /\ orphans' = orphans + 1
      /\ gen' = gen /\ UNCHANGED postVars /\ waiting' = waiting /\ Leave(m)
  BY DEF GiveUp, At, queueVars
<1>2. Apart(m) /\ thread'[m].pc = "off"
  BY <1>1, LeaveMoves DEF Base
<1>3. Drives(m) /\ ~Drives(m)'
  BY <1>1, <1>2 DEF Drives
<1>4. waiting \in Seq(Clips) /\ orphans \in Nat
  BY DEF Base, DataOK
<1>5. Cardinality(Driving') = Cardinality(Driving) - 1
  BY <1>2, <1>3, DriversMove, DriversFinite
<1>6. \A e : Cardinality(DriversOf(e)') <= Cardinality(DriversOf(e))
  <2>1. \A e : Cardinality(DriversOf(e)') =
                 Cardinality(DriversOf(e)) - (IF thread[m].clip = e THEN 1 ELSE 0)
    BY <1>2, <1>3, DriversMove, DriversFinite
  <2> QED BY <2>1, DriversFinite
<1>7. Allows'
  BY <1>1, AllowsStays
<1>8. EveryClipIsDriven'
  BY <1>1, <1>4, <1>5, <1>7, DriversFinite DEF QueueInv, EveryClipIsDriven, Driving
<1>9. ASSUME NEW e \in Texts PROVE Cardinality(DriversOf(e)') <= Cardinality(Places(waiting, e))
  <2>1. Cardinality(DriversOf(e)) <= Cardinality(Places(waiting, e))
    BY <1>1 DEF QueueInv, CopyForEach
  <2>2. Cardinality(DriversOf(e)') \in Nat
    <3>1. IsFiniteSet(DriversOf(e)')
      <4>1. DriversOf(e)' \in SUBSET Members
        BY DEF DriversOf
      <4> QED BY <4>1, FS_Subset
    <3> QED BY <3>1, FS_CardinalityType
  <2> QED BY <1>4, <1>6, <2>1, <2>2, DriversFinite, PlacesFinite
<1> QED BY <1>1, <1>8, <1>9 DEF QueueInv, CopyForEach

LEMMA QueueCleared ==
  ASSUME Base, Clear
  PROVE  QueueInv'
<1>1. gen' = gen + 1 /\ UNCHANGED postVars /\ waiting' = <<>> /\ orphans' = 0
  BY DEF Clear
<1>2. ~Allows'
  <2>1. gen \in Nat /\ (flight # 0 => flight \in DOMAIN stamps)
    BY DEF Base, PostsOK
  <2>2. flight # 0 => stamps[flight] <= gen /\ stamps[flight] \in Nat
    BY <2>1 DEF Base, PostsOK
  <2> QED BY <1>1, <2>1, <2>2 DEF Allows, Stamp, postVars
<1> QED BY <1>1, <1>2 DEF QueueInv, EveryClipIsDriven, CopyForEach

LEMMA QueueInit == Init => QueueInv
<1> SUFFICES ASSUME Init PROVE QueueInv
  OBVIOUS
<1>1. Driving = {} /\ \A c : DriversOf(c) = {}
  BY DEF Init, Driving, DriversOf, Drives, Nobody
<1>2. Cardinality(Driving) = 0 /\ \A c : Cardinality(DriversOf(c)) = 0
  BY <1>1, FS_EmptySet
<1>3. waiting = <<>> /\ Len(waiting) = 0 /\ orphans = 0 /\ waiting \in Seq(Clips)
  BY DEF Init
<1>4. EveryClipIsDriven
  BY <1>2, <1>3 DEF EveryClipIsDriven, Driving
<1>5. \A c : Cardinality(Places(waiting, c)) \in Nat
  BY <1>3, PlacesFinite
<1>6. CopyForEach
  BY <1>2, <1>5 DEF CopyForEach
<1> QED BY <1>4, <1>6 DEF QueueInv

LEMMA QueueStep ==
  ASSUME Base, QueueInv, [Next]_vars
  PROVE  QueueInv'
<1> USE DEF At
<1>0. ThreadsOK
  BY DEF Base
<1>1. CASE UNCHANGED <<thread, waiting, orphans, gen>> /\ UNCHANGED postVars
  <2>1. Allows' <=> Allows
    BY <1>1, AllowsStays
  <2> QED BY <1>1, <2>1 DEF QueueInv, EveryClipIsDriven, CopyForEach, DriversOf, Drives
<1>2. CASE PostRoom
  <2>1. flight # 0 => stamps'[flight] = stamps[flight]
    BY <1>2 DEF PostRoom, Base, PostsOK
  <2>2. Allows' <=> Allows
    BY <1>2, <2>1 DEF PostRoom, Allows, Stamp, queueVars
  <2> QED BY <1>2, <2>2 DEF QueueInv, EveryClipIsDriven, CopyForEach, DriversOf, Drives, PostRoom, queueVars
<1>3. ASSUME NEW k \in DOMAIN stamps, StartFanout(k) PROVE QueueInv'
  BY <1>0, <1>3, QueueUndriven DEF ThreadsOK, StartFanout, Nobody, DriverPcs, queueVars
<1>4. CASE EndFanout
  BY <1>4, QueueUndriven DEF EndFanout, DriverPcs, queueVars
<1>5. ASSUME NEW m \in Members, NEW pc \in Pcs, Goto(m, pc), gen' = gen, UNCHANGED postVars,
             waiting' = waiting, orphans' = orphans, pc \in DriverPcs <=> thread[m].pc \in DriverPcs
      PROVE  QueueInv'
  BY <1>0, <1>5, GotoMoves, QueueStays
<1>6. ASSUME NEW m \in Members, Leave(m), gen' = gen, UNCHANGED postVars,
             waiting' = waiting, orphans' = orphans, thread[m].pc \notin DriverPcs
      PROVE  QueueInv'
  <2>1. Apart(m) /\ thread'[m].pc \notin DriverPcs
    BY <1>0, <1>6, LeaveMoves DEF DriverPcs
  <2> QED BY <1>6, <2>1, QueueStays
<1>7. ASSUME NEW m \in Members, NEW text \in Texts, Reply(m, text) PROVE QueueInv'
  <2>1. Apart(m) /\ thread'[m].pc = "staged"
    BY <1>0, <1>7 DEF Reply, ThreadsOK, Apart
  <2> QED BY <1>7, <2>1, QueueStays DEF Reply, DriverPcs
<1>8. ASSUME NEW m \in Members, Ask(m) \/ ReplyPrivately(m) \/ StayQuiet(m) \/ SendNote(m)
      PROVE  QueueInv'
  BY <1>5, <1>6, <1>8 DEF Ask, ReplyPrivately, StayQuiet, SendNote, Pcs, DriverPcs, queueVars
<1>9. ASSUME NEW m \in Members, ClaimAndRecord(m) PROVE QueueInv'
  BY <1>5, <1>6, <1>9 DEF ClaimAndRecord, Pcs, DriverPcs
<1>10. ASSUME NEW m \in Members, FindGone(m) PROVE QueueInv'
  <2>1. CASE Allows
    BY <1>10, <2>1, DriverHasClip DEF FindGone, Drives
  <2>2. CASE ~Allows
    BY <1>10, <2>2, QueueStale DEF FindGone, queueVars
  <2> QED BY <2>1, <2>2
<1>11. ASSUME NEW m \in Members, AskAgain(m) \/ AppendRow(m) \/ Lock(m) PROVE QueueInv'
  BY <1>5, <1>11 DEF AskAgain, AppendRow, Lock, Pcs, DriverPcs, queueVars
<1>12. ASSUME NEW m \in Members, NEW d, At(m, "wait"), Decide(m, d), gen' = gen, UNCHANGED postVars,
              orphans' = orphans
       PROVE  QueueInv'
  <2>1. CASE ~Allows
    BY <1>12, <2>1, QueueStale DEF Decide
  <2>2. CASE Allows
    <3>1. Drives(m) /\ Has(thread[m].clip)
      BY <1>12, <2>2, DriverHasClip DEF Drives
    <3>2. CASE /\ thread' = [thread EXCEPT ![m].pc = "append",
                               ![m].final = IF d.kind = "keep" THEN thread[m].clip ELSE d.text]
               /\ waiting' = waiting
      <4>1. Apart(m) /\ thread'[m].pc = "append" /\ thread'[m].clip = thread[m].clip
        BY <1>0, <3>2 DEF ThreadsOK, Threads, Apart
      <4> QED BY <1>12, <3>2, <4>1, QueueStays DEF DriverPcs
    <3>3. CASE (Goto(m, "note") \/ Leave(m)) /\ waiting' = Without(waiting, thread[m].clip)
      <4>1. Apart(m) /\ thread'[m].pc \in {"note", "off"}
        BY <1>0, <3>3, GotoMoves, LeaveMoves DEF Pcs
      <4>2. ~Drives(m)'
        BY <4>1 DEF Drives
      <4> QED BY <1>12, <2>2, <3>1, <3>3, <4>1, <4>2, QueueServed
    <3> QED BY <1>12, <2>2, <3>1, <3>2, <3>3 DEF Decide
  <2> QED BY <2>1, <2>2
<1>13. ASSUME NEW m \in Members, Wait(m) PROVE QueueInv'
  BY <1>12, <1>13 DEF Wait
<1>14. ASSUME NEW m \in Members, LogFails(m) \/ Claim(m) PROVE QueueInv'
  <2>1. thread[m].pc \in {"append", "locked"} /\ gen' = gen /\ UNCHANGED postVars /\ orphans' = orphans
    BY <1>14 DEF LogFails, Claim
  <2>2. CASE ~Allows
    BY <1>14, <2>1, <2>2, QueueStale DEF LogFails, Claim, DropLine, ClaimWaiting
  <2>3. CASE Allows
    <3>1. Drives(m) /\ Has(thread[m].clip)
      BY <2>1, <2>3, DriverHasClip DEF Drives
    <3>2. ClaimWaiting(thread[m].clip) /\ (Leave(m) \/ Goto(m, "claimed"))
      BY <1>14, <2>3, <3>1 DEF LogFails, Claim, DropLine
    <3>3. Apart(m) /\ thread'[m].pc \in {"claimed", "off"}
      BY <1>0, <3>2, GotoMoves, LeaveMoves DEF Pcs
    <3>4. ~Drives(m)'
      BY <3>3 DEF Drives
    <3>5. waiting' = Without(waiting, thread[m].clip)
      BY <2>3, <3>2 DEF ClaimWaiting
    <3> QED BY <2>1, <2>3, <3>1, <3>3, <3>4, <3>5, QueueServed
  <2> QED BY <2>2, <2>3
<1>15. ASSUME NEW m \in Members,
              Synthesize(m) \/ CannotSpeak(m) \/ Spawn(m) \/ SpawnFails(m) \/ Remember(m)
       PROVE  QueueInv'
  BY <1>5, <1>6, <1>15
     DEF Synthesize, CannotSpeak, Spawn, SpawnFails, Remember, Unlock, Attempt, Pcs, DriverPcs, queueVars
<1>16. ASSUME NEW m \in Members, StreamEnds(m) \/ StreamBreaks(m) \/ AfterStart(m) \/ Finish(m)
       PROVE  QueueInv'
  BY <1>5, <1>6, <1>16
     DEF StreamEnds, StreamBreaks, AfterStart, Finish, Unlock, Pcs, DriverPcs, queueVars
<1>17. CASE CheckStep \/ SoundStep \/ BargeIn \/ SpeechStarted \/ InterruptAfterClear \/ UNCHANGED vars
  BY <1>1, <1>17 DEF CheckStep, TakeRequest, AnswerRequest, SoundStep, PlayerEnds, Reap, GraceEnds,
     BargeIn, SpeechStarted, InterruptAfterClear, vars, queueVars
<1> HIDE DEF At
<1> QED
  BY <1>2, <1>3, <1>4, <1>7, <1>8, <1>9, <1>10, <1>11, <1>13, <1>14, <1>15, <1>16, <1>17,
     QueueGrows, QueueRenames, QueueAbandoned, QueueCleared
  DEF Next, RoomStep, ClearStep, Turn, Queued, Voice

-------------------------------------------------------------------------------
(* A stale voice dies.  A player somebody still waits for is remembered,    *)
(* with the mute it armed, or it is that of a thread about to remember it;  *)
(* and a thread starts a player only when no such player runs.  A player    *)
(* that outlived a wait dies with the others while it is remembered.        *)

SpeakerPcs == {"claimed", "stream", "heard", "pipe", "whole", "heardWhole", "started", "playing"}
HasPlayer == {"heard", "pipe", "heardWhole", "started"}

Awaited == out.alive \ overrun

Known(p) ==
  \/ out.last = p /\ out.armed = p /\ out.hold
  \/ /\ p[2] = flight
     /\ \/ thread[p[1]].pc = "heard" /\ p[3] = 1
        \/ thread[p[1]].pc = "heardWhole" /\ p[3] = 2

\* A thread that will look at the generation again has this player.
Held(p) ==
  /\ p[2] = flight
  /\ \/ thread[p[1]].pc \in {"heard", "pipe"} /\ p[3] = 1
     \/ thread[p[1]].pc = "heardWhole" /\ p[3] = 2
     \/ thread[p[1]].pc = "started"

Dies(p) ==
  stamps[p[2]] # gen => (clearing = "interrupt" /\ out.last = p) \/ Held(p)

Fits(p) ==
  /\ p[2] \in started
  /\ p \notin overrun => Known(p)
  /\ p \notin overrun \/ out.last = p => Dies(p)

Alone(m) ==
  /\ thread[m].pc \in {"claimed", "stream", "whole"} => Awaited = {}
  /\ thread[m].pc \in {"heard", "pipe"} => Awaited \subseteq {<<m, flight, 1>>}
  /\ thread[m].pc = "heardWhole" => Awaited \subseteq {<<m, flight, 2>>}
  /\ thread[m].pc \in {"started", "playing"} =>
       \A p \in Awaited : p[1] = m /\ p[2] = flight

SoundInv ==
  /\ \A p \in out.alive : Fits(p)
  /\ \A m \in Members : Alone(m)

LEMMA SoundIsSafe == SoundInv => StaleVoiceDies
  BY DEF SoundInv, Fits, Dies, Held, StaleVoiceDies

LEMMA SoundInit == Init => SoundInv
<1> SUFFICES ASSUME Init PROVE SoundInv
  OBVIOUS
<1>1. out.alive = {}
  BY DEF Init, Play!Silent
<1>2. \A m \in Members : thread[m].pc = "off"
  BY DEF Init, Nobody
<1> QED BY <1>1, <1>2 DEF SoundInv, Alone

\* A running player is a triple of a member, a post and an attempt.
LEMMA AlivePlayer ==
  ASSUME Base, NEW p \in out.alive
  PROVE  /\ p \in Players /\ p[1] \in Members /\ p[2] \in 1..MaxPosts /\ p[3] \in 1..2
         /\ p = <<p[1], p[2], p[3]>>
<1>1. p \in Players
  BY DEF Base, OutOK, Play!Outputs
<1> QED BY <1>1 DEF Players

LEMMA NoPlayerNeverRuns ==
  ASSUME Base
  PROVE  NoPlayer \notin out.alive
  BY DEF Base, OutOK, Play!Outputs, Players

\* The steps of a thread that has no player and starts none.
LEMMA SoundQuiet ==
  ASSUME Base, SoundInv, NEW m \in Members, Apart(m), gen' = gen, UNCHANGED postVars,
         out' = out, clearing' = clearing, overrun' = overrun,
         thread[m].pc \notin HasPlayer, thread'[m].pc \notin SpeakerPcs
  PROVE  SoundInv'
<1>1. ASSUME NEW p \in out.alive PROVE Fits(p)'
  <2>1. p[1] \in Members
    BY AlivePlayer
  <2>2. Fits(p)
    BY DEF SoundInv
  <2>3. CASE p[1] = m
    <3>1. ~Held(p)
      BY <2>3 DEF Held, HasPlayer
    <3> QED BY <2>2, <2>3, <3>1 DEF Fits, Known, Dies, HasPlayer, postVars
  <2>4. CASE p[1] # m
    BY <2>1, <2>2, <2>4 DEF Fits, Known, Dies, Held, Apart, postVars
  <2> QED BY <2>3, <2>4
<1>2. ASSUME NEW n \in Members PROVE Alone(n)'
  <2>1. CASE n = m
    BY <2>1 DEF Alone, SpeakerPcs
  <2>2. CASE n # m
    BY <2>2 DEF SoundInv, Alone, Awaited, Apart, postVars
  <2> QED BY <2>1, <2>2
<1> QED BY <1>1, <1>2 DEF SoundInv

\* Fewer players run, and what is remembered of those that do stays.
LEMMA SoundFades ==
  ASSUME Base, SoundInv, thread' = thread, gen' = gen, UNCHANGED postVars, overrun' = overrun,
         out'.alive \subseteq out.alive,
         \A p \in out'.alive : out.last = p /\ out.armed = p /\ out.hold =>
                                 out'.last = p /\ out'.armed = p /\ out'.hold,
         \A p \in out'.alive : clearing = "interrupt" /\ out.last = p =>
                                 clearing' = "interrupt" /\ out'.last = p,
         \A p \in out'.alive : out'.last = p => out.last = p
  PROVE  SoundInv'
<1>1. ASSUME NEW p \in out'.alive PROVE Fits(p)'
  <2>1. Fits(p)
    BY DEF SoundInv
  <2> QED BY <2>1 DEF Fits, Known, Dies, Held, postVars
<1>2. ASSUME NEW n \in Members PROVE Alone(n)'
  BY DEF SoundInv, Alone, Awaited, postVars
<1> QED BY <1>1, <1>2 DEF SoundInv

\* Only one thread is at its voice.
LEMMA OneVoice ==
  ASSUME Base, NEW m \in Members, thread[m].pc \in VoicePcs, NEW n \in Members, n # m
  PROVE  thread[n].pc \notin VoicePcs
  BY DEF Base, ThreadsOK

\* The speaker moves on; what runs then is its own.
LEMMA SoundMoves ==
  ASSUME Base, SoundInv, NEW m \in Members, Apart(m), gen' = gen, UNCHANGED postVars,
         thread[m].pc \in VoicePcs, Alone(m)', \A p \in out'.alive : Fits(p)'
  PROVE  SoundInv'
<1>1. ASSUME NEW n \in Members, n # m PROVE Alone(n)'
  <2>1. thread[n].pc \notin VoicePcs /\ thread'[n] = thread[n]
    BY <1>1, OneVoice DEF Apart
  <2> QED BY <2>1 DEF Alone, VoicePcs
<1> QED BY <1>1 DEF SoundInv

\* A player another thread could hold is nobody's while this one is at its voice.
LEMMA HeldBySpeaker ==
  ASSUME Base, NEW m \in Members, thread[m].pc \in VoicePcs, NEW p \in out.alive, Held(p)
  PROVE  p[1] = m
<1>1. p[1] \in Members
  BY AlivePlayer
<1>2. thread[p[1]].pc \in VoicePcs
  BY DEF Held, VoicePcs
<1> QED BY <1>1, <1>2, OneVoice

\* The wait for quiet ends: nobody is left to wait for.
LEMMA SoundWaited ==
  ASSUME Base, SoundInv, NEW m \in Members, Apart(m), gen' = gen, UNCHANGED postVars,
         out' = out, clearing' = clearing, Allows, WaitsForIdle,
         thread[m].pc \in {"locked", "playing"}, thread'[m].pc \in {"claimed", "off"}
  PROVE  SoundInv'
<1>0. thread[m].pc \in VoicePcs
  BY DEF VoicePcs
<1>1. overrun \subseteq overrun' /\ out.alive \ overrun' = {}
  <2>1. CASE ~Play!Muted(out) /\ overrun' = overrun
    <3>1. SUFFICES ASSUME NEW p \in out.alive, p \notin overrun PROVE FALSE
      BY <2>1
    <3>2. p[1] \in Members /\ Known(p)
      BY <3>1, AlivePlayer DEF SoundInv, Fits
    <3>3. thread[p[1]].pc \in {"heard", "heardWhole"}
      BY <2>1, <3>2 DEF Known, Play!Muted
    <3>4. p[1] # m
      BY <3>3
    <3> QED BY <1>0, <3>2, <3>3, <3>4, OneVoice DEF VoicePcs
  <2>2. CASE overrun' = overrun \cup out.alive
    BY <2>2
  <2> QED BY <2>1, <2>2 DEF WaitsForIdle
<1>2. stamps[flight] = gen
  BY <1>0 DEF Allows, Stamp, Base, ThreadsOK, VoicePcs
<1>3. ASSUME NEW p \in out.alive PROVE Fits(p)'
  <2>1. Fits(p) /\ p \in overrun'
    BY <1>1 DEF SoundInv
  <2>2. ASSUME out.last = p, stamps[p[2]] # gen PROVE clearing = "interrupt"
    BY <1>2, <2>1, <2>2 DEF Fits, Dies, Held
  <2> QED BY <2>1, <2>2 DEF Fits, Dies, postVars
<1>4. Alone(m)'
  BY <1>1 DEF Alone, Awaited
<1> QED BY <1>0, <1>3, <1>4, SoundMoves

LEMMA SoundClaims ==
  ASSUME Base, SoundInv, NEW m \in Members, Claim(m)
  PROVE  SoundInv'
<1>1. thread[m].pc = "locked" /\ gen' = gen /\ UNCHANGED postVars /\ out' = out /\ clearing' = clearing
  BY DEF Claim, At
<1>2. CASE Allows /\ WaitsForIdle /\ Goto(m, "claimed")
  <2>1. Apart(m) /\ thread'[m].pc = "claimed"
    BY <1>2, GotoMoves DEF Base, Pcs
  <2> QED BY <1>1, <1>2, <2>1, SoundWaited
<1>3. CASE Leave(m) /\ overrun' = overrun
  <2>1. Apart(m) /\ thread'[m].pc = "off"
    BY <1>3, LeaveMoves DEF Base
  <2> QED BY <1>1, <1>3, <2>1, SoundQuiet DEF HasPlayer, SpeakerPcs
<1> QED BY <1>2, <1>3 DEF Claim, Unlock

LEMMA SoundFinishes ==
  ASSUME Base, SoundInv, NEW m \in Members, Finish(m)
  PROVE  SoundInv'
<1>1. /\ thread[m].pc = "playing" /\ gen' = gen /\ UNCHANGED postVars /\ out' = out
      /\ clearing' = clearing /\ Leave(m)
  BY DEF Finish, At, Unlock, queueVars
<1>2. Apart(m) /\ thread'[m].pc = "off"
  BY <1>1, LeaveMoves DEF Base
<1>3. CASE Allows
  BY <1>1, <1>2, <1>3, SoundWaited DEF Finish
<1>4. CASE ~Allows
  BY <1>1, <1>2, <1>4, SoundQuiet DEF Finish, HasPlayer, SpeakerPcs
<1> QED BY <1>3, <1>4

\* What each operation of the player does to the fields.
LEMMA PlayerFields ==
  ASSUME OutOK, NEW p
  PROVE  /\ LET o == Play!Spawned(out, p) IN
              /\ o.alive = out.alive \cup {p}
              /\ o.last = out.last /\ o.armed = out.armed /\ o.hold = out.hold
         /\ LET o == Play!Remembered(out, p) IN
              o.alive = out.alive /\ o.last = p /\ o.armed = p /\ o.hold
         /\ LET o == Play!HandedOver(Play!Remembered(out, p), p) IN
              o.alive = out.alive /\ o.last = p /\ o.armed = p /\ o.hold
         /\ LET o == Play!HandedOver(out, p) IN
              /\ o.alive = out.alive
              /\ o.last = out.last /\ o.armed = out.armed /\ o.hold = out.hold
         /\ Play!Aborted(out, p).alive = out.alive \ {p}
         /\ Play!Aborted(out, p).last \in {out.last, NoPlayer}
         /\ LET o == Play!Ended(out, p) IN
              /\ o.alive = out.alive \ {p}
              /\ o.last = out.last /\ o.armed = out.armed /\ o.hold = out.hold
         /\ LET o == Play!Interrupted(out) IN
              o.alive = out.alive \ {out.last} /\ o.last = NoPlayer
         /\ LET o == Play!Unmuted(Play!Interrupted(out)) IN
              o.alive = out.alive \ {out.last} /\ o.last = NoPlayer
         /\ LET o == Play!GraceOver(out) IN
              /\ o.alive = out.alive
              /\ o.last = out.last /\ o.armed = out.armed /\ o.hold = out.hold
<1> USE DEF OutOK, Play!Outputs
<1>1. LET o == Play!Spawned(out, p) IN
        /\ o.alive = out.alive \cup {p}
        /\ o.last = out.last /\ o.armed = out.armed /\ o.hold = out.hold
  BY DEF Play!Spawned
<1>2. LET o == Play!Remembered(out, p) IN
        o.alive = out.alive /\ o.last = p /\ o.armed = p /\ o.hold
  BY DEF Play!Remembered
<1>3. LET o == Play!HandedOver(Play!Remembered(out, p), p) IN
        o.alive = out.alive /\ o.last = p /\ o.armed = p /\ o.hold
  BY DEF Play!Remembered, Play!HandedOver
<1>4. LET o == Play!HandedOver(out, p) IN
        /\ o.alive = out.alive
        /\ o.last = out.last /\ o.armed = out.armed /\ o.hold = out.hold
  BY DEF Play!HandedOver
<1>5. LET o == Play!Ended(out, p) IN
        /\ o.alive = out.alive \ {p}
        /\ o.last = out.last /\ o.armed = out.armed /\ o.hold = out.hold
  BY DEF Play!Ended
<1>6. LET o == Play!Interrupted(out) IN o.alive = out.alive \ {out.last} /\ o.last = NoPlayer
  BY DEF Play!Interrupted
<1>7. LET o == Play!Unmuted(Play!Interrupted(out)) IN
        o.alive = out.alive \ {out.last} /\ o.last = NoPlayer
  BY DEF Play!Interrupted, Play!Unmuted
<1>8. LET o == Play!GraceOver(out) IN
        /\ o.alive = out.alive
        /\ o.last = out.last /\ o.armed = out.armed /\ o.hold = out.hold
  BY DEF Play!GraceOver
<1>9. /\ Play!Aborted(out, p).alive = out.alive \ {p}
      /\ Play!Aborted(out, p).last \in {out.last, NoPlayer}
  <2> DEFINE f == Play!Forgot(Play!Ended(out, p), p)
  <2>1. f.alive = out.alive \ {p} /\ f.last \in {out.last, NoPlayer}
    BY DEF Play!Forgot, Play!Ended
  <2>2. \A o : "alive" \in DOMAIN o /\ "last" \in DOMAIN o =>
                Play!Unmuted(o).alive = o.alive /\ Play!Unmuted(o).last = o.last
    BY DEF Play!Unmuted
  <2>3. "alive" \in DOMAIN f /\ "last" \in DOMAIN f
    BY DEF Play!Forgot, Play!Ended
  <2> HIDE DEF f
  <2> QED BY <2>1, <2>2, <2>3 DEF Play!Aborted, f
<1> HIDE DEF OutOK, Play!Outputs
<1> QED BY <1>1, <1>2, <1>3, <1>4, <1>5, <1>6, <1>7, <1>8, <1>9

\* A reaper forgets its own player only.
LEMMA ReapedFields ==
  ASSUME OutOK, NEW p
  PROVE  LET o == Play!Reaped(out, p) IN
           /\ o.alive = out.alive
           /\ o.last \in {out.last, NoPlayer}
           /\ \A q : q # p /\ out.last = q => o.last = q
           /\ \A q : q # p /\ out.armed = q => o.armed = q /\ o.hold = out.hold
<1> DEFINE f == Play!Forgot(out, p)
           after == [f EXCEPT !.reaping = @ \ {p}]
<1>1. /\ f.alive = out.alive /\ f.armed = out.armed /\ f.hold = out.hold
      /\ f.last \in {out.last, NoPlayer} /\ \A q : q # p /\ out.last = q => f.last = q
      /\ DOMAIN f = {"last", "armed", "hold", "grace", "alive", "reaping"}
  BY DEF OutOK, Play!Outputs, Play!Forgot
<1> HIDE DEF f
<1>2. /\ after.alive = out.alive /\ after.armed = out.armed /\ after.hold = out.hold
      /\ after.last \in {out.last, NoPlayer} /\ \A q : q # p /\ out.last = q => after.last = q
      /\ DOMAIN after = {"last", "armed", "hold", "grace", "alive", "reaping"}
  BY <1>1
<1>3. Play!Reaped(out, p) =
        IF out.armed # p THEN after
        ELSE [after EXCEPT !.armed = NoPlayer, !.hold = FALSE, !.grace = TRUE]
  BY DEF Play!Reaped, f
<1> HIDE DEF after
<1> QED BY <1>2, <1>3

LEMMA SoundStarts ==
  ASSUME Base, SoundInv, NEW m \in Members, Spawn(m)
  PROVE  SoundInv'
<1>0. PICK p \in {PlayerOf(m)} : TRUE
  OBVIOUS
<1> DEFINE pc == IF thread[m].pc = "stream" THEN "heard" ELSE "heardWhole"
<1>1. /\ thread[m].pc \in {"stream", "whole"} /\ Goto(m, pc)
      /\ gen' = gen /\ UNCHANGED postVars /\ clearing' = clearing /\ overrun' = overrun
      /\ out' = Play!Spawned(out, p)
  BY <1>0 DEF Spawn, At, queueVars
<1>2. Apart(m) /\ thread'[m].pc = pc
  BY <1>1, GotoMoves DEF Base, Pcs
<1>3. p = <<m, flight, IF thread[m].pc = "stream" THEN 1 ELSE 2>> /\ flight \in started
  <2>1. flight # 0
    BY <1>1 DEF Base, ThreadsOK
  <2> QED BY <1>0, <1>1, <2>1 DEF PlayerOf, Attempt, At, Base, PostsOK
<1>4. Awaited = {} /\ thread[m].pc \in VoicePcs
  BY <1>1 DEF SoundInv, Alone, VoicePcs
<1>5. out'.alive = out.alive \cup {p} /\ out'.last = out.last
  BY <1>1, PlayerFields DEF Base
<1>6. Fits(p)'
  BY <1>1, <1>2, <1>3 DEF Fits, Known, Dies, Held, postVars
<1>7. ASSUME NEW q \in out.alive PROVE Fits(q)'
  <2>1. Fits(q) /\ q \in overrun
    BY <1>4 DEF SoundInv, Awaited
  <2>2. ~Held(q)
    BY <1>1, <1>4, HeldBySpeaker DEF Held
  <2> QED BY <1>1, <1>5, <2>1, <2>2 DEF Fits, Dies, postVars
<1>8. Alone(m)'
  BY <1>1, <1>2, <1>3, <1>4, <1>5 DEF Alone, Awaited, postVars
<1> QED BY <1>1, <1>2, <1>4, <1>5, <1>6, <1>7, <1>8, SoundMoves

LEMMA SoundFails ==
  ASSUME Base, SoundInv, NEW m \in Members, SpawnFails(m) \/ StreamBreaks(m)
  PROVE  SoundInv'
<1>1. /\ thread[m].pc \in {"stream", "whole", "heard", "heardWhole", "pipe"}
      /\ gen' = gen /\ UNCHANGED postVars /\ clearing' = clearing /\ overrun' = overrun
  BY DEF SpawnFails, StreamBreaks, At, queueVars, voiceVars
<1>2. /\ out'.alive \subseteq out.alive /\ out'.last \in {out.last, NoPlayer}
      /\ out'.alive \ overrun = {}
      /\ \A q \in out'.alive : ~(q[2] = flight /\ q[1] = m /\ Held(q))
  <2>1. CASE SpawnFails(m)
    <3>1. \A q \in out.alive : q = <<q[1], q[2], q[3]>>
      BY AlivePlayer
    <3>2. out' = out
      BY <2>1 DEF SpawnFails, voiceVars
    <3>3. thread[m].pc \in {"heard", "heardWhole"} => PlayerOf(m) \notin out.alive
      BY <2>1 DEF SpawnFails, At
    <3>4. thread[m].pc = "heard" => PlayerOf(m) = <<m, flight, 1>>
      BY DEF PlayerOf, Attempt, At
    <3>5. thread[m].pc = "heardWhole" => PlayerOf(m) = <<m, flight, 2>>
      BY DEF PlayerOf, Attempt, At
    <3>6. thread[m].pc \in {"stream", "whole", "heard", "heardWhole"}
      BY <2>1 DEF SpawnFails, At
    <3>7. Awaited = {}
      BY <3>3, <3>4, <3>5, <3>6 DEF SoundInv, Alone, Awaited
    <3>8. ASSUME NEW q \in out.alive, q[2] = flight, q[1] = m, Held(q) PROVE FALSE
      BY <3>1, <3>3, <3>4, <3>5, <3>6, <3>8 DEF Held
    <3> QED BY <3>2, <3>7, <3>8 DEF Awaited
  <2>2. CASE StreamBreaks(m)
    <3>1. PlayerOf(m) = <<m, flight, 1>> /\ Awaited \subseteq {<<m, flight, 1>>} /\ thread[m].pc = "pipe"
      BY <2>2 DEF StreamBreaks, At, SoundInv, Alone, PlayerOf, Attempt
    <3>2. out'.alive = out.alive \ {PlayerOf(m)} /\ out'.last \in {out.last, NoPlayer}
      BY <2>2, PlayerFields DEF StreamBreaks, Base
    <3>3. ASSUME NEW q \in out'.alive, q[2] = flight, q[1] = m, Held(q) PROVE FALSE
      <4>1. q = <<q[1], q[2], q[3]>> /\ q # <<m, flight, 1>>
        BY <3>1, <3>2, AlivePlayer
      <4> QED BY <3>1, <3>3, <4>1 DEF Held
    <3> QED BY <3>1, <3>2, <3>3 DEF Awaited
  <2> QED BY <2>1, <2>2
<1>3. Apart(m) /\ thread'[m].pc \in {"whole", "started"}
  <2>1. Goto(m, "whole") \/ Goto(m, "started")
    BY DEF SpawnFails, StreamBreaks
  <2> QED BY <2>1, GotoMoves DEF Base, Pcs
<1>4. Alone(m)'
  BY <1>1, <1>2, <1>3 DEF Alone, Awaited
<1>5. thread[m].pc \in VoicePcs
  BY <1>1 DEF VoicePcs
<1>6. ASSUME NEW q \in out'.alive PROVE Fits(q)'
  <2>1. q \in out.alive /\ q \in overrun /\ q # NoPlayer
    BY <1>2, NoPlayerNeverRuns
  <2>2. Fits(q)
    BY <2>1 DEF SoundInv
  <2>3. ~Held(q)
    <3>1. SUFFICES ASSUME Held(q) PROVE FALSE
      OBVIOUS
    <3> QED BY <1>2, <1>5, <2>1, <3>1, HeldBySpeaker DEF Held
  <2> QED BY <1>1, <1>2, <2>1, <2>2, <2>3 DEF Fits, Dies, postVars
<1> QED BY <1>1, <1>3, <1>4, <1>5, <1>6, SoundMoves

LEMMA SoundRemembers ==
  ASSUME Base, SoundInv, NEW m \in Members, Remember(m)
  PROVE  SoundInv'
<1>0. PICK p \in {PlayerOf(m)} : TRUE
  OBVIOUS
<1>1. /\ thread[m].pc \in {"heard", "heardWhole"} /\ p \in out.alive
      /\ gen' = gen /\ UNCHANGED postVars /\ clearing' = clearing /\ overrun' = overrun
      /\ (Goto(m, "pipe") /\ thread[m].pc = "heard") \/ Goto(m, "started")
  BY <1>0 DEF Remember, At, queueVars
<1>2. Apart(m) /\ thread'[m].pc \in {"pipe", "started"} /\ (thread'[m].pc = "pipe" => thread[m].pc = "heard")
  BY <1>1, GotoMoves DEF Base, Pcs
<1>3. out'.alive = out.alive /\ out'.last = p /\ out'.armed = p /\ out'.hold
  BY <1>0, PlayerFields DEF Remember, Base
<1>4. p = <<m, flight, IF thread[m].pc = "heard" THEN 1 ELSE 2>> /\ Awaited \subseteq {p}
  BY <1>0, <1>1 DEF PlayerOf, Attempt, At, SoundInv, Alone
<1>5. Fits(p)'
  <2>1. Held(p)'
    BY <1>1, <1>2, <1>4 DEF Held, postVars
  <2>2. (p[2] \in started)'
    BY <1>1 DEF SoundInv, Fits, postVars
  <2> QED BY <1>3, <2>1, <2>2 DEF Fits, Known, Dies
<1>6. ASSUME NEW q \in out.alive, q # p PROVE Fits(q)'
  <2>1. Fits(q) /\ q \in overrun
    BY <1>4, <1>6 DEF SoundInv, Awaited
  <2> QED BY <1>1, <1>3, <1>6, <2>1 DEF Fits, postVars
<1>7. Alone(m)'
  BY <1>1, <1>2, <1>3, <1>4 DEF Alone, Awaited, postVars
<1> QED BY <1>1, <1>2, <1>3, <1>5, <1>6, <1>7, SoundMoves DEF VoicePcs

LEMMA SoundHandsOver ==
  ASSUME Base, SoundInv, NEW m \in Members, StreamEnds(m)
  PROVE  SoundInv'
<1>1. /\ thread[m].pc = "pipe" /\ Goto(m, "started")
      /\ gen' = gen /\ UNCHANGED postVars /\ clearing' = clearing /\ overrun' = overrun
  BY DEF StreamEnds, At, queueVars
<1>2. Apart(m) /\ thread'[m].pc = "started" /\ thread[m].pc \in VoicePcs
  BY <1>1, GotoMoves DEF Base, Pcs, VoicePcs
<1>3. out'.alive = out.alive /\ out'.last = out.last /\ out'.armed = out.armed /\ out'.hold = out.hold
  BY PlayerFields DEF StreamEnds, Base
<1>4. Awaited \subseteq {<<m, flight, 1>>}
  BY <1>1 DEF SoundInv, Alone
<1>5. ASSUME NEW p \in out'.alive PROVE Fits(p)'
  <2>1. Fits(p) /\ p \in out.alive
    BY <1>3, <1>5 DEF SoundInv
  <2>2. Held(p) => Held(p)'
    <3>1. SUFFICES ASSUME Held(p) PROVE Held(p)'
      OBVIOUS
    <3>2. p[1] = m
      BY <1>2, <2>1, <3>1, HeldBySpeaker
    <3> QED BY <1>1, <1>2, <3>1, <3>2 DEF Held, postVars
  <2>3. p \notin overrun => out.last = p /\ out.armed = p /\ out.hold
    BY <1>1, <1>4, <2>1 DEF Fits, Known, Awaited
  <2> QED BY <1>1, <1>3, <2>1, <2>2, <2>3 DEF Fits, Known, Dies, postVars
<1>6. Alone(m)'
  BY <1>1, <1>2, <1>3, <1>4 DEF Alone, Awaited, postVars
<1> QED BY <1>1, <1>2, <1>5, <1>6, SoundMoves

LEMMA SoundChecked ==
  ASSUME Base, SoundInv, NEW m \in Members, AfterStart(m)
  PROVE  SoundInv'
<1>1. /\ thread[m].pc = "started" /\ thread[m].pc \in VoicePcs
      /\ gen' = gen /\ UNCHANGED postVars /\ clearing' = clearing /\ overrun' = overrun
  BY DEF AfterStart, At, queueVars, VoicePcs
<1>2. \A p \in Awaited : p[1] = m /\ p[2] = flight
  BY <1>1 DEF SoundInv, Alone
<1>3. CASE Allows
  <2>1. Goto(m, "playing") /\ out' = out
    BY <1>3 DEF AfterStart
  <2>2. Apart(m) /\ thread'[m].pc = "playing"
    BY <2>1, GotoMoves DEF Base, Pcs
  <2>3. stamps[flight] = gen
    BY <1>1, <1>3 DEF Allows, Stamp, Base, ThreadsOK
  <2>4. ASSUME NEW p \in out'.alive PROVE Fits(p)'
    <3>1. Fits(p)
      BY <2>1, <2>4 DEF SoundInv
    <3>2. stamps[p[2]] # gen => ~Held(p)
      BY <2>3 DEF Held
    <3>3. p \notin overrun => out.last = p /\ out.armed = p /\ out.hold
      BY <1>1, <1>2, <2>1, <2>4, <3>1 DEF Fits, Known, Awaited
    <3> QED BY <1>1, <2>1, <3>1, <3>2, <3>3 DEF Fits, Known, Dies, postVars
  <2>5. Alone(m)'
    BY <1>1, <1>2, <2>1, <2>2 DEF Alone, Awaited, postVars
  <2> QED BY <1>1, <2>2, <2>4, <2>5, SoundMoves
<1>4. CASE ~Allows
  <2>1. Leave(m) /\ out' = Play!Interrupted(out)
    BY <1>4 DEF AfterStart, Unlock
  <2>2. Apart(m) /\ thread'[m].pc = "off"
    BY <2>1, LeaveMoves DEF Base
  <2>3. out'.alive = out.alive \ {out.last} /\ out'.last = NoPlayer
    BY <2>1, PlayerFields DEF Base
  <2>4. ASSUME NEW p \in out'.alive PROVE Fits(p)'
    <3>1. p \in out.alive /\ p # out.last /\ p # out'.last
      BY <2>3, <2>4, NoPlayerNeverRuns
    <3>2. Fits(p)
      BY <3>1 DEF SoundInv
    <3>3. p \in overrun
      BY <1>1, <1>2, <3>1, <3>2 DEF Fits, Known, Awaited
    <3> QED BY <1>1, <3>1, <3>2, <3>3 DEF Fits, postVars
  <2>5. Alone(m)'
    BY <2>2 DEF Alone
  <2> QED BY <1>1, <2>2, <2>4, <2>5, SoundMoves
<1> QED BY <1>3, <1>4

LEMMA SoundOfPlayers ==
  ASSUME Base, SoundInv, SoundStep
  PROVE  SoundInv'
<1>0. /\ thread' = thread /\ gen' = gen /\ UNCHANGED postVars /\ clearing' = clearing
      /\ overrun' = overrun /\ NoPlayer \notin out.alive
  BY NoPlayerNeverRuns DEF SoundStep, PlayerEnds, Reap, GraceEnds, queueVars
<1>1. ASSUME NEW p \in Players, PlayerEnds(p) PROVE SoundInv'
  BY <1>0, <1>1, PlayerFields, SoundFades DEF PlayerEnds, Base
<1>2. ASSUME NEW p \in Players, Reap(p) PROVE SoundInv'
  <2>1. out' = Play!Reaped(out, p) /\ p \notin out.alive
    BY <1>2 DEF Reap
  <2>2. /\ out'.alive = out.alive /\ out'.last \in {out.last, NoPlayer}
        /\ \A q : q # p /\ out.last = q => out'.last = q
        /\ \A q : q # p /\ out.armed = q => out'.armed = q /\ out'.hold = out.hold
    BY <2>1, ReapedFields DEF Base
  <2>3. \A q \in out'.alive : out'.last = q => out.last = q
    BY <1>0, <2>2
  <2> QED BY <1>0, <2>1, <2>2, <2>3, SoundFades
<1>3. CASE GraceEnds
  BY <1>0, <1>3, PlayerFields, SoundFades DEF GraceEnds, Base
<1> QED BY <1>1, <1>2, <1>3 DEF SoundStep

LEMMA SoundOfClears ==
  ASSUME Base, SoundInv, ClearStep
  PROVE  SoundInv'
<1>0. thread' = thread /\ UNCHANGED postVars /\ overrun' = overrun /\ NoPlayer \notin out.alive
  BY NoPlayerNeverRuns DEF ClearStep, BargeIn, SpeechStarted, Clear, InterruptAfterClear
<1>1. CASE BargeIn
  BY <1>0, <1>1, PlayerFields, SoundFades DEF BargeIn, Base, queueVars
<1>2. CASE SpeechStarted
  BY <1>0, <1>2, SoundFades DEF SpeechStarted, queueVars
<1>3. CASE Clear
  <2>1. out' = out /\ clearing' = "interrupt" /\ clearing = "bump"
    BY <1>3 DEF Clear
  <2>2. ASSUME NEW p \in out.alive PROVE Fits(p)'
    <3>1. Fits(p)
      BY DEF SoundInv
    <3>2. p \notin overrun => out.last = p \/ Held(p)
      BY <3>1 DEF Fits, Known, Held
    <3> QED BY <1>0, <2>1, <3>1, <3>2 DEF Fits, Known, Dies, Held, postVars
  <2>3. \A m \in Members : Alone(m)'
    BY <1>0, <2>1 DEF SoundInv, Alone, Awaited, postVars
  <2> QED BY <2>1, <2>2, <2>3 DEF SoundInv
<1>4. CASE InterruptAfterClear
  <2>1. gen' = gen /\ out'.alive = out.alive \ {out.last} /\ out'.last = NoPlayer
    BY <1>4, PlayerFields DEF InterruptAfterClear, Base, queueVars
  <2> QED BY <1>0, <2>1, SoundFades
<1> QED BY <1>1, <1>2, <1>3, <1>4 DEF ClearStep

LEMMA SoundOfPosts ==
  ASSUME Base, SoundInv, PostRoom \/ (\E k \in DOMAIN stamps : StartFanout(k)) \/ EndFanout
  PROVE  SoundInv'
<1>1. out' = out /\ clearing' = clearing /\ gen' = gen /\ overrun' = overrun
  BY DEF PostRoom, StartFanout, EndFanout, voiceVars, queueVars
<1>2. \A p \in out.alive : p[1] \in Members
  BY AlivePlayer
<1>3. CASE PostRoom
  <2>1. thread' = thread /\ started' = started /\ flight' = flight
    BY <1>3 DEF PostRoom
  <2>2. \A k \in started : stamps'[k] = stamps[k]
    BY <1>3 DEF PostRoom, Base, PostsOK
  <2>3. ASSUME NEW p \in out.alive PROVE Fits(p)'
    <3>1. Fits(p)
      BY DEF SoundInv
    <3> QED BY <1>1, <2>1, <2>2, <3>1 DEF Fits, Known, Dies, Held
  <2>4. \A m \in Members : Alone(m)'
    BY <1>1, <2>1 DEF SoundInv, Alone, Awaited
  <2> QED BY <1>1, <2>3, <2>4 DEF SoundInv
<1>4. CASE (\E k \in DOMAIN stamps : StartFanout(k)) \/ EndFanout
  <2>1. \A m \in Members : thread[m].pc = "off"
    BY <1>4 DEF StartFanout, EndFanout, Base, ThreadsOK, At
  <2>2. \A m \in Members : thread'[m].pc \in {"ready", "off"}
    BY <1>4, <2>1 DEF StartFanout, EndFanout, Nobody
  <2>3. stamps' = stamps /\ started \subseteq started'
    BY <1>4 DEF StartFanout, EndFanout
  <2>4. ASSUME NEW p \in out.alive PROVE Fits(p)'
    <3>1. Fits(p) /\ p[1] \in Members
      BY <1>2 DEF SoundInv
    <3> QED BY <1>1, <2>1, <2>3, <3>1 DEF Fits, Known, Dies, Held
  <2>5. \A m \in Members : Alone(m)'
    BY <2>2 DEF Alone
  <2> QED BY <1>1, <2>4, <2>5 DEF SoundInv
<1> QED BY <1>3, <1>4

LEMMA SoundInvStep ==
  ASSUME Base, SoundInv, [Next]_vars
  PROVE  SoundInv'
<1> USE DEF At
<1>0. ThreadsOK
  BY DEF Base
<1>1. CASE UNCHANGED <<thread, gen, out, clearing, overrun>> /\ UNCHANGED postVars
  BY <1>1 DEF SoundInv, Fits, Known, Dies, Held, Alone, Awaited, postVars
<1>2. ASSUME NEW m \in Members, NEW pc \in Pcs, Goto(m, pc), gen' = gen, UNCHANGED postVars,
             out' = out, clearing' = clearing, overrun' = overrun, thread[m].pc \notin HasPlayer, pc \notin SpeakerPcs
      PROVE  SoundInv'
  BY <1>0, <1>2, GotoMoves, SoundQuiet
<1>3. ASSUME NEW m \in Members, Leave(m), gen' = gen, UNCHANGED postVars,
             out' = out, clearing' = clearing, overrun' = overrun, thread[m].pc \notin HasPlayer
      PROVE  SoundInv'
  <2>1. Apart(m) /\ thread'[m].pc \notin SpeakerPcs
    BY <1>0, <1>3, LeaveMoves DEF SpeakerPcs
  <2> QED BY <1>3, <2>1, SoundQuiet
<1>4. ASSUME NEW m \in Members, NEW text \in Texts, Reply(m, text) PROVE SoundInv'
  <2>1. Apart(m) /\ thread'[m].pc = "staged"
    BY <1>0, <1>4 DEF Reply, ThreadsOK, Apart
  <2> QED BY <1>4, <2>1, SoundQuiet DEF Reply, HasPlayer, SpeakerPcs, voiceVars
<1>5. ASSUME NEW m \in Members,
             Ask(m) \/ ReplyPrivately(m) \/ StayQuiet(m) \/ SendNote(m) \/ ClaimAndRecord(m) \/ Enqueue(m)
      PROVE  SoundInv'
  BY <1>2, <1>3, <1>5 DEF Ask, ReplyPrivately, StayQuiet, SendNote, ClaimAndRecord, Enqueue,
     Pcs, HasPlayer, SpeakerPcs, queueVars, voiceVars
<1>6. ASSUME NEW m \in Members,
             FindGone(m) \/ GiveUp(m) \/ AskAgain(m) \/ AppendRow(m) \/ LogFails(m) \/ Lock(m)
      PROVE  SoundInv'
  BY <1>2, <1>3, <1>6 DEF FindGone, GiveUp, AskAgain, AppendRow, LogFails, Lock,
     Pcs, HasPlayer, SpeakerPcs, queueVars, voiceVars
<1>7. ASSUME NEW m \in Members, NEW d, At(m, "wait"), Decide(m, d), gen' = gen, UNCHANGED postVars,
             out' = out, clearing' = clearing, overrun' = overrun
      PROVE  SoundInv'
  <2>1. CASE Goto(m, "note") \/ Leave(m)
    BY <1>2, <1>3, <1>7, <2>1 DEF Pcs, HasPlayer, SpeakerPcs
  <2>2. CASE thread' = [thread EXCEPT ![m].pc = "append",
                          ![m].final = IF d.kind = "keep" THEN thread[m].clip ELSE d.text]
    <3>1. Apart(m) /\ thread'[m].pc = "append"
      BY <1>0, <2>2 DEF ThreadsOK, Threads, Apart
    <3> QED BY <1>7, <3>1, SoundQuiet DEF HasPlayer, SpeakerPcs
  <2> QED BY <1>7, <2>1, <2>2 DEF Decide
<1>8. ASSUME NEW m \in Members, Wait(m) PROVE SoundInv'
  BY <1>7, <1>8 DEF Wait, voiceVars
<1>9. ASSUME NEW m \in Members, Rename(m) PROVE SoundInv'
  <2>1. CASE Leave(m)
    BY <1>3, <1>9, <2>1 DEF Rename, HasPlayer, voiceVars
  <2>2. CASE thread' = [thread EXCEPT ![m].pc = "speak", ![m].clip = thread[m].final]
    <3>1. Apart(m) /\ thread'[m].pc = "speak"
      BY <1>0, <2>2 DEF ThreadsOK, Threads, Apart
    <3> QED BY <1>9, <3>1, SoundQuiet DEF Rename, HasPlayer, SpeakerPcs, voiceVars
  <2> QED BY <1>9, <2>1, <2>2 DEF Rename
<1>10. ASSUME NEW m \in Members, Synthesize(m) PROVE SoundInv'
  <2>1. CASE Leave(m)
    BY <1>3, <1>10, <2>1 DEF Synthesize, HasPlayer, queueVars
  <2>2. CASE Goto(m, "stream")
    <3>1. Apart(m) /\ thread'[m].pc = "stream"
      BY <1>0, <2>2, GotoMoves DEF Pcs
    <3>2. /\ Awaited = {} /\ out' = out /\ gen' = gen /\ UNCHANGED postVars
          /\ clearing' = clearing /\ overrun' = overrun /\ thread[m].pc \in VoicePcs
      BY <1>10 DEF Synthesize, SoundInv, Alone, queueVars, VoicePcs
    <3>3. Alone(m)'
      BY <3>1, <3>2 DEF Alone, Awaited
    <3>4. ASSUME NEW p \in out.alive PROVE Fits(p)'
      <4>1. Fits(p) /\ p \in overrun
        BY <3>2 DEF SoundInv, Awaited
      <4>2. ~Held(p)
        BY <1>10, <3>2, HeldBySpeaker DEF Held, Synthesize
      <4> QED BY <3>2, <4>1, <4>2 DEF Fits, Dies, postVars
    <3> QED BY <3>1, <3>2, <3>3, <3>4, SoundMoves
  <2> QED BY <1>10, <2>1, <2>2 DEF Synthesize, Unlock
<1>11. ASSUME NEW m \in Members, CannotSpeak(m) PROVE SoundInv'
  BY <1>3, <1>11 DEF CannotSpeak, Unlock, HasPlayer, queueVars
<1>12. CASE CheckStep \/ UNCHANGED vars
  BY <1>1, <1>12 DEF CheckStep, TakeRequest, AnswerRequest, vars, queueVars, voiceVars
<1> HIDE DEF At
<1> QED
  BY <1>4, <1>5, <1>6, <1>8, <1>9, <1>10, <1>11, <1>12, SoundOfPlayers, SoundOfClears, SoundOfPosts,
     SoundClaims, SoundFinishes, SoundStarts, SoundFails, SoundRemembers, SoundHandsOver, SoundChecked
  DEF Next, RoomStep, Turn, Queued, Voice

-------------------------------------------------------------------------------
(* What is heard is what was logged: first the rows.  A thread has its row  *)
(* exactly from the time it was appended, with the text it will speak.      *)

Rows == [who : Members, post : Nat, text : Texts \cup {Note}]
Unlogged == {"ready", "asked", "note", "staged", "recorded", "queued", "wait", "append"}
LoggedPcs == {"rename", "speak"} \cup VoicePcs

RowOf(m) == Row(m, flight, thread[m].final)
Logged(line) == Contains(rows, line)

RowInv ==
  /\ rows \in Seq(Rows) /\ spoken \in Seq(Rows)
  /\ \A i \in 1..Len(rows) : rows[i].post \in started
  /\ \A i, j \in 1..Len(rows) :
       i # j => rows[i].who # rows[j].who \/ rows[i].post # rows[j].post
  /\ \A m \in Members : thread[m].pc \in Unlogged =>
       \A i \in 1..Len(rows) : rows[i].who # m \/ rows[i].post # flight
  /\ \A m \in Members : thread[m].pc \in LoggedPcs => Logged(RowOf(m))
  /\ \A i \in 1..Len(spoken) : Logged(spoken[i])

LEMMA RowInit == Init => RowInv
<1> SUFFICES ASSUME Init PROVE RowInv
  OBVIOUS
<1>1. rows = <<>> /\ spoken = <<>> /\ \A m \in Members : thread[m].pc = "off"
  BY DEF Init, Nobody
<1>2. <<>> \in Seq(Rows)
  OBVIOUS
<1> QED BY <1>1, <1>2 DEF RowInv, LoggedPcs, VoicePcs, Unlogged

LEMMA AppendKeepsLogged ==
  ASSUME NEW S, NEW s \in Seq(S), NEW x \in S, NEW y
  PROVE  /\ Contains(s, y) => Contains(Append(s, x), y)
         /\ Contains(Append(s, x), x)
<1>1. /\ Len(Append(s, x)) = Len(s) + 1 /\ Len(s) \in Nat
      /\ \A i \in 1..Len(s) : Append(s, x)[i] = s[i]
      /\ Append(s, x)[Len(s) + 1] = x
  BY AppendProperties
<1> QED BY <1>1 DEF Contains

\* Nothing is logged or spoken, and one thread moves.
LEMMA RowsStay ==
  ASSUME RowInv, NEW m \in Members, Apart(m), rows' = rows, spoken' = spoken, UNCHANGED postVars,
         thread'[m].pc \in Unlogged => thread[m].pc \in Unlogged,
         thread'[m].pc \in LoggedPcs =>
           thread[m].pc \in LoggedPcs /\ thread'[m].final = thread[m].final
  PROVE  RowInv'
<1> USE DEF postVars
<1>1. ASSUME NEW n \in Members, thread'[n].pc \in Unlogged
      PROVE  \A i \in 1..Len(rows) : rows[i].who # n \/ rows[i].post # flight
  BY <1>1 DEF RowInv, Apart
<1>2. ASSUME NEW n \in Members, thread'[n].pc \in LoggedPcs PROVE Logged(RowOf(n)')
  BY <1>2 DEF RowInv, Apart, RowOf
<1> QED BY <1>1, <1>2 DEF RowInv, Logged

\* A row is appended for a thread that had none.
LEMMA RowAppended ==
  ASSUME Base, RowInv, NEW m \in Members, Apart(m), spoken' = spoken, UNCHANGED postVars,
         thread[m].pc \in Unlogged, NEW text \in Texts \cup {Note},
         rows' = Append(rows, Row(m, flight, text)),
         thread'[m].pc \notin Unlogged,
         thread'[m].pc \in LoggedPcs => thread'[m].final = text
  PROVE  RowInv'
<1> DEFINE r == Row(m, flight, text)
<1>1. flight \in started /\ flight \in Nat
  <2>1. flight # 0
    BY DEF Base, ThreadsOK, Unlogged
  <2> QED BY <2>1 DEF Base, PostsOK
<1>2. r \in Rows /\ r.who = m /\ r.post = flight
  BY <1>1 DEF Rows, Row
<1>3. rows \in Seq(Rows) /\ Len(rows) \in Nat /\ rows' \in Seq(Rows)
  BY <1>2, AppendProperties DEF RowInv
<1>4. /\ Len(rows') = Len(rows) + 1 /\ rows'[Len(rows) + 1] = r
      /\ \A i \in 1..Len(rows) : rows'[i] = rows[i]
  BY <1>2, <1>3, AppendProperties
<1>5. \A i \in 1..Len(rows') : i \in 1..Len(rows) \/ i = Len(rows) + 1
  BY <1>3, <1>4
<1>6. \A y : Logged(y) => Logged(y)'
  BY <1>2, <1>3, AppendKeepsLogged DEF Logged
<1>7. Contains(rows', r)
  BY <1>2, <1>3, AppendKeepsLogged
<1>8. \A i \in 1..Len(rows) : rows[i].who # m \/ rows[i].post # flight
  BY DEF RowInv
<1> HIDE DEF r
<1>9. \A i \in 1..Len(rows') : rows'[i].post \in started'
  BY <1>1, <1>2, <1>4, <1>5 DEF RowInv, postVars
<1>10. \A i, j \in 1..Len(rows') :
         i # j => rows'[i].who # rows'[j].who \/ rows'[i].post # rows'[j].post
  <2> SUFFICES ASSUME NEW i \in 1..Len(rows'), NEW j \in 1..Len(rows'), i # j
               PROVE  rows'[i].who # rows'[j].who \/ rows'[i].post # rows'[j].post
    OBVIOUS
  <2>1. CASE i \in 1..Len(rows) /\ j \in 1..Len(rows)
    BY <1>4, <2>1 DEF RowInv
  <2>2. CASE i = Len(rows) + 1 /\ j \in 1..Len(rows)
    BY <1>2, <1>4, <1>8, <2>2
  <2>3. CASE i \in 1..Len(rows) /\ j = Len(rows) + 1
    BY <1>2, <1>4, <1>8, <2>3
  <2> QED BY <1>5, <2>1, <2>2, <2>3
<1>11. ASSUME NEW n \in Members, thread'[n].pc \in Unlogged
       PROVE  \A i \in 1..Len(rows') : rows'[i].who # n \/ rows'[i].post # flight'
  <2>1. n # m /\ thread[n].pc \in Unlogged
    BY <1>11 DEF Apart
  <2>2. \A i \in 1..Len(rows) : rows[i].who # n \/ rows[i].post # flight
    BY <2>1 DEF RowInv
  <2> QED BY <1>2, <1>4, <1>5, <2>1, <2>2 DEF postVars
<1>12. ASSUME NEW n \in Members, thread'[n].pc \in LoggedPcs PROVE Logged(RowOf(n))'
  <2>1. CASE n = m
    <3>1. RowOf(m)' = r
      BY <1>12, <2>1 DEF RowOf, r, postVars
    <3> QED BY <1>7, <2>1, <3>1 DEF Logged
  <2>2. CASE n # m
    <3>1. thread'[n] = thread[n] /\ Logged(RowOf(n))
      BY <1>12, <2>2 DEF RowInv, Apart
    <3>2. RowOf(n)' = RowOf(n)
      BY <3>1 DEF RowOf, postVars
    <3>3. \A y : Logged(y)' <=> Contains(rows', y)
      BY DEF Logged
    <3> QED BY <1>6, <3>1, <3>2, <3>3 DEF Logged
  <2> QED BY <2>1, <2>2
<1>13. \A i \in 1..Len(spoken) : Logged(spoken[i])'
  <2>1. \A y : Contains(rows, y) => Contains(rows', y)
    BY <1>2, <1>3, AppendKeepsLogged DEF r
  <2> QED BY <2>1 DEF RowInv, Logged
<1> QED BY <1>3, <1>9, <1>10, <1>11, <1>12, <1>13 DEF RowInv

LEMMA RowSpoken ==
  ASSUME Base, RowInv, NEW m \in Members, Spawn(m)
  PROVE  RowInv' /\ RowOf(m) \in Rows
<1>1. /\ thread[m].pc \in {"stream", "whole"} /\ rows' = rows /\ UNCHANGED postVars
      /\ spoken' = Append(spoken, RowOf(m))
      /\ Goto(m, "heard") \/ Goto(m, "heardWhole")
  BY DEF Spawn, At, RowOf
<1>2. /\ Apart(m) /\ thread'[m].pc \in {"heard", "heardWhole"} /\ thread'[m].final = thread[m].final
  BY <1>1, GotoMoves DEF Base, Pcs
<1>3. Logged(RowOf(m))
  BY <1>1 DEF RowInv, LoggedPcs, VoicePcs
<1>4. RowOf(m) \in Rows
  BY <1>3, ElementOfSeq DEF RowInv, Logged, Contains
<1>5. /\ spoken' \in Seq(Rows) /\ Len(spoken') = Len(spoken) + 1 /\ Len(spoken) \in Nat
      /\ \A i \in 1..Len(spoken) : spoken'[i] = spoken[i]
      /\ spoken'[Len(spoken) + 1] = RowOf(m)
  BY <1>1, <1>4, AppendProperties DEF RowInv
<1>6. \A i \in 1..Len(spoken') : Logged(spoken'[i])
  <2>1. \A i \in 1..Len(spoken') : i \in 1..Len(spoken) \/ i = Len(spoken) + 1
    BY <1>5
  <2> QED BY <1>3, <1>5, <2>1 DEF RowInv
<1>7. ASSUME NEW n \in Members, thread'[n].pc \in Unlogged
      PROVE  \A i \in 1..Len(rows) : rows[i].who # n \/ rows[i].post # flight
  BY <1>2, <1>7 DEF RowInv, Apart, Unlogged
<1>8. ASSUME NEW n \in Members, thread'[n].pc \in LoggedPcs PROVE Logged(RowOf(n)')
  <2>1. thread[n].pc \in LoggedPcs /\ thread'[n].final = thread[n].final
    BY <1>1, <1>2, <1>8 DEF Apart, LoggedPcs, VoicePcs
  <2> QED BY <1>1, <2>1 DEF RowInv, RowOf, postVars
<1> QED BY <1>1, <1>4, <1>5, <1>6, <1>7, <1>8, SMTT(20) DEF RowInv, Logged, postVars

LEMMA RowOfPosts ==
  ASSUME Base, RowInv, PostRoom \/ (\E k \in DOMAIN stamps : StartFanout(k)) \/ EndFanout
  PROVE  RowInv'
<1>1. rows' = rows /\ spoken' = spoken /\ started \subseteq started'
  BY DEF PostRoom, StartFanout, EndFanout, logVars
<1>2. \A m \in Members : thread'[m].pc \in LoggedPcs => thread'[m] = thread[m] /\ flight' = flight
  BY DEF PostRoom, StartFanout, EndFanout, Nobody, LoggedPcs, VoicePcs, At
<1>3. ASSUME NEW m \in Members, thread'[m].pc \in Unlogged, NEW i \in 1..Len(rows)
      PROVE  rows[i].who # m \/ rows[i].post # flight'
  <2>1. CASE PostRoom
    BY <1>3, <2>1 DEF PostRoom, RowInv
  <2>2. CASE \E k \in DOMAIN stamps : StartFanout(k)
    BY <2>2 DEF StartFanout, RowInv
  <2>3. CASE EndFanout
    BY <1>3, <2>3 DEF EndFanout, At, Unlogged
  <2> QED BY <2>1, <2>2, <2>3
<1> QED BY <1>1, <1>2, <1>3 DEF RowInv, Logged, RowOf

LEMMA RowStep ==
  ASSUME Base, RowInv, [Next]_vars
  PROVE  RowInv'
<1> USE DEF At
<1>0. ThreadsOK
  BY DEF Base
<1>1. CASE UNCHANGED <<thread, rows, spoken>> /\ UNCHANGED postVars
  BY <1>1 DEF RowInv, Logged, RowOf, postVars
<1>2. ASSUME NEW m \in Members, NEW pc \in Pcs, Goto(m, pc), rows' = rows, spoken' = spoken,
             UNCHANGED postVars, pc \in Unlogged => thread[m].pc \in Unlogged,
             pc \in LoggedPcs => thread[m].pc \in LoggedPcs
      PROVE  RowInv'
  BY <1>0, <1>2, GotoMoves, RowsStay
<1>3. ASSUME NEW m \in Members, Leave(m), rows' = rows, spoken' = spoken, UNCHANGED postVars
      PROVE  RowInv'
  <2>1. Apart(m) /\ thread'[m].pc \notin Unlogged /\ thread'[m].pc \notin LoggedPcs
    BY <1>0, <1>3, LeaveMoves DEF Unlogged, LoggedPcs, VoicePcs
  <2> QED BY <1>3, <2>1, RowsStay
<1>4. ASSUME NEW m \in Members, NEW text \in Texts, Reply(m, text) PROVE RowInv'
  <2>1. Apart(m) /\ thread'[m].pc = "staged"
    BY <1>0, <1>4 DEF Reply, ThreadsOK, Apart
  <2> QED BY <1>4, <2>1, RowsStay DEF Reply, Unlogged, LoggedPcs, VoicePcs, logVars
<1>5. ASSUME NEW m \in Members,
             Ask(m) \/ ReplyPrivately(m) \/ StayQuiet(m) \/ ClaimAndRecord(m) \/ Enqueue(m)
      PROVE  RowInv'
  BY <1>2, <1>3, <1>5 DEF Ask, ReplyPrivately, StayQuiet, ClaimAndRecord, Enqueue,
     Pcs, Unlogged, LoggedPcs, VoicePcs, logVars
<1>6. ASSUME NEW m \in Members, SendNote(m) PROVE RowInv'
  <2>1. /\ Leave(m) /\ thread[m].pc \in Unlogged /\ spoken' = spoken /\ UNCHANGED postVars
        /\ rows' = rows \/ rows' = Append(rows, Row(m, flight, Note))
    BY <1>6 DEF SendNote, Unlogged
  <2>2. /\ Apart(m) /\ thread'[m].pc \notin Unlogged /\ thread'[m].pc \notin LoggedPcs
    BY <1>0, <2>1, LeaveMoves DEF Unlogged, LoggedPcs, VoicePcs
  <2> QED BY <1>3, <2>1, <2>2, RowAppended
<1>7. ASSUME NEW m \in Members, FindGone(m) \/ GiveUp(m) \/ AskAgain(m) \/ LogFails(m) \/ Lock(m)
      PROVE  RowInv'
  BY <1>2, <1>3, <1>7 DEF FindGone, GiveUp, AskAgain, LogFails, Lock,
     Pcs, Unlogged, LoggedPcs, VoicePcs, logVars
<1>8. ASSUME NEW m \in Members, NEW d, At(m, "wait"), Decide(m, d), rows' = rows, spoken' = spoken,
             UNCHANGED postVars
      PROVE  RowInv'
  <2>1. CASE Goto(m, "note") \/ Leave(m)
    BY <1>2, <1>3, <1>8, <2>1 DEF Pcs, Unlogged, LoggedPcs, VoicePcs
  <2>2. CASE thread' = [thread EXCEPT ![m].pc = "append",
                          ![m].final = IF d.kind = "keep" THEN thread[m].clip ELSE d.text]
    <3>1. Apart(m) /\ thread'[m].pc = "append"
      BY <1>0, <2>2 DEF ThreadsOK, Threads, Apart
    <3> QED BY <1>8, <3>1, RowsStay DEF Unlogged, LoggedPcs, VoicePcs
  <2> QED BY <1>8, <2>1, <2>2 DEF Decide
<1>9. ASSUME NEW m \in Members, Wait(m) PROVE RowInv'
  BY <1>8, <1>9 DEF Wait, logVars
<1>10. ASSUME NEW m \in Members, AppendRow(m) PROVE RowInv'
  <2>1. /\ thread[m].pc \in Unlogged /\ spoken' = spoken /\ UNCHANGED postVars
        /\ rows' = Append(rows, Row(m, flight, thread[m].final))
        /\ Goto(m, "speak") \/ Goto(m, "rename")
    BY <1>10 DEF AppendRow, Unlogged
  <2>2. thread[m].final \in Texts
    BY <1>0, <1>10 DEF AppendRow, ThreadsOK, Textless
  <2>3. Apart(m) /\ thread'[m].pc \in {"speak", "rename"} /\ thread'[m].final = thread[m].final
    BY <1>0, <2>1, GotoMoves DEF Pcs
  <2> QED BY <2>1, <2>2, <2>3, RowAppended DEF Unlogged
<1>11. ASSUME NEW m \in Members, Rename(m) PROVE RowInv'
  <2>1. CASE Leave(m)
    BY <1>3, <1>11, <2>1 DEF Rename
  <2>2. CASE thread' = [thread EXCEPT ![m].pc = "speak", ![m].clip = thread[m].final]
    <3>1. Apart(m) /\ thread'[m].pc = "speak" /\ thread'[m].final = thread[m].final
      BY <1>0, <2>2 DEF ThreadsOK, Threads, Apart
    <3> QED BY <1>11, <3>1, RowsStay DEF Rename, Unlogged, LoggedPcs, VoicePcs
  <2> QED BY <1>11, <2>1, <2>2 DEF Rename
<1>12. ASSUME NEW m \in Members, Claim(m) \/ Synthesize(m) \/ CannotSpeak(m) \/ SpawnFails(m) \/ Remember(m)
       PROVE  RowInv'
  BY <1>2, <1>3, <1>12 DEF Claim, Synthesize, CannotSpeak, SpawnFails, Remember, Unlock, Attempt,
     Pcs, Unlogged, LoggedPcs, VoicePcs, logVars
<1>13. ASSUME NEW m \in Members, StreamEnds(m) \/ StreamBreaks(m) \/ AfterStart(m) \/ Finish(m)
       PROVE  RowInv'
  BY <1>2, <1>3, <1>13 DEF StreamEnds, StreamBreaks, AfterStart, Finish, Unlock,
     Pcs, Unlogged, LoggedPcs, VoicePcs, logVars
<1>14. CASE CheckStep \/ SoundStep \/ ClearStep \/ UNCHANGED vars
  BY <1>1, <1>14 DEF CheckStep, TakeRequest, AnswerRequest, SoundStep, PlayerEnds, Reap, GraceEnds,
     ClearStep, BargeIn, SpeechStarted, Clear, InterruptAfterClear, vars, logVars
<1> HIDE DEF At
<1> QED
  BY <1>4, <1>5, <1>6, <1>7, <1>9, <1>10, <1>11, <1>12, <1>13, <1>14, RowSpoken, RowOfPosts
  DEF Next, RoomStep, Turn, Queued, Voice

-------------------------------------------------------------------------------
(* Then the order.  As long as no text has waited twice, the thread whose   *)
(* clip is the oldest is alone between its turn and its voice.              *)

FrontPcs == {"wait", "append", "rename", "speak", "locked"}

FrontInv ==
  ~alike =>
    /\ \A c \in Texts : Cardinality(Places(waiting, c)) <= 1
    /\ Allows => \A m \in Members : thread[m].pc \in FrontPcs => IsFront(thread[m].clip)

LEMMA FrontInit == Init => FrontInv
<1> SUFFICES ASSUME Init PROVE FrontInv
  OBVIOUS
<1>1. waiting = <<>> /\ \A m \in Members : thread[m].pc = "off"
  BY DEF Init, Nobody
<1>2. \A c \in Texts : Places(waiting, c) = {}
  BY <1>1 DEF Places
<1>3. \A c \in Texts : Cardinality(Places(waiting, c)) = 0
  BY <1>2, FS_EmptySet, Zenon
<1> QED BY <1>1, <1>3 DEF FrontInv, FrontPcs

\* Two threads do not drive clips of one text.
LEMMA DriversDiffer ==
  ASSUME Base, QueueInv, FrontInv, Allows, ~alike, NEW m \in Members, NEW n \in Members,
         Drives(m), Drives(n), thread[m].clip = thread[n].clip
  PROVE  m = n
<1>1. PICK c \in Texts : c = thread[m].clip
  BY DriverHasClip
<1>2. Cardinality(DriversOf(c)) <= 1
  <2>1. Cardinality(DriversOf(c)) <= Cardinality(Places(waiting, c)) /\ Cardinality(Places(waiting, c)) <= 1
    BY DEF QueueInv, CopyForEach, FrontInv
  <2>2. waiting \in Seq(Clips)
    BY DEF Base, DataOK
  <2> QED BY <2>1, <2>2, DriversFinite, PlacesFinite
<1>3. m \in DriversOf(c) /\ n \in DriversOf(c)
  BY <1>1 DEF DriversOf
<1> DEFINE R == DriversOf(c) \ {m}
<1>4. IsFiniteSet(R) /\ Cardinality(R) = Cardinality(DriversOf(c)) - 1
  BY <1>3, DriversFinite, FS_RemoveElement
<1>5. Cardinality(R) = 0
  <2> HIDE DEF R
  <2>1. Cardinality(R) \in Nat
    BY <1>4, FS_CardinalityType
  <2> QED BY <1>2, <1>4, <2>1, DriversFinite
<1>6. R = {}
  BY <1>4, <1>5, FS_EmptySet
<1> QED BY <1>3, <1>6

LEMMA FrontAlone ==
  ASSUME Base, QueueInv, FrontInv, Allows, ~alike, NEW m \in Members, NEW n \in Members,
         thread[m].pc \in FrontPcs, thread[n].pc \in FrontPcs
  PROVE  m = n
<1>1. thread[m].clip = thread[n].clip
  BY DEF FrontInv, IsFront
<1>2. Drives(m) /\ Drives(n)
  BY DEF Drives, FrontPcs
<1> QED BY <1>1, <1>2, DriversDiffer

LEMMA FrontStays ==
  ASSUME FrontInv, NEW m \in Members, Apart(m), waiting' = waiting, Allows' => Allows, alike => alike',
         thread'[m].pc \in FrontPcs =>
           \/ IsFront(thread'[m].clip)
           \/ thread[m].pc \in FrontPcs /\ thread'[m].clip = thread[m].clip
  PROVE  FrontInv'
<1>1. ASSUME ~alike', Allows', NEW n \in Members, thread'[n].pc \in FrontPcs
      PROVE  waiting' # <<>> /\ Head(waiting') = thread'[n].clip
  BY <1>1 DEF FrontInv, Apart, IsFront
<1> QED BY <1>1 DEF FrontInv, IsFront

\* A thread takes its clip out: the other clips keep their order.
LEMMA FrontServed ==
  ASSUME Base, QueueInv, FrontInv, Allows, NEW m \in Members, Apart(m), Drives(m),
         thread'[m].pc \notin FrontPcs, alike => alike',
         waiting' = Without(waiting, thread[m].clip)
  PROVE  FrontInv'
<1> DEFINE c == thread[m].clip
           i == FirstAt(waiting, c)
<1>1. c \in Texts /\ Contains(waiting, c)
  BY DriverHasClip DEF Has
<1>2. waiting \in Seq(Clips) /\ Len(waiting) \in Nat
  BY DEF Base, DataOK
<1>3. i \in 1..Len(waiting) /\ waiting[i] = c
  BY <1>1, <1>2, FirstPlace
<1>4. waiting' = RemoveAt(waiting, i)
  BY <1>1, <1>2, RemovedFirst DEF Without
<1>5. \A e : Cardinality(Places(waiting', e)) =
               Cardinality(Places(waiting, e)) - (IF c = e THEN 1 ELSE 0)
  BY <1>2, <1>3, <1>4, PlacesOfRemoveAt
<1>6. /\ Len(waiting') = Len(waiting) - 1
      /\ \A j \in 1..(Len(waiting) - 1) : waiting'[j] = IF j < i THEN waiting[j] ELSE waiting[j + 1]
  BY <1>2, <1>3, <1>4, RemovedAt
<1>7. ASSUME ~alike', Allows', NEW n \in Members, thread'[n].pc \in FrontPcs
      PROVE  waiting' # <<>> /\ Head(waiting') = thread'[n].clip
  <2>1. n # m /\ thread'[n] = thread[n] /\ ~alike
    BY <1>7 DEF Apart
  <2>2. waiting # <<>> /\ waiting[1] = thread[n].clip
    BY <1>7, <2>1 DEF FrontInv, IsFront
  <2>3. Drives(n)
    BY <1>7, <2>1 DEF Drives, FrontPcs
  <2>4. thread[n].clip # c
    BY <2>1, <2>3, DriversDiffer
  <2> HIDE DEF c, i
  <2>5. i # 1
    BY <1>3, <2>2, <2>4
  <2>6. waiting'[1] = waiting[1] /\ Len(waiting') > 0
    BY <1>2, <1>3, <1>6, <2>5
  <2>7. waiting' \in Seq(Clips)
    BY <1>2, <1>3, <1>4, RemovedAt
  <2>8. waiting' # <<>> /\ Head(waiting') = waiting'[1]
    BY <2>6, <2>7
  <2> QED BY <2>1, <2>2, <2>6, <2>8
<1>8. ASSUME ~alike', NEW e \in Texts PROVE Cardinality(Places(waiting', e)) <= 1
  <2>1. Cardinality(Places(waiting, e)) <= 1
    BY <1>8 DEF FrontInv
  <2> QED BY <1>2, <1>5, <2>1, PlacesFinite
<1> QED BY <1>7, <1>8 DEF FrontInv, IsFront

LEMMA FrontGrows ==
  ASSUME Base, FrontInv, NEW m \in Members, Enqueue(m), Allows
  PROVE  FrontInv'
<1>1. PICK c \in Texts : c = thread[m].clip
  BY DEF Enqueue, At, Base, ThreadsOK, Textless
<1>2. /\ waiting' = Append(waiting, c) /\ alike' = (alike \/ Has(c))
      /\ Goto(m, "queued") /\ gen' = gen /\ UNCHANGED postVars
  BY <1>1 DEF Enqueue
<1>3. Apart(m) /\ thread'[m].pc = "queued"
  BY <1>2, GotoMoves DEF Base, Pcs
<1>4. waiting \in Seq(Texts)
  BY DEF Base, DataOK, Clips
<1>5. ASSUME ~alike', Allows', NEW n \in Members, thread'[n].pc \in FrontPcs
      PROVE  waiting' # <<>> /\ Head(waiting') = thread'[n].clip
  <2>1. n # m /\ thread'[n] = thread[n] /\ ~alike
    BY <1>2, <1>3, <1>5 DEF Apart, FrontPcs
  <2>2. waiting # <<>> /\ Head(waiting) = thread[n].clip
    BY <1>5, <2>1 DEF FrontInv, IsFront
  <2> QED BY <1>1, <1>2, <1>4, <2>1, <2>2
<1>6. ASSUME ~alike', NEW e \in Texts PROVE Cardinality(Places(waiting', e)) <= 1
  <2>1. ~alike /\ ~Contains(waiting, c) /\ Cardinality(Places(waiting, e)) <= 1
    BY <1>2, <1>6 DEF FrontInv, Has
  <2>2. Cardinality(Places(waiting', e)) = Cardinality(Places(waiting, e)) + (IF c = e THEN 1 ELSE 0)
    BY <1>2, <1>4, PlacesOfAppend
  <2>3. Cardinality(Places(waiting, c)) = 0
    BY <1>4, <2>1, PlacesFinite
  <2> QED BY <1>4, <2>1, <2>2, <2>3, PlacesFinite
<1> QED BY <1>5, <1>6 DEF FrontInv, IsFront

\* The oldest clip takes the revised text, which waits nowhere else.
LEMMA FrontRenames ==
  ASSUME Base, QueueInv, FrontInv, NEW m \in Members, Rename(m), Allows, Apart(m),
         waiting' # waiting, thread'[m].pc = "speak", thread'[m].clip = thread[m].final
  PROVE  FrontInv'
<1>1. /\ thread[m].pc = "rename" /\ gen' = gen /\ UNCHANGED postVars
      /\ waiting' = [waiting EXCEPT ![FirstAt(waiting, thread[m].clip)] = thread[m].final]
      /\ alike' = (alike \/ Has(thread[m].final)) /\ FirstAt(waiting, thread[m].clip) # 0
  BY DEF Rename, At, FirstAt
<1>2. PICK c \in Texts, d \in Texts : c = thread[m].clip /\ d = thread[m].final
  BY <1>1 DEF Base, ThreadsOK, Textless
<1>3. PICK i \in 0..Len(waiting) : i = FirstAt(waiting, c)
  BY FirstPlace DEF Base, DataOK
<1>4. waiting \in Seq(Texts) /\ i \in 1..Len(waiting) /\ waiting[i] = c /\ Len(waiting) \in Nat
  BY <1>1, <1>2, <1>3, FirstPlace DEF Base, DataOK, Clips
<1>5. waiting' = [waiting EXCEPT ![i] = d]
  BY <1>1, <1>2, <1>3
<1>6. ASSUME ~alike', NEW e \in Texts PROVE Cardinality(Places(waiting', e)) <= 1
  <2>1. ~alike /\ ~Contains(waiting, d) /\ Cardinality(Places(waiting, e)) <= 1
    BY <1>1, <1>2, <1>6 DEF FrontInv, Has
  <2>2. Cardinality(Places(waiting', e)) = Cardinality(Places(waiting, e))
          - (IF c = e THEN 1 ELSE 0) + (IF d = e THEN 1 ELSE 0)
    <3>1. Cardinality(Places([waiting EXCEPT ![i] = d], e)) = Cardinality(Places(waiting, e))
            - (IF waiting[i] = e THEN 1 ELSE 0) + (IF d = e THEN 1 ELSE 0)
      BY <1>4, PlacesOfExcept
    <3> QED BY <1>4, <1>5, <3>1
  <2>3. Cardinality(Places(waiting, d)) = 0
    BY <1>4, <2>1, PlacesFinite
  <2> QED BY <1>4, <2>1, <2>2, <2>3, PlacesFinite
<1>7. ASSUME ~alike', Allows', NEW n \in Members, thread'[n].pc \in FrontPcs
      PROVE  waiting' # <<>> /\ Head(waiting') = thread'[n].clip
  <2>1. ~alike /\ thread[m].pc \in FrontPcs
    BY <1>1, <1>7 DEF FrontPcs
  <2>2. n = m
    <3>1. CASE n # m
      <4>1. thread[n].pc \in FrontPcs
        BY <1>7, <3>1 DEF Apart
      <4> QED BY <2>1, <4>1, FrontAlone
    <3> QED BY <3>1
  <2>3. waiting # <<>> /\ waiting[1] = c
    BY <1>2, <2>1 DEF FrontInv, IsFront
  <2>4. i = 1
    <3>1. i <= 1
      BY <1>3, <1>4, <2>3, FirstPlace
    <3> QED BY <1>4, <3>1
  <2>5. waiting' # <<>> /\ Head(waiting') = d
    BY <1>4, <1>5, <2>4
  <2> QED BY <1>2, <2>2, <2>5
<1> QED BY <1>6, <1>7 DEF FrontInv, IsFront

LEMMA FrontUndriven ==
  ASSUME FrontInv, \A m \in Members : thread'[m].pc \notin FrontPcs,
         alike => alike', waiting' = waiting \/ waiting' = <<>>
  PROVE  FrontInv'
<1>1. ASSUME ~alike', NEW e \in Texts PROVE Cardinality(Places(waiting', e)) <= 1
  <2>1. CASE waiting' = waiting
    BY <1>1, <2>1 DEF FrontInv
  <2>2. CASE waiting' = <<>>
    <3>1. Places(waiting', e) = {}
      BY <2>2 DEF Places
    <3>2. Cardinality(Places(waiting', e)) = 0
      BY <3>1, FS_EmptySet, Zenon
    <3> QED BY <3>2
  <2> QED BY <2>1, <2>2
<1> QED BY <1>1 DEF FrontInv

LEMMA FrontCleared ==
  ASSUME Base, FrontInv, Clear
  PROVE  FrontInv'
<1>1. waiting' = <<>> /\ gen' = gen + 1 /\ UNCHANGED postVars /\ alike' = alike
  BY DEF Clear, logVars
<1>2. ~Allows'
  <2>1. Stamp \in Nat /\ Stamp <= gen /\ gen \in Nat
    BY DEF Stamp, Base, PostsOK
  <2>2. Stamp' = Stamp
    BY <1>1 DEF Stamp, postVars
  <2> QED BY <1>1, <2>1, <2>2 DEF Allows
<1>3. \A e \in Texts : Places(waiting', e) = {}
  BY <1>1 DEF Places
<1>4. \A e \in Texts : Cardinality(Places(waiting', e)) = 0
  BY <1>3, FS_EmptySet, Zenon
<1> QED BY <1>2, <1>4 DEF FrontInv

LEMMA FrontOfPosts ==
  ASSUME Base, FrontInv, PostRoom \/ (\E k \in DOMAIN stamps : StartFanout(k)) \/ EndFanout
  PROVE  FrontInv'
<1>1. waiting' = waiting /\ alike' = alike
  BY DEF PostRoom, StartFanout, EndFanout, queueVars, logVars
<1>2. CASE PostRoom
  <2>1. thread' = thread /\ flight' = flight /\ gen' = gen /\ stamps' = Append(stamps, gen)
    BY <1>2 DEF PostRoom, queueVars
  <2>2. Stamp' = Stamp
    BY <2>1 DEF Stamp, Base, PostsOK
  <2> QED BY <1>1, <2>1, <2>2 DEF FrontInv, Allows, IsFront
<1>3. CASE \E k \in DOMAIN stamps : StartFanout(k)
  <2>1. \A m \in Members : thread'[m].pc = "ready"
    BY <1>3 DEF StartFanout, Nobody
  <2> QED BY <1>1, <2>1, FrontUndriven DEF FrontPcs
<1>4. CASE EndFanout
  <2>1. \A m \in Members : thread'[m].pc = "off"
    BY <1>4 DEF EndFanout, At
  <2> QED BY <1>1, <2>1, FrontUndriven DEF FrontPcs
<1> QED BY <1>2, <1>3, <1>4

LEMMA FrontStep ==
  ASSUME Base, QueueInv, FrontInv, [Next]_vars
  PROVE  FrontInv'
<1> USE DEF At
<1>0. ThreadsOK
  BY DEF Base
<1>1. CASE UNCHANGED <<thread, waiting, alike, gen>> /\ UNCHANGED postVars
  BY <1>1 DEF FrontInv, IsFront, Allows, Stamp, postVars
<1>2. ASSUME NEW m \in Members, NEW pc \in Pcs, Goto(m, pc), waiting' = waiting, alike' = alike,
             gen' = gen, UNCHANGED postVars,
             pc \in FrontPcs => thread[m].pc \in FrontPcs \/ IsFront(thread[m].clip)
      PROVE  FrontInv'
  BY <1>0, <1>2, GotoMoves, AllowsStays, FrontStays
<1>3. ASSUME NEW m \in Members, Leave(m), waiting' = waiting, alike' = alike,
             gen' = gen, UNCHANGED postVars
      PROVE  FrontInv'
  <2>1. Apart(m) /\ thread'[m].pc \notin FrontPcs
    BY <1>0, <1>3, LeaveMoves DEF FrontPcs
  <2> QED BY <1>3, <2>1, AllowsStays, FrontStays
<1>4. ASSUME NEW m \in Members, NEW text \in Texts, Reply(m, text) PROVE FrontInv'
  <2>1. Apart(m) /\ thread'[m].pc = "staged"
    BY <1>0, <1>4 DEF Reply, ThreadsOK, Apart
  <2> QED BY <1>4, <2>1, AllowsStays, FrontStays DEF Reply, FrontPcs, logVars
<1>5. ASSUME NEW m \in Members,
             Ask(m) \/ ReplyPrivately(m) \/ StayQuiet(m) \/ SendNote(m) \/ ClaimAndRecord(m)
      PROVE  FrontInv'
  BY <1>2, <1>3, <1>5 DEF Ask, ReplyPrivately, StayQuiet, SendNote, ClaimAndRecord,
     Pcs, FrontPcs, logVars, queueVars
<1>6. ASSUME NEW m \in Members, Enqueue(m) PROVE FrontInv'
  <2>1. CASE ~Allows
    BY <1>3, <1>6, <2>1 DEF Enqueue
  <2> QED BY <1>6, <2>1, FrontGrows
<1>7. ASSUME NEW m \in Members, FindGone(m) \/ GiveUp(m) \/ AskAgain(m) \/ AppendRow(m) \/ Lock(m)
      PROVE  FrontInv'
  BY <1>2, <1>3, <1>7 DEF FindGone, GiveUp, AskAgain, AppendRow, Lock,
     Pcs, FrontPcs, logVars, queueVars
<1>8. ASSUME NEW m \in Members, Drives(m), Allows, Leave(m) \/ Goto(m, "note") \/ Goto(m, "claimed"),
             waiting' = Without(waiting, thread[m].clip), alike' = alike
      PROVE  FrontInv'
  <2>1. Apart(m) /\ thread'[m].pc \in {"off", "note", "claimed"}
    BY <1>0, <1>8, GotoMoves, LeaveMoves DEF Pcs
  <2> QED BY <1>8, <2>1, FrontServed DEF FrontPcs
<1>9. ASSUME NEW m \in Members, NEW d, At(m, "wait"), Decide(m, d), alike' = alike,
             gen' = gen, UNCHANGED postVars
      PROVE  FrontInv'
  <2>1. CASE Leave(m) /\ waiting' = waiting
    BY <1>3, <1>9, <2>1
  <2>2. CASE /\ thread' = [thread EXCEPT ![m].pc = "append",
                            ![m].final = IF d.kind = "keep" THEN thread[m].clip ELSE d.text]
             /\ waiting' = waiting
    <3>1. Apart(m) /\ thread'[m].clip = thread[m].clip
      BY <1>0, <2>2 DEF ThreadsOK, Threads, Apart
    <3> QED BY <1>9, <2>2, <3>1, AllowsStays, FrontStays DEF FrontPcs
  <2>3. CASE Allows /\ (Leave(m) \/ Goto(m, "note")) /\ waiting' = Without(waiting, thread[m].clip)
    BY <1>8, <1>9, <2>3 DEF Drives
  <2> QED BY <1>9, <2>1, <2>2, <2>3 DEF Decide
<1>10. ASSUME NEW m \in Members, Wait(m) PROVE FrontInv'
  BY <1>9, <1>10 DEF Wait, logVars
<1>11. ASSUME NEW m \in Members, LogFails(m) PROVE FrontInv'
  BY <1>3, <1>8, <1>11 DEF LogFails, DropLine, ClaimWaiting, Drives, logVars
<1>12. ASSUME NEW m \in Members, Rename(m) PROVE FrontInv'
  <2>1. CASE Leave(m) /\ waiting' = waiting /\ alike' = alike
    BY <1>3, <1>12, <2>1 DEF Rename
  <2>2. CASE /\ Allows /\ thread' = [thread EXCEPT ![m].pc = "speak", ![m].clip = thread[m].final]
             /\ alike' = (alike \/ Has(thread[m].final))
             /\ waiting' = [waiting EXCEPT ![FirstAt(waiting, thread[m].clip)] = thread[m].final]
             /\ FirstAt(waiting, thread[m].clip) # 0
    <3>1. Apart(m) /\ thread'[m].pc = "speak" /\ thread'[m].clip = thread[m].final
      BY <1>0, <2>2 DEF ThreadsOK, Threads, Apart
    <3>2. CASE waiting' # waiting
      BY <1>12, <2>2, <3>1, <3>2, FrontRenames
    <3>3. CASE waiting' = waiting
      <4>1. PICK i \in 0..Len(waiting) : i = FirstAt(waiting, thread[m].clip)
        BY FirstPlace DEF Base, DataOK
      <4>2. waiting \in Seq(Clips) /\ i \in 1..Len(waiting) /\ waiting[i] = thread[m].clip
        BY <2>2, <4>1, FirstPlace DEF Base, DataOK
      <4>3. waiting[i] = thread[m].final
        BY <2>2, <3>3, <4>1, <4>2
      <4>4. thread'[m].clip = thread[m].clip /\ thread[m].pc = "rename"
        BY <1>12, <3>1, <4>2, <4>3 DEF Rename
      <4> QED BY <1>12, <2>2, <3>1, <3>3, <4>4, AllowsStays, FrontStays DEF FrontPcs, Rename
    <3> QED BY <3>2, <3>3
  <2> QED BY <1>12, <2>1, <2>2 DEF Rename, FirstAt
<1>13. ASSUME NEW m \in Members, Claim(m) PROVE FrontInv'
  <2>1. CASE Allows /\ Has(thread[m].clip)
    BY <1>8, <1>13, <2>1 DEF Claim, ClaimWaiting, Drives, logVars
  <2>2. CASE ~(Allows /\ Has(thread[m].clip))
    BY <1>3, <1>13, <2>2 DEF Claim, Unlock, logVars
  <2> QED BY <2>1, <2>2
<1>14. ASSUME NEW m \in Members,
              Synthesize(m) \/ CannotSpeak(m) \/ Spawn(m) \/ SpawnFails(m) \/ Remember(m)
       PROVE  FrontInv'
  BY <1>2, <1>3, <1>14 DEF Synthesize, CannotSpeak, Spawn, SpawnFails, Remember, Unlock, Attempt,
     Pcs, FrontPcs, logVars, queueVars
<1>15. ASSUME NEW m \in Members, StreamEnds(m) \/ StreamBreaks(m) \/ AfterStart(m) \/ Finish(m)
       PROVE  FrontInv'
  BY <1>2, <1>3, <1>15 DEF StreamEnds, StreamBreaks, AfterStart, Finish, Unlock,
     Pcs, FrontPcs, logVars, queueVars
<1>16. CASE CheckStep \/ SoundStep \/ BargeIn \/ SpeechStarted \/ InterruptAfterClear \/ UNCHANGED vars
  BY <1>1, <1>16 DEF CheckStep, TakeRequest, AnswerRequest, SoundStep, PlayerEnds, Reap, GraceEnds,
     BargeIn, SpeechStarted, InterruptAfterClear, vars, logVars, queueVars
<1> HIDE DEF At
<1> QED
  BY <1>4, <1>5, <1>6, <1>7, <1>10, <1>11, <1>12, <1>13, <1>14, <1>15, <1>16, FrontCleared, FrontOfPosts
  DEF Next, RoomStep, ClearStep, Turn, Queued, Voice

-------------------------------------------------------------------------------
(* Lines are heard in the order of their rows.  A thread that may still     *)
(* speak has a row after all that was spoken, and after that of the thread  *)
(* that speaks, if it comes to its row later.                               *)

Starting == {"claimed", "stream", "heard", "pipe", "whole"}
Coming == {"rename", "speak"}
MaySpeak(m) == thread[m].pc \in Starting \/ (Allows /\ thread[m].pc \in Coming \cup {"locked"})

RowPlace(m) == FirstAt(rows, RowOf(m))

SpokenInOrder ==
  \A i, j \in 1..Len(spoken) : i < j => FirstAt(rows, spoken[i]) <= FirstAt(rows, spoken[j])
SpokenBefore ==
  \A m \in Members : MaySpeak(m) => \A i \in 1..Len(spoken) : FirstAt(rows, spoken[i]) <= RowPlace(m)
SpeakerBefore ==
  Allows => \A m, n \in Members :
    thread[m].pc \in Starting /\ thread[n].pc \in Coming => RowPlace(m) <= RowPlace(n)

OrderInv == ~alike => SpokenInOrder /\ SpokenBefore /\ SpeakerBefore

LEMMA OrderInit == Init => OrderInv
<1> SUFFICES ASSUME Init PROVE OrderInv
  OBVIOUS
<1>1. spoken = <<>> /\ \A m \in Members : thread[m].pc = "off"
  BY DEF Init, Nobody
<1> QED BY <1>1 DEF OrderInv, SpokenInOrder, SpokenBefore, SpeakerBefore, MaySpeak, Starting, Coming

\* A row that is appended comes after the lines that are logged.
LEMMA AppendKeepsPlace ==
  ASSUME NEW S, NEW s \in Seq(S), NEW x \in S, NEW y, Contains(s, y)
  PROVE  FirstAt(Append(s, x), y) = FirstAt(s, y)
<1>1. PICK t \in Seq(S) : t = Append(s, x)
  BY AppendProperties
<1>2. Len(t) = Len(s) + 1 /\ Len(s) \in Nat /\ \A k \in 1..Len(s) : t[k] = s[k]
  BY <1>1, AppendProperties
<1>3. PICK i \in 0..Len(s) : i = FirstAt(s, y)
  BY FirstPlace
<1>4. i \in 1..Len(s) /\ s[i] = y /\ \A k \in 1..Len(s) : s[k] = y => i <= k
  BY <1>3, FirstPlace
<1>5. PICK j \in 0..Len(t) : j = FirstAt(t, y)
  BY FirstPlace
<1>6. i \in 1..Len(t) /\ t[i] = y
  BY <1>2, <1>4
<1>7. Contains(t, y)
  BY <1>6 DEF Contains
<1>8. j \in 1..Len(t) /\ t[j] = y /\ \A k \in 1..Len(t) : t[k] = y => j <= k
  BY <1>5, <1>7, FirstPlace
<1>9. j <= i
  BY <1>6, <1>8
<1>10. j \in 1..Len(s) /\ s[j] = y
  BY <1>2, <1>4, <1>8, <1>9
<1>11. i <= j
  BY <1>4, <1>10
<1> QED BY <1>1, <1>3, <1>5, <1>9, <1>11

LEMMA PlaceOfNew ==
  ASSUME NEW S, NEW s \in Seq(S), NEW x \in S, ~Contains(s, x)
  PROVE  FirstAt(Append(s, x), x) = Len(s) + 1
<1>1. PICK t \in Seq(S) : t = Append(s, x)
  BY AppendProperties
<1>2. /\ Len(t) = Len(s) + 1 /\ Len(s) \in Nat /\ t[Len(s) + 1] = x
      /\ \A k \in 1..Len(s) : t[k] = s[k]
  BY <1>1, AppendProperties
<1>3. PICK j \in 0..Len(t) : j = FirstAt(t, x)
  BY FirstPlace
<1>4. Contains(t, x)
  BY <1>2 DEF Contains
<1>5. j # 0 /\ t[j] = x
  BY <1>3, <1>4, FirstPlace
<1>6. j \notin 1..Len(s)
  BY <1>2, <1>5 DEF Contains
<1> QED BY <1>1, <1>2, <1>3, <1>5, <1>6

KeptPlaces == \A line : Logged(line) => FirstAt(rows', line) = FirstAt(rows, line)

LEMMA RowsKeepPlaces ==
  ASSUME RowInv, rows' = rows \/ \E r \in Rows : rows' = Append(rows, r)
  PROVE  KeptPlaces
<1>1. CASE rows' = rows
  BY <1>1 DEF KeptPlaces
<1>2. CASE \E r \in Rows : rows' = Append(rows, r)
  BY <1>2, AppendKeepsPlace DEF KeptPlaces, RowInv, Logged
<1> QED BY <1>1, <1>2

\* The places of what was spoken, and of the threads that are at their voice.
LEMMA SpokenStays ==
  ASSUME RowInv, OrderInv, KeptPlaces, spoken' = spoken, ~alike
  PROVE  /\ SpokenInOrder'
         /\ \A i \in 1..Len(spoken) : FirstAt(rows', spoken[i]) = FirstAt(rows, spoken[i])
<1>1. \A i \in 1..Len(spoken) : FirstAt(rows', spoken[i]) = FirstAt(rows, spoken[i])
  BY DEF RowInv, KeptPlaces
<1> QED BY <1>1 DEF OrderInv, SpokenInOrder

\* Nothing is spoken, and one thread moves without coming to its row.
LEMMA OrderStays ==
  ASSUME RowInv, OrderInv, NEW m \in Members, Apart(m), spoken' = spoken, UNCHANGED postVars,
         KeptPlaces, Allows' => Allows, alike => alike',
         thread'[m].pc \in Starting => thread[m].pc \in Starting,
         thread'[m].pc \in Coming => thread[m].pc \in Coming,
         thread'[m].pc = "locked" => thread[m].pc \in Coming,
         thread'[m].pc \in Starting \cup Coming \cup {"locked"} => thread'[m].final = thread[m].final
  PROVE  OrderInv'
<1> SUFFICES ASSUME ~alike' PROVE SpokenInOrder' /\ SpokenBefore' /\ SpeakerBefore'
  BY DEF OrderInv
<1>1. ~alike /\ SpokenInOrder /\ SpokenBefore /\ SpeakerBefore
  BY DEF OrderInv
<1>2. /\ SpokenInOrder'
      /\ \A i \in 1..Len(spoken) : FirstAt(rows', spoken[i]) = FirstAt(rows, spoken[i])
  BY <1>1, SpokenStays
<1>3. ASSUME NEW n \in Members, thread'[n].pc \in Starting \cup Coming \cup {"locked"}
      PROVE  /\ thread'[n].pc \in Starting => thread[n].pc \in Starting
             /\ thread'[n].pc \in Coming => thread[n].pc \in Coming
             /\ thread'[n].pc = "locked" => thread[n].pc \in Coming \cup {"locked"}
             /\ FirstAt(rows', Row(n, flight', thread'[n].final)) = RowPlace(n)
  <2>1. /\ thread'[n].pc \in Starting => thread[n].pc \in Starting
        /\ thread'[n].pc \in Coming => thread[n].pc \in Coming
        /\ thread'[n].pc = "locked" => thread[n].pc \in Coming \cup {"locked"}
        /\ thread'[n].final = thread[n].final
    BY <1>3 DEF Apart
  <2>2. thread[n].pc \in LoggedPcs
    BY <1>3, <2>1 DEF LoggedPcs, VoicePcs, Starting, Coming
  <2>3. Logged(RowOf(n)) /\ Row(n, flight', thread'[n].final) = RowOf(n)
    BY <2>1, <2>2 DEF RowInv, RowOf, postVars
  <2> QED BY <2>1, <2>3 DEF KeptPlaces, RowPlace
<1>4. SpokenBefore'
  <2>1. ASSUME NEW n \in Members, MaySpeak(n)', NEW i \in 1..Len(spoken)
        PROVE  FirstAt(rows', spoken[i]) <= FirstAt(rows', Row(n, flight', thread'[n].final))
    <3>1. thread'[n].pc \in Starting \cup Coming \cup {"locked"}
      BY <2>1 DEF MaySpeak
    <3>2. MaySpeak(n)
      BY <1>3, <2>1, <3>1 DEF MaySpeak
    <3>3. FirstAt(rows, spoken[i]) <= RowPlace(n)
      BY <1>1, <3>2 DEF SpokenBefore
    <3> QED BY <1>2, <1>3, <3>1, <3>3
  <2> QED BY <2>1 DEF SpokenBefore, RowPlace, RowOf
<1>5. SpeakerBefore'
  <2>1. ASSUME Allows', NEW k \in Members, NEW n \in Members,
               thread'[k].pc \in Starting, thread'[n].pc \in Coming
        PROVE  FirstAt(rows', Row(k, flight', thread'[k].final))
                 <= FirstAt(rows', Row(n, flight', thread'[n].final))
    BY <1>1, <1>3, <2>1 DEF SpeakerBefore
  <2> QED BY <2>1 DEF SpeakerBefore, RowPlace, RowOf
<1> QED BY <1>2, <1>4, <1>5

\* A thread comes to its row: it is the last.
LEMMA OrderAppends ==
  ASSUME Base, RowInv, OrderInv, NEW m \in Members, AppendRow(m)
  PROVE  OrderInv'
<1>1. /\ thread[m].pc = "append" /\ spoken' = spoken /\ UNCHANGED postVars /\ alike' = alike
      /\ gen' = gen /\ rows' = Append(rows, RowOf(m))
      /\ Goto(m, "speak") \/ Goto(m, "rename")
  BY DEF AppendRow, At, RowOf, queueVars
<1>2. Apart(m) /\ thread'[m].pc \in Coming /\ thread'[m].final = thread[m].final
  BY <1>1, GotoMoves DEF Base, Pcs, Coming
<1>3. flight \in started /\ flight \in Nat /\ thread[m].final \in Texts
  <2>1. flight # 0 /\ thread[m].final \in Texts
    BY <1>1 DEF Base, ThreadsOK, Textless
  <2> QED BY <2>1 DEF Base, PostsOK
<1>4. RowOf(m) \in Rows /\ rows \in Seq(Rows)
  BY <1>3 DEF RowInv, Rows, RowOf, Row
<1>5. KeptPlaces
  BY <1>1, <1>4, RowsKeepPlaces
<1>6. ~Contains(rows, RowOf(m))
  BY <1>1, SMTT(20) DEF Contains, RowInv, Unlogged, RowOf, Row
<1>7. FirstAt(rows', RowOf(m)) = Len(rows) + 1
  BY <1>1, <1>4, <1>6, PlaceOfNew
<1>8. \A line : FirstAt(rows, line) <= Len(rows) + 1
  <2>1. ASSUME NEW line PROVE FirstAt(rows, line) <= Len(rows) + 1
    <3>1. FirstAt(rows, line) \in 0..Len(rows) /\ Len(rows) \in Nat
      BY <1>4, FirstPlace
    <3> QED BY <3>1
  <2> QED BY <2>1
<1> SUFFICES ASSUME ~alike' PROVE SpokenInOrder' /\ SpokenBefore' /\ SpeakerBefore'
  BY DEF OrderInv
<1>9. ~alike /\ SpokenInOrder /\ SpokenBefore /\ SpeakerBefore
  BY <1>1 DEF OrderInv
<1>10. /\ SpokenInOrder'
       /\ \A i \in 1..Len(spoken) : FirstAt(rows', spoken[i]) = FirstAt(rows, spoken[i])
  BY <1>1, <1>5, <1>9, SpokenStays
<1>11. ASSUME NEW n \in Members, n # m, thread'[n].pc \in Starting \cup Coming \cup {"locked"}
       PROVE  /\ thread'[n] = thread[n]
              /\ FirstAt(rows', Row(n, flight', thread'[n].final)) = RowPlace(n)
  <2>1. thread'[n] = thread[n] /\ thread[n].pc \in LoggedPcs
    BY <1>2, <1>11 DEF Apart, LoggedPcs, VoicePcs, Starting, Coming
  <2>2. Logged(RowOf(n)) /\ Row(n, flight', thread'[n].final) = RowOf(n)
    BY <1>1, <2>1 DEF RowInv, RowOf, postVars
  <2> QED BY <1>5, <2>1, <2>2 DEF KeptPlaces, RowPlace
<1>12. FirstAt(rows', Row(m, flight', thread'[m].final)) = Len(rows) + 1
  BY <1>1, <1>2, <1>7 DEF RowOf, postVars
<1>13. Allows' <=> Allows
  BY <1>1, AllowsStays
<1>14. SpokenBefore'
  <2>1. ASSUME NEW n \in Members, MaySpeak(n)', NEW i \in 1..Len(spoken)
        PROVE  FirstAt(rows', spoken[i]) <= FirstAt(rows', Row(n, flight', thread'[n].final))
    <3>1. CASE n = m
      BY <1>8, <1>10, <1>12, <3>1
    <3>2. CASE n # m
      <4>1. thread'[n].pc \in Starting \cup Coming \cup {"locked"}
        BY <2>1 DEF MaySpeak
      <4>2. MaySpeak(n)
        BY <1>11, <1>13, <2>1, <3>2, <4>1 DEF MaySpeak
      <4>3. FirstAt(rows, spoken[i]) <= RowPlace(n)
        BY <1>9, <4>2 DEF SpokenBefore
      <4> QED BY <1>10, <1>11, <3>2, <4>1, <4>3
    <3> QED BY <3>1, <3>2
  <2> QED BY <1>1, <2>1 DEF SpokenBefore, RowPlace, RowOf
<1>15. SpeakerBefore'
  <2>1. ASSUME Allows', NEW k \in Members, NEW n \in Members,
               thread'[k].pc \in Starting, thread'[n].pc \in Coming
        PROVE  FirstAt(rows', Row(k, flight', thread'[k].final))
                 <= FirstAt(rows', Row(n, flight', thread'[n].final))
    <3>1. k # m
      BY <1>2, <2>1 DEF Starting, Coming
    <3>2. CASE n = m
      BY <1>8, <1>11, <1>12, <2>1, <3>1, <3>2 DEF RowPlace
    <3>3. CASE n # m
      BY <1>9, <1>11, <1>13, <2>1, <3>1, <3>3 DEF SpeakerBefore
    <3> QED BY <3>2, <3>3
  <2> QED BY <2>1 DEF SpeakerBefore, RowPlace, RowOf
<1> QED BY <1>10, <1>14, <1>15

\* The thread whose clip is claimed was alone in the front.
LEMMA OrderClaims ==
  ASSUME Base, QueueInv, RowInv, FrontInv, OrderInv, NEW m \in Members, Claim(m), Goto(m, "claimed"), Allows
  PROVE  OrderInv'
<1>1. /\ thread[m].pc = "locked" /\ spoken' = spoken /\ UNCHANGED postVars /\ alike' = alike
      /\ gen' = gen /\ rows' = rows
  BY DEF Claim, At, logVars
<1>2. Apart(m) /\ thread'[m].pc = "claimed" /\ thread'[m].final = thread[m].final
  BY GotoMoves DEF Base, Pcs
<1> SUFFICES ASSUME ~alike' PROVE SpokenInOrder' /\ SpokenBefore' /\ SpeakerBefore'
  BY DEF OrderInv
<1>3. ~alike /\ SpokenInOrder /\ SpokenBefore /\ SpeakerBefore
  BY <1>1 DEF OrderInv
<1>4. Allows'
  BY <1>1, AllowsStays
<1>5. ASSUME NEW n \in Members PROVE (MaySpeak(n)' => MaySpeak(n)) /\ RowOf(n)' = RowOf(n)
  BY <1>1, <1>2 DEF Apart, MaySpeak, Starting, RowOf, postVars
<1>6. SpokenBefore'
  BY <1>1, <1>3, <1>5 DEF SpokenBefore, RowPlace
<1>7. ASSUME NEW n \in Members PROVE thread'[n].pc \notin Coming
  <2>1. CASE n = m
    BY <1>2, <2>1 DEF Coming
  <2>2. CASE n # m
    <3>1. thread[n].pc \notin FrontPcs
      BY <1>1, <1>3, <2>2, FrontAlone DEF FrontPcs
    <3> QED BY <1>2, <2>2, <3>1 DEF Apart, FrontPcs, Coming
  <2> QED BY <2>1, <2>2
<1> QED BY <1>1, <1>3, <1>6, <1>7 DEF SpokenInOrder, SpeakerBefore

LEMMA OrderSpoken ==
  ASSUME Base, RowInv, OrderInv, NEW m \in Members, Spawn(m)
  PROVE  OrderInv'
<1>1. /\ thread[m].pc \in {"stream", "whole"} /\ rows' = rows /\ UNCHANGED postVars
      /\ spoken' = Append(spoken, RowOf(m)) /\ alike' = alike /\ gen' = gen
      /\ Goto(m, "heard") \/ Goto(m, "heardWhole")
  BY DEF Spawn, At, RowOf, queueVars
<1>2. Apart(m) /\ thread'[m].pc \in {"heard", "heardWhole"} /\ thread'[m].final = thread[m].final
  BY <1>1, GotoMoves DEF Base, Pcs
<1>3. RowOf(m) \in Rows /\ spoken \in Seq(Rows)
  BY RowSpoken DEF RowInv
<1>4. /\ Len(spoken') = Len(spoken) + 1 /\ Len(spoken) \in Nat
      /\ \A i \in 1..Len(spoken) : spoken'[i] = spoken[i]
      /\ spoken'[Len(spoken) + 1] = RowOf(m)
  BY <1>1, <1>3, AppendProperties
<1>5. \A i \in 1..Len(spoken') : i \in 1..Len(spoken) \/ i = Len(spoken) + 1
  BY <1>4
<1> SUFFICES ASSUME ~alike' PROVE SpokenInOrder' /\ SpokenBefore' /\ SpeakerBefore'
  BY DEF OrderInv
<1>6. ~alike /\ SpokenInOrder /\ SpokenBefore /\ SpeakerBefore
  BY <1>1 DEF OrderInv
<1>7. \A i \in 1..Len(spoken) : FirstAt(rows, spoken[i]) <= RowPlace(m)
  BY <1>1, <1>6 DEF SpokenBefore, MaySpeak, Starting
<1>8. \A line : FirstAt(rows, line) \in Nat
  <2>1. ASSUME NEW line PROVE FirstAt(rows, line) \in Nat
    BY FirstPlace DEF RowInv
  <2> QED BY <2>1
<1>9. SpokenInOrder'
  <2>1. ASSUME NEW i \in 1..Len(spoken'), NEW j \in 1..Len(spoken'), i < j
        PROVE  FirstAt(rows, spoken'[i]) <= FirstAt(rows, spoken'[j])
    <3>1. i \in 1..Len(spoken)
      BY <1>4, <2>1
    <3>2. CASE j \in 1..Len(spoken)
      BY <1>4, <1>6, <2>1, <3>1, <3>2 DEF SpokenInOrder
    <3>3. CASE j = Len(spoken) + 1
      BY <1>4, <1>7, <3>1, <3>3 DEF RowPlace
    <3> QED BY <1>5, <3>2, <3>3
  <2> QED BY <1>1, <2>1 DEF SpokenInOrder
<1>10. ASSUME NEW n \in Members PROVE RowOf(n)' = RowOf(n)
  BY <1>1, <1>2 DEF Apart, RowOf, postVars
<1>11. SpokenBefore'
  <2>1. ASSUME NEW n \in Members, MaySpeak(n)', NEW i \in 1..Len(spoken')
        PROVE  FirstAt(rows, spoken'[i]) <= RowPlace(n)
    <3>1. CASE n = m
      BY <1>4, <1>5, <1>7, <1>8, <3>1 DEF RowPlace
    <3>2. CASE n # m
      <4>1. thread'[n] = thread[n] /\ thread[n].pc \notin VoicePcs /\ (Allows' <=> Allows)
        BY <1>1, <1>2, <3>2, OneVoice, AllowsStays DEF Apart, VoicePcs
      <4>2. Allows /\ thread[n].pc \in Coming
        BY <2>1, <4>1 DEF MaySpeak, Starting, VoicePcs
      <4>3. MaySpeak(n) /\ RowPlace(m) <= RowPlace(n)
        BY <1>1, <1>6, <4>2 DEF MaySpeak, SpeakerBefore, Starting
      <4>4. \A k \in 1..Len(spoken) : FirstAt(rows, spoken[k]) <= RowPlace(n)
        BY <1>6, <4>3 DEF SpokenBefore
      <4> QED BY <1>4, <1>5, <4>3, <4>4 DEF RowPlace
    <3> QED BY <3>1, <3>2
  <2> QED BY <1>1, <1>10, <2>1 DEF SpokenBefore, RowPlace
<1>12. SpeakerBefore'
  <2>1. \A n \in Members : thread'[n].pc \in Starting \cup Coming =>
          \/ thread'[n] = thread[n]
          \/ n = m /\ thread'[n].pc \in Starting /\ thread[n].pc \in Starting
    BY <1>1, <1>2 DEF Apart, Starting, Coming
  <2>2. Allows' <=> Allows
    BY <1>1, AllowsStays
  <2>3. \A n \in Members : /\ thread'[n].pc \in Starting => thread[n].pc \in Starting
                           /\ thread'[n].pc \in Coming => thread[n].pc \in Coming
    BY <2>1 DEF Starting, Coming
  <2> QED BY <1>1, <1>6, <1>10, <2>2, <2>3 DEF SpeakerBefore, RowPlace
<1> QED BY <1>9, <1>11, <1>12

LEMMA OrderOfPosts ==
  ASSUME Base, OrderInv, PostRoom \/ (\E k \in DOMAIN stamps : StartFanout(k)) \/ EndFanout
  PROVE  OrderInv'
<1>1. rows' = rows /\ spoken' = spoken /\ alike' = alike /\ gen' = gen
  BY DEF PostRoom, StartFanout, EndFanout, queueVars, logVars
<1>2. CASE PostRoom
  <2>1. thread' = thread /\ flight' = flight /\ stamps' = Append(stamps, gen)
    BY <1>2 DEF PostRoom
  <2>2. Stamp' = Stamp
    BY <2>1 DEF Stamp, Base, PostsOK
  <2> QED BY <1>1, <2>1, <2>2
    DEF OrderInv, SpokenInOrder, SpokenBefore, SpeakerBefore, MaySpeak, RowPlace, RowOf, Allows
<1>3. CASE ~PostRoom
  <2>1. \A m \in Members : thread'[m].pc \in {"ready", "off"}
    BY <1>3 DEF StartFanout, EndFanout, Nobody, At
  <2>2. \A m \in Members : ~MaySpeak(m)' /\ thread'[m].pc \notin Starting
    BY <2>1 DEF MaySpeak, Starting, Coming
  <2> QED BY <1>1, <2>2 DEF OrderInv, SpokenInOrder, SpokenBefore, SpeakerBefore
<1> QED BY <1>2, <1>3

LEMMA OrderStep ==
  ASSUME Base, QueueInv, RowInv, FrontInv, OrderInv, [Next]_vars
  PROVE  OrderInv'
<1> USE DEF At
<1>0. ThreadsOK
  BY DEF Base
<1>1. CASE UNCHANGED <<thread, rows, spoken, alike>> /\ UNCHANGED postVars /\ (Allows' => Allows)
  BY <1>1 DEF OrderInv, SpokenInOrder, SpokenBefore, SpeakerBefore, MaySpeak, RowPlace, RowOf, postVars
<1>2. rows' = rows => KeptPlaces
  BY RowsKeepPlaces
<1>3. ASSUME NEW m \in Members, NEW pc \in Pcs, Goto(m, pc), rows' = rows, spoken' = spoken,
             alike => alike', gen' = gen, UNCHANGED postVars,
             pc \in Starting => thread[m].pc \in Starting,
             pc \in Coming => thread[m].pc \in Coming,
             pc = "locked" => thread[m].pc \in Coming
      PROVE  OrderInv'
  BY <1>0, <1>2, <1>3, GotoMoves, AllowsStays, OrderStays
<1>4. ASSUME NEW m \in Members, Leave(m), KeptPlaces, spoken' = spoken, alike => alike',
             gen' = gen, UNCHANGED postVars
      PROVE  OrderInv'
  <2>1. Apart(m) /\ thread'[m].pc \notin Starting \cup Coming \cup {"locked"}
    BY <1>0, <1>4, LeaveMoves DEF Starting, Coming
  <2> QED BY <1>4, <2>1, AllowsStays, OrderStays
<1>5. ASSUME NEW m \in Members, NEW text \in Texts, Reply(m, text) PROVE OrderInv'
  <2>1. Apart(m) /\ thread'[m].pc = "staged"
    BY <1>0, <1>5 DEF Reply, ThreadsOK, Apart
  <2> QED BY <1>2, <1>5, <2>1, AllowsStays, OrderStays DEF Reply, Starting, Coming, logVars
<1>6. ASSUME NEW m \in Members,
             Ask(m) \/ ReplyPrivately(m) \/ StayQuiet(m) \/ ClaimAndRecord(m) \/ Enqueue(m)
      PROVE  OrderInv'
  <2>1. /\ \/ Leave(m) \/ Goto(m, "asked") \/ Goto(m, "note")
           \/ Goto(m, "recorded") \/ Goto(m, "queued")
        /\ rows' = rows /\ spoken' = spoken /\ gen' = gen /\ UNCHANGED postVars
        /\ alike => alike'
    BY <1>6 DEF Ask, ReplyPrivately, StayQuiet, ClaimAndRecord, Enqueue, logVars, queueVars
  <2> QED BY <1>2, <1>3, <1>4, <2>1 DEF Pcs, Starting, Coming
<1>7. ASSUME NEW m \in Members, SendNote(m) PROVE OrderInv'
  <2>1. rows' = rows \/ rows' = Append(rows, Row(m, flight, Note))
    BY <1>7 DEF SendNote
  <2>2. flight \in Nat
    BY DEF Base, PostsOK
  <2>3. Row(m, flight, Note) \in Rows
    BY <2>2 DEF Row, Rows
  <2>4. KeptPlaces
    BY <2>1, <2>3, RowsKeepPlaces
  <2> QED BY <1>4, <1>7, <2>4 DEF SendNote, queueVars
<1>8. ASSUME NEW m \in Members, FindGone(m) \/ GiveUp(m) \/ AskAgain(m) \/ LogFails(m) \/ Lock(m)
      PROVE  OrderInv'
  BY <1>2, <1>3, <1>4, <1>8 DEF FindGone, GiveUp, AskAgain, LogFails, Lock,
     Pcs, Starting, Coming, logVars, queueVars
<1>9. ASSUME NEW m \in Members, Apart(m), thread'[m].pc = "append",
             rows' = rows, spoken' = spoken, alike' = alike, gen' = gen, UNCHANGED postVars
      PROVE  OrderInv'
  BY <1>2, <1>9, AllowsStays, OrderStays DEF Starting, Coming
<1>10. ASSUME NEW m \in Members, Wait(m) PROVE OrderInv'
  <2>1. rows' = rows /\ spoken' = spoken /\ alike' = alike /\ gen' = gen /\ UNCHANGED postVars
    BY <1>10 DEF Wait, logVars
  <2>2. Leave(m) \/ Goto(m, "note") \/ (Apart(m) /\ thread'[m].pc = "append")
    BY <1>0, <1>10 DEF Wait, Decide, ThreadsOK, Threads, Apart
  <2>3. CASE Leave(m)
    BY <1>2, <1>4, <2>1, <2>3
  <2>4. CASE Goto(m, "note")
    BY <1>3, <2>1, <2>4 DEF Pcs, Starting, Coming
  <2> QED BY <1>9, <2>1, <2>2, <2>3, <2>4
<1>11. ASSUME NEW m \in Members, Rename(m) PROVE OrderInv'
  <2>0. /\ alike => alike'
        /\ rows' = rows /\ spoken' = spoken /\ gen' = gen /\ UNCHANGED postVars
    BY <1>11 DEF Rename
  <2>1. CASE Leave(m)
    BY <1>2, <1>4, <2>0, <2>1
  <2>2. CASE thread' = [thread EXCEPT ![m].pc = "speak", ![m].clip = thread[m].final]
    <3>1. Apart(m) /\ thread'[m].pc = "speak" /\ thread'[m].final = thread[m].final
      BY <1>0, <2>2 DEF ThreadsOK, Threads, Apart
    <3>2. thread[m].pc \in Coming /\ KeptPlaces /\ (Allows' => Allows)
      BY <1>2, <1>11, <2>0, AllowsStays DEF Rename, Coming
    <3> QED BY <2>0, <3>1, <3>2, OrderStays DEF Starting, Coming
  <2> QED BY <1>11, <2>1, <2>2 DEF Rename
<1>12. ASSUME NEW m \in Members, Claim(m) PROVE OrderInv'
  BY <1>2, <1>4, <1>12, OrderClaims DEF Claim, Unlock, logVars
<1>13. ASSUME NEW m \in Members, Synthesize(m) \/ CannotSpeak(m) \/ SpawnFails(m) \/ Remember(m)
       PROVE  OrderInv'
  BY <1>2, <1>3, <1>4, <1>13 DEF Synthesize, CannotSpeak, SpawnFails, Remember, Unlock, Attempt,
     Pcs, Starting, Coming, logVars, queueVars
<1>14. ASSUME NEW m \in Members, StreamEnds(m) \/ StreamBreaks(m) \/ AfterStart(m) \/ Finish(m)
       PROVE  OrderInv'
  BY <1>2, <1>3, <1>4, <1>14 DEF StreamEnds, StreamBreaks, AfterStart, Finish, Unlock,
     Pcs, Starting, Coming, logVars, queueVars
<1>15. CASE Clear
  <2>1. ~Allows'
    <3>1. Stamp \in Nat /\ Stamp <= gen /\ gen \in Nat
      BY DEF Stamp, Base, PostsOK
    <3>2. Stamp' = Stamp /\ gen' = gen + 1
      BY <1>15 DEF Clear, Stamp, postVars
    <3> QED BY <3>1, <3>2 DEF Allows
  <2> QED BY <1>1, <1>15, <2>1 DEF Clear, logVars
<1>16. CASE CheckStep \/ SoundStep \/ BargeIn \/ SpeechStarted \/ InterruptAfterClear \/ UNCHANGED vars
  <2>1. UNCHANGED <<thread, rows, spoken, alike, gen>> /\ UNCHANGED postVars
    BY <1>16 DEF CheckStep, TakeRequest, AnswerRequest, SoundStep, PlayerEnds, Reap, GraceEnds,
       BargeIn, SpeechStarted, InterruptAfterClear, vars, logVars, queueVars
  <2> QED BY <1>1, <2>1, AllowsStays
<1> HIDE DEF At
<1> QED
  BY <1>5, <1>6, <1>7, <1>8, <1>10, <1>11, <1>12, <1>13, <1>14, <1>15, <1>16,
     OrderAppends, OrderSpoken, OrderOfPosts
  DEF Next, RoomStep, ClearStep, Turn, Queued, Voice

-------------------------------------------------------------------------------
RoomInv == Base /\ QueueInv /\ SoundInv /\ RowInv /\ FrontInv /\ OrderInv

LEMMA InitRoomInv == Init => RoomInv
  BY BaseInit, QueueInit, SoundInit, RowInit, FrontInit, OrderInit DEF RoomInv

LEMMA NextRoomInv == RoomInv /\ [Next]_vars => RoomInv'
<1> SUFFICES ASSUME RoomInv, [Next]_vars PROVE RoomInv'
  OBVIOUS
<1> QED BY BaseStep, QueueStep, SoundInvStep, RowStep, FrontStep, OrderStep DEF RoomInv

LEMMA OrderIsHeard == RoomInv => HeardAsLogged
<1> SUFFICES ASSUME RoomInv PROVE HeardAsLogged
  OBVIOUS
<1>1. RowInv /\ OrderInv
  BY DEF RoomInv
<1>2. DOMAIN rows = 1..Len(rows) /\ DOMAIN spoken = 1..Len(spoken)
  BY <1>1 DEF RowInv
<1>3. \A line : RowAt(line) = FirstAt(rows, line)
  BY DEF RowAt, FirstAt
<1>4. \A i \in 1..Len(spoken) : RowAt(spoken[i]) # 0
  <2>1. ASSUME NEW i \in 1..Len(spoken) PROVE FirstAt(rows, spoken[i]) # 0
    BY <1>1, FirstPlace DEF RowInv, Logged
  <2> QED BY <1>3, <2>1
<1> QED BY <1>1, <1>2, <1>3, <1>4 DEF HeardAsLogged, RowInv, OrderInv, SpokenInOrder

LEMMA RoomInvHolds == Spec => []RoomInv
  BY InitRoomInv, NextRoomInv, PTL DEF Spec

\* Every variable keeps its shape, the generation and the post numbers their bounds.
THEOREM RoomTyped == Spec => []TypeOK
<1>1. RoomInv => TypeOK
  BY BaseIsTyped DEF RoomInv
<1> QED BY <1>1, RoomInvHolds, PTL

\* In the queue of the generation that runs (room_recheck.rs), each clip has its thread
\* of team.rs, or that thread gave up on its re-check; a clip is found by its text, and
\* no two threads find the same one.
THEOREM ClipsAreDriven == Spec => []EveryClipIsDriven
<1>1. RoomInv => EveryClipIsDriven
  BY DEF RoomInv, QueueInv
<1> QED BY <1>1, RoomInvHolds, PTL

\* A player of a generation that was cleared is about to be killed: by the barge-in that
\* cleared it (interrupt_playback), or by its thread, which looks at the generation after
\* the player has started (team.rs).
THEOREM VoicesDie == Spec => []StaleVoiceDies
<1>1. RoomInv => StaleVoiceDies
  BY SoundIsSafe DEF RoomInv
<1> QED BY <1>1, RoomInvHolds, PTL

\* What is heard has its row in the room's log, one for each member and post, in the order
\* of the rows (team.rs appends the row before it speaks the clip).
THEOREM HeardInOrder == Spec => []HeardAsLogged
  BY OrderIsHeard, RoomInvHolds, PTL

===============================================================================
