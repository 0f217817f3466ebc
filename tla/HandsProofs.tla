---------------------------- MODULE HandsProofs ----------------------------
(***************************************************************************)
(* What dispatch guarantees for every set of profiles, every tools.json    *)
(* and every number of confirmations.  The properties are inductive once   *)
(* it is known which ids have been issued: an id above next_pending has    *)
(* neither run nor gone, and the waiting id has been issued (IdsIssued).   *)
(*                                                                         *)
(* A call is followed in three parts: what request may leave               *)
(* (RequestSound), what applying an effect may leave (AppliedSound), and   *)
(* what both together mean for the invariant (ChatStep).                   *)
(*                                                                         *)
(* Whose turn a call runs in follows from the acting profile being the     *)
(* active one while the daemon is awake (Pinned).                          *)
(***************************************************************************)
EXTENDS Hands, TLAPS

Issued(i) == i \in PendingId /\ i <= hands.next_pending

IdsIssued ==
  /\ \A i \in gone : Issued(i)
  /\ \A i \in PendingId : runs[i] # 0 => Issued(i)
  /\ hands.pending # None => Issued(hands.pending.id)

RunSafe(r) ==
  r # NoRun =>
    /\ r.state = "Awake"
    /\ r.grant # "Deny"
    /\ r.call \in {"software_install", "shell_install"} =>
         \/ r.how = "confirmed"
         \/ r.call = "software_install" /\ r.grant = "AlwaysAllow"

IInv ==
  /\ TypeOK
  /\ RunSafe(run)
  /\ hands.pending # None => state = "Awake"
  /\ IdsIssued
  /\ ConfirmRunsOnce

USE HandsAssumption, CallAssumption

-----------------------------------------------------------------------------
\* tools.json gives each tool of a call a permission.
LEMMA SettingsType ==
  ASSUME TypeOK, NEW call \in Call
  PROVE  settings[ToolOf(call)] \in Permission
  BY DEF TypeOK, ToolOf, Call, CtlCall, Tool

\* A call leaves a Hands value, adds at most one record under a fresh id, and
\* runs nothing that is not allowed.
RequestSoundFor(h, out) ==
  /\ out.hands \in HandsState
  /\ RunSafe(out.run)
  /\ \/ out.hands.pending = h.pending /\ out.hands.next_pending = h.next_pending
     \/ /\ state = "Awake"
        /\ out.hands.pending \in Pending
        /\ out.hands.pending.id = h.next_pending + 1
        /\ out.hands.next_pending = h.next_pending + 1

LEMMA RequestSound ==
  ASSUME TypeOK, RunSafe(run), NEW h \in HandsState, NEW call \in Call, NEW for,
         NEW out \in RequestOutcomes(h, call, for)
  PROVE  RequestSoundFor(h, out)
<1>1. settings[ToolOf(call)] \in Permission
  BY SettingsType
<1>2. Executed(h, call) \in HandsState
  BY DEF Executed, HandsState, Call, CtlCall
<1>3. /\ Executed(h, call).pending = h.pending
      /\ Executed(h, call).next_pending = h.next_pending
  BY DEF Executed, HandsState, Call, CtlCall
<1>4. CASE out = [hands |-> h, run |-> run]
  BY <1>4 DEF RequestSoundFor
<1>5. CASE RunsNow(h, call) /\ out = [hands |-> Executed(h, call),
                                      run |-> Run(h, call, "always", for)]
  <2>1. settings[ToolOf(call)] # "Deny"
    BY <1>1, <1>5 DEF RunsNow, Decision, Grant, Permission
  <2>2. call = "software_install" => settings[ToolOf(call)] = "AlwaysAllow"
    <3> SUFFICES ASSUME call = "software_install"
                 PROVE  settings[ToolOf(call)] = "AlwaysAllow"
      OBVIOUS
    <3>1. ToolOf(call) = "software_install"
      BY DEF ToolOf, CtlCall
    <3>2. QED
      BY <3>1, <1>1, <1>5 DEF RunsNow, Decision, Grant, Permission
  <2>3. RunSafe(out.run)
    BY <1>5, <2>1, <2>2 DEF RunSafe, Run, RunsNow
  <2>4. QED
    BY <1>5, <1>2, <1>3, <2>3 DEF RequestSoundFor
<1>6. CASE RunsQuietly(h, call) /\ out = [hands |-> h,
                                          run |-> Run(h, call, "quiet", for)]
  <2>1. settings[ToolOf(call)] # "Deny"
    BY <1>1, <1>6 DEF RunsQuietly, Decision, Grant, Permission
  <2>2. RunSafe(out.run)
    BY <1>6, <2>1 DEF RunSafe, Run, RunsQuietly
  <2>3. QED
    BY <1>6, <2>2 DEF RequestSoundFor
<1>7. CASE Stages(h, call) /\ out = [hands |-> Staged(h, call), run |-> run]
  <2> DEFINE name == IF call = "shell_install" THEN "software_install" ELSE call
             new == [id |-> h.next_pending + 1, name |-> name]
  <2>1. h.next_pending \in 0..MaxPending /\ h.next_pending < MaxPending
    BY <1>7 DEF Stages, HandsState
  <2>2. new \in Pending /\ h.next_pending + 1 \in 0..MaxPending
    BY <2>1 DEF Pending, PendingId, Call
  <2>3. Staged(h, call) = [h EXCEPT !.next_pending = h.next_pending + 1, !.pending = new]
    BY DEF Staged, HandsState
  <2>4. /\ Staged(h, call) \in HandsState
        /\ Staged(h, call).pending = new
        /\ Staged(h, call).next_pending = h.next_pending + 1
    BY <2>2, <2>3 DEF HandsState
  <2>5. QED
    BY <1>7, <2>2, <2>4 DEF RequestSoundFor, Stages
<1>8. QED
  BY <1>4, <1>5, <1>6, <1>7 DEF RequestOutcomes

\* Applying an effect keeps the waiting record or, when it ends awake, drops
\* it; it issues no id.
AppliedSoundFor(h, end) ==
  /\ end.hands \in HandsState
  /\ end.state \in {"Sleep", "Awake"}
  /\ end.active \in Profile
  /\ end.hands.next_pending = h.next_pending
  /\ \/ end.hands.pending = h.pending /\ end.state = state
     \/ end.hands.pending = None

\* Pinning a profile changes neither the record nor the counter.
LEMMA ActingSound ==
  ASSUME NEW h \in HandsState, NEW p \in Profile
  PROVE  /\ Acting(h, p) \in HandsState
         /\ Acting(h, p).pending = h.pending
         /\ Acting(h, p).next_pending = h.next_pending
<1>1. CASE p \in AllowAll
  <2>1. Acting(h, p) = [h EXCEPT !.acting_profile_id = p, !.acting_allow_all = TRUE]
    BY <1>1, Zenon DEF Acting
  <2>2. QED
    BY <2>1 DEF HandsState
<1>2. CASE p \notin AllowAll
  <2>1. Acting(h, p) = [h EXCEPT !.acting_profile_id = p, !.acting_allow_all = FALSE]
    <3>1. (p \in AllowAll) = FALSE
      BY <1>2
    <3>2. QED
      BY <3>1, Zenon DEF Acting
  <2>2. QED
    BY <2>1 DEF HandsState
<1>3. QED
  BY <1>1, <1>2

LEMMA DrainedSound ==
  ASSUME TypeOK, NEW h \in HandsState, NEW end \in Drained(h)
  PROVE  AppliedSoundFor(h, end)
<1> DEFINE g == EffectTaken(h)
           same == [hands |-> g, state |-> state, active |-> active]
           clear == [same EXCEPT !.hands = ClearPending(g), !.state = "Sleep"]
<1>1. g \in HandsState /\ g.pending = h.pending /\ g.next_pending = h.next_pending
  BY DEF EffectTaken, HandsState
<1>2. /\ ClearPending(g) \in HandsState
      /\ ClearPending(g).pending = None
      /\ ClearPending(g).next_pending = g.next_pending
  BY <1>1 DEF ClearPending, HandsState
<1>3. CASE end = same
  BY <1>1, <1>3 DEF AppliedSoundFor, TypeOK
<1>4. CASE end = clear
  BY <1>1, <1>2, <1>4 DEF AppliedSoundFor, TypeOK
<1>5. CASE \E p \in Profile : end = [same EXCEPT !.hands = Acting(g, p), !.active = p]
  BY <1>1, <1>5, ActingSound DEF AppliedSoundFor, TypeOK
<1>6. CASE \E p \in Profile : end = [same EXCEPT !.active = p]
  BY <1>1, <1>6 DEF AppliedSoundFor, TypeOK
<1>7. QED
  <2>1. CASE EffectOf(h) = "softwake_sleep" /\ state = "Awake"
    BY <2>1, <1>3, <1>4 DEF Drained, Applied
  <2>2. CASE EffectOf(h) = "softwake_set_profile" /\ state = "Awake"
    BY <2>2, <1>5 DEF Drained, Applied
  <2>3. CASE EffectOf(h) = "softwake_set_profile" /\ state # "Awake"
    BY <2>3, <1>6 DEF Drained, Applied
  <2>4. CASE /\ ~(EffectOf(h) = "softwake_sleep" /\ state = "Awake")
             /\ EffectOf(h) # "softwake_set_profile"
    BY <2>4, <1>3 DEF Drained, Applied
  <2>5. QED
    BY <2>1, <2>2, <2>3, <2>4

-----------------------------------------------------------------------------
\* A Hands that keeps or drops the record, or waits under the next id, keeps
\* the bookkeeping of ids when no id runs.
LEMMA IdsKept ==
  ASSUME IInv, NEW h \in HandsState, hands' = h, Gone(h), runs' = runs,
         \/ h.next_pending = hands.next_pending /\ h.pending \in {hands.pending, None}
         \/ /\ h.next_pending = hands.next_pending + 1
            /\ h.pending = None \/ h.pending.id = hands.next_pending + 1
  PROVE  /\ IdsIssued'
         /\ ConfirmRunsOnce'
         /\ gone' \subseteq PendingId
<1>1. hands \in HandsState /\ hands.next_pending \in Nat /\ h.next_pending \in Nat
  BY DEF IInv, TypeOK, HandsState
<1>2. hands.pending # None => hands.pending.id \in PendingId
  BY <1>1 DEF HandsState, Pending
<1>3. h.pending # None => h.pending.id \in PendingId
  BY DEF HandsState, Pending
<1>4. \A i \in gone' : i \in gone \/ (hands.pending # None /\ i = hands.pending.id)
  BY DEF Gone
<1>5. gone' \subseteq PendingId
  BY <1>2, <1>4 DEF IInv, TypeOK
<1>6. hands.next_pending <= h.next_pending
  BY <1>1
<1>7. IdsIssued'
  BY <1>1, <1>2, <1>3, <1>4, <1>6 DEF IInv, IdsIssued, Issued, PendingId
<1>8. ConfirmRunsOnce'
  <2> SUFFICES ASSUME NEW i \in PendingId
               PROVE  /\ runs[i] <= 1
                      /\ runs[i] = 1 => i \notin gone'
                      /\ (h.pending # None /\ h.pending.id = i) =>
                           runs[i] = 0 /\ i \notin gone'
    BY DEF ConfirmRunsOnce
  <2>1. runs[i] <= 1 /\ runs[i] \in Nat
    BY DEF IInv, TypeOK, ConfirmRunsOnce
  <2>2. runs[i] = 1 => i \notin gone'
    BY <1>4, <2>1 DEF IInv, ConfirmRunsOnce
  <2>3. ASSUME h.pending # None, h.pending.id = i PROVE runs[i] = 0 /\ i \notin gone'
    <3>1. CASE h.pending = hands.pending
      <4>1. gone' = gone
        BY <3>1 DEF Gone
      <4>2. QED
        BY <2>3, <3>1, <4>1 DEF IInv, ConfirmRunsOnce
    <3>2. CASE i = hands.next_pending + 1
      BY <1>1, <1>4, <2>1, <3>2 DEF IInv, IdsIssued, Issued, PendingId
    <3>3. QED
      BY <2>3, <3>1, <3>2
  <2>4. QED
    BY <2>1, <2>2, <2>3
<1>9. QED
  BY <1>5, <1>7, <1>8

\* The owner of the waiting record is known whenever there is one.
LEMMA OwnerType ==
  ASSUME TypeOK, NEW h, NEW p \in Profile, Owner(h, p)
  PROVE  owner' \in Profile \cup {None}
  BY DEF TypeOK, Owner

\* A model call, made with the acting fields of Hands at most changed and
\* answered with its effect, keeps the invariant; so does a restore.
LEMMA ChatStep ==
  ASSUME IInv, NEW h \in HandsState, h.pending = hands.pending,
         h.next_pending = hands.next_pending, NEW call \in Call,
         NEW p \in Profile, NEW out \in RequestOutcomes(h, call, p),
         NEW end \in Drained(out.hands), NEW last \in HandsState,
         last.pending = end.hands.pending,
         last.next_pending = end.hands.next_pending,
         hands' = last, Answered(p, out, end)
  PROVE  IInv'
<1>1. RequestSoundFor(h, out)
  BY RequestSound DEF IInv
<1>2. AppliedSoundFor(out.hands, end)
  BY <1>1, DrainedSound DEF IInv, RequestSoundFor
<1>3. Gone(last) /\ runs' = runs
  BY DEF Answered, Gone
<1>4. \/ last.next_pending = hands.next_pending /\ last.pending \in {hands.pending, None}
      \/ /\ last.next_pending = hands.next_pending + 1
         /\ last.pending = None \/ last.pending.id = hands.next_pending + 1
  BY <1>1, <1>2 DEF RequestSoundFor, AppliedSoundFor
<1>5. /\ IdsIssued' /\ ConfirmRunsOnce' /\ gone' \subseteq PendingId
  BY <1>3, <1>4, IdsKept
<1>6. TypeOK'
  BY <1>2, <1>5, OwnerType DEF IInv, TypeOK, Answered, AppliedSoundFor
<1>7. RunSafe(run)'
  BY <1>1 DEF Answered, RequestSoundFor, RunSafe
<1>8. hands'.pending # None => state' = "Awake"
  BY <1>1, <1>2 DEF IInv, Answered, RequestSoundFor, AppliedSoundFor
<1>9. QED
  BY <1>5, <1>6, <1>7, <1>8 DEF IInv

\* A tool frame is a request whose effect stays behind.
LEMMA InvokeToolStep ==
  ASSUME IInv, NEW call \in Call, InvokeTool(call)
  PROVE  IInv'
<1>1. hands \in HandsState /\ active \in Profile
  BY DEF IInv, TypeOK
<1>2. PICK out \in RequestOutcomes(hands, call, active) :
        hands' = out.hands /\ run' = out.run /\ Gone(out.hands) /\ Owner(out.hands, active)
  BY DEF InvokeTool
<1>3. RequestSoundFor(hands, out)
  BY <1>1, RequestSound DEF IInv
<1>4. IdsIssued' /\ ConfirmRunsOnce' /\ gone' \subseteq PendingId
  BY <1>2, <1>3, IdsKept DEF RequestSoundFor, InvokeTool
<1>5. TypeOK'
  BY <1>1, <1>2, <1>3, <1>4, OwnerType DEF IInv, TypeOK, InvokeTool, RequestSoundFor
<1>6. RunSafe(run)' /\ (hands'.pending # None => state' = "Awake")
  BY <1>2, <1>3 DEF IInv, InvokeTool, RequestSoundFor, RunSafe
<1>7. QED
  BY <1>4, <1>5, <1>6 DEF IInv

LEMMA ChatCallStep ==
  ASSUME IInv, NEW call \in Call, ChatCall(call)
  PROVE  IInv'
<1>1. hands \in HandsState /\ active \in Profile
  BY DEF IInv, TypeOK
<1>2. PICK out \in RequestOutcomes(hands, call, active) : \E end \in Drained(out.hands) :
        hands' = end.hands /\ Answered(active, out, end)
  BY DEF ChatCall
<1>3. PICK end \in Drained(out.hands) :
        hands' = end.hands /\ Answered(active, out, end)
  BY <1>2
<1>4. RequestSoundFor(hands, out)
  BY <1>1, RequestSound DEF IInv
<1>5. AppliedSoundFor(out.hands, end)
  BY <1>4, DrainedSound DEF IInv, RequestSoundFor
<1>6. QED
  BY <1>1, <1>3, <1>5, ChatStep DEF AppliedSoundFor

LEMMA PeerCallStep ==
  ASSUME IInv, NEW p \in Profile, NEW call \in Call, PeerCall(p, call)
  PROVE  IInv'
<1>1. hands \in HandsState
  BY DEF IInv, TypeOK
<1> DEFINE h == Acting(hands, p)
<1>2. h \in HandsState /\ h.pending = hands.pending /\ h.next_pending = hands.next_pending
  BY <1>1, ActingSound
<1> HIDE DEF h
<1>3. PICK out \in RequestOutcomes(h, call, p) : \E end \in Drained(out.hands) :
        hands' = Restored(end.hands) /\ Answered(p, out, end)
  BY DEF PeerCall, h
<1>4. PICK end \in Drained(out.hands) :
        hands' = Restored(end.hands) /\ Answered(p, out, end)
  BY <1>3
<1>5. RequestSoundFor(h, out)
  BY <1>2, RequestSound DEF IInv
<1>6. end.hands \in HandsState
  BY <1>5, DrainedSound DEF IInv, RequestSoundFor, AppliedSoundFor
<1>7. /\ Restored(end.hands) \in HandsState
      /\ Restored(end.hands).pending = end.hands.pending
      /\ Restored(end.hands).next_pending = end.hands.next_pending
  BY <1>1, <1>6 DEF Restored, HandsState
<1>8. QED
  BY <1>2, <1>4, <1>7, ChatStep

\* What the second drain of a confirmation leaves of what the first one left.
TeamTaken(e, end) ==
  /\ end.hands = [e.hands EXCEPT !.team_effect = None]
  /\ end.state = e.state /\ end.active = e.active

\* Both effects are taken, or a switch failed and only its own is.
LEMMA BothIs ==
  ASSUME NEW h \in HandsState, NEW end \in BothDrained(h)
  PROVE  \/ \E e \in Drained(h) : TeamTaken(e, end)
         \/ end = [hands |-> EffectTaken(h), state |-> state, active |-> active]
<1>1. CASE \E e \in Drained(h) : end = [e EXCEPT !.hands.team_effect = None]
  <2>1. PICK e \in Drained(h) : end = [e EXCEPT !.hands.team_effect = None]
    BY <1>1
  <2>2. DOMAIN e = {"hands", "state", "active"}
    BY DEF Drained, Applied
  <2> QED
    BY <2>1, <2>2 DEF TeamTaken
<1> QED
  BY <1>1 DEF BothDrained

LEMMA BothSound ==
  ASSUME TypeOK, NEW h \in HandsState, NEW end \in BothDrained(h)
  PROVE  AppliedSoundFor(h, end)
<1>1. CASE end = [hands |-> EffectTaken(h), state |-> state, active |-> active]
  BY <1>1 DEF EffectTaken, HandsState, AppliedSoundFor, TypeOK
<1>2. CASE \E e \in Drained(h) : TeamTaken(e, end)
  <2>1. PICK e \in Drained(h) : TeamTaken(e, end)
    BY <1>2
  <2>2. AppliedSoundFor(h, e)
    BY DrainedSound
  <2> QED
    BY <2>1, <2>2 DEF AppliedSoundFor, HandsState, TeamTaken
<1> QED
  BY <1>1, <1>2, BothIs

\* A confirmed record runs for the first time and is gone from Hands.
LEMMA ConfirmToolStep ==
  ASSUME IInv, ConfirmTool
  PROVE  IInv'
<1> DEFINE call == hands.pending.name
           i == hands.pending.id
           h == Confirmed(Executed(hands, call))
<1>1. /\ hands \in HandsState /\ hands.pending \in Pending
      /\ state = "Awake" /\ Decision(hands, ToolOf(call)) # "Deny"
  BY DEF IInv, TypeOK, HandsState, ConfirmTool, ConfirmAllowed
<1>2. call \in Call /\ i \in PendingId
  BY <1>1 DEF Pending
<1>3. h \in HandsState /\ h.pending = None /\ h.next_pending = hands.next_pending
  BY <1>1, <1>2 DEF Confirmed, Executed, HandsState, Call, CtlCall
<1>4. PICK end \in BothDrained(h) :
        hands' = end.hands /\ state' = end.state /\ active' = end.active
  BY DEF ConfirmTool
<1>5. AppliedSoundFor(h, end)
  BY <1>3, BothSound DEF IInv
<1>6. hands' \in HandsState /\ hands'.pending = None /\ hands'.next_pending = hands.next_pending
  BY <1>3, <1>4, <1>5 DEF AppliedSoundFor
<1>7. runs' = [runs EXCEPT ![i] = runs[i] + 1] /\ gone' = gone
  BY DEF ConfirmTool
<1>8. runs[i] = 0 /\ i \notin gone /\ Issued(i)
  BY <1>1, <1>2 DEF IInv, ConfirmRunsOnce, IdsIssued, ConfirmTool, ConfirmAllowed
<1>9. runs' \in [PendingId -> Nat] /\ runs'[i] = 1 /\ \A j \in PendingId \ {i} : runs'[j] = runs[j]
  BY <1>2, <1>7, <1>8 DEF IInv, TypeOK
<1>10. TypeOK'
  BY <1>4, <1>5, <1>6, <1>7, <1>9 DEF IInv, TypeOK, ConfirmTool, AppliedSoundFor
<1>11. IdsIssued'
  BY <1>6, <1>7, <1>8, <1>9 DEF IInv, IdsIssued, Issued
<1>12. ConfirmRunsOnce'
  BY <1>6, <1>7, <1>8, <1>9 DEF IInv, ConfirmRunsOnce
<1>13. RunSafe(run)'
  <2>1. settings[ToolOf(call)] \in Permission
    BY <1>2, SettingsType DEF IInv
  <2>2. settings[ToolOf(call)] # "Deny"
    BY <1>1, <2>1 DEF Decision, Grant, Permission
  <2>3. run' = Run(hands, call, "confirmed", owner)
    BY DEF ConfirmTool
  <2>4. QED
    BY <1>1, <2>2, <2>3 DEF RunSafe, Run
<1>14. QED
  BY <1>6, <1>10, <1>11, <1>12, <1>13 DEF IInv

\* Cancelling, and leaving awake, retire the waiting id.
LEMMA DropStep ==
  ASSUME IInv, CancelTool \/ LeaveAwake
  PROVE  IInv'
<1>1. hands \in HandsState
  BY DEF IInv, TypeOK
<1>2. /\ hands' = [hands EXCEPT !.pending = None] /\ Gone(hands') /\ runs' = runs
  BY DEF CancelTool, LeaveAwake, ClearPending
<1>3. /\ hands' \in HandsState
      /\ hands'.pending = None
      /\ hands'.next_pending = hands.next_pending
  BY <1>1, <1>2 DEF HandsState
<1>4. IdsIssued' /\ ConfirmRunsOnce' /\ gone' \subseteq PendingId
  BY <1>2, <1>3, IdsKept
<1>5. TypeOK' /\ RunSafe(run)'
  BY <1>3, <1>4 DEF IInv, TypeOK, RunSafe, CancelTool, LeaveAwake
<1>6. QED
  BY <1>3, <1>4, <1>5 DEF IInv

\* Waking, switching profile and saving settings leave the record alone.
LEMMA SurroundingsStep ==
  ASSUME IInv, Wake \/ (\E p \in Profile : SwitchProfile(p)) \/ SaveSettings
  PROVE  IInv'
<1>1. hands \in HandsState /\ active \in Profile
  BY DEF IInv, TypeOK
<1>2. /\ hands' \in HandsState
      /\ hands'.pending = hands.pending
      /\ hands'.next_pending = hands.next_pending
  BY <1>1, ActingSound DEF Wake, SwitchProfile, SaveSettings
<1>3. UNCHANGED <<owner, run, runs, gone>> /\ (state' = "Awake" \/ state' = state)
  BY DEF Wake, SwitchProfile, SaveSettings
<1>4. TypeOK'
  BY <1>2, <1>3 DEF IInv, TypeOK, Wake, SwitchProfile, SaveSettings
<1>5. IdsIssued' /\ ConfirmRunsOnce' /\ RunSafe(run)'
  BY <1>2, <1>3 DEF IInv, IdsIssued, Issued, ConfirmRunsOnce, RunSafe
<1>6. QED
  BY <1>2, <1>3, <1>4, <1>5 DEF IInv

LEMMA InitIInv == Init => IInv
<1> SUFFICES ASSUME Init PROVE IInv
  OBVIOUS
<1>0. PendingId \subseteq Nat \ {0}
  BY DEF PendingId
<1>1. hands \in HandsState /\ hands.pending = None /\ hands.next_pending = 0
  <2> DEFINE h(b) == [pending |-> None, next_pending |-> 0, ctl_effect |-> None,
                      team_effect |-> None, acting_profile_id |-> active,
                      acting_allow_all |-> b]
  <2>1. CASE active \in AllowAll
    <3>1. hands = h(TRUE)
      BY <2>1, Zenon DEF Init, Hands0
    <3>2. QED
      BY <3>1 DEF Init, HandsState
  <2>2. CASE active \notin AllowAll
    <3>1. (active \in AllowAll) = FALSE
      BY <2>2
    <3>2. hands = h(FALSE)
      BY <3>1, Zenon DEF Init, Hands0
    <3>3. QED
      BY <3>2 DEF Init, HandsState
  <2>3. QED
    BY <2>1, <2>2
<1>2. QED
  BY <1>0, <1>1 DEF Init, IInv, TypeOK, RunSafe, IdsIssued, ConfirmRunsOnce

LEMMA NextIInv == IInv /\ [Next]_vars => IInv'
<1> SUFFICES ASSUME IInv, [Next]_vars PROVE IInv'
  OBVIOUS
<1>1. ASSUME NEW call \in WireCalls, InvokeTool(call) PROVE IInv'
  BY <1>1, InvokeToolStep
<1>2. ASSUME NEW call \in Call, ChatCall(call) PROVE IInv'
  BY <1>2, ChatCallStep
<1>3. ASSUME NEW p \in Profile, NEW call \in PeerCalls, PeerCall(p, call) PROVE IInv'
  BY <1>3, PeerCallStep
<1>4. CASE ConfirmTool
  BY <1>4, ConfirmToolStep
<1>5. CASE CancelTool \/ LeaveAwake
  BY <1>5, DropStep
<1>6. CASE Wake \/ (\E p \in Profile : SwitchProfile(p)) \/ SaveSettings
  BY <1>6, SurroundingsStep
<1>7. CASE UNCHANGED vars
  BY <1>7 DEF vars, IInv, TypeOK, RunSafe, IdsIssued, Issued, ConfirmRunsOnce
<1>8. QED
  BY <1>1, <1>2, <1>3, <1>4, <1>5, <1>6, <1>7 DEF Next

-----------------------------------------------------------------------------
\* The strengthening holds in every reachable state.
THEOREM InductiveInvariant == Spec => []IInv
  BY InitIInv, NextIInv, PTL DEF Spec

\* Hands and its surroundings keep their types.
THEOREM TypeCorrect == Spec => []TypeOK
  BY InductiveInvariant, PTL DEF IInv

\* Nothing runs outside awake and no confirmation waits there.
THEOREM ActingStops == Spec => []ActingStopsOutsideAwake
<1>1. IInv => ActingStopsOutsideAwake
  BY DEF IInv, RunSafe, ActingStopsOutsideAwake
<1>2. QED
  BY <1>1, InductiveInvariant, PTL

\* A tool denied in tools.json does not run, however its call was staged.
THEOREM DenyHolds == Spec => []NothingDeniedRuns
<1>1. IInv => NothingDeniedRuns
  BY DEF IInv, RunSafe, NothingDeniedRuns
<1>2. QED
  BY <1>1, InductiveInvariant, PTL

\* Neither allow_all nor an AlwaysAllow shell installs software unasked.
THEOREM InstallsAsk == Spec => []InstallsAskOperator
<1>1. IInv => InstallsAskOperator
  BY DEF IInv, RunSafe, InstallsAskOperator
<1>2. QED
  BY <1>1, InductiveInvariant, PTL

\* A confirmation id runs at most once, and never after it has gone.
THEOREM ConfirmOnce == Spec => []ConfirmRunsOnce
  BY InductiveInvariant, PTL DEF IInv

-----------------------------------------------------------------------------
(***************************************************************************)
(* The home a call runs in, the effects and the replaced records.  While   *)
(* awake the acting profile is the active one (Pinned): peer turns put it   *)
(* back, and a switch syncs it, as long as neither a tool frame nor a peer *)
(* turn carries the switch.                                                *)
(***************************************************************************)
OnlyOwnTurnsSwitch == "softwake_set_profile" \notin WireCalls \cup PeerCalls

ActsAs(h, p) == h.acting_profile_id = p /\ h.acting_allow_all = (p \in AllowAll)

SameActing(h, g) ==
  h.acting_profile_id = g.acting_profile_id /\ h.acting_allow_all = g.acting_allow_all

OwnerRun(r) ==
  (r # NoRun /\ r.how # "confirmed") =>
    /\ r.home = r.owner
    /\ r.how = "always" => r.allow_all \/ r.grant = "AlwaysAllow"

Pinned ==
  /\ state = "Awake" => ActsAs(hands, active)
  /\ hands.ctl_effect # "softwake_set_profile"
  /\ OwnerRun(run)

\* At most one effect waits.
OneEffect(h) == h.ctl_effect = None \/ h.team_effect = None

\* From h to g no waiting record was replaced, save by an install.
KeepsRecord(h, g) ==
  (h.pending # None /\ g.pending \notin {None, h.pending}) =>
    g.pending.name = "software_install"

\* What request leaves of the acting profile, the effects and the record, and
\* whose home it ran in.
RequestLeavesFor(h, call, p, out) ==
  /\ out.hands \in HandsState
  /\ SameActing(out.hands, h)
  /\ out.hands.ctl_effect \in {h.ctl_effect, call}
  /\ EffectOf(h) = None => OneEffect(out.hands)
  /\ KeepsRecord(h, out.hands)
  /\ (state = "Awake" => ActsAs(h, p)) /\ OwnerRun(run) => OwnerRun(out.run)

LEMMA ExecutedLeaves ==
  ASSUME NEW h \in HandsState, NEW call \in Call
  PROVE  /\ SameActing(Executed(h, call), h)
         /\ Executed(h, call).pending = h.pending
         /\ Executed(h, call).ctl_effect \in {h.ctl_effect, call}
         /\ EffectOf(h) = None => OneEffect(Executed(h, call))
<1>1. CASE call \in CtlCall
  <2>1. Executed(h, call) = [h EXCEPT !.ctl_effect = call]
    BY <1>1 DEF Executed, CtlCall
  <2>2. /\ Executed(h, call).ctl_effect = call
        /\ Executed(h, call).team_effect = h.team_effect
        /\ Executed(h, call).pending = h.pending
        /\ Executed(h, call).acting_profile_id = h.acting_profile_id
        /\ Executed(h, call).acting_allow_all = h.acting_allow_all
    BY <2>1 DEF HandsState
  <2>3. EffectOf(h) = None => h.team_effect = None
    BY DEF EffectOf
  <2> QED
    BY <2>2, <2>3 DEF SameActing, OneEffect
<1>2. CASE call = "agent_message"
  <2>1. Executed(h, call) = [h EXCEPT !.team_effect = call]
    BY <1>2 DEF Executed, CtlCall
  <2> QED
    BY <2>1 DEF HandsState, SameActing, EffectOf, OneEffect
<1>3. CASE call \notin CtlCall /\ call # "agent_message"
  <2>1. Executed(h, call) = h
    BY <1>3 DEF Executed
  <2> QED
    BY <2>1 DEF HandsState, SameActing, EffectOf, OneEffect
<1> QED
  BY <1>1, <1>2, <1>3

LEMMA RequestLeaves ==
  ASSUME IInv, NEW h \in HandsState, NEW call \in Call, NEW p \in Profile,
         NEW out \in RequestOutcomes(h, call, p)
  PROVE  RequestLeavesFor(h, call, p, out)
<1>1. out.hands \in HandsState
  BY RequestSound DEF IInv, RequestSoundFor
<1>2. settings[ToolOf(call)] \in Permission
  BY SettingsType DEF IInv
<1>3. CASE out = [hands |-> h, run |-> run]
  BY <1>1, <1>3 DEF RequestLeavesFor, SameActing, EffectOf, OneEffect, KeepsRecord
<1>4. CASE RunsNow(h, call) /\ out = [hands |-> Executed(h, call),
                                      run |-> Run(h, call, "always", p)]
  <2>1. ASSUME state = "Awake" => ActsAs(h, p) PROVE OwnerRun(out.run)
    <3>1. ActsAs(h, p) /\ Grant(h, ToolOf(call)) = "AlwaysAllow"
      BY <1>2, <1>4, <2>1 DEF RunsNow, Decision, Grant, Permission
    <3>2. p \in AllowAll \/ settings[ToolOf(call)] = "AlwaysAllow"
      BY <3>1 DEF Grant, ActsAs
    <3>3. /\ out.run.home = h.acting_profile_id /\ out.run.owner = p
          /\ out.run.grant = settings[ToolOf(call)]
      BY <1>4 DEF Run
    <3>4. out.run.allow_all = (p \in AllowAll)
      BY <1>4 DEF Run
    <3> QED
      BY <3>1, <3>2, <3>3, <3>4 DEF OwnerRun, ActsAs
  <2> QED
    BY <1>1, <1>4, <2>1, ExecutedLeaves DEF RequestLeavesFor, KeepsRecord
<1>5. CASE RunsQuietly(h, call) /\ out = [hands |-> h,
                                          run |-> Run(h, call, "quiet", p)]
  <2>1. ASSUME state = "Awake" => ActsAs(h, p) PROVE OwnerRun(out.run)
    BY <1>5, <2>1 DEF OwnerRun, Run, RunsQuietly, ActsAs
  <2> QED
    BY <1>1, <1>5, <2>1
    DEF RequestLeavesFor, SameActing, EffectOf, OneEffect, KeepsRecord
<1>6. CASE Stages(h, call) /\ out = [hands |-> Staged(h, call), run |-> run]
  <2> DEFINE name == IF call = "shell_install" THEN "software_install" ELSE call
  <2>1. Staged(h, call) = [h EXCEPT !.next_pending = h.next_pending + 1,
                                    !.pending = [id |-> h.next_pending + 1, name |-> name]]
    BY DEF Staged, HandsState
  <2>2. h.pending # None => call = "shell_install"
    BY <1>6 DEF Stages, Decision
  <2>3. /\ out.hands.pending = [id |-> h.next_pending + 1, name |-> name]
        /\ SameActing(out.hands, h)
        /\ out.hands.ctl_effect = h.ctl_effect
        /\ out.hands.team_effect = h.team_effect
        /\ out.run = run
    BY <1>6, <2>1 DEF HandsState, SameActing
  <2>4. KeepsRecord(h, out.hands)
    BY <2>2, <2>3 DEF KeepsRecord
  <2> QED
    BY <1>1, <2>3, <2>4 DEF RequestLeavesFor, EffectOf, OneEffect
<1> QED
  BY <1>3, <1>4, <1>5, <1>6 DEF RequestOutcomes

\* Draining takes the effect of the call: nothing waits afterwards if one
\* effect did; the profile changes hands with the switch alone.
DrainedLeavesFor(h, end) ==
  /\ end.hands.ctl_effect = None
  /\ OneEffect(h) => end.hands.team_effect = None
  /\ end.hands.pending \in {None, h.pending}
  /\ end.state = "Awake" => state = "Awake"
  /\ \/ EffectOf(h) = "softwake_set_profile"
        /\ (state = "Awake" => ActsAs(end.hands, end.active))
     \/ end.active = active /\ SameActing(end.hands, h)

\* Pinning a profile leaves the effects alone.
LEMMA ActingLeaves ==
  ASSUME NEW h \in HandsState, NEW p \in Profile
  PROVE  /\ ActsAs(Acting(h, p), p)
         /\ Acting(h, p).ctl_effect = h.ctl_effect
         /\ Acting(h, p).team_effect = h.team_effect
<1>1. CASE p \in AllowAll
  <2>1. Acting(h, p) = [h EXCEPT !.acting_profile_id = p, !.acting_allow_all = TRUE]
    BY <1>1, Zenon DEF Acting
  <2> QED
    BY <1>1, <2>1 DEF HandsState, ActsAs
<1>2. CASE p \notin AllowAll
  <2>1. (p \in AllowAll) = FALSE
    BY <1>2
  <2>2. Acting(h, p) = [h EXCEPT !.acting_profile_id = p, !.acting_allow_all = FALSE]
    BY <2>1, Zenon DEF Acting
  <2> QED
    BY <2>1, <2>2 DEF HandsState, ActsAs
<1> QED
  BY <1>1, <1>2

LEMMA DrainedLeaves ==
  ASSUME TypeOK, NEW h \in HandsState, NEW end \in Drained(h)
  PROVE  DrainedLeavesFor(h, end)
<1> DEFINE g == EffectTaken(h)
           same == [hands |-> g, state |-> state, active |-> active]
           clear == [same EXCEPT !.hands = ClearPending(g), !.state = "Sleep"]
<1>1. /\ g \in HandsState /\ g.pending = h.pending /\ SameActing(g, h)
      /\ g.ctl_effect = None /\ (OneEffect(h) => g.team_effect = None)
  BY DEF EffectTaken, HandsState, SameActing, OneEffect
<1>2. CASE end = same
  BY <1>1, <1>2 DEF DrainedLeavesFor
<1>3. CASE end = clear
  <2>1. /\ ClearPending(g).pending = None /\ SameActing(ClearPending(g), g)
        /\ ClearPending(g).ctl_effect = g.ctl_effect
        /\ ClearPending(g).team_effect = g.team_effect
    BY <1>1 DEF ClearPending, HandsState, SameActing
  <2>2. end.hands = ClearPending(g) /\ end.state = "Sleep" /\ end.active = active
    BY <1>3
  <2> QED
    BY <1>1, <2>1, <2>2 DEF DrainedLeavesFor, SameActing
<1>4. CASE EffectOf(h) = "softwake_set_profile" /\ state = "Awake"
  <2>1. PICK p \in Profile : end = [same EXCEPT !.hands = Acting(g, p), !.active = p]
    BY <1>4 DEF Drained, Applied
  <2>2. end.hands = Acting(g, p) /\ end.state = state /\ end.active = p
    BY <2>1
  <2> QED
    BY <1>1, <1>4, <2>2, ActingSound, ActingLeaves DEF DrainedLeavesFor
<1>5. CASE EffectOf(h) = "softwake_set_profile" /\ state # "Awake"
  <2>1. PICK p \in Profile : end = [same EXCEPT !.active = p]
    BY <1>5 DEF Drained, Applied
  <2>2. end.hands = g /\ end.state = state
    BY <2>1
  <2> QED
    BY <1>1, <1>5, <2>2 DEF DrainedLeavesFor
<1> QED
  <2>1. CASE EffectOf(h) = "softwake_sleep" /\ state = "Awake"
    BY <2>1, <1>2, <1>3 DEF Drained, Applied
  <2>2. CASE /\ ~(EffectOf(h) = "softwake_sleep" /\ state = "Awake")
             /\ EffectOf(h) # "softwake_set_profile"
    BY <2>2, <1>2 DEF Drained, Applied
  <2> QED
    BY <1>4, <1>5, <2>1, <2>2

\* A confirmation leaves of the profile and of the effects what a call leaves.
LEMMA BothLeaves ==
  ASSUME TypeOK, NEW h \in HandsState, NEW end \in BothDrained(h)
  PROVE  DrainedLeavesFor(h, end)
<1> DEFINE g == EffectTaken(h)
<1>1. CASE end = [hands |-> g, state |-> state, active |-> active]
  <2>1. /\ g.pending = h.pending /\ SameActing(g, h)
        /\ g.ctl_effect = None /\ (OneEffect(h) => g.team_effect = None)
    BY DEF EffectTaken, HandsState, SameActing, OneEffect
  <2> QED
    BY <1>1, <2>1 DEF DrainedLeavesFor
<1>2. CASE \E e \in Drained(h) : TeamTaken(e, end)
  <2>1. PICK e \in Drained(h) : TeamTaken(e, end)
    BY <1>2
  <2>2. DrainedLeavesFor(h, e) /\ e.hands \in HandsState
    BY DrainedSound, DrainedLeaves DEF AppliedSoundFor
  <2>3. /\ SameActing(end.hands, e.hands) /\ end.hands.team_effect = None
        /\ end.hands.pending = e.hands.pending
        /\ end.hands.ctl_effect = e.hands.ctl_effect
        /\ ActsAs(e.hands, e.active) => ActsAs(end.hands, end.active)
    BY <2>1, <2>2 DEF HandsState, SameActing, ActsAs, TeamTaken
  <2>4. SameActing(e.hands, h) => SameActing(end.hands, h)
    BY <2>3 DEF SameActing
  <2> QED
    BY <2>1, <2>2, <2>3, <2>4 DEF DrainedLeavesFor, TeamTaken
<1> QED
  BY <1>1, <1>2, BothIs

\* A chat call of profile for, started in a Hands h that acts as it.
LEMMA CallPinned ==
  ASSUME IInv, OwnerRun(run), NEW h \in HandsState, NEW call \in Call, NEW p \in Profile,
         state = "Awake" => ActsAs(h, p),
         NEW out \in RequestOutcomes(h, call, p), NEW end \in Drained(out.hands)
  PROVE  OwnerRun(out.run) /\ DrainedLeavesFor(out.hands, end)
         /\ RequestLeavesFor(h, call, p, out)
<1>1. RequestLeavesFor(h, call, p, out)
  BY RequestLeaves
<1>2. DrainedLeavesFor(out.hands, end)
  BY <1>1, DrainedLeaves DEF IInv, RequestLeavesFor
<1> QED
  BY <1>1, <1>2 DEF RequestLeavesFor

LEMMA PinnedKept ==
  ASSUME OnlyOwnTurnsSwitch, IInv, Pinned, [Next]_vars
  PROVE  Pinned'
<1>0. /\ hands \in HandsState /\ active \in Profile /\ OwnerRun(run)
      /\ hands.ctl_effect # "softwake_set_profile" /\ None # "softwake_set_profile"
      /\ hands.team_effect # "softwake_set_profile"
  BY DEF IInv, TypeOK, Pinned, HandsState, Call, CtlCall
<1>1. ASSUME NEW call \in WireCalls, InvokeTool(call) PROVE Pinned'
  <2>1. PICK out \in RequestOutcomes(hands, call, active) :
          hands' = out.hands /\ run' = out.run
    BY <1>1 DEF InvokeTool
  <2>2. RequestLeavesFor(hands, call, active, out)
    BY <1>0, <1>1, RequestLeaves
  <2>3. UNCHANGED <<state, active>> /\ call # "softwake_set_profile"
    BY <1>1 DEF InvokeTool, OnlyOwnTurnsSwitch
  <2>4. OwnerRun(run)'
    BY <2>1, <2>2 DEF Pinned, RequestLeavesFor, OwnerRun
  <2>5. state' = "Awake" => ActsAs(hands, active)'
    BY <2>1, <2>2, <2>3 DEF Pinned, RequestLeavesFor, ActsAs, SameActing
  <2> QED
    BY <1>0, <2>1, <2>2, <2>3, <2>4, <2>5 DEF Pinned, RequestLeavesFor
<1>2. ASSUME NEW call \in Call, ChatCall(call) PROVE Pinned'
  <2>1. PICK out \in RequestOutcomes(hands, call, active) : \E end \in Drained(out.hands) :
          hands' = end.hands /\ Answered(active, out, end)
    BY <1>2 DEF ChatCall
  <2>2. PICK end \in Drained(out.hands) : hands' = end.hands /\ Answered(active, out, end)
    BY <2>1
  <2>3. /\ OwnerRun(out.run) /\ DrainedLeavesFor(out.hands, end)
        /\ RequestLeavesFor(hands, call, active, out)
    BY <1>0, CallPinned DEF Pinned
  <2>4. run' = out.run /\ state' = end.state /\ active' = end.active
    BY <2>2 DEF Answered
  <2>5. state' = "Awake" => ActsAs(end.hands, end.active)
    BY <2>3, <2>4 DEF Pinned, DrainedLeavesFor, RequestLeavesFor, ActsAs, SameActing
  <2> QED
    BY <1>0, <2>2, <2>3, <2>4, <2>5 DEF Pinned, DrainedLeavesFor, ActsAs, OwnerRun
<1>3. ASSUME NEW p \in Profile, NEW call \in PeerCalls, PeerCall(p, call) PROVE Pinned'
  <2> DEFINE h == Acting(hands, p)
  <2>1. /\ h \in HandsState /\ ActsAs(h, p) /\ h.ctl_effect = hands.ctl_effect
        /\ h.team_effect = hands.team_effect
    BY <1>0, ActingSound, ActingLeaves
  <2>2. call \in Call /\ call # "softwake_set_profile"
    BY <1>3 DEF OnlyOwnTurnsSwitch
  <2> HIDE DEF h
  <2>3. PICK out \in RequestOutcomes(h, call, p) : \E end \in Drained(out.hands) :
          hands' = Restored(end.hands) /\ Answered(p, out, end)
    BY <1>3 DEF PeerCall, h
  <2>4. PICK end \in Drained(out.hands) :
          hands' = Restored(end.hands) /\ Answered(p, out, end)
    BY <2>3
  <2>5. /\ OwnerRun(out.run) /\ DrainedLeavesFor(out.hands, end)
        /\ RequestLeavesFor(h, call, p, out)
    BY <1>0, <2>1, <2>2, CallPinned
  <2>6. EffectOf(out.hands) # "softwake_set_profile"
    <3>1. out.hands \in HandsState /\ out.hands.ctl_effect # "softwake_set_profile"
      BY <1>0, <2>1, <2>2, <2>5 DEF RequestLeavesFor
    <3>2. out.hands.team_effect # "softwake_set_profile"
      BY <1>0, <3>1 DEF HandsState
    <3> QED
      BY <3>1, <3>2 DEF EffectOf
  <2>7. end.hands \in HandsState /\ end.active = active
    BY <2>5, <2>6, DrainedSound DEF IInv, RequestLeavesFor, AppliedSoundFor, DrainedLeavesFor
  <2>8. /\ Restored(end.hands).acting_profile_id = hands.acting_profile_id
        /\ Restored(end.hands).acting_allow_all = hands.acting_allow_all
        /\ Restored(end.hands).ctl_effect = end.hands.ctl_effect
    BY <2>7 DEF Restored, HandsState
  <2>9. run' = out.run /\ (state' = "Awake" => state = "Awake") /\ active' = active
    BY <2>4, <2>5, <2>7 DEF Answered, DrainedLeavesFor
  <2>10. state' = "Awake" => ActsAs(hands, active)'
    BY <2>4, <2>8, <2>9 DEF Pinned, ActsAs
  <2> QED
    BY <1>0, <2>4, <2>5, <2>8, <2>9, <2>10 DEF Pinned, DrainedLeavesFor, OwnerRun
<1>4. CASE ConfirmTool
  <2> DEFINE call == hands.pending.name
             h == Confirmed(Executed(hands, call))
  <2>1. call \in Call /\ Executed(hands, call) \in HandsState
    BY <1>0, <1>4 DEF ConfirmTool, ConfirmAllowed, HandsState, Pending, Executed, Call, CtlCall
  <2>2. h \in HandsState /\ SameActing(h, hands)
    <3>1. SameActing(Executed(hands, call), hands)
      BY <1>0, <2>1, ExecutedLeaves
    <3> QED
      BY <2>1, <3>1 DEF Confirmed, HandsState, SameActing
  <2>3. PICK end \in BothDrained(h) :
          hands' = end.hands /\ state' = end.state /\ active' = end.active
    BY <1>4 DEF ConfirmTool
  <2>4. run' = Run(hands, call, "confirmed", owner)
    BY <1>4 DEF ConfirmTool
  <2> HIDE DEF h, call
  <2>5. DrainedLeavesFor(h, end)
    BY <2>2, <2>3, BothLeaves DEF IInv
  <2>6. OwnerRun(run)'
    BY <2>4 DEF OwnerRun, Run
  <2>7. state' = "Awake" => ActsAs(end.hands, end.active)
    BY <2>2, <2>3, <2>5 DEF Pinned, DrainedLeavesFor, ActsAs, SameActing
  <2> QED
    BY <1>0, <2>3, <2>5, <2>6, <2>7 DEF Pinned, DrainedLeavesFor, ActsAs
<1>5. CASE CancelTool \/ LeaveAwake
  <2>1. hands' = [hands EXCEPT !.pending = None]
    BY <1>5 DEF CancelTool, LeaveAwake, ClearPending
  <2>2. SameActing(hands', hands) /\ hands'.ctl_effect = hands.ctl_effect
    BY <1>0, <2>1 DEF HandsState, SameActing
  <2>3. (state' = "Awake" => state = "Awake") /\ UNCHANGED <<active, run>>
    BY <1>5 DEF CancelTool, LeaveAwake
  <2> QED
    BY <2>2, <2>3 DEF Pinned, SameActing, ActsAs, OwnerRun
<1>6. CASE Wake \/ (\E p \in Profile : SwitchProfile(p))
  <2>1. PICK p \in Profile :
          /\ active' = p /\ run' = run
          /\ hands' = Acting(hands, p) \/ (state' # "Awake" /\ hands' = hands)
    BY <1>0, <1>6 DEF Wake, SwitchProfile
  <2>2. ActsAs(Acting(hands, p), p) /\ Acting(hands, p).ctl_effect = hands.ctl_effect
    BY <1>0, ActingLeaves
  <2> QED
    BY <2>1, <2>2 DEF Pinned, ActsAs, OwnerRun
<1>7. CASE SaveSettings \/ UNCHANGED vars
  BY <1>7 DEF Pinned, ActsAs, OwnerRun, SaveSettings, vars
<1> QED
  BY <1>1, <1>2, <1>3, <1>4, <1>5, <1>6, <1>7 DEF Next

\* Where no tool frame and no peer turn carries a switch of the profile, a
\* call runs in the home of the profile whose turn made it.
THEOREM OwnerRuns ==
  ASSUME OnlyOwnTurnsSwitch
  PROVE  Spec => []TurnRunsAsItsOwner
<1>1. Init => Pinned
  <2> SUFFICES ASSUME Init PROVE Pinned
    OBVIOUS
  <2>1. state = "Sleep" /\ run = NoRun
    BY DEF Init
  <2>2. hands.ctl_effect = None
    BY DEF Init, Hands0
  <2> QED
    BY <2>1, <2>2 DEF Pinned, OwnerRun, Call, CtlCall
<1>2. IInv /\ Pinned /\ [Next]_vars => Pinned'
  BY PinnedKept
<1>3. Pinned => TurnRunsAsItsOwner
  BY DEF Pinned, OwnerRun, TurnRunsAsItsOwner
<1> QED
  BY <1>1, <1>2, <1>3, InductiveInvariant, PTL DEF Spec

-----------------------------------------------------------------------------
\* From h to g: no effect is left for a later call, no record was replaced,
\* save by an install.
CleanStep(h, g) ==
  /\ EffectOf(h) = None => EffectOf(g) = None
  /\ KeepsRecord(h, g)

LEMMA CallIsClean ==
  ASSUME IInv, NEW h \in HandsState, NEW call \in Call, NEW p \in Profile,
         NEW out \in RequestOutcomes(h, call, p), NEW end \in Drained(out.hands)
  PROVE  CleanStep(h, end.hands)
<1>1. RequestLeavesFor(h, call, p, out)
  BY RequestLeaves
<1>2. DrainedLeavesFor(out.hands, end)
  BY <1>1, DrainedLeaves DEF IInv, RequestLeavesFor
<1>3. EffectOf(h) = None => EffectOf(end.hands) = None
  BY <1>1, <1>2 DEF RequestLeavesFor, DrainedLeavesFor, EffectOf
<1>4. KeepsRecord(h, end.hands)
  BY <1>1, <1>2 DEF RequestLeavesFor, DrainedLeavesFor, KeepsRecord
<1> QED
  BY <1>3, <1>4 DEF CleanStep

LEMMA StepsAreClean ==
  ASSUME IInv, [Next]_vars
  PROVE  CleanStep(hands, hands') \/ \E call \in WireCalls : InvokeTool(call)
<1>0. hands \in HandsState /\ active \in Profile
  BY DEF IInv, TypeOK
<1>1. ASSUME NEW call \in Call, ChatCall(call) PROVE CleanStep(hands, hands')
  BY <1>0, <1>1, CallIsClean DEF ChatCall
<1>2. ASSUME NEW p \in Profile, NEW call \in PeerCalls, PeerCall(p, call)
      PROVE  CleanStep(hands, hands')
  <2> DEFINE h == Acting(hands, p)
  <2>1. /\ h \in HandsState /\ h.pending = hands.pending
        /\ h.ctl_effect = hands.ctl_effect /\ h.team_effect = hands.team_effect
    BY <1>0, ActingSound, ActingLeaves
  <2> HIDE DEF h
  <2>2. PICK out \in RequestOutcomes(h, call, p) : \E end \in Drained(out.hands) :
          hands' = Restored(end.hands)
    BY <1>2 DEF PeerCall, h
  <2>3. PICK end \in Drained(out.hands) : hands' = Restored(end.hands)
    BY <2>2
  <2>4. call \in Call
    OBVIOUS
  <2>5. CleanStep(h, end.hands)
    BY <2>1, <2>4, CallIsClean
  <2>6. end.hands \in HandsState
    BY <2>1, <2>4, RequestSound, DrainedSound DEF IInv, RequestSoundFor, AppliedSoundFor
  <2>7. /\ hands'.ctl_effect = end.hands.ctl_effect
        /\ hands'.team_effect = end.hands.team_effect
        /\ hands'.pending = end.hands.pending
    BY <2>3, <2>6 DEF Restored, HandsState
  <2> QED
    BY <2>1, <2>5, <2>7 DEF CleanStep, EffectOf, KeepsRecord
<1>3. CASE ConfirmTool
  <2> DEFINE call == hands.pending.name
             e == Executed(hands, call)
             h == Confirmed(e)
  <2>1. call \in Call /\ e \in HandsState
    BY <1>0, <1>3 DEF ConfirmTool, ConfirmAllowed, HandsState, Pending, Executed, Call, CtlCall
  <2>2. EffectOf(hands) = None => OneEffect(e)
    BY <1>0, <2>1, ExecutedLeaves
  <2>3. PICK end \in BothDrained(h) : hands' = end.hands
    BY <1>3 DEF ConfirmTool
  <2>4. /\ h \in HandsState /\ h.pending = None
        /\ h.ctl_effect = e.ctl_effect /\ h.team_effect = e.team_effect
    <3> HIDE DEF e
    <3> QED
      BY <2>1 DEF Confirmed, HandsState
  <2> HIDE DEF h, e, call
  <2>5. DrainedLeavesFor(h, end)
    BY <2>4, BothLeaves DEF IInv
  <2> QED
    BY <2>2, <2>3, <2>4, <2>5
    DEF DrainedLeavesFor, CleanStep, KeepsRecord, EffectOf, OneEffect
<1>4. CASE CancelTool \/ LeaveAwake
  <2>1. hands' = [hands EXCEPT !.pending = None]
    BY <1>4 DEF CancelTool, LeaveAwake, ClearPending
  <2> QED
    BY <1>0, <2>1 DEF HandsState, CleanStep, KeepsRecord, EffectOf
<1>5. CASE Wake \/ \E p \in Profile : SwitchProfile(p)
  <2>1. PICK p \in Profile : hands' = Acting(hands, p) \/ hands' = hands
    BY <1>0, <1>5 DEF Wake, SwitchProfile
  <2>2. /\ Acting(hands, p).pending = hands.pending
        /\ Acting(hands, p).ctl_effect = hands.ctl_effect
        /\ Acting(hands, p).team_effect = hands.team_effect
    BY <1>0, ActingSound, ActingLeaves
  <2> QED
    BY <2>1, <2>2 DEF CleanStep, KeepsRecord, EffectOf
<1>6. CASE SaveSettings \/ UNCHANGED vars
  BY <1>6 DEF SaveSettings, vars, CleanStep, KeepsRecord
<1> QED
  BY <1>1, <1>2, <1>3, <1>4, <1>5, <1>6 DEF Next

\* A tool frame replaces a waiting record by nothing but an install either.
LEMMA FramesKeepRecord ==
  ASSUME IInv, NEW call \in WireCalls, InvokeTool(call)
  PROVE  KeepsRecord(hands, hands')
<1>1. hands \in HandsState /\ active \in Profile
  BY DEF IInv, TypeOK
<1>2. PICK out \in RequestOutcomes(hands, call, active) : hands' = out.hands
  BY DEF InvokeTool
<1> QED
  BY <1>1, <1>2, RequestLeaves DEF RequestLeavesFor

\* Only a tool frame leaves an effect in Hands for a later call.
THEOREM EffectsAnswered == Spec => EffectAnswersOwnCall
<1>1. IInv /\ [Next]_vars =>
        [EffectOf(hands') # None =>
           EffectOf(hands) # None \/ \E call \in WireCalls : InvokeTool(call)]_vars
  BY StepsAreClean DEF CleanStep
<1> QED
  BY <1>1, InductiveInvariant, PTL DEF Spec, EffectAnswersOwnCall

\* A waiting record is replaced by nothing but an install proposal.
THEOREM ReplacedByInstall == Spec => ReplacedOnlyByInstall
<1>1. IInv /\ [Next]_vars =>
        [(hands.pending # None /\ hands'.pending \notin {None, hands.pending}) =>
           hands'.pending.name = "software_install"]_vars
  <2> SUFFICES ASSUME IInv, [Next]_vars PROVE KeepsRecord(hands, hands')
    BY DEF KeepsRecord
  <2> QED
    BY StepsAreClean, FramesKeepRecord DEF CleanStep
<1> QED
  BY <1>1, InductiveInvariant, PTL DEF Spec, ReplacedOnlyByInstall
=============================================================================
