------------------------------- MODULE Hands -------------------------------
(***************************************************************************)
(* Tool dispatch: the Hands struct of softwake-daemon/src/dispatch.rs and  *)
(* the three ways Runtime calls it -- a tool frame on the socket           *)
(* (invoke_tool), a call made by the model inside a chat loop              *)
(* (invoke_for_chat), also on behalf of a peer profile                     *)
(* (invoke_chat_as_profile), and the operator's answer to a pending        *)
(* confirmation (confirm_tool, cancel_tool).                               *)
(*                                                                         *)
(* Every call runs under the runtime lock, so each is one step.  A call    *)
(* names a tool with the part of its arguments dispatch looks at.  A call  *)
(* that is refused, malformed or fails changes nothing modelled here.      *)
(***************************************************************************)
EXTENDS Naturals, FiniteSets

CONSTANTS
  Profile,    \* profile ids
  AllowAll,   \* profiles whose profile.json has allow_all
  WireCalls,  \* calls a client puts in a tool frame
  PeerCalls,  \* calls the model makes while it speaks for another profile
  Settings,   \* contents of tools.json the operator may save
  MaxPending, \* bound on next_pending
  None        \* no pending record, no effect

ASSUME HandsAssumption ==
  /\ AllowAll \subseteq Profile
  /\ MaxPending \in Nat

Tool == {"notify", "shell", "software_install", "softwake", "agent_message"}
CtlCall == {"softwake_status", "softwake_sleep", "softwake_set_profile"}
Call == {"notify", "shell", "shell_install", "software_install",
         "agent_message"} \cup CtlCall
Permission == {"Deny", "Ask", "AlwaysAllow"}

ASSUME CallAssumption ==
  /\ None \notin Call
  /\ WireCalls \subseteq Call
  /\ PeerCalls \subseteq Call
  /\ Settings \subseteq [Tool -> Permission]

VARIABLES
  state,     \* Machine::state, which request and confirm read
  active,    \* the profile whose soul pack the session applies
  settings,  \* permissions in tools.json, read again on every call
  hands,     \* the Hands struct
  owner,     \* history: profile whose turn staged the pending record
  run,       \* history: the latest tool execution
  runs,      \* history: executions under each pending id
  gone       \* history: pending ids cancelled, cleared or replaced

vars == <<state, active, settings, hands, owner, run, runs, gone>>

PendingId == 1..MaxPending
Pending == [id : PendingId, name : Call]
HandsState ==
  [pending : Pending \cup {None}, next_pending : 0..MaxPending,
   ctl_effect : CtlCall \cup {None}, team_effect : {"agent_message", None},
   acting_profile_id : Profile, acting_allow_all : BOOLEAN]

ToolOf(call) ==
  CASE call \in CtlCall -> "softwake"
    [] call = "shell_install" -> "shell"
    [] OTHER -> call

-----------------------------------------------------------------------------
(* What happens to a call. *)

\* mutant: allow_all lifts every Ask, installs included.
GrantLiftsInstall(h, tool) ==
  IF h.acting_allow_all /\ settings[tool] = "Ask" THEN "AlwaysAllow" ELSE settings[tool]

Grant(h, tool) ==
  IF h.acting_allow_all /\ tool # "software_install" /\ settings[tool] = "Ask"
  THEN "AlwaysAllow" ELSE settings[tool]

Decision(h, tool) ==
  CASE Grant(h, tool) = "Deny" -> "Deny"
    [] Grant(h, tool) = "Ask" -> "Confirm"
    [] Grant(h, tool) = "AlwaysAllow" -> "Safe"

\* Run without asking: AlwaysAllow, and not an install-looking shell line.
RunsNow(h, call) ==
  /\ state = "Awake"
  /\ Decision(h, ToolOf(call)) = "Safe"
  /\ call # "shell_install"

\* mutant: a waiting record does not make dispatch busy.
StagesOverWaiting(h, call) ==
  /\ state = "Awake"
  /\ h.next_pending < MaxPending
  /\ \/ Decision(h, ToolOf(call)) = "Confirm"
     \/ Decision(h, ToolOf(call)) = "Safe" /\ call = "shell_install"

\* Ask: one pending record at a time, except that an install-looking line
\* under an AlwaysAllow shell is staged without looking for one.
Stages(h, call) ==
  /\ state = "Awake"
  /\ h.next_pending < MaxPending
  /\ \/ Decision(h, ToolOf(call)) = "Confirm" /\ h.pending = None
     \/ Decision(h, ToolOf(call)) = "Safe" /\ call = "shell_install"

\* Under Ask the confirm policy may still let an unchanged shell line run.
RunsQuietly(h, call) ==
  /\ state = "Awake"
  /\ Decision(h, ToolOf(call)) = "Confirm"
  /\ h.pending = None
  /\ call = "shell"

Staged(h, call) ==
  LET name == IF call = "shell_install" THEN "software_install" ELSE call
  IN  [h EXCEPT !.next_pending = @ + 1,
                !.pending = [id |-> h.next_pending + 1, name |-> name]]

\* The part of an execution Hands itself remembers: an effect for Runtime.
Executed(h, call) ==
  CASE call \in CtlCall -> [h EXCEPT !.ctl_effect = call]
    [] call = "agent_message" -> [h EXCEPT !.team_effect = call]
    [] OTHER -> h

\* The evidence an execution leaves; how is "always", "quiet" or "confirmed".
Run(h, call, how, for) ==
  [call |-> call, how |-> how, state |-> state, owner |-> for,
   home |-> h.acting_profile_id, allow_all |-> for \in AllowAll,
   grant |-> settings[ToolOf(call)]]

\* What Hands::request may do with a call made in a turn of profile for: the
\* resulting Hands and the latest execution.  The first element is the call
\* that is forbidden, denied, busy, malformed or failing.
RequestOutcomes(h, call, for) ==
  {[hands |-> h, run |-> run]}
  \cup (IF RunsNow(h, call)
        THEN {[hands |-> Executed(h, call), run |-> Run(h, call, "always", for)]}
        ELSE {})
  \cup (IF RunsQuietly(h, call)
        THEN {[hands |-> h, run |-> Run(h, call, "quiet", for)]} ELSE {})
  \cup (IF Stages(h, call) THEN {[hands |-> Staged(h, call), run |-> run]} ELSE {})

-----------------------------------------------------------------------------
(* What Runtime does with the effect a call left in Hands: the ctl effect  *)
(* if there is one, else the team effect; the other one stays, except that *)
(* a confirmation takes both.                                              *)

EffectOf(h) == IF h.ctl_effect # None THEN h.ctl_effect ELSE h.team_effect

\* mutant: the effect is read but stays.
EffectPeeked(h) == h

EffectTaken(h) ==
  IF h.ctl_effect # None THEN [h EXCEPT !.ctl_effect = None]
                         ELSE [h EXCEPT !.team_effect = None]

Acting(h, p) == [h EXCEPT !.acting_profile_id = p, !.acting_allow_all = p \in AllowAll]

\* mutant: leaving awake keeps the waiting confirmation.
ClearPendingKeeps(h) == h

ClearPending(h) == [h EXCEPT !.pending = None]

\* apply_ctl_effect and apply_team_effect, as the triples they may leave.
\* Sleep reports success also when the cooldown refuses the phrase;
\* set_profile while awake retargets the pack and syncs the acting profile.
Applied(h, effect) ==
  LET same == [hands |-> h, state |-> state, active |-> active]
  IN  CASE effect = "softwake_sleep" /\ state = "Awake" ->
             {same, [same EXCEPT !.hands = ClearPending(h), !.state = "Sleep"]}
        [] effect = "softwake_set_profile" /\ state = "Awake" ->
             {[same EXCEPT !.hands = Acting(h, p), !.active = p] : p \in Profile}
        [] effect = "softwake_set_profile" /\ state # "Awake" ->
             {[same EXCEPT !.active = p] : p \in Profile}
        [] OTHER -> {same}

-----------------------------------------------------------------------------
Hands0(p) ==
  [pending |-> None, next_pending |-> 0, ctl_effect |-> None, team_effect |-> None,
   acting_profile_id |-> p, acting_allow_all |-> p \in AllowAll]

NoRun == [call |-> None]

Init ==
  /\ state = "Sleep"
  /\ active \in Profile
  /\ settings \in Settings
  /\ hands = Hands0(active)
  /\ owner = None
  /\ run = NoRun
  /\ runs = [i \in PendingId |-> 0]
  /\ gone = {}

\* The waiting id has left without running: cancelled, cleared or replaced.
Gone(h) ==
  gone' = IF hands.pending # None /\ h.pending # hands.pending
          THEN gone \cup {hands.pending.id} ELSE gone

\* Which profile's turn staged the record that waits now.
Owner(h, for) ==
  owner' = CASE h.pending = None -> None
             [] h.pending # None /\ h.pending = hands.pending -> owner
             [] OTHER -> for

\* A tool frame: Runtime::invoke_tool requests and leaves any effect behind.
InvokeTool(call) ==
  /\ \E out \in RequestOutcomes(hands, call, active) :
       /\ hands' = out.hands
       /\ run' = out.run
       /\ Gone(out.hands)
       /\ Owner(out.hands, active)
  /\ UNCHANGED <<state, active, settings, runs>>

\* The outcomes of taking and applying the effect Hands holds.
Drained(h) == Applied(EffectTaken(h), EffectOf(h))

\* confirm_tool goes on to the team effect, unless the ctl effect failed; of the
\* calls modelled a switch to a profile that is not there does.
BothDrained(h) ==
  {[end EXCEPT !.hands.team_effect = None] : end \in Drained(h)}
  \cup (IF h.ctl_effect = "softwake_set_profile"
        THEN {[hands |-> EffectTaken(h), state |-> state, active |-> active]} ELSE {})

\* invoke_for_chat: the call had outcome out and the effect outcome end.
Answered(for, out, end) ==
  /\ state' = end.state
  /\ active' = end.active
  /\ run' = out.run
  /\ Gone(end.hands)
  /\ Owner(end.hands, for)
  /\ UNCHANGED <<settings, runs>>

\* A call of the active profile's own turn.
ChatCall(call) ==
  \E out \in RequestOutcomes(hands, call, active) : \E end \in Drained(out.hands) :
    hands' = end.hands /\ Answered(active, out, end)

\* mutant: the peer stays the acting profile.
RestoredNot(h) == h

\* The acting profile is put back to what it was before the call.
Restored(h) ==
  [h EXCEPT !.acting_profile_id = hands.acting_profile_id,
            !.acting_allow_all = hands.acting_allow_all]

\* invoke_chat_as_profile: pin profile p, call, restore.
PeerCall(p, call) ==
  \E out \in RequestOutcomes(Acting(hands, p), call, p) :
  \E end \in Drained(out.hands) :
    hands' = Restored(end.hands) /\ Answered(p, out, end)

\* mutant: a confirmed record stays.
ConfirmedKeeps(h) == h

\* The record leaves Hands once its execution succeeded.
Confirmed(h) == [h EXCEPT !.pending = None]

\* mutant: the decision of the request still stands at the confirm.
ConfirmAllowedThen(h) == h.pending # None /\ state = "Awake"

ConfirmAllowed(h) ==
  /\ h.pending # None
  /\ state = "Awake"
  /\ Decision(h, ToolOf(h.pending.name)) # "Deny"

\* confirm_tool with the waiting id whose execution succeeds (a failure leaves
\* the record, so nothing changes).
ConfirmTool ==
  /\ ConfirmAllowed(hands)
  /\ LET call == hands.pending.name
         h == Confirmed(Executed(hands, call))
     IN  /\ \E end \in BothDrained(h) :
              /\ hands' = end.hands
              /\ state' = end.state
              /\ active' = end.active
         /\ run' = Run(hands, call, "confirmed", owner)
         /\ runs' = [runs EXCEPT ![hands.pending.id] = @ + 1]
  /\ owner' = IF hands'.pending = None THEN None ELSE owner
  /\ UNCHANGED <<settings, gone>>

\* cancel_tool with the waiting id, in any voice state.
CancelTool ==
  /\ hands.pending # None
  /\ hands' = [hands EXCEPT !.pending = None]
  /\ Gone(hands')
  /\ owner' = None
  /\ UNCHANGED <<state, active, settings, run, runs>>

-----------------------------------------------------------------------------
(* The surroundings of Hands. *)

\* Wake: commit_awake, then sync_shell_glossary pins the active profile.
Wake ==
  /\ state = "Sleep"
  /\ state' = "Awake"
  /\ hands' = Acting(hands, active)
  /\ UNCHANGED <<active, settings, owner, run, runs, gone>>

\* Sleep or hibernate: ReleaseActingResources clears the pending record.
LeaveAwake ==
  /\ state = "Awake"
  /\ state' = "Sleep"
  /\ hands' = ClearPending(hands)
  /\ Gone(hands')
  /\ owner' = IF hands'.pending = None THEN None ELSE owner
  /\ UNCHANGED <<active, settings, run, runs>>

\* The operator switches profile (slash or rail); the record, if any, stays.
SwitchProfile(p) ==
  /\ active' = p
  /\ hands' = IF state = "Awake" THEN Acting(hands, p) ELSE hands
  /\ UNCHANGED <<state, settings, owner, run, runs, gone>>

\* The Settings window saves tools.json.
SaveSettings ==
  /\ settings' \in Settings
  /\ UNCHANGED <<state, active, hands, owner, run, runs, gone>>

Next ==
  \/ \E call \in WireCalls : InvokeTool(call)
  \/ \E call \in Call : ChatCall(call)
  \/ \E p \in Profile : \E call \in PeerCalls : PeerCall(p, call)
  \/ ConfirmTool
  \/ CancelTool
  \/ Wake
  \/ LeaveAwake
  \/ \E p \in Profile : SwitchProfile(p)
  \/ SaveSettings

Spec == Init /\ [][Next]_vars

-----------------------------------------------------------------------------
TypeOK ==
  /\ state \in {"Sleep", "Awake"}
  /\ active \in Profile
  /\ settings \in Settings
  /\ hands \in HandsState
  /\ owner \in Profile \cup {None}
  /\ runs \in [PendingId -> Nat]
  /\ gone \subseteq PendingId

(* Acting stops when awake ends: nothing runs in another state, and no
   confirmation waits there to be answered later (dispatch.rs request,
   clear_pending; ADR-0005:29,39). *)
ActingStopsOutsideAwake ==
  /\ run # NoRun => run.state = "Awake"
  /\ hands.pending # None => state = "Awake"

(* A tool the operator has denied does not run, not even through a record
   that was staged while it was allowed (dispatch.rs confirm re-reads the
   decision). *)
NothingDeniedRuns == run # NoRun => run.grant # "Deny"

(* An install -- named as such or written as a shell line -- runs only after
   the operator confirmed it or set software_install itself to AlwaysAllow;
   neither allow_all nor an AlwaysAllow shell is enough (ADR-0052:53). *)
InstallsAskOperator ==
  (run # NoRun /\ run.call \in {"software_install", "shell_install"}) =>
    \/ run.how = "confirmed"
    \/ run.call = "software_install" /\ run.grant = "AlwaysAllow"

(* A confirmation decides once: an id runs at most once, and never after it
   was cancelled, cleared or replaced (ADR-0005:33). *)
ConfirmRunsOnce ==
  \A i \in PendingId :
    /\ runs[i] <= 1
    /\ runs[i] = 1 => i \notin gone
    /\ (hands.pending # None /\ hands.pending.id = i) => runs[i] = 0 /\ i \notin gone

(* What runs without a confirmation runs in the home of the profile whose
   turn asked for it, and skips the question only if that profile has
   allow_all or the operator allowed the tool (ADR-0052:51). *)
TurnRunsAsItsOwner ==
  (run # NoRun /\ run.how # "confirmed") =>
    /\ run.home = run.owner
    /\ run.how = "always" => run.allow_all \/ run.grant = "AlwaysAllow"

(* A waiting record is replaced by nothing but an install proposal
   (dispatch.rs stage_confirm). *)
ReplacedOnlyByInstall ==
  [][ (hands.pending # None /\ hands'.pending \notin {None, hands.pending}) =>
        hands'.pending.name = "software_install" ]_vars

(* A call is answered with its own effect (dispatch.rs:366 take_ctl_effect:
   "produced by the last softwake_* tool run"): neither a chat call nor a
   confirmation, whatever it ran and whoever's turn it was, leaves an effect in
   Hands for the next one to find.  A tool frame does (invoke_tool takes none),
   and what it left is drained by the next call. *)
EffectAnswersOwnCall ==
  [][ EffectOf(hands') # None =>
        EffectOf(hands) # None \/ \E call \in WireCalls : InvokeTool(call) ]_vars

(* ADR-0052:51: allow_all turns Ask into Always "for turns owned by that
   profile". *)
AllowAllStaysWithOwner ==
  (run # NoRun /\ run.how = "always") => run.allow_all \/ run.grant = "AlwaysAllow"
=============================================================================
