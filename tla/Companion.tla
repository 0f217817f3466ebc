------------------------------ MODULE Companion ------------------------------
(***************************************************************************)
(* One schedule row and the two machines that may fire it: the laptop      *)
(* (softwake-daemon schedule_tick.rs and the background loops of           *)
(* remote_agent.rs) and the companion node (softwake-node state.rs).       *)
(*                                                                         *)
(* The laptop owns schedules.json and mirrors it; both keep a next fire    *)
(* time and advance it by themselves.  Presence says whose turn a row with *)
(* run_on = auto is, and a lease on the node arbitrates.  Every HTTP call  *)
(* of the laptop is a step of its own; the schedule tick holds the runtime *)
(* lock across its calls, so no heartbeat is read meanwhile.               *)
(*                                                                         *)
(* A tick of either machine reads the clock once, and comes to this row    *)
(* when it is through with the profiles before it, whose agent tasks may   *)
(* take minutes; where the row goes next it finds with the clock of then.  *)
(***************************************************************************)
EXTENDS Integers, FiniteSets

CONSTANTS
  Slots,         \* the times the row is due
  Scan,          \* by the clock, the earliest slot that is looked for: the
                 \* next minute for a cron row, today for a daily one
  RunOn,         \* "local", "companion" or "auto"
  Grace,         \* CATCH_UP_GRACE_MS
  LeaseTTL,      \* ttl_ms of a lease
  PresenceGrace, \* PRESENCE_GRACE_MS
  Faults,        \* what may go wrong: see Fault
  MaxNow,        \* bound on the clock, which laptop and node share
  None           \* no next fire, no lease, no copy in flight

Fault == {"sleep",    \* the laptop's voice leaves and enters awake
          "crash",    \* the daemon dies and is started again
          "network",  \* a call does not reach the node, or its answer is lost
          "restart",  \* the node dies and is started again
          "late"}     \* heartbeats are further apart than PresenceGrace: the
                      \* laptop is suspended, and takes no step, or its loops
                      \* are held up

ASSUME CompanionAssumption ==
  /\ MaxNow \in Nat
  /\ Slots \subseteq 1..MaxNow
  /\ Scan \in [0..MaxNow -> Nat] /\ Scan[0] <= 1
  /\ Grace \in Nat /\ LeaseTTL \in Nat \ {0} /\ PresenceGrace \in Nat \ {0}
  /\ RunOn \in {"local", "companion", "auto"}
  /\ Faults \subseteq Fault
  /\ None \notin Slots
  /\ None \notin [claimer : {"laptop", "companion"}, expires : Nat]

VARIABLES
  now,
  disk,      \* next_fire_ms in the laptop's schedules.json
  tick,      \* the laptop's schedule tick: where it is and what it read
  beat,      \* the heartbeat that is on its way
  copy,      \* what the mirror thread read and has not put yet
  pass,      \* the node's tick under way that found the row its own
  presence,  \* NodeState::presence
  mirror,    \* next_fire_ms in the node's copy of the row
  leases,    \* NodeState::leases, by slot
  taken,     \* slots the node has advanced past and not delivered yet
  outbox,    \* slots the node's outbox has an item for
  fires,     \* history: who took a slot to fire it, and when
  missed,    \* history: slots given up because the grace had passed
  lapsed     \* history: slots that came due during a tick and were not looked for

laptopVars == <<disk, tick, copy, beat>>
nodeVars == <<pass, presence, mirror, leases, taken, outbox>>
vars == <<now, laptopVars, nodeVars, fires, missed, lapsed>>

\* compute_next_fire_ms: the first slot not before t, among those that are looked
\* for with the clock as it is now.
NextFrom(t) ==
  LET ahead == {s \in Slots : s >= t /\ s >= Scan[now]}
  IN  IF ahead = {} THEN None ELSE CHOOSE s \in ahead : \A r \in ahead : s <= r

\* mutant: a row that fired leaves out what is due within its grace.
AdvancedFar(t) == NextFrom(t + Grace + 2)

\* advance_after_fire.
Advanced(t) == NextFrom(t + 1)

\* What NextFrom(t) leaves out because the clock has moved on since t.
PassedBy(t) == {s \in Slots : t <= s /\ s < Scan[now]}

Due(next, t) == next \in Slots /\ next <= t

\* mutant: there is no catch-up limit.
InGraceAlways(next, t) == TRUE

\* should_fire, for a due row at clock reading t.
InGrace(next, t) == t - next <= Grace

Idle == [pc |-> "idle"]

\* skip_missed, by a tick of clock reading t: the row goes to its first slot not
\* before t.
SkippedOver(next, t) == {r \in Slots : next <= r /\ r < t}

\* A fire by a tick of clock reading t, under a lease that ends at until; without
\* a lease until is now.
Fire(s, by, t, until) ==
  fires' = fires \cup {[slot |-> s, by |-> by, seen |-> t, at |-> now, until |-> until]}

-----------------------------------------------------------------------------
(* The node. *)

\* mutant: presence counts once it is older than its grace.
LaptopIsPresentInverted == presence.state = "present" /\ now - presence.ts >= PresenceGrace

\* effective_presence(now).state = Present.
LaptopIsPresent ==
  presence.state = "present" /\ now - presence.ts <= PresenceGrace

\* claim_lease refuses: another claimer's lease has not expired.
HeldByOther(s, claimer) ==
  leases[s] # None /\ leases[s].expires > now /\ leases[s].claimer # claimer

\* claim_lease succeeds: an unexpired lease of the claimer stays as it is.
Claimed(s, claimer) ==
  IF leases[s] # None /\ leases[s].expires > now THEN leases
  ELSE [leases EXCEPT ![s] = [claimer |-> claimer, expires |-> now + LeaseTTL]]

\* tick_schedules: the clock and the laptop's presence are read once.  An auto
\* row is passed over while the laptop is present.
NodeTick ==
  /\ pass = None /\ taken = {}
  /\ RunOn # "local"
  /\ RunOn = "auto" => ~LaptopIsPresent
  /\ pass' = [at |-> now]
  /\ UNCHANGED <<now, laptopVars, presence, mirror, leases, taken, outbox, fires, missed, lapsed>>

\* tick_profile comes to the row, and claims by the clock of its own.
NodeRow ==
  /\ pass # None
  /\ pass' = None
  /\ CASE ~Due(mirror, pass.at) ->
            UNCHANGED <<mirror, missed, lapsed, leases, taken, fires>>
       [] Due(mirror, pass.at) /\ ~InGrace(mirror, pass.at) ->
            /\ mirror' = NextFrom(pass.at)
            /\ missed' = missed \cup SkippedOver(mirror, pass.at)
            /\ lapsed' = lapsed \cup PassedBy(pass.at)
            /\ UNCHANGED <<leases, taken, fires>>
       [] OTHER ->
            /\ mirror' = Advanced(pass.at)
            /\ lapsed' = lapsed \cup PassedBy(pass.at + 1)
            /\ IF HeldByOther(mirror, "companion")
               THEN UNCHANGED <<leases, taken, fires>>
               ELSE /\ leases' = Claimed(mirror, "companion")
                    /\ taken' = taken \cup {mirror}
                    /\ Fire(mirror, "companion", pass.at, leases'[mirror].expires)
            /\ UNCHANGED missed
  /\ UNCHANGED <<now, laptopVars, presence, outbox>>

\* The tick goes on after it let go of the schedules: push_outbox.
Deliver(s) ==
  /\ s \in taken
  /\ taken' = taken \ {s}
  /\ outbox' = outbox \cup {s}
  /\ UNCHANGED <<now, laptopVars, pass, presence, mirror, leases, fires, missed, lapsed>>

\* mutant: a restart forgets the leases.
ReopenedWithoutLeases == [s \in Slots |-> None]

\* load_leases.
Reopened == leases

\* NodeState::open: rows and leases come back from disk, presence does not.
NodeRestart ==
  /\ "restart" \in Faults
  /\ presence' = [state |-> "offline", ts |-> -MaxNow]
  /\ leases' = Reopened
  /\ taken' = {}
  /\ pass' = None
  /\ UNCHANGED <<now, laptopVars, mirror, outbox, fires, missed, lapsed>>

-----------------------------------------------------------------------------
(* The laptop's schedule tick: tick_all, tick_profile and fire_one for the row. *)

\* A tick that will come to a row that is due: only a tick moves the row.
TickStarts ==
  /\ tick = Idle /\ Due(disk, now)
  /\ tick' = [pc |-> "scan", at |-> now]
  /\ UNCHANGED <<now, disk, copy, beat, nodeVars, fires, missed, lapsed>>

\* A row that is due fires at once if it is local; a companion row is mirrored
\* and passed on; for an auto row the node is asked who is present.
TickRow ==
  /\ tick.pc = "scan"
  /\ IF ~InGrace(disk, tick.at)
     THEN /\ tick' = Idle
          /\ disk' = NextFrom(tick.at)
          /\ missed' = missed \cup SkippedOver(disk, tick.at)
          /\ lapsed' = lapsed \cup PassedBy(tick.at)
          /\ UNCHANGED <<mirror, fires>>
     ELSE /\ tick' = [pc |-> IF RunOn = "auto" THEN "ask" ELSE "save",
                      slot |-> disk, at |-> tick.at]
          /\ IF RunOn = "local" THEN Fire(disk, "laptop", tick.at, now) ELSE UNCHANGED fires
          /\ mirror' \in IF RunOn # "companion" THEN {mirror}
                         ELSE IF "network" \in Faults THEN {mirror, disk} ELSE {disk}
          /\ UNCHANGED <<disk, missed, lapsed>>
  /\ UNCHANGED <<now, copy, beat, pass, presence, leases, taken, outbox>>

\* companion_says_present: a node that cannot be reached counts as yes, and one
\* that answers with an error as no; on a no the rows are mirrored as they are on
\* disk, and the row is passed on.
AskPresence ==
  /\ tick.pc = "ask"
  /\ \/ /\ LaptopIsPresent \/ "network" \in Faults
        /\ tick' = [tick EXCEPT !.pc = "claim"]
        /\ UNCHANGED mirror
     \/ /\ ~LaptopIsPresent \/ "network" \in Faults
        /\ tick' = [tick EXCEPT !.pc = "save"]
        /\ mirror' \in IF "network" \in Faults THEN {mirror, disk} ELSE {disk}
  /\ UNCHANGED <<now, disk, copy, beat, pass, presence, leases, taken, outbox,
                 fires, missed, lapsed>>

\* claim_lease: won and fired, lost and passed on, or the call failed on the
\* way there or back and the row is fired.
ClaimLease ==
  /\ tick.pc = "claim"
  /\ tick' = [tick EXCEPT !.pc = "save"]
  /\ \/ /\ ~HeldByOther(tick.slot, "laptop")
        /\ leases' = Claimed(tick.slot, "laptop")
        /\ Fire(tick.slot, "laptop", tick.at, leases'[tick.slot].expires)
     \/ /\ HeldByOther(tick.slot, "laptop")
        /\ UNCHANGED <<leases, fires>>
     \/ /\ "network" \in Faults
        /\ \/ UNCHANGED leases
           \/ ~HeldByOther(tick.slot, "laptop") /\ leases' = Claimed(tick.slot, "laptop")
        /\ Fire(tick.slot, "laptop", tick.at, now)
  /\ UNCHANGED <<now, disk, copy, beat, pass, presence, mirror, taken, outbox,
                 missed, lapsed>>

\* mutant: the row that moved on is not written back.
SavedNothing ==
  /\ tick.pc = "save"
  /\ tick' = Idle
  /\ UNCHANGED <<now, disk, copy, beat, nodeVars, fires, missed, lapsed>>

\* The row moves past the clock the tick started with, as far as the clock of now
\* lets it.
SaveRow ==
  /\ tick.pc = "save"
  /\ disk' = Advanced(tick.at)
  /\ lapsed' = lapsed \cup PassedBy(tick.at + 1)
  /\ tick' = Idle
  /\ UNCHANGED <<now, copy, beat, nodeVars, fires, missed>>

-----------------------------------------------------------------------------
(* The laptop's background loops. *)

\* What a heartbeat may find the voice in: awake, or not.
VoiceSays == IF "sleep" \in Faults THEN {"present", "sleeping"} ELSE {"present"}

\* The voice state is read under the runtime lock, if that is free; the
\* heartbeat is put after the lock was let go.
HeartbeatRead ==
  /\ tick = Idle
  /\ beat = None
  /\ \E state \in VoiceSays : beat' = [state |-> state, ts |-> now]
  /\ UNCHANGED <<now, disk, tick, copy, nodeVars, fires, missed, lapsed>>

HeartbeatPut ==
  /\ beat # None
  /\ presence' \in IF "network" \in Faults THEN {presence, beat} ELSE {beat}
  /\ beat' = None
  /\ UNCHANGED <<now, disk, tick, copy, pass, mirror, leases, taken, outbox,
                 fires, missed, lapsed>>

\* mirror_schedules reads the file, then puts what it read.
MirrorRead ==
  /\ RunOn # "local"
  /\ copy = None
  /\ copy' = [row |-> disk]
  /\ UNCHANGED <<now, disk, tick, beat, nodeVars, fires, missed, lapsed>>

MirrorPut ==
  /\ copy # None
  /\ mirror' \in IF "network" \in Faults THEN {mirror, copy.row} ELSE {copy.row}
  /\ copy' = None
  /\ UNCHANGED <<now, disk, tick, beat, pass, presence, leases, taken, outbox,
                 fires, missed, lapsed>>

-----------------------------------------------------------------------------
Crash ==
  /\ "crash" \in Faults
  /\ tick' = Idle
  /\ copy' = None
  /\ beat' = None
  /\ UNCHANGED <<now, disk, nodeVars, fires, missed, lapsed>>

Init ==
  /\ now = 0
  /\ disk = NextFrom(0)
  /\ tick = Idle
  /\ copy = None
  /\ beat = None
  /\ pass = None
  /\ \E state \in VoiceSays : presence = [state |-> state, ts |-> 0]
  /\ mirror = IF RunOn = "local" THEN None ELSE disk
  /\ leases = [s \in Slots |-> None]
  /\ taken = {}
  /\ outbox = {}
  /\ fires = {}
  /\ missed = {}
  /\ lapsed = {}

\* Without a fault, a heartbeat comes in time.
Tick ==
  /\ now < MaxNow
  /\ {"late", "restart", "crash"} \cap Faults = {} =>
       now + 1 - presence.ts <= PresenceGrace
  /\ now' = now + 1
  /\ UNCHANGED <<laptopVars, nodeVars, fires, missed, lapsed>>

Next ==
  \/ NodeTick \/ NodeRow
  \/ \E s \in Slots : Deliver(s)
  \/ NodeRestart
  \/ TickStarts \/ TickRow \/ AskPresence \/ ClaimLease \/ SaveRow
  \/ HeartbeatRead \/ HeartbeatPut \/ MirrorRead \/ MirrorPut
  \/ Crash
  \/ Tick

Spec == Init /\ [][Next]_vars

\* Every loop sleeps and comes round again, and time passes.
Fairness ==
  /\ WF_vars(NodeTick) /\ WF_vars(NodeRow)
  /\ \A s \in Slots : WF_vars(Deliver(s))
  /\ WF_vars(TickStarts) /\ WF_vars(TickRow) /\ WF_vars(AskPresence) /\ WF_vars(ClaimLease) /\ WF_vars(SaveRow)
  /\ WF_vars(HeartbeatRead) /\ WF_vars(HeartbeatPut)
  /\ WF_vars(MirrorRead) /\ WF_vars(MirrorPut)
  /\ WF_vars(Tick)

FairSpec == Spec /\ Fairness

-----------------------------------------------------------------------------
TypeOK ==
  /\ now \in 0..MaxNow
  /\ {disk, mirror} \subseteq Slots \cup {None}
  /\ tick \in {Idle} \cup [pc : {"scan"}, at : 0..now]
                    \cup [pc : {"ask", "claim", "save"}, slot : Slots, at : 0..now]
  /\ pass \in {None} \cup [at : 0..now]
  /\ copy \in {None} \cup [row : Slots \cup {None}]
  /\ presence.state \in {"present", "sleeping", "offline"}
  /\ beat \in {None} \cup [state : {"present", "sleeping"}, ts : 0..now]
  /\ leases \in [Slots -> {None} \cup
                   [claimer : {"laptop", "companion"}, expires : 1..(MaxNow + LeaseTTL)]]
  /\ taken \subseteq Slots /\ outbox \subseteq Slots
  /\ missed \subseteq Slots /\ lapsed \subseteq Slots
  /\ fires \subseteq [slot : Slots, by : {"laptop", "companion"}, seen : 0..MaxNow,
                     at : 0..MaxNow, until : 0..(MaxNow + LeaseTTL)]

(* The lease keeps the two machines apart: neither takes a slot under a lease
   while the lease runs under which the other took it, also across restarts of
   either, answers that are lost, and however far their copies of the row have
   drifted (state.rs claim_lease).  A laptop that cannot reach the node fires
   without a lease, and a machine is not kept from firing again itself. *)
Leased(f) == f.until > f.at

LeaseKeepsApart ==
  \A f, g \in fires :
    (/\ f.slot = g.slot /\ f.by # g.by
     /\ Leased(f) /\ Leased(g)
     /\ f.at >= g.at) => f.at >= g.until

(* No row fires before its time, nor by a tick that began long after it: what
   was missed by more than the grace is given up, whichever machine finds it and
   however long that machine was away (schedule.rs should_fire).  Both judge by
   the clock their tick began with, and a tick may be long: when it comes to the
   row the grace may be over. *)
FiresWhenDue ==
  \A f \in fires : f.slot <= f.seen /\ f.seen <= f.at /\ f.seen - f.slot <= Grace

(* ADR-0040:9: "dispatch without double-fire". *)
FiredOnce ==
  \A f, g \in fires : f.slot = g.slot => f.by = g.by /\ f.at = g.at

(* A slot both machines have moved past was fired by the laptop, is on its
   way to the outbox or in it, or was given up as too old; nothing on the way
   from one machine to the other may fall between them (ADR-0040:40 "so fires
   continue while the laptop is asleep").  A slot of a cron row that comes due
   while a tick is at the row is not looked for again (schedule.rs:506-512). *)
Past(next, s) == next = None \/ next > s

Settled(s) ==
  \/ \E f \in fires : f.slot = s /\ f.by = "laptop"
  \/ s \in missed
  \/ s \in outbox

NoSlotDropped ==
  \A s \in Slots :
    (Past(disk, s) /\ Past(mirror, s) /\ (copy # None => Past(copy.row, s))) =>
      Settled(s) \/ s \in taken \/ s \in lapsed

(* With both machines up and the network working, every slot is in the end
   fired, delivered to the outbox or given up as too old, but for one that came
   due during the tick of the slot before it. *)
EverySlotSettles == \A s \in Slots : <>(Settled(s) \/ s \in lapsed)
=============================================================================
