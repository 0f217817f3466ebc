---------------------------- MODULE CompanionProofs ----------------------------
(***************************************************************************)
(* The lease keeps laptop and companion apart, for any slots, grace, ttl   *)
(* and clock, and under every fault: a laptop that cannot ask fires        *)
(* without a lease, and what it fires then says nothing about leases.      *)
(***************************************************************************)
EXTENDS Companion, WellFoundedInduction, TLAPS

Lease == [claimer : {"laptop", "companion"}, expires : Nat]

Scans == [pc : {"scan"}, at : Nat]
Stage == [pc : {"ask", "claim", "save"}, slot : Slots, at : Nat]

(* A fire whose lease still runs is the fire of the lease's holder. *)
FireHolds(f) ==
  /\ f.slot \in Slots /\ f.at \in Nat /\ f.until \in Nat /\ f.at <= now
  /\ f.by \in {"laptop", "companion"}
  /\ f.at <= f.until
  /\ f.until > now =>
       leases[f.slot] = [claimer |-> f.by, expires |-> f.until]

(* A tick that has yet to come to the row found it due when it began, and the *)
(* row is still where it was.                                                 *)
TicksFit ==
  /\ tick \in {Idle} \cup Scans \cup Stage
  /\ tick.pc \in {"ask", "claim"} => RunOn = "auto"
  /\ tick.pc = "scan" => Due(disk, tick.at)
  /\ pass # None => pass.at \in Nat

IInv ==
  /\ now \in Nat
  /\ leases \in [Slots -> {None} \cup Lease]
  /\ TicksFit
  /\ \A f \in fires : FireHolds(f)
  /\ LeaseKeepsApart

USE CompanionAssumption

(* In the beginning nothing has fired and no lease is held. *)
LEMMA InitIInv == Init => IInv
  BY DEF Init, IInv, TicksFit, Idle, LeaseKeepsApart

(* What a step that fires nothing and claims nothing has to keep. *)
LEMMA QuietStep ==
  ASSUME IInv, UNCHANGED <<fires, leases>>, now' \in Nat, now' >= now,
         TicksFit'
  PROVE  IInv'
  <1>1. ASSUME NEW f \in fires PROVE FireHolds(f)'
    <2>1. FireHolds(f) /\ now \in Nat
      BY <1>1 DEF IInv
    <2>2. f.at <= now' /\ (f.until > now' => f.until > now)
      BY <2>1 DEF FireHolds
    <2> QED BY <2>1, <2>2 DEF FireHolds
  <1>2. LeaseKeepsApart'
    BY DEF IInv, LeaseKeepsApart
  <1> QED BY <1>1, <1>2 DEF IInv

(* A claim that is not refused gives a lease of the claimer that still runs. *)
LEMMA ClaimGivesLease ==
  ASSUME IInv, NEW s \in Slots, NEW by \in {"laptop", "companion"}, ~HeldByOther(s, by)
  PROVE  /\ Claimed(s, by) \in [Slots -> {None} \cup Lease]
         /\ Claimed(s, by)[s] \in Lease
         /\ Claimed(s, by)[s].claimer = by
         /\ Claimed(s, by)[s].expires > now
         /\ \A r \in Slots : leases[r] \in Lease /\ leases[r].expires > now =>
              Claimed(s, by)[r] = leases[r]
  <1>1. CASE leases[s] # None /\ leases[s].expires > now
    BY <1>1 DEF IInv, Claimed, HeldByOther, Lease
  <1>2. CASE ~(leases[s] # None /\ leases[s].expires > now)
    <2>1. [claimer |-> by, expires |-> now + LeaseTTL] \in Lease
      BY DEF IInv, Lease
    <2>2. now + LeaseTTL > now
      BY DEF IInv
    <2>3. Claimed(s, by) = [leases EXCEPT ![s] = [claimer |-> by, expires |-> now + LeaseTTL]]
      BY <1>2 DEF Claimed
    <2>4. \A t \in Slots : leases[t] \in Lease /\ leases[t].expires > now => t # s
      BY <1>2 DEF Lease
    <2> QED BY <2>1, <2>2, <2>3, <2>4 DEF IInv
  <1> QED BY <1>1, <1>2

(* A fire under a fresh or running lease of its own keeps the machines apart. *)
LEMMA LeasedFire ==
  ASSUME IInv, NEW s \in Slots, NEW by \in {"laptop", "companion"},
         ~HeldByOther(s, by),
         leases' = Claimed(s, by), NEW t, Fire(s, by, t, leases'[s].expires), UNCHANGED now,
         TicksFit'
  PROVE  IInv'
  <1>0. PICK n \in Nat, end \in Nat : n = now /\ end = leases'[s].expires
    BY ClaimGivesLease DEF IInv, Lease
  <1> DEFINE new == [slot |-> s, by |-> by, seen |-> t, at |-> n, until |-> end]
  <1>1. /\ leases' \in [Slots -> {None} \cup Lease]
        /\ leases'[s] \in Lease /\ leases'[s].claimer = by /\ leases'[s].expires > now
        /\ \A r \in Slots : leases[r] \in Lease /\ leases[r].expires > now =>
             leases'[r] = leases[r]
    BY ClaimGivesLease
  <1>2. FireHolds(new)'
    <2>1. leases'[s] = [claimer |-> by, expires |-> end] /\ n < end /\ now' = n
      BY <1>0, <1>1 DEF Lease
    <2> QED BY <2>1 DEF FireHolds
  <1>3. ASSUME NEW f \in fires PROVE FireHolds(f)'
    <2>1. FireHolds(f)
      BY <1>3 DEF IInv
    <2>2. f.until > now => leases[f.slot] \in Lease /\ leases[f.slot].expires > now
      BY <2>1 DEF FireHolds, Lease
    <2> QED BY <1>1, <2>1, <2>2 DEF FireHolds
  <1>4. ASSUME NEW g \in fires, g.slot = s, g.by # by PROVE g.until <= now
    <2>1. FireHolds(g) /\ now \in Nat
      BY <1>4 DEF IInv
    <2>2. SUFFICES ASSUME g.until > now PROVE FALSE
      BY <2>1 DEF FireHolds
    <2>3. leases[s] = [claimer |-> g.by, expires |-> g.until] /\ leases[s] \in Lease
      BY <1>4, <2>1, <2>2 DEF FireHolds, Lease
    <2> QED BY <1>4, <2>2, <2>3 DEF HeldByOther, Lease
  <1>5. LeaseKeepsApart'
    <2> SUFFICES ASSUME NEW f \in fires', NEW g \in fires',
                        f.slot = g.slot, f.by # g.by, f.at >= g.at,
                        f.until > f.at, g.until > g.at
                 PROVE  f.at >= g.until
      BY DEF LeaseKeepsApart, Leased
    <2>1. CASE f \in fires /\ g \in fires
      BY <2>1 DEF IInv, LeaseKeepsApart, Leased
    <2>2. CASE f = new /\ g \in fires
      <3>1. g.until <= now
        BY <1>4, <2>2
      <3> QED BY <1>0, <2>2, <3>1 DEF IInv, FireHolds
    <2>3. CASE f \in fires /\ g = new
      <3>1. f.until <= now /\ FireHolds(f) /\ now \in Nat
        BY <1>4, <2>3 DEF IInv
      <3>2. f.at < now
        BY <3>1 DEF FireHolds
      <3> QED BY <1>0, <2>3, <3>1, <3>2 DEF FireHolds
    <2>4. CASE f = new /\ g = new
      BY <2>4
    <2> QED BY <1>0, <2>1, <2>2, <2>3, <2>4 DEF Fire
  <1>6. \A f \in fires' : FireHolds(f)'
    BY <1>0, <1>2, <1>3 DEF Fire
  <1> QED BY <1>1, <1>5, <1>6 DEF IInv

(* A fire without a lease breaks nothing, if running leases stay. *)
LEMMA UnleasedFire ==
  ASSUME IInv, NEW s \in Slots, UNCHANGED now, NEW t, Fire(s, "laptop", t, now),
         leases' \in [Slots -> {None} \cup Lease],
         \A r \in Slots : leases[r] \in Lease /\ leases[r].expires > now =>
           leases'[r] = leases[r],
         TicksFit'
  PROVE  IInv'
  <1>0. PICK n \in Nat : n = now
    BY DEF IInv
  <1> DEFINE new == [slot |-> s, by |-> "laptop", seen |-> t, at |-> n, until |-> n]
  <1>1. \A f \in fires' : FireHolds(f)'
    <2>1. ASSUME NEW f \in fires PROVE FireHolds(f)'
      <3>1. FireHolds(f)
        BY <2>1 DEF IInv
      <3>2. f.until > now => leases[f.slot] \in Lease /\ leases[f.slot].expires > now
        BY <3>1 DEF FireHolds, Lease
      <3> QED BY <3>1, <3>2 DEF FireHolds
    <2>2. FireHolds(new)'
      BY <1>0 DEF FireHolds
    <2> QED BY <1>0, <2>1, <2>2 DEF Fire
  <1>2. LeaseKeepsApart'
    <2> SUFFICES ASSUME NEW f \in fires', NEW g \in fires',
                        f.slot = g.slot, f.by # g.by, f.at >= g.at,
                        f.until > f.at, g.until > g.at
                 PROVE  f.at >= g.until
      BY DEF LeaseKeepsApart, Leased
    <2>1. f # new /\ g # new
      OBVIOUS
    <2>2. f \in fires /\ g \in fires
      BY <1>0, <2>1 DEF Fire
    <2> QED BY <2>2 DEF IInv, LeaseKeepsApart, Leased
  <1> QED BY <1>1, <1>2 DEF IInv

LEMMA NodeRowIInv == IInv /\ NodeRow => IInv'
  <1> SUFFICES ASSUME IInv, NodeRow PROVE IInv'
    OBVIOUS
  <1>1. UNCHANGED now /\ TicksFit'
    BY DEF NodeRow, laptopVars, IInv, TicksFit
  <1>2. CASE UNCHANGED <<leases, fires>>
    BY <1>1, <1>2, QuietStep DEF IInv
  <1>3. CASE /\ mirror \in Slots
             /\ ~HeldByOther(mirror, "companion")
             /\ leases' = Claimed(mirror, "companion")
             /\ Fire(mirror, "companion", pass.at, leases'[mirror].expires)
    <2>1. PICK s \in Slots, t \in {pass.at} : s = mirror /\ t = pass.at
      BY <1>3
    <2> QED BY <1>1, <1>3, <2>1, LeasedFire
  <1> QED BY <1>2, <1>3 DEF NodeRow, Due

LEMMA TickRowIInv == IInv /\ TickRow => IInv'
  <1> SUFFICES ASSUME IInv, TickRow PROVE IInv'
    OBVIOUS
  <1>1. UNCHANGED <<now, leases, pass>> /\ tick \in Scans /\ tick.at \in Nat /\ disk \in Slots
    BY DEF TickRow, IInv, TicksFit, Idle, Scans, Stage, Due
  <1>2. TicksFit'
    <2>1. CASE tick' = Idle
      BY <1>1, <2>1 DEF IInv, TicksFit, Idle
    <2>2. CASE tick' = [pc |-> IF RunOn = "auto" THEN "ask" ELSE "save",
                        slot |-> disk, at |-> tick.at]
      BY <1>1, <2>2 DEF IInv, TicksFit, Stage
    <2> QED BY <2>1, <2>2 DEF TickRow
  <1>3. CASE UNCHANGED fires
    BY <1>1, <1>2, <1>3, QuietStep DEF IInv
  <1>4. CASE Fire(disk, "laptop", tick.at, now)
    <2>1. PICK s \in Slots, t \in {tick.at} : s = disk /\ t = tick.at
      BY <1>1
    <2> QED BY <1>1, <1>2, <1>4, <2>1, UnleasedFire DEF IInv
  <1> QED BY <1>3, <1>4 DEF TickRow

LEMMA ClaimLeaseIInv ==
  ASSUME IInv, ClaimLease PROVE IInv'
  <1>1. /\ UNCHANGED now /\ tick.pc = "claim" /\ tick.slot \in Slots /\ TicksFit'
    BY DEF ClaimLease, IInv, TicksFit, Idle, Scans, Stage
  <1>0. PICK s \in Slots, t \in {tick.at} : s = tick.slot /\ t = tick.at
    BY <1>1
  <1>2. CASE UNCHANGED <<leases, fires>>
    BY <1>1, <1>2, QuietStep DEF IInv
  <1>3. CASE /\ ~HeldByOther(s, "laptop")
             /\ leases' = Claimed(s, "laptop")
             /\ Fire(s, "laptop", t, leases'[s].expires)
    BY <1>1, <1>3, LeasedFire
  <1>4. ASSUME \/ UNCHANGED leases
               \/ ~HeldByOther(s, "laptop") /\ leases' = Claimed(s, "laptop"),
               Fire(s, "laptop", t, now)
        PROVE  IInv'
    <2>1. /\ leases' \in [Slots -> {None} \cup Lease]
          /\ \A r \in Slots : leases[r] \in Lease /\ leases[r].expires > now =>
               leases'[r] = leases[r]
      <3>1. CASE leases' = leases
        BY <3>1 DEF IInv
      <3>2. CASE ~HeldByOther(s, "laptop") /\ leases' = Claimed(s, "laptop")
        BY <3>2, ClaimGivesLease
      <3> QED BY <1>4, <3>1, <3>2
    <2> QED BY <1>1, <1>4, <2>1, UnleasedFire
  <1> QED BY <1>0, <1>2, <1>3, <1>4 DEF ClaimLease

(* The other steps fire nothing and claim nothing. *)
Others ==
  \/ NodeTick \/ \E s \in Slots : Deliver(s)
  \/ NodeRestart \/ TickStarts \/ AskPresence \/ SaveRow
  \/ HeartbeatRead \/ HeartbeatPut \/ MirrorRead \/ MirrorPut
  \/ Crash \/ Tick
  \/ UNCHANGED vars

LEMMA OtherIInv ==
  ASSUME IInv, Others PROVE IInv'
  <1>1. UNCHANGED <<fires, leases>>
    BY DEF Others, NodeTick, TickStarts, Deliver, NodeRestart, Reopened, AskPresence,
           SaveRow, HeartbeatRead, HeartbeatPut, MirrorRead, MirrorPut, Crash, Tick,
           vars, nodeVars
  <1>2. now' \in Nat /\ now' >= now
    BY DEF Others, IInv, NodeTick, TickStarts, Deliver, NodeRestart, AskPresence,
           SaveRow, HeartbeatRead, HeartbeatPut, MirrorRead, MirrorPut, Crash, Tick, vars
  <1>3. TicksFit'
    <2>1. CASE tick' \in {tick, Idle} /\ (tick' = tick => disk' = disk)
               /\ (pass' \in {pass, None} \/ pass' = [at |-> now])
      BY <2>1 DEF IInv, TicksFit, Idle
    <2>2. CASE AskPresence
      <3>1. tick.pc = "ask" /\ tick \in Stage /\ RunOn = "auto" /\ UNCHANGED pass
        BY <2>2 DEF AskPresence, IInv, TicksFit, Idle, Scans, Stage
      <3>2. tick' = [tick EXCEPT !.pc = "claim"] \/ tick' = [tick EXCEPT !.pc = "save"]
        BY <2>2 DEF AskPresence
      <3>3. tick' \in Stage /\ tick'.pc \in {"claim", "save"}
        BY <3>1, <3>2 DEF Stage
      <3> QED BY <3>1, <3>3 DEF IInv, TicksFit
    <2>3. CASE TickStarts
      BY <2>3 DEF TickStarts, IInv, TicksFit, Idle, Scans, Stage, nodeVars
    <2>4. CASE SaveRow
      BY <2>4 DEF SaveRow, IInv, TicksFit, Idle, nodeVars
    <2>5. CASE NodeTick \/ Crash \/ NodeRestart
      BY <2>1, <2>5 DEF NodeTick, Crash, NodeRestart, laptopVars, nodeVars
    <2>6. CASE UNCHANGED <<tick, disk, pass>>
      BY <2>1, <2>6
    <2>7. CASE \/ \E s \in Slots : Deliver(s)
               \/ HeartbeatRead \/ HeartbeatPut \/ MirrorRead \/ MirrorPut
               \/ Tick \/ UNCHANGED vars
      BY <2>6, <2>7 DEF Deliver, HeartbeatRead, HeartbeatPut, MirrorRead, MirrorPut, Tick,
                        vars, laptopVars, nodeVars
    <2> QED BY <2>2, <2>3, <2>4, <2>5, <2>7 DEF Others
  <1> QED BY <1>1, <1>2, <1>3, QuietStep

LEMMA NextIInv == IInv /\ [Next]_vars => IInv'
  BY NodeRowIInv, TickRowIInv, ClaimLeaseIInv, OtherIInv DEF Next, Others

(* While one machine's lease on a slot runs the other takes no lease on it    *)
(* and so does not fire it under one, for every choice of slots, ttl, grace   *)
(* and faults (state.rs claim_lease).                                         *)
THEOREM LeaseApart == Spec => []LeaseKeepsApart
  <1>1. IInv => LeaseKeepsApart
    BY DEF IInv
  <1> QED BY <1>1, InitIInv, NextIInv, PTL DEF Spec

-----------------------------------------------------------------------------
(* What fires was due, and within its grace, by the clock its tick read when *)
(* it began.                                                                 *)

TickTimely ==
  /\ tick # Idle => tick.at <= now
  /\ tick \in Stage => tick.slot <= tick.at /\ tick.at - tick.slot <= Grace
  /\ pass # None => pass.at <= now

FireFits(f) == f.slot <= f.seen /\ f.seen <= f.at /\ f.seen - f.slot <= Grace

Timely ==
  /\ now \in 0..MaxNow
  /\ TicksFit /\ TickTimely
  /\ \A f \in fires : FireFits(f)

(* A fire by a tick that found the slot due keeps what fired before. *)
LEMMA FitsToo ==
  ASSUME Timely, NEW s \in Slots, NEW by \in {"laptop", "companion"}, NEW t, NEW until,
         s <= t, t <= now, t - s <= Grace, Fire(s, by, t, until)
  PROVE  \A f \in fires' : FireFits(f)
  <1>1. PICK n : n = now
    OBVIOUS
  <1>2. FireFits([slot |-> s, by |-> by, seen |-> t, at |-> n, until |-> until])
    BY <1>1 DEF FireFits
  <1>3. \A f \in fires : FireFits(f)
    BY DEF Timely
  <1> QED BY <1>1, <1>2, <1>3 DEF Fire

LEMMA NodeRowTimely == Timely /\ NodeRow => Timely'
  <1> SUFFICES ASSUME Timely, NodeRow PROVE Timely'
    OBVIOUS
  <1>1. UNCHANGED <<now, tick, disk>> /\ pass # None /\ pass' = None
        /\ pass.at \in Nat /\ pass.at <= now
    BY DEF NodeRow, laptopVars, Timely, TicksFit, TickTimely
  <1>2. \A f \in fires' : FireFits(f)
    <2>1. CASE UNCHANGED fires
      BY <2>1 DEF Timely
    <2>2. CASE /\ Due(mirror, pass.at) /\ InGrace(mirror, pass.at)
               /\ Fire(mirror, "companion", pass.at, leases'[mirror].expires)
      <3>1. PICK s \in Slots, t \in {pass.at}, until \in {leases'[mirror].expires} :
                    s = mirror /\ t = pass.at /\ until = leases'[mirror].expires
        BY <2>2 DEF Due
      <3>2. s <= t /\ t <= now /\ t - s <= Grace /\ Fire(s, "companion", t, until)
        BY <1>1, <2>2, <3>1 DEF InGrace, Due
      <3> QED BY <3>2, FitsToo
    <2> QED BY <2>1, <2>2 DEF NodeRow
  <1> QED BY <1>1, <1>2 DEF Timely, TicksFit, TickTimely, FireFits

LEMMA TickRowTimely == Timely /\ TickRow => Timely'
  <1> SUFFICES ASSUME Timely, TickRow PROVE Timely'
    OBVIOUS
  <1>1. /\ UNCHANGED <<now, pass>> /\ now \in Nat
        /\ tick \in Scans /\ tick.at \in Nat /\ tick.at <= now
        /\ disk \in Slots /\ disk <= tick.at
    BY DEF TickRow, Due, Timely, TicksFit, TickTimely, Idle, Scans, Stage
  <1>2. CASE InGrace(disk, tick.at)
    <2>1. tick' = [pc |-> IF RunOn = "auto" THEN "ask" ELSE "save",
                   slot |-> disk, at |-> tick.at]
      BY <1>2 DEF TickRow
    <2>2. TicksFit' /\ TickTimely'
      BY <1>1, <1>2, <2>1 DEF Timely, TicksFit, TickTimely, InGrace, Idle, Stage
    <2>3. \A f \in fires' : FireFits(f)
      <3>1. CASE UNCHANGED fires
        BY <3>1 DEF Timely
      <3>2. CASE Fire(disk, "laptop", tick.at, now)
        <4>1. PICK s \in Slots, t \in {tick.at}, n \in {now} : s = disk /\ n = now /\ t = tick.at
          BY <1>1
        <4>2. s <= t /\ t <= now /\ t - s <= Grace /\ Fire(s, "laptop", t, n)
          BY <1>1, <1>2, <3>2, <4>1 DEF InGrace
        <4> QED BY <4>2, FitsToo
      <3> QED BY <1>2, <3>1, <3>2 DEF TickRow
    <2> QED BY <1>1, <2>2, <2>3 DEF Timely, FireFits
  <1>3. CASE ~InGrace(disk, tick.at)
    <2>1. tick' = Idle /\ UNCHANGED fires
      BY <1>3 DEF TickRow
    <2>2. TicksFit' /\ TickTimely'
      BY <1>1, <2>1 DEF Timely, TicksFit, TickTimely, Idle, Stage
    <2> QED BY <1>1, <2>1, <2>2 DEF Timely, FireFits
  <1> QED BY <1>2, <1>3

LEMMA ClaimLeaseTimely == Timely /\ ClaimLease => Timely'
  <1> SUFFICES ASSUME Timely, ClaimLease PROVE Timely'
    OBVIOUS
  <1>1. UNCHANGED <<now, pass>> /\ now \in Nat /\ tick \in Stage
        /\ tick' = [tick EXCEPT !.pc = "save"] /\ tick # Idle
    BY DEF ClaimLease, Timely, TicksFit, Idle, Scans, Stage
  <1>2. PICK s \in Slots, t \in {tick.at} : s = tick.slot /\ t = tick.at
    BY <1>1 DEF Stage
  <1>3. s <= t /\ t <= now /\ t - s <= Grace
    BY <1>1, <1>2 DEF Timely, TickTimely
  <1>4. TicksFit' /\ TickTimely'
    BY <1>1 DEF Timely, TicksFit, TickTimely, Stage, Idle
  <1>5. CASE UNCHANGED fires
    BY <1>1, <1>4, <1>5 DEF Timely, FireFits
  <1>6. ASSUME NEW until, Fire(s, "laptop", t, until)
        PROVE  Timely'
    <2>1. \A f \in fires' : FireFits(f)
      BY <1>2, <1>3, <1>6, FitsToo
    <2> QED BY <1>1, <1>4, <2>1 DEF Timely, FireFits
  <1>7. \/ UNCHANGED fires
        \/ Fire(s, "laptop", t, leases'[s].expires)
        \/ Fire(s, "laptop", t, now)
    BY <1>2 DEF ClaimLease
  <1> QED BY <1>5, <1>6, <1>7

LEMMA OtherTimely ==
  ASSUME IInv', Timely, Others
  PROVE  Timely'
  <1>1. UNCHANGED fires
    BY DEF Others, NodeTick, TickStarts, Deliver, NodeRestart, AskPresence, SaveRow,
           HeartbeatRead, HeartbeatPut, MirrorRead, MirrorPut, Crash, Tick, vars
  <1>2. now \in 0..MaxNow /\ now' \in 0..MaxNow /\ now' >= now
    BY DEF Others, Timely, NodeTick, TickStarts, Deliver, NodeRestart, AskPresence,
           SaveRow, HeartbeatRead, HeartbeatPut, MirrorRead, MirrorPut, Crash, Tick, vars
  <1>3. TickTimely'
    <2>1. CASE tick' \in {tick, Idle} /\ pass' \in {pass, None}
      BY <1>2, <2>1 DEF Timely, TicksFit, TickTimely, Idle, Scans, Stage
    <2>2. CASE AskPresence
      <3>1. /\ tick \in Stage /\ tick # Idle /\ now' = now /\ pass' = pass
            /\ tick' = [tick EXCEPT !.pc = "claim"] \/ tick' = [tick EXCEPT !.pc = "save"]
        BY <2>2 DEF AskPresence, Timely, TicksFit, Idle, Scans, Stage
      <3> QED BY <3>1 DEF Timely, TickTimely, Stage
    <2>3. CASE TickStarts
      BY <1>2, <2>3 DEF TickStarts, Timely, TickTimely, Stage, nodeVars
    <2>4. CASE NodeTick
      BY <1>2, <2>4 DEF NodeTick, Timely, TickTimely, laptopVars
    <2> QED
      BY <2>1, <2>2, <2>3, <2>4
      DEF Others, Deliver, NodeRestart, SaveRow, HeartbeatRead, HeartbeatPut, MirrorRead,
          MirrorPut, Crash, Tick, vars, laptopVars, nodeVars
  <1> QED BY <1>1, <1>2, <1>3 DEF Timely, FireFits, IInv

LEMMA NextTimely == IInv /\ Timely /\ [Next]_vars => Timely'
  BY NextIInv, NodeRowTimely, TickRowTimely, ClaimLeaseTimely, OtherTimely DEF Next, Others

LEMMA InitTimely == Init => Timely
  <1> SUFFICES ASSUME Init PROVE Timely
    OBVIOUS
  <1>1. tick = Idle /\ pass = None /\ now = 0 /\ fires = {}
    BY DEF Init
  <1>2. Idle.pc = "idle" /\ Idle \notin Stage
    BY DEF Idle, Stage
  <1> QED BY <1>1, <1>2 DEF Timely, TicksFit, TickTimely

(* Nothing fires before its time, and neither machine takes up what was older *)
(* than the grace when its tick began, for every choice of slots, grace, ttl  *)
(* and faults and however long the tick took (schedule.rs should_fire).       *)
THEOREM FiresTimely == Spec => []FiresWhenDue
  <1>1. Init => IInv /\ Timely
    BY InitIInv, InitTimely
  <1>2. IInv /\ Timely /\ [Next]_vars => IInv' /\ Timely'
    BY NextIInv, NextTimely
  <1>3. Timely => FiresWhenDue
    BY DEF Timely, FireFits, FiresWhenDue
  <1> QED BY <1>1, <1>2, <1>3, PTL DEF Spec

-----------------------------------------------------------------------------
(* Without a fault, a row that is not the companion's alone is the laptop's: *)
(* the laptop counts as present throughout, so the node takes no slot and no *)
(* lease, and the laptop's next fire time only goes up.                      *)

Calm == Faults = {} /\ RunOn # "companion"

\* No second slot comes due within the grace of the first.
Spaced == \A r, s \in Slots : r < s => s - r > Grace

ByLaptop(s) == \E f \in fires : f.slot = s /\ f.by = "laptop"
GivenUp(s) == s \in missed \/ s \in lapsed

LaptopSeen ==
  /\ presence.state = "present" /\ presence.ts \in Nat
  /\ presence.ts <= now /\ now - presence.ts <= PresenceGrace
  /\ beat # None =>
       beat.state = "present" /\ beat.ts \in Nat /\ presence.ts <= beat.ts /\ beat.ts <= now

NodeIdle == \A s \in Slots : leases[s] # None => leases[s].claimer = "laptop"

\* The tick works on the row as it is on disk; what has fired is behind it.
Behind ==
  /\ disk \in Slots \cup {None}
  /\ tick \in Stage => disk = tick.slot
  /\ tick.pc = "save" => ByLaptop(tick.slot)
  /\ \A f \in fires :
       /\ f.by = "laptop" /\ f.slot \in Slots
       /\ disk = None \/ f.slot < disk \/ (tick.pc = "save" /\ f.slot = disk)

AllTold == \A s \in Slots : Past(disk, s) => ByLaptop(s) \/ GivenUp(s)

CalmInv ==
  /\ pass = None
  /\ LaptopSeen /\ NodeIdle /\ Behind /\ FiredOnce
  /\ Spaced => AllTold

HIDE CompanionAssumption

LEMMA SlotsAreTimes == Slots \subseteq Nat /\ None \notin Slots
  BY CompanionAssumption

LEMMA FirstOfTimes ==
  ASSUME NEW S, S \subseteq Nat, S # {}
  PROVE  \E s \in S : \A r \in S : s <= r
  <1>1. PICK s \in S : \A r \in S : <<r, s>> \notin OpToRel(<, Nat)
    BY WFMin, NatLessThanWellFounded, Zenon
  <1>2. \A r \in S : ~(r < s)
    BY <1>1, Zenon DEF OpToRel
  <1> QED BY <1>2

\* The first slot not before t, if there is one, but for those passed by.
LEMMA NextFromFirst ==
  ASSUME NEW t \in Nat, now \in 0..MaxNow
  PROVE  /\ NextFrom(t) \in Slots \cup {None}
         /\ NextFrom(t) \in Slots => NextFrom(t) >= t
         /\ \A s \in Slots : s >= t /\ s \notin PassedBy(t) =>
              NextFrom(t) \in Slots /\ NextFrom(t) <= s
  <1> DEFINE ahead == {s \in Slots : s >= t /\ s >= Scan[now]}
  <1>1. ahead \subseteq Slots /\ ahead \subseteq Nat
    BY SlotsAreTimes
  <1>0. Scan[now] \in Nat
    BY CompanionAssumption
  <1>4. \A s \in Slots : s >= t /\ s \notin PassedBy(t) => s \in ahead
    BY <1>0, SlotsAreTimes DEF PassedBy
  <1>2. CASE ahead = {}
    <2>1. NextFrom(t) = None
      BY <1>2 DEF NextFrom
    <2> QED BY <1>2, <1>4, <2>1, SlotsAreTimes
  <1>3. CASE ahead # {}
    <2>1. \E s \in ahead : \A r \in ahead : s <= r
      <3> HIDE DEF ahead
      <3> QED BY <1>1, <1>3, FirstOfTimes, Zenon
    <2>2. NextFrom(t) = CHOOSE s \in ahead : \A r \in ahead : s <= r
      BY <1>3 DEF NextFrom
    <2>3. NextFrom(t) \in ahead /\ \A r \in ahead : NextFrom(t) <= r
      BY <2>1, <2>2
    <2> QED BY <1>4, <2>3
  <1> QED BY <1>2, <1>3

\* The node's tick does nothing while the laptop is seen.
LEMMA NodeTickStays == ASSUME Calm, CalmInv PROVE ~NodeTick /\ ~NodeRow
  BY CompanionAssumption
  DEF Calm, CalmInv, LaptopSeen, LaptopIsPresent, NodeTick, NodeRow

(* A step that neither fires nor moves the row, and leaves the tick where it *)
(* was, sends it to claim, or begins it.                                     *)
LEMMA RowStays ==
  ASSUME CalmInv, LaptopSeen', UNCHANGED <<disk, leases, fires, missed, lapsed, pass>>,
         \/ tick' = tick
         \/ tick.pc = "ask" /\ tick' = [tick EXCEPT !.pc = "claim"]
         \/ tick = Idle /\ tick' \in Scans,
         Timely
  PROVE  CalmInv'
  <1>1. \/ tick' = tick
        \/ tick \in Stage /\ tick'.slot = tick.slot /\ tick'.pc = "claim" /\ tick.pc = "ask"
        \/ tick' \in Scans /\ tick = Idle
    BY DEF Timely, TicksFit, Stage, Scans, Idle
  <1>2. Behind'
    <2>1. CASE tick' = tick
      BY <2>1 DEF CalmInv, Behind, ByLaptop
    <2>2. CASE /\ tick \in Stage /\ tick'.slot = tick.slot
               /\ tick'.pc = "claim" /\ tick.pc = "ask"
      BY <2>2 DEF CalmInv, Behind, ByLaptop
    <2>3. CASE tick' \in Scans /\ tick = Idle
      BY <2>3 DEF CalmInv, Behind, Scans, Stage, Idle
    <2> QED BY <1>1, <2>1, <2>2, <2>3
  <1> QED BY <1>2 DEF CalmInv, NodeIdle, FiredOnce, AllTold, ByLaptop, GivenUp

\* The laptop fires the slot its tick is at, which it has not fired before.
LEMMA LaptopFires ==
  ASSUME CalmInv, NEW t, NEW until, Fire(disk, "laptop", t, until), disk \in Slots,
         tick.pc # "save", tick'.pc = "save", tick'.slot = disk,
         UNCHANGED <<disk, missed, lapsed, now, pass>>, LaptopSeen', NodeIdle'
  PROVE  CalmInv'
  <1>1. PICK g : g = [slot |-> disk, by |-> "laptop", seen |-> t, at |-> now, until |-> until]
    OBVIOUS
  <1>2. fires' = fires \cup {g} /\ g.slot = disk /\ g.by = "laptop"
    BY <1>1 DEF Fire
  <1>3. \A f \in fires : f.slot < disk
    BY SlotsAreTimes DEF CalmInv, Behind
  <1>4. Behind'
    BY <1>2, <1>3 DEF CalmInv, Behind, ByLaptop
  <1>5. FiredOnce'
    <2>1. \A f \in fires : f.slot # g.slot
      BY <1>2, <1>3, SlotsAreTimes
    <2> QED BY <1>2, <2>1 DEF CalmInv, FiredOnce
  <1>6. Spaced => AllTold'
    <2> SUFFICES ASSUME Spaced, NEW s \in Slots, Past(disk, s)
                 PROVE  ByLaptop(s)' \/ GivenUp(s)'
      BY DEF AllTold, Past
    <2> QED BY <1>2 DEF CalmInv, AllTold, ByLaptop, GivenUp
  <1> QED BY <1>4, <1>5, <1>6 DEF CalmInv

LEMMA TickRowCalm == ASSUME Calm, CalmInv, Timely, TickRow PROVE CalmInv'
  <1>0. /\ tick \in Scans /\ tick.pc = "scan" /\ tick \notin Stage
        /\ UNCHANGED <<now, beat, presence, leases, pass>>
    BY DEF TickRow, Timely, TicksFit, Idle, Scans, Stage
  <1>1. PICK at \in Nat : at = tick.at /\ disk \in Slots /\ disk <= at /\ at <= now
    BY <1>0 DEF Due, Timely, TicksFit, TickTimely, Idle, Scans
  <1>2. LaptopSeen' /\ NodeIdle'
    BY <1>0 DEF CalmInv, LaptopSeen, NodeIdle
  <1>3. CASE ~InGrace(disk, at)
    <2>1. /\ disk' = NextFrom(at) /\ missed' = missed \cup SkippedOver(disk, at)
          /\ lapsed' = lapsed \cup PassedBy(at)
          /\ tick' = Idle /\ UNCHANGED fires
      BY <1>1, <1>3 DEF TickRow
    <2>2. disk < at
      <3>1. disk \in Nat /\ Grace \in Nat
        BY <1>1, CompanionAssumption
      <3> QED BY <1>1, <1>3, <3>1 DEF InGrace
    <2>3. disk' \in Slots \cup {None} /\ (disk' \in Slots => disk' >= at)
          /\ \A s \in Slots : s >= at /\ s \notin PassedBy(at) =>
               disk' \in Slots /\ disk' <= s
      BY <2>1, NextFromFirst DEF Timely
    <2>4. Behind'
      <3>1. \A f \in fires : f.by = "laptop" /\ f.slot \in Slots /\ f.slot < disk
        BY <1>0, <1>1, SlotsAreTimes DEF CalmInv, Behind
      <3>2. \A f \in fires : disk' = None \/ f.slot < disk'
        <4> SUFFICES ASSUME NEW f \in fires, disk' # None PROVE f.slot < disk'
          OBVIOUS
        <4>1. f.slot \in Nat /\ disk \in Nat /\ disk' \in Nat /\ f.slot < disk /\ disk' >= at
          BY <1>1, <2>3, <3>1, SlotsAreTimes
        <4> QED BY <1>1, <2>2, <4>1
      <3> QED BY <1>1, <2>1, <2>3, <3>1, <3>2 DEF Behind, Idle, Stage
    <2>5. Spaced => AllTold'
      <3> SUFFICES ASSUME Spaced, NEW s \in Slots, Past(disk', s)
                   PROVE  ByLaptop(s)' \/ GivenUp(s)'
        BY DEF AllTold, Past
      <3>1. s < at \/ s \in PassedBy(at)
        <4>1. CASE s >= at /\ s \notin PassedBy(at)
          <5>1. disk' \in Slots /\ disk' <= s
            BY <2>3, <4>1
          <5> QED BY <5>1, SlotsAreTimes DEF Past
        <4> QED BY <1>1, <4>1, SlotsAreTimes
      <3>2. CASE s < disk
        BY <2>1, <3>2, <1>1 DEF CalmInv, AllTold, ByLaptop, GivenUp, Past
      <3>3. CASE disk <= s /\ s < at
        BY <2>1, <3>3 DEF SkippedOver, GivenUp
      <3>4. CASE s \in PassedBy(at)
        BY <2>1, <3>4 DEF GivenUp
      <3> QED BY <1>1, <3>1, <3>2, <3>3, <3>4, SlotsAreTimes
    <2> QED BY <1>0, <1>2, <2>1, <2>4, <2>5 DEF CalmInv, FiredOnce
  <1>4. CASE InGrace(disk, at)
    <2>1. /\ tick' = [pc |-> IF RunOn = "auto" THEN "ask" ELSE "save", slot |-> disk, at |-> at]
          /\ IF RunOn = "local" THEN Fire(disk, "laptop", at, now) ELSE UNCHANGED fires
          /\ UNCHANGED <<disk, missed, lapsed>>
      BY <1>1, <1>4 DEF TickRow
    <2>2. CASE RunOn = "local"
      <3>1. tick'.pc = "save" /\ tick'.slot = disk
        BY <2>1, <2>2
      <3>2. tick.pc # "save" /\ Fire(disk, "laptop", at, now)
        BY <1>0, <2>1, <2>2
      <3>3. PICK n : n = now
        OBVIOUS
      <3> QED BY <1>0, <1>1, <1>2, <2>1, <3>1, <3>2, <3>3, LaptopFires
    <2>3. CASE RunOn # "local"
      <3>1. RunOn = "auto"
        BY <2>3, CompanionAssumption DEF Calm
      <3>2. tick'.pc = "ask" /\ tick'.slot = disk /\ UNCHANGED fires
        BY <2>1, <3>1
      <3>3. Behind'
        BY <1>0, <1>1, <2>1, <3>2 DEF CalmInv, Behind
      <3> QED BY <1>0, <1>2, <2>1, <3>2, <3>3
              DEF CalmInv, FiredOnce, AllTold, ByLaptop, GivenUp, Past
    <2> QED BY <2>2, <2>3
  <1> QED BY <1>3, <1>4

LEMMA ClaimLeaseCalm == ASSUME Calm, CalmInv, IInv, Timely, ClaimLease PROVE CalmInv'
  <1>1. /\ tick.pc = "claim" /\ tick \in Stage
        /\ tick' = [tick EXCEPT !.pc = "save"]
        /\ UNCHANGED <<now, disk, beat, presence, missed, lapsed, pass>>
    BY DEF ClaimLease, Timely, TicksFit, Idle, Scans, Stage
  <1>2. disk = tick.slot /\ disk \in Slots
    BY <1>1 DEF CalmInv, Behind, Stage
  <1>3. tick'.pc = "save" /\ tick'.slot = disk
    BY <1>1, <1>2 DEF Stage
  <1>4. /\ leases' = Claimed(disk, "laptop")
        /\ Fire(disk, "laptop", tick.at, leases'[disk].expires)
    <2>1. ~HeldByOther(disk, "laptop")
      BY <1>2 DEF CalmInv, NodeIdle, HeldByOther
    <2> QED BY <1>2, <2>1 DEF ClaimLease, Calm
  <1>5. NodeIdle'
    <2>1. leases \in [Slots -> {None} \cup Lease] /\ NodeIdle
      BY DEF IInv, CalmInv
    <2> QED BY <1>2, <1>4, <2>1 DEF Claimed, NodeIdle
  <1>6. LaptopSeen'
    BY <1>1 DEF CalmInv, LaptopSeen
  <1>7. PICK t, until : t = tick.at /\ until = leases'[disk].expires
    OBVIOUS
  <1> QED BY <1>1, <1>2, <1>3, <1>4, <1>5, <1>6, <1>7, LaptopFires

\* The row moves past the slot that has fired, and over no other but those that
\* came due since the tick began.
LEMMA SaveRowCalm == ASSUME Calm, CalmInv, Timely, SaveRow PROVE CalmInv'
  <1>1. /\ tick.pc = "save" /\ tick \in Stage /\ tick' = Idle
        /\ disk' = NextFrom(tick.at + 1)
        /\ lapsed' = lapsed \cup PassedBy(tick.at + 1)
        /\ UNCHANGED <<now, beat, presence, leases, fires, missed, pass>>
    BY DEF SaveRow, Timely, TicksFit, Idle, Scans, Stage, nodeVars, Advanced
  <1>2. /\ disk = tick.slot /\ disk \in Slots /\ tick.at \in Nat
        /\ disk <= tick.at /\ tick.at - disk <= Grace
    BY <1>1 DEF CalmInv, Behind, Stage, Timely, TickTimely
  <1>3. /\ disk' \in Slots \cup {None} /\ (disk' \in Slots => disk' > tick.at)
        /\ \A s \in Slots : s > tick.at /\ s \notin PassedBy(tick.at + 1) =>
             disk' \in Slots /\ disk' <= s
    <2>1. tick.at + 1 \in Nat /\ \A s \in Slots : s > tick.at <=> s >= tick.at + 1
      BY <1>2, SlotsAreTimes
    <2>2. PICK t \in Nat : t = tick.at + 1
      BY <2>1
    <2> QED BY <1>1, <2>1, <2>2, NextFromFirst DEF Timely
  <1>4. \A f \in fires : f.slot \in Slots /\ f.by = "laptop" /\ f.slot <= disk
    BY <1>1, <1>2, SlotsAreTimes DEF CalmInv, Behind
  <1>5. Behind'
    <2>1. \A f \in fires : disk' = None \/ f.slot < disk'
      BY <1>2, <1>3, <1>4, SlotsAreTimes
    <2> QED BY <1>1, <1>3, <1>4, <2>1 DEF Behind, Idle, Stage
  <1>6. Spaced => AllTold'
    <2> SUFFICES ASSUME Spaced, NEW s \in Slots, Past(disk', s)
                 PROVE  ByLaptop(s)' \/ GivenUp(s)'
      BY DEF AllTold, Past
    <2>1. s <= tick.at \/ s \in PassedBy(tick.at + 1)
      BY <1>2, <1>3, SlotsAreTimes DEF Past
    <2>2. s <= tick.at => s <= disk
      BY <1>2, SlotsAreTimes, CompanionAssumption DEF Spaced
    <2>3. CASE s = disk
      BY <1>1, <1>2, <2>3 DEF CalmInv, Behind, ByLaptop
    <2>4. CASE s < disk
      BY <1>1, <1>2, <2>4 DEF CalmInv, AllTold, ByLaptop, GivenUp, Past
    <2>5. CASE s \in PassedBy(tick.at + 1)
      BY <1>1, <2>5 DEF GivenUp
    <2> QED BY <1>2, <2>1, <2>2, <2>3, <2>4, <2>5, SlotsAreTimes
  <1> QED BY <1>1, <1>5, <1>6 DEF CalmInv, LaptopSeen, NodeIdle, FiredOnce

LEMMA OtherCalm ==
  ASSUME Calm, CalmInv, Timely,
         \/ \E s \in Slots : Deliver(s)
         \/ NodeRestart \/ TickStarts \/ AskPresence
         \/ HeartbeatRead \/ HeartbeatPut \/ MirrorRead \/ MirrorPut
         \/ Crash \/ Tick
         \/ UNCHANGED vars
  PROVE  CalmInv'
  <1> USE DEF laptopVars, nodeVars
  <1>1. LaptopSeen /\ now \in 0..MaxNow /\ MaxNow \in Nat
    BY CompanionAssumption DEF CalmInv, Timely
  <1>2. CASE \/ \E s \in Slots : Deliver(s)
             \/ MirrorRead \/ MirrorPut \/ UNCHANGED vars
    BY <1>1, <1>2, RowStays DEF Deliver, MirrorRead, MirrorPut, vars, LaptopSeen
  <1>3. CASE AskPresence
    <2>1. LaptopIsPresent
      BY <1>1 DEF LaptopSeen, LaptopIsPresent
    <2> QED BY <1>1, <1>3, <2>1, RowStays DEF AskPresence, LaptopSeen, Calm
  <1>4. CASE HeartbeatRead
    <2>1. beat' = [state |-> "present", ts |-> now]
      BY <1>1, <1>4 DEF HeartbeatRead, VoiceSays, Calm
    <2> QED BY <1>1, <1>4, <2>1, RowStays DEF HeartbeatRead, LaptopSeen
  <1>5. CASE HeartbeatPut
    <2>1. presence' = beat /\ beat # None /\ beat' = None
      BY <1>5 DEF HeartbeatPut, Calm
    <2>2. LaptopSeen'
      <3>1. /\ beat.state = "present" /\ beat.ts \in Nat /\ presence.ts <= beat.ts
            /\ beat.ts <= now /\ presence.ts \in Nat /\ now - presence.ts <= PresenceGrace
        BY <1>1, <2>1 DEF LaptopSeen
      <3>2. now - beat.ts <= PresenceGrace
        BY <1>1, <3>1, CompanionAssumption
      <3> QED BY <1>1, <1>5, <2>1, <3>1, <3>2 DEF HeartbeatPut, LaptopSeen
    <2> QED BY <1>5, <2>2, RowStays DEF HeartbeatPut
  <1>6. CASE Tick
    <2>1. now + 1 - presence.ts <= PresenceGrace /\ now' = now + 1
      BY <1>6 DEF Tick, Calm
    <2> QED BY <1>1, <1>6, <2>1, RowStays DEF Tick, LaptopSeen
  <1>7. CASE TickStarts
    <2>1. tick' \in Scans
      BY <1>1, <1>7 DEF TickStarts, Scans
    <2> QED BY <1>1, <1>7, <2>1, RowStays DEF TickStarts, LaptopSeen
  <1>8. ~NodeRestart /\ ~Crash
    BY DEF NodeRestart, Crash, Calm
  <1> QED BY <1>2, <1>3, <1>4, <1>5, <1>6, <1>7, <1>8

LEMMA CalmInvariant == ASSUME Calm PROVE Spec => []CalmInv
  <1>1. Init => CalmInv
    <2> SUFFICES ASSUME Init PROVE CalmInv
      OBVIOUS
    <2>1. /\ disk = NextFrom(0) /\ tick = Idle /\ fires = {} /\ now = 0 /\ beat = None
          /\ pass = None /\ presence = [state |-> "present", ts |-> 0]
          /\ leases = [s \in Slots |-> None]
      BY DEF Init, Calm, VoiceSays
    <2>7. 0 \in 0..MaxNow
      BY CompanionAssumption
    <2>2. \A s \in Slots : ~Past(disk, s)
      <3> SUFFICES ASSUME NEW s \in Slots PROVE ~Past(disk, s)
        OBVIOUS
      <3>1. s \in Nat /\ s >= 0 /\ 0 \in Nat /\ s \notin PassedBy(0)
        BY <2>1, CompanionAssumption DEF PassedBy
      <3>2. disk \in Slots /\ disk <= s
        BY <2>1, <2>7, <3>1, NextFromFirst
      <3> QED BY <3>1, <3>2, SlotsAreTimes DEF Past
    <2>3. disk \in Slots \cup {None}
      <3>1. 0 \in Nat
        OBVIOUS
      <3> QED BY <2>1, <2>7, <3>1, NextFromFirst
    <2>4. LaptopSeen
      BY <2>1, CompanionAssumption DEF LaptopSeen
    <2>5. NodeIdle /\ FiredOnce /\ AllTold
      BY <2>1, <2>2 DEF NodeIdle, FiredOnce, AllTold
    <2>6. Behind
      BY <2>1, <2>3 DEF Behind, Idle, Stage
    <2> QED BY <2>1, <2>4, <2>5, <2>6 DEF CalmInv
  <1>2. Init => IInv /\ Timely
    BY InitIInv, InitTimely
  <1>3. IInv /\ [Next]_vars => IInv'
    BY NextIInv
  <1>4. IInv /\ Timely /\ [Next]_vars => Timely'
    BY NextTimely
  <1>5. IInv /\ Timely /\ CalmInv /\ [Next]_vars => CalmInv'
    BY NodeTickStays, TickRowCalm, ClaimLeaseCalm, SaveRowCalm, OtherCalm DEF Next
  <1> QED BY <1>1, <1>2, <1>3, <1>4, <1>5, PTL DEF Spec

(* Without a fault a slot is fired by one machine, once (the laptop, whose    *)
(* heartbeats arrive in time), for every choice of slots and grace.           *)
THEOREM FiresOnce ==
  ASSUME Calm
  PROVE  Spec => []FiredOnce
  <1>1. CalmInv => FiredOnce
    BY DEF CalmInv
  <1> QED BY <1>1, CalmInvariant, PTL

(* Without a fault the laptop passes over no slot of a row it may fire, if no *)
(* two slots are as close as the grace (a row that fires late moves past what *)
(* came due before the tick), but for one that comes due during the tick of   *)
(* the slot before it (schedule.rs advance_after_fire, compute_next_fire_ms). *)
THEOREM SlotsKept ==
  ASSUME Calm, Spaced
  PROVE  Spec => []NoSlotDropped
  <1>1. CalmInv => NoSlotDropped
    BY DEF CalmInv, AllTold, ByLaptop, GivenUp, NoSlotDropped, Settled
  <1> QED BY <1>1, CalmInvariant, PTL
=============================================================================
