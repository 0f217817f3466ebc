----------------------------- MODULE MCCompanion -----------------------------
(* Instances of Companion for TLC: a daily row over two days, and a cron row *)
(* that is due twice.                                                        *)
EXTENDS Companion

TwoSlots == {1, 4}
\* A day is three long, and the row is looked for from its beginning.
DailyScan == [t \in 0..MaxNow |-> (t \div 3) * 3]
\* The row is looked for from the next minute.
CronScan == [t \in 0..MaxNow |-> t + 1]
NoFault == {}
AllFaults == Fault

(* What the steps to come and the verdicts of the run depend on: a presence or *)
(* a heartbeat that is no longer one, a lease that has expired and a fire whose *)
(* lease has are like none, and nothing reads what was given up or delivered.   *)
Says(p) == IF p.state = "present" /\ now - p.ts <= PresenceGrace THEN p.ts ELSE None
StillRuns == [s \in Slots |->
  IF leases[s] # None /\ leases[s].expires > now THEN leases[s] ELSE None]
WhatMatters ==
  <<now, disk, tick, copy, IF beat = None THEN None ELSE <<Says(beat)>>,
    Says(presence), pass, mirror, StillRuns, taken, {f \in fires : f.until > now},
    LeaseKeepsApart, FiresWhenDue>>
=============================================================================
