------------------------------- MODULE MCOutbox -------------------------------
(* An instance of Outbox for TLC: two threads at either end. *)
EXTENDS Outbox

TwoThreads == {1, 2}
TwoPulls == {"loop", "wake"}

\* Once writes have clashed no property and no guard tells a line that is in
\* the file from one that was put out of it, nor what the drafts hold.
WhatMatters ==
  <<nodeVars, pullVars, clash, writing, hud \cup lost,
    IF clash THEN <<>> ELSE <<hud, draft>> >>
=============================================================================
