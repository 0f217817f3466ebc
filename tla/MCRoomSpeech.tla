----------------------------- MODULE MCRoomSpeech -----------------------------
(***************************************************************************)
(* A room of two members with two things to say.                           *)
(***************************************************************************)
EXTENDS RoomSpeech

CONSTANTS sally, tom, hello, yes

\* No guard reads the histories, so that states behave the same when what the
\* properties may still ask of them is the same: of the players that were left
\* sounding, those that are alive; of the lines that were spoken, the last, and
\* no order once two equal texts have waited.  HeardAsLogged itself is there so
\* that a state that breaks it is like no other.
LastSpoken == IF spoken = <<>> THEN spoken ELSE Last(spoken)
Log == <<HeardAsLogged, IF alike THEN ToSet(rows) ELSE <<rows, LastSpoken>>>>
WhatMatters ==
  <<queueVars, postVars, says, thread, checkVars, voiceVars, alike, Log, orphans,
    overrun \cap out.alive>>

===============================================================================
