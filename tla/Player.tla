-------------------------------- MODULE Player --------------------------------
(***************************************************************************)
(* The one place the daemon remembers its audio player (softwake-voice     *)
(* playback.rs): the player it would interrupt, and the input mute that    *)
(* keeps the microphone from hearing it.                                   *)
(*                                                                         *)
(* A mute carries the generation of the player that armed it.  Generations *)
(* are never reused, so the model names them by their player.              *)
(***************************************************************************)
CONSTANT NoPlayer

Silent == [last |-> NoPlayer, armed |-> NoPlayer, hold |-> FALSE, grace |-> FALSE,
           alive |-> {}, reaping |-> {}]

\* The states of the player memory over a set of player processes.
Outputs(players) ==
  [last : players \cup {NoPlayer}, armed : players \cup {NoPlayer},
   hold : BOOLEAN, grace : BOOLEAN, alive : SUBSET players, reaping : SUBSET players]

\* input_muted: what wait_for_playback_idle waits for the end of.
Muted(out) == out.hold \/ out.grace

\* A process is spawned; nobody remembers it yet.
Spawned(out, p) == [out EXCEPT !.alive = @ \cup {p}]

\* begin_input_mute and remember_pid, once the process survived its first look.
Remembered(out, p) ==
  [out EXCEPT !.last = p, !.armed = p, !.hold = TRUE, !.grace = FALSE]

\* The process ends by itself, by its reaper's deadline, or by a signal.
Ended(out, p) == [out EXCEPT !.alive = @ \ {p}]

\* interrupt_playback takes the remembered player and kills it.
Interrupted(out) == [out EXCEPT !.alive = @ \ {out.last}, !.last = NoPlayer]

\* finish hands the process to a reaper thread.
HandedOver(out, p) == [out EXCEPT !.reaping = @ \cup {p}]

Forgot(out, p) == IF out.last = p THEN [out EXCEPT !.last = NoPlayer] ELSE out

\* The reaper of p saw it end: clear_pid_if, and end_input_mute for its own mute.
Reaped(out, p) ==
  LET after == [Forgot(out, p) EXCEPT !.reaping = @ \ {p}] IN
  IF out.armed # p THEN after
  ELSE [after EXCEPT !.armed = NoPlayer, !.hold = FALSE, !.grace = TRUE]

\* force_clear_input_mute.
Unmuted(out) == [out EXCEPT !.armed = NoPlayer, !.hold = FALSE, !.grace = FALSE]

\* abort of a streaming player: it is dead, and whatever mute holds is cleared.
Aborted(out, p) == Unmuted(Forgot(Ended(out, p), p))

\* PLAYBACK_MUTE_GRACE is over.
GraceOver(out) == [out EXCEPT !.grace = FALSE]

===============================================================================
