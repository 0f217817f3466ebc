------------------------------ MODULE MCProfiles ------------------------------
(***************************************************************************)
(* The daemon and the window, over the default profile and one more.       *)
(***************************************************************************)
EXTENDS Profiles

CONSTANTS daemon, window, default, other, plain, changed

===============================================================================
