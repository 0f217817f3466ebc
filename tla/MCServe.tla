-------------------------------- MODULE MCServe --------------------------------
(***************************************************************************)
(* A HUD that polls, changes things and reads what it is sent, and a       *)
(* client that asks and may stop reading.                                  *)
(***************************************************************************)
EXTENDS Serve

CONSTANTS hud, watcher

MCSends == [c \in Clients |-> IF c = hud THEN {"poll", "change"} ELSE {"poll", "ask"}]

===============================================================================
