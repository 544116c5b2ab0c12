------------------------------- MODULE MCLoadGate -------------------------------
(* Five engine events are enough for a load of the player's inside the settle, *)
(* quiet or task interval of the auto-loader, with the menus around it.        *)
EXTENDS LoadGate
=============================================================================
