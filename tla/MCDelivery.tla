---------------------------- MODULE MCDelivery ----------------------------
(* Three updates of two chats; all combinations of mode, store and lanes.  *)
EXTENDS Delivery

MCLaneOf(u) == IF u = 2 THEN 2 ELSE 1
MCConfigs == [mode : {"poll", "webhook"}, dedup : BOOLEAN, lanes : BOOLEAN]
=============================================================================
