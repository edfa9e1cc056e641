--------------------------- MODULE MCThreadedActor ---------------------------
(* One peer, an ordinary type and exit, two requests, and up to three calls in *)
(* a row, so that a timer can be two calls old.                                *)
EXTENDS ThreadedActor, TLC
CONSTANTS t1, exit
MCMatchLists == {<<>>, <<t1>>, <<exit, t1>>}
=============================================================================
