--------------------------- MODULE MCStackfulActor ---------------------------
(* One peer, an ordinary type and exit, two requests, and two actors, one  *)
(* after the other in the same object, with three operations between them.*)
EXTENDS StackfulActor, TLC
CONSTANTS t1, exit
MCMatchLists == {<<>>, <<t1>>, <<exit, t1>>}
=============================================================================
