--------------------------- MODULE MCStacklessActor ---------------------------
(* One peer, an ordinary type and exit, one request, and two actors, one    *)
(* after the other in the same object, with three operations between them. *)
EXTENDS StacklessActor, TLC
CONSTANTS t1, exit
MCMatchLists == {<<>>, <<t1>>}
=============================================================================
