----------------------------- MODULE MCRegistry -----------------------------
(* Two pools, two sockets to the same context, one of which may be accepted *)
(* instead, logins that name another context or a router, and two actors in *)
(* different pools that hand a name over.                                   *)
EXTENDS Registry, TLC
CONSTANTS p1, p2, a1, a2
MCHome == (a1 :> p1) @@ (a2 :> p2)
MCDials == {<<1, p1, p2, <<"comm", 1>>>>, <<2, p2, p2, <<"comm", 1>>>>}
MCAccepted == {<<2, p1>>}
=============================================================================
