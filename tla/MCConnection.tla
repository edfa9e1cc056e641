---------------------------- MODULE MCConnection ----------------------------
(* Either kind of socket, a retry of each attempt, two packs to send or two *)
(* to read in any portions, and a network that fails once, seen or unseen.  *)
EXTENDS Connection, TLC
MCLoads == {<<2, 0>>, <<0, 2>>}
=============================================================================
