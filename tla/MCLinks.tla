------------------------------ MODULE MCLinks ------------------------------
EXTENDS Links

\* a and its neighbour n are in the context L; m is in M, which L reaches by its router;
\* d is in D, which connects to L.
MCPeer == [l1 |-> "r1", r1 |-> "l1", m1 |-> "r2", r2 |-> "m1", d1 |-> "l2", l2 |-> "d1"]
MCCtx == [a |-> "L", n |-> "L", m |-> "M", d |-> "D",
          l1 |-> "L", r1 |-> "R", r2 |-> "R", m1 |-> "M", l2 |-> "L", d1 |-> "D"]
MCRoute ==
  [r \in {"L", "M", "D", "R"} \X {"L", "M", "D"} |->
     CASE r = <<"L", "M">> -> "l1" [] r = <<"R", "M">> -> "r2" [] r = <<"R", "L">> -> "r1"
       [] r = <<"M", "L">> -> "m1" [] r = <<"L", "D">> -> "l2" [] r = <<"D", "L">> -> "d1"
       [] OTHER -> "none"]
MCRouter == [L |-> "l1", M |-> "m1", D |-> "none", R |-> "none"]
MCAlone == {<<"a", "m">>, <<"m", "a">>, <<"a", "n">>}
MCMayLink == MCAlone \cup {<<"d", "a">>}
=============================================================================
