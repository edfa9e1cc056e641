----------------------------- MODULE MCMessage -----------------------------
(* Two message objects over three heap addresses, with values of one,     *)
(* three and four bytes around the one-byte and sign boundaries.           *)
EXTENDS Message, TLC

CONSTANTS m1, m2, b1, b2, b3

MCMsgs == {m1, m2}
MCBufs == {b1, b2, b3}

Byte127 == [kind |-> "struct", members |-> <<[type |-> "uint8", val |-> <<127>>]>>]

Minus300 == [kind |-> "struct", members |-> <<[type |-> "int16", val |-> Negation(<<44, 1>>)]>>]

Pixels == [kind |-> "vector", type |-> "uint8", max |-> 2, elems |-> <<<<1>>, <<255>>>>]

MCValues == {Byte127, Minus300, Pixels}

(* Every number whose bytes are next to a bound the code compares with. *)
NumbersOf(t) ==
    LET B == IF Width(t) = 8 THEN {0, 128, 255} ELSE {0, 1, 63, 64, 127, 128, 255}
    IN  {[type |-> t, val |-> x] : x \in [1..Width(t) -> B]}

MCSamples == UNION {NumbersOf(t) : t \in Types}

Symmetry == Permutations(MCMsgs) \cup Permutations(MCBufs)
=============================================================================
