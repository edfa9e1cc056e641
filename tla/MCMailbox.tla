------------------------------ MODULE MCMailbox ------------------------------
(* Two senders, a cached type and the exit type (which is past the vector), two *)
(* requests, and every list of at most three arrivals.                         *)
EXTENDS Mailbox, TLC
CONSTANTS a1, a2, t1, exit, r1, r2
MCMatchLists == {<<>>, <<t1>>, <<exit>>, <<exit, t1>>}
\* `last' is only written: states that differ in it alone have the same successors,
\* and TLC checks KeepsPromise on every step it generates, whatever it does with the
\* state the step ends in.
MCView == <<arrivals, recv_que, index, res_msg_list, wait_reply_list>>
MCSymmetry == Permutations({a1, a2}) \cup Permutations({r1, r2})
=============================================================================
