-------------------------------- MODULE Unread --------------------------------
(***************************************************************************)
(* The mailbox as the handlers of an actor see it: what push adds and what *)
(* the two pops may return. Which of the unread messages of a type comes   *)
(* first is Mailbox's matter and is not told apart here: a mailbox is the  *)
(* number of unread messages of each ordinary type, the actors whose exit  *)
(* notification is unread, and the requests whose answer is unread.        *)
(***************************************************************************)
EXTENDS Integers, Sequences

CONSTANTS
  Aids,    \* the actors that send to this one
  Types,   \* ordinary message types
  Exit,    \* the type of an exit notification
  ReqIds   \* ids of requests

NoneUnread == [count |-> [t \in Types |-> 0], exits |-> {}, answers |-> {}]

\* What a pack carries for the mailbox.
Packs == [kind : {"message"}, type : Types]
           \cup [kind : {"exit"}, from : Aids]
           \cup [kind : {"response"}, id : ReqIds]

Pushed(box, pk) ==
  CASE pk.kind = "message"  -> [box EXCEPT !.count[pk.type] = @ + 1]
    [] pk.kind = "exit"     -> [box EXCEPT !.exits = @ \cup {pk.from}]
    [] pk.kind = "response" -> [box EXCEPT !.answers = @ \cup {pk.id}]

Has(box, t) == IF t = Exit THEN box.exits # {} ELSE box.count[t] > 0

\* The types pop(recv_t&, message&, match_list) may take its message from: none
\* when it returns false.
Matching(box, ml) ==
  IF ml = <<>> THEN {t \in Types \cup {Exit} : Has(box, t)}
  ELSE {t \in Types \cup {Exit} :
          \E i \in 1..Len(ml) :
            ml[i] = t /\ Has(box, t) /\ \A j \in 1..(i - 1) : ~Has(box, ml[j])}

\* The mailboxes that pop may leave when it takes a message of type t.
Taken(box, t) ==
  IF t = Exit THEN {[box EXCEPT !.exits = @ \ {a}] : a \in box.exits}
  ELSE {[box EXCEPT !.count[t] = @ - 1]}

\* pop(response_t&, message&) for request id, sent to actor `to': the answer, or
\* else the unread exit notification of `to', which stays.
Answered(box, id, to) == id \in box.answers \/ to \in box.exits
AnswerTaken(box, id) == [box EXCEPT !.answers = @ \ {id}]
===============================================================================
