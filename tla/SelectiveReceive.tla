--------------------------- MODULE SelectiveReceive ---------------------------
(***************************************************************************)
(* What an actor's mailbox promises to the actor (the public interface of  *)
(* gce/actor/detail/mailbox.hpp): one list of unread messages in arrival   *)
(* order, read selectively by message type; the answers to the requests    *)
(* the actor has sent; and the requests it still owes a reply to.          *)
(*                                                                         *)
(* A message's place in the list is its arrival stamp, so the list is a    *)
(* function from the stamps of the unread messages to the messages.        *)
(***************************************************************************)
EXTENDS Integers, Sequences

CONSTANTS
  Aids,        \* the actors that send to this one
  NilAid,      \* aid_t(), no actor
  Types,       \* message types
  Exit,        \* the type of an exit notification, gce::exit
  ReqIds,      \* ids of requests
  MatchLists,  \* the match lists recv is called with: sequences of types
  MaxArrivals  \* bound on the number of messages pushed to the list

\* detail::recv_t: a plain message, a request or an exit notification.
Source == [kind : {"aid", "exit"}, from : Aids]
            \cup [kind : {"request"}, from : Aids, id : ReqIds]
Message == [src : Source, type : Types]
Answer == [from : Aids, type : Types]

VARIABLES
  arrivals,  \* how many messages were ever pushed: the last stamp given
  inbox,     \* stamp -> unread message
  answers,   \* request id -> the answer that has come and was not read
  owed,      \* actor -> its requests not yet replied to, oldest first
  last       \* the last operation, with its arguments, and what it returned

vars == <<arrivals, inbox, answers, owed, last>>

NoCall == [op |-> "none"]
RecvCall(ml) == [op |-> "recv", match |-> ml]
ResponseCall(id, to) == [op |-> "response", id |-> id, to |-> to]
ReplyCall(a) == [op |-> "reply", to |-> a]
Nothing(c) == [call |-> c, ok |-> FALSE]
Empty == [x \in {} |-> x]
NoOwed == [a \in Aids |-> <<>>]

\* An exit notification whose sender is known, as push(aid_t) and push(exit_t)
\* make it; the mailbox keeps at most one unread one of these for each sender.
IsExitOf(m, a) == m.type = Exit /\ m.src.kind # "request" /\ m.src.from = a

ExitsOf(a) == {n \in DOMAIN inbox : IsExitOf(inbox[n], a)}

-----------------------------------------------------------------------------
Init ==
  /\ arrivals = 0
  /\ inbox = Empty
  /\ answers = Empty
  /\ owed = NoOwed
  /\ last = Nothing(NoCall)

\* A new message goes to the end; an exit notification supersedes the unread
\* one of the same actor.
Arrive(m) ==
  /\ arrivals < MaxArrivals
  /\ arrivals' = arrivals + 1
  /\ LET old == IF m.type = Exit /\ m.src.kind # "request" THEN ExitsOf(m.src.from) ELSE {}
     IN  inbox' = [n \in (DOMAIN inbox \ old) \cup {arrivals + 1} |->
                     IF n = arrivals + 1 THEN m ELSE inbox[n]]
  /\ owed' = IF m.src.kind = "request"
             THEN [owed EXCEPT ![m.src.from] = Append(@, m.src.id)]
             ELSE owed
  /\ last' = Nothing(NoCall)
  /\ UNCHANGED answers

\* The first answer to a request is kept, a second one is ignored.
ArriveAnswer(id, r) ==
  /\ answers' = [i \in DOMAIN answers \cup {id} |->
                   IF i \in DOMAIN answers THEN answers[i] ELSE r]
  /\ last' = Nothing(NoCall)
  /\ UNCHANGED <<arrivals, inbox, owed>>

\* n is the message recv(ml) must return: of the types of ml that have unread
\* messages the first in ml's order, and of that type the oldest.
Chosen(n, ml) ==
  /\ n \in DOMAIN inbox
  /\ IF ml = <<>>
     THEN \A m \in DOMAIN inbox : n <= m
     ELSE \E i \in 1..Len(ml) :
            /\ inbox[n].type = ml[i]
            /\ \A m \in DOMAIN inbox : inbox[m].type = ml[i] => n <= m
            /\ \A m \in DOMAIN inbox, j \in 1..(i - 1) : inbox[m].type # ml[j]

Receive(ml) ==
  \E n \in DOMAIN inbox :
    /\ Chosen(n, ml)
    /\ inbox' = [m \in DOMAIN inbox \ {n} |-> inbox[m]]
    /\ last' = [call |-> RecvCall(ml), ok |-> TRUE, msg |-> inbox[n]]
    /\ UNCHANGED <<arrivals, answers, owed>>

\* recv(ml) finds nothing only when no unread message has a type of ml.
ReceiveNothing(ml) ==
  /\ \A n \in DOMAIN inbox : ml # <<>> /\ \A i \in 1..Len(ml) : inbox[n].type # ml[i]
  /\ last' = Nothing(RecvCall(ml))
  /\ UNCHANGED <<arrivals, inbox, answers, owed>>

\* The answer to request id, which was sent to actor `to'. When there is none
\* but `to' is known to have exited, its exit notification stands for the
\* answer, and stays unread for recv.
ReceiveAnswer(id, to) ==
  /\ \/ /\ id \in DOMAIN answers
        /\ last' = [call |-> ResponseCall(id, to), ok |-> TRUE, ans |-> answers[id]]
        /\ answers' = [i \in DOMAIN answers \ {id} |-> answers[i]]
     \/ /\ id \notin DOMAIN answers
        /\ ExitsOf(to) # {}
        /\ last' = [call |-> ResponseCall(id, to), ok |-> TRUE,
                     ans |-> [from |-> to, type |-> Exit]]
        /\ UNCHANGED answers
     \/ /\ id \notin DOMAIN answers
        /\ ExitsOf(to) = {}
        /\ last' = Nothing(ResponseCall(id, to))
        /\ UNCHANGED answers
  /\ UNCHANGED <<arrivals, inbox, owed>>

\* The request a reply to actor a answers: the oldest one owed to it.
TakeOwed(a) ==
  /\ IF owed[a] = <<>>
     THEN last' = Nothing(ReplyCall(a)) /\ UNCHANGED owed
     ELSE /\ last' = [call |-> ReplyCall(a), ok |-> TRUE, id |-> Head(owed[a])]
          /\ owed' = [owed EXCEPT ![a] = Tail(@)]
  /\ UNCHANGED <<arrivals, inbox, answers>>

Clear ==
  /\ inbox' = Empty
  /\ answers' = Empty
  /\ owed' = NoOwed
  /\ last' = Nothing(NoCall)
  /\ UNCHANGED arrivals

Next ==
  \/ \E m \in Message : Arrive(m)
  \/ \E id \in ReqIds, r \in Answer : ArriveAnswer(id, r)
  \/ \E ml \in MatchLists : Receive(ml) \/ ReceiveNothing(ml)
  \/ \E id \in ReqIds, to \in Aids \cup {NilAid} : ReceiveAnswer(id, to)
  \/ \E a \in Aids : TakeOwed(a)
  \/ Clear

Spec == Init /\ [][Next]_vars
=============================================================================
