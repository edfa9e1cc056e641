----------------------------- MODULE RequestReply -----------------------------
(***************************************************************************)
(* Request, reply and relay between the actors of one context              *)
(* (libs/actor/src/basic_actor.cpp, and handle_recv of each kind of actor).*)
(*                                                                         *)
(* A request carries request_t, the asker and an id. The mailbox of the    *)
(* actor that gets it keeps the id in wait_reply_list_, under the asker;   *)
(* the message the user reads carries it too, in req_. reply(aid) takes an *)
(* id from the list, relay(aid, message) takes the one in the message. The *)
(* answer, response_t, goes to the asker's mailbox, where recv(response)   *)
(* finds it by its id. An actor that exits drops what is in its mailbox;   *)
(* a request that comes later is answered by the library, `already exited'.*)
(*                                                                         *)
(* An id stands for the asker and the id, a message for what of it these   *)
(* operations look at. Actors call recv with an empty match list.          *)
(***************************************************************************)
EXTENDS Integers, Sequences, FiniteSets

CONSTANTS
  Actors,
  Askers,       \* those whose code sends requests and waits for the answers,
  Repliers,     \* those whose code replies to a message,
  Relayers,     \* those whose code relays one,
  Mortal,       \* those that may exit;
  Threaded,     \* those that are thread_mapped actors, the others are stackful
  MaxRequests,  \* bound on the requests sent
  MaxSends      \* bound on the plain messages sent: past it none is sent instead

ASSUME RequestReplyAssumption ==
  /\ Askers \subseteq Actors /\ Repliers \subseteq Actors /\ Relayers \subseteq Actors
  /\ Mortal \subseteq Actors /\ Threaded \subseteq Actors
  /\ MaxRequests \in Nat /\ MaxSends \in Nat

VARIABLES
  asked,            \* the requests sent: the asker of each id
  sends,            \* how many plain messages were sent,
  sent,             \* and whether any was by send
  strand,           \* actor -> the packs posted to its strand
  alive,            \* actor -> its aid is still the one the others know
  recv_que,         \* actor -> its unread messages
  wait_reply_list,  \* actor -> asker -> ids of its requests not yet replied to
  res_msg_list,     \* actor -> answers that have come and were not read
  msg,              \* actor -> the user's message: its sender, and req_
  busy,             \* the actors whose user code holds a message to deal with
  handler,          \* id -> the actor the request was last sent or relayed to
  answered,         \* the answers read: id and the actor named by the response
  lost              \* the requests an actor still owed a reply to when it exited

mailboxVars == <<recv_que, wait_reply_list, res_msg_list>>
userVars == <<msg, busy>>
historyVars == <<asked, sends, sent, handler, answered, lost>>
vars == <<strand, alive, mailboxVars, userVars, historyVars>>

NoReq == 0
NoActor == "none"
Ids == 1..Len(asked)

Plain(a) == [tag |-> "aid", from |-> a]
Request(a, id) == [tag |-> "request", from |-> a, id |-> id]
Response(a, id) == [tag |-> "response", from |-> a, id |-> id]

\* on_recv with the hint sync dispatches handle_recv to the strand: a sender that runs
\* on the same strand has it run at once, before what was posted there.
Post(b, pk) == \/ strand' = [strand EXCEPT ![b] = Append(@, pk)]
               \/ strand' = [strand EXCEPT ![b] = <<pk>> \o @]

\* A pack that carries no request and no response.
PostPlain(a, b) == IF sends < MaxSends THEN Post(b, Plain(a)) /\ sends' = sends + 1
                   ELSE UNCHANGED <<strand, sends>>

-----------------------------------------------------------------------------
(* What a user's code may do *)

\* request(aid, message): new_request and pri_request.
Ask(a, b) ==
  /\ alive[a] /\ a \in Askers /\ b \in Repliers \cup Relayers
  /\ Len(asked) < MaxRequests
  /\ asked' = Append(asked, a)
  /\ handler' = Append(handler, b)
  /\ Post(b, Request(a, Len(asked) + 1))
  /\ UNCHANGED <<alive, mailboxVars, userVars, sends, sent, answered, lost>>

\* send(aid, message): pri_send.
Send(a, b) ==
  /\ alive[a] /\ a \in Askers /\ b \in Repliers \cup Relayers
  /\ sends < MaxSends
  /\ PostPlain(a, b)
  /\ sent' = TRUE
  /\ UNCHANGED <<alive, mailboxVars, userVars, asked, handler, answered, lost>>

\* recv(message): a new message object, or the one used before. Only a request
\* writes req_; assigning the message that was popped leaves it as it is.
Recv(b) ==
  /\ alive[b] /\ b \notin busy /\ b \in Repliers \cup Relayers
  /\ recv_que[b] # <<>>
  /\ LET m == Head(recv_que[b])
     IN  \E old \in {NoReq, msg[b].req} :
           msg' = [msg EXCEPT ![b] = [from |-> m.from,
                                      req |-> IF m.tag = "request" THEN m.id ELSE old]]
  /\ recv_que' = [recv_que EXCEPT ![b] = Tail(@)]
  /\ busy' = busy \cup {b}
  /\ UNCHANGED <<strand, alive, wait_reply_list, res_msg_list, historyVars>>

\* pri_reply takes the oldest id owed to the sender, and answers it; with none owed
\* it is a send.
PopRequestPeeks(b, a) == UNCHANGED wait_reply_list
PopRequest(b, a) == wait_reply_list' = [wait_reply_list EXCEPT ![b][a] = Tail(@)]

Reply(b) ==
  /\ alive[b] /\ b \in busy /\ b \in Repliers
  /\ LET a == msg[b].from
         ids == wait_reply_list[b][a]
     IN  IF ids # <<>>
         THEN Post(a, Response(b, Head(ids))) /\ PopRequest(b, a) /\ UNCHANGED sends
         ELSE PostPlain(b, a) /\ UNCHANGED wait_reply_list
  /\ busy' = busy \ {b}
  /\ UNCHANGED <<alive, recv_que, res_msg_list, msg, asked, sent, handler, answered, lost>>

\* The req_ that pri_relay finds: a thread_mapped actor binds a copy of the message
\* to run it on its strand, and copying a message does not copy req_.
RelayedReqLost(b) == NoReq
RelayedReq(b) == IF b \in Threaded THEN NoReq ELSE msg[b].req

\* pri_relay passes the request on in the name of the asker,
RelayedRequest(b, id) == Request(asked[id], id)

\* and clears req_.
ClearReqForgotten(b) == UNCHANGED msg
ClearReq(b) == msg' = [msg EXCEPT ![b].req = NoReq]

\* wait_reply_list_ keeps the id.
Relay(b, c) ==
  /\ alive[b] /\ b \in busy /\ b \in Relayers /\ c \in Repliers \cup Relayers /\ b # c
  /\ LET id == RelayedReq(b)
     IN  IF id # NoReq
         THEN /\ Post(c, RelayedRequest(b, id))
              /\ handler' = [handler EXCEPT ![id] = c]
              /\ ClearReq(b)
              /\ UNCHANGED sends
         ELSE /\ PostPlain(b, c)
              /\ UNCHANGED <<handler, msg>>
  /\ busy' = busy \ {b}
  /\ UNCHANGED <<alive, mailboxVars, asked, sent, answered, lost>>

\* recv(response_t, message) of an answer that has come.
RecvResponse(a) ==
  /\ alive[a]
  /\ \E r \in res_msg_list[a] :
       /\ answered' = answered \cup {[id |-> r.id, by |-> r.from]}
       /\ res_msg_list' = [res_msg_list EXCEPT ![a] = @ \ {r}]
  /\ UNCHANGED <<strand, alive, recv_que, wait_reply_list, userVars, asked, sends, sent, handler, lost>>

Owes(b, id) ==
  \E i \in 1..Len(wait_reply_list[b][asked[id]]) : wait_reply_list[b][asked[id]][i] = id

\* The actor ends: update_aid, and on_free clears the mailbox.
Exit(b) ==
  /\ alive[b] /\ b \in Mortal
  /\ alive' = [alive EXCEPT ![b] = FALSE]
  /\ recv_que' = [recv_que EXCEPT ![b] = <<>>]
  /\ wait_reply_list' = [wait_reply_list EXCEPT ![b] = [a \in Actors |-> <<>>]]
  /\ res_msg_list' = [res_msg_list EXCEPT ![b] = {}]
  /\ busy' = busy \ {b}
  /\ lost' = lost \cup {id \in Ids : handler[id] = b /\ Owes(b, id)}
  /\ UNCHANGED <<strand, msg, asked, sends, sent, handler, answered>>

-----------------------------------------------------------------------------
(* handle_recv, on the actor's strand *)

\* mailbox::push of a message or a request.
PushMessage(b, pk) ==
  /\ pk.tag # "response"
  /\ recv_que' = [recv_que EXCEPT ![b] = Append(@, pk)]
  /\ wait_reply_list' = IF pk.tag = "request"
                        THEN [wait_reply_list EXCEPT ![b][pk.from] = Append(@, pk.id)]
                        ELSE wait_reply_list
  /\ UNCHANGED res_msg_list

\* mailbox::push of a response: the first unread one of an id is kept.
PushResponse(b, pk) ==
  /\ pk.tag = "response"
  /\ res_msg_list' = IF \E r \in res_msg_list[b] : r.id = pk.id THEN res_msg_list
                     ELSE [res_msg_list EXCEPT ![b] = @ \cup {pk}]
  /\ UNCHANGED <<recv_que, wait_reply_list>>

\* The aid the pack was sent to is no longer the actor's: a request is answered
\* with `already exited', anything else is dropped.
BounceNothing(b, pk, rest) == strand' = rest
Bounce(b, pk, rest) ==
  strand' = IF pk.tag = "request"
            THEN [rest EXCEPT ![pk.from] = Append(@, Response(b, pk.id))]
            ELSE rest

HandleRecv(b) ==
  /\ strand[b] # <<>>
  /\ LET pk == Head(strand[b])
         rest == [strand EXCEPT ![b] = Tail(@)]
     IN  \/ /\ alive[b]
            /\ PushMessage(b, pk) \/ PushResponse(b, pk)
            /\ strand' = rest
         \/ /\ ~alive[b]
            /\ Bounce(b, pk, rest)
            /\ UNCHANGED mailboxVars
  /\ UNCHANGED <<alive, userVars, historyVars>>

-----------------------------------------------------------------------------
Init ==
  /\ asked = <<>> /\ handler = <<>> /\ answered = {} /\ lost = {} /\ sends = 0 /\ sent = FALSE
  /\ strand = [a \in Actors |-> <<>>]
  /\ alive = [a \in Actors |-> TRUE]
  /\ recv_que = [a \in Actors |-> <<>>]
  /\ wait_reply_list = [b \in Actors |-> [a \in Actors |-> <<>>]]
  /\ res_msg_list = [a \in Actors |-> {}]
  /\ msg = [a \in Actors |-> [from |-> NoActor, req |-> NoReq]]
  /\ busy = {}

DealWith(b) == Recv(b) \/ Reply(b) \/ \E c \in Actors : Relay(b, c)

Next ==
  \/ \E a, b \in Actors : Ask(a, b) \/ Send(a, b)
  \/ \E b \in Actors : DealWith(b) \/ HandleRecv(b) \/ RecvResponse(b) \/ Exit(b)

Spec == Init /\ [][Next]_vars

\* Strands run what was posted; the users' code reads its messages, deals with each
\* and reads the answers it waits for.
Fairness ==
  \A b \in Actors : WF_vars(HandleRecv(b)) /\ WF_vars(DealWith(b)) /\ WF_vars(RecvResponse(b))

FairSpec == Spec /\ Fairness

-----------------------------------------------------------------------------
Occurrences(s, pk) == {i \in 1..Len(s) : s[i] = pk}

\* Where a request or its answer may be: on its way to an actor, unread there, in the
\* hands of its code, or answered.
HeldBy(id, b) ==
  LET pk == Request(asked[id], id)
  IN  Cardinality(Occurrences(strand[b], pk))
      + (IF b \in Repliers /\ Owes(b, id) THEN 1 ELSE 0)
      + (IF b \notin Repliers THEN Cardinality(Occurrences(recv_que[b], pk)) ELSE 0)
      + (IF b \notin Repliers /\ b \in busy /\ msg[b].req = id THEN 1 ELSE 0)

Answers(id) ==
  Cardinality({i \in 1..Len(strand[asked[id]]) :
                 strand[asked[id]][i].tag = "response" /\ strand[asked[id]][i].id = id})
  + Cardinality({r \in res_msg_list[asked[id]] : r.id = id})
  + Cardinality({r \in answered : r.id = id})

TypeOK ==
  /\ asked \in Seq(Askers) /\ Len(asked) <= MaxRequests
  /\ handler \in [Ids -> Actors]
  /\ answered \subseteq [id : Ids, by : Actors]
  /\ \A b \in Actors :
       /\ \A i \in 1..Len(strand[b]) :
            strand[b][i] \in [tag : {"aid"}, from : Actors]
                               \cup [tag : {"request", "response"}, from : Actors, id : Ids]
       /\ \A a \in Actors : \A i \in 1..Len(wait_reply_list[b][a]) :
            asked[wait_reply_list[b][a][i]] = a
       /\ msg[b] \in [from : Actors \cup {NoActor}, req : Ids \cup {NoReq}]

\* A request is never multiplied: it is with one actor and has no answer, or it has one
\* answer and nobody holds it any more, whichever way it was relayed.
NeverTwice ==
  \A id \in Ids :
    LET held == [b \in Actors |-> HeldBy(id, b)]
    IN  /\ \A b \in Actors : held[b] > 0 => held[b] = 1 /\ b = handler[id] /\ Answers(id) = 0
        /\ Answers(id) <= 1

\* The answer to a request that was relayed names the actor that dealt with it in the
\* end, not one that passed it on (test_relay.hpp:66, BOOST_ASSERT(sender == first_id)).
AnsweredByHandler == \A r \in answered : r.by = handler[r.id]

\* Whoever gets a relayed request does not see that it was relayed: as long as no one
\* calls send, whatever an actor reads has an asker for its sender (the
\* manual's `forwarding a request': the aid recv returns there is the asker's).
SeenAsTheAskers == ~sent => \A b \in busy : msg[b].from \in Askers

\* Every request is answered in the end, by the actor it was relayed to or, if that one
\* has exited before it came, in its name; unless that one exits owing the answer, or
\* the asker exits.
RequestsAreAnswered ==
  \A id \in 1..MaxRequests :
    (id \in Ids) ~> \/ \E r \in answered : r.id = id
                    \/ id \in lost
                    \/ id \in Ids /\ ~alive[asked[id]]
=============================================================================
