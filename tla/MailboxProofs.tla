---------------------------- MODULE MailboxProofs ----------------------------
(***************************************************************************)
(* The mailbox for any set of actors, types, requests and match lists and  *)
(* any number of arrivals: the indexes stay exact, so no iterator is used  *)
(* after its node is erased, and the mailbox implements SelectiveReceive.  *)
(*                                                                         *)
(* The inductive invariant is the conjunction of the three invariants the  *)
(* run checks: an index can only be shown exact after a step when every    *)
(* index was exact before it, as a step updates one index through another  *)
(* (add_match_msg erases from the match queue what exit_list_ points to).  *)
(***************************************************************************)
EXTENDS Mailbox, TLAPS

ListTypeOK ==
  /\ arrivals \in 0..MaxArrivals
  /\ IsPartialFunction(recv_que, 1..arrivals, Message)
  /\ cache_match_list \in [CachedTypes -> SUBSET (1..arrivals)]
  /\ IsPartialFunction(match_queue_list, Types \ CachedTypes, SUBSET (1..arrivals))
  /\ IsPartialFunction(exit_list, Aids, 1..arrivals)

ListInv == ListTypeOK /\ MatchQueuesExact /\ ExitListExact

IInv == TypeOK /\ MatchQueuesExact /\ ExitListExact

-----------------------------------------------------------------------------
LEMMA MessageFields ==
  ASSUME NEW m \in Message
  PROVE  /\ m.type \in Types
         /\ m.src.from \in Aids
         /\ m.src.kind = "request" => m.src.id \in ReqIds
BY DEF Message, Promise!Message, Promise!Source

(* Setting one queue changes no other and leaves no empty entry in the map. *)
LEMMA SetMatchQueueEffect ==
  ASSUME ListTypeOK, MatchQueuesExact, NEW t \in Types, NEW q, SetMatchQueue(t, q)
  PROVE  /\ \A s \in Types : MatchQueue(s)' = IF s = t THEN q ELSE MatchQueue(s)
         /\ \A s \in DOMAIN match_queue_list' : match_queue_list'[s] # {}
BY MailboxAssumption
   DEF ListTypeOK, MatchQueuesExact, SetMatchQueue, MatchQueue, IsPartialFunction

LEMMA SetMatchQueueType ==
  ASSUME ListTypeOK, arrivals' \in Nat, arrivals <= arrivals',
         NEW t \in Types, NEW q \in SUBSET (1..arrivals'), SetMatchQueue(t, q)
  PROVE  /\ cache_match_list' \in [CachedTypes -> SUBSET (1..arrivals')]
         /\ IsPartialFunction(match_queue_list', Types \ CachedTypes, SUBSET (1..arrivals'))
<1>1. 1..arrivals \subseteq 1..arrivals'
  BY MailboxAssumption DEF ListTypeOK
<1>2. QED
  BY <1>1, MailboxAssumption DEF ListTypeOK, SetMatchQueue, IsPartialFunction

-----------------------------------------------------------------------------
LEMMA AddMatchMsgInv ==
  ASSUME ListInv, NEW m \in Message, AddMatchMsg(m)
  PROVE  ListInv'
<1> DEFINE n == arrivals + 1
           a == IndexedSender(m)
           indexed == m.type = Exit /\ a # NilAid
           old == IF indexed /\ a \in DOMAIN exit_list THEN {exit_list[a]} ELSE {}
<1> USE MailboxAssumption
<1>1. /\ arrivals < MaxArrivals
      /\ arrivals' = n
      /\ recv_que' = [k \in (DOMAIN recv_que \ old) \cup {n} |->
                        IF k = n THEN m ELSE recv_que[k]]
      /\ SetMatchQueue(m.type, (MatchQueue(m.type) \ old) \cup {n})
      /\ exit_list' = IF indexed
                      THEN [b \in DOMAIN exit_list \cup {a} |->
                              IF b = a THEN n ELSE exit_list[b]]
                      ELSE exit_list
  BY DEF AddMatchMsg
<1>2. /\ m.type \in Types /\ m.src.from \in Aids
      /\ a \in Aids \cup {NilAid}
      /\ a = IF m.src.kind = "request" THEN NilAid ELSE m.src.from
  BY MessageFields DEF IndexedSender
<1>3. /\ arrivals \in Nat /\ n \in 1..arrivals' /\ arrivals' \in 0..MaxArrivals
      /\ 1..arrivals \subseteq 1..arrivals' /\ n \notin 1..arrivals
      /\ DOMAIN recv_que \subseteq 1..arrivals
  BY <1>1 DEF ListInv, ListTypeOK, IsPartialFunction
<1>4. old = IF indexed THEN {k \in DOMAIN recv_que : Promise!IsExitOf(recv_que[k], a)} ELSE {}
  BY <1>2 DEF ListInv, ExitListExact
<1>5. \A s \in Types : MatchQueue(s) = {k \in DOMAIN recv_que : recv_que[k].type = s}
  BY DEF ListInv, MatchQueuesExact
<1>6. ListTypeOK'
  <2>1. IsPartialFunction(recv_que', 1..arrivals', Message)
    BY <1>1, <1>3 DEF ListInv, ListTypeOK, IsPartialFunction
  <2>2. IsPartialFunction(exit_list', Aids, 1..arrivals')
    BY <1>1, <1>2, <1>3 DEF ListInv, ListTypeOK, IsPartialFunction
  <2>3. (MatchQueue(m.type) \ old) \cup {n} \in SUBSET (1..arrivals')
    BY <1>2, <1>3, <1>5
  <2>4. arrivals <= arrivals' /\ arrivals' \in Nat
    BY <1>1, <1>3
  <2>5. /\ cache_match_list' \in [CachedTypes -> SUBSET (1..arrivals')]
        /\ IsPartialFunction(match_queue_list', Types \ CachedTypes, SUBSET (1..arrivals'))
    <3> HIDE DEF n, a, indexed, old
    <3> QED BY <1>1, <1>2, <2>3, <2>4, SetMatchQueueType DEF ListInv
  <2>6. QED
    BY <1>3, <2>1, <2>2, <2>5 DEF ListTypeOK
<1>7. MatchQueuesExact'
  <2>1. /\ \A s \in Types : MatchQueue(s)' =
             IF s = m.type THEN (MatchQueue(s) \ old) \cup {n} ELSE MatchQueue(s)
        /\ \A s \in DOMAIN match_queue_list' : match_queue_list'[s] # {}
    <3> HIDE DEF n, a, indexed, old
    <3> QED BY <1>1, <1>2, SetMatchQueueEffect DEF ListInv
  <2>2. \A k \in old : k \in DOMAIN recv_que /\ recv_que[k].type = m.type
    BY <1>4 DEF Promise!IsExitOf
  <2>3. ASSUME NEW s \in Types
        PROVE  MatchQueue(s)' = {k \in DOMAIN recv_que' : recv_que'[k].type = s}
    <3> HIDE DEF n, a, indexed, old
    <3>1. DOMAIN recv_que' = (DOMAIN recv_que \ old) \cup {n}
      BY <1>1
    <3>2. \A k \in DOMAIN recv_que' : recv_que'[k] = IF k = n THEN m ELSE recv_que[k]
      BY <1>1
    <3>3. n \notin DOMAIN recv_que
      BY <1>3
    <3>4. QED
      BY <1>5, <2>1, <2>2, <3>1, <3>2, <3>3
  <2>4. QED
    BY <2>1, <2>3 DEF MatchQueuesExact
<1>8. ExitListExact'
  <2>1. ASSUME NEW b \in Aids
        PROVE  {k \in DOMAIN recv_que' : Promise!IsExitOf(recv_que'[k], b)}
                 = IF b \in DOMAIN exit_list' THEN {exit_list'[b]} ELSE {}
    <3>1. {k \in DOMAIN recv_que : Promise!IsExitOf(recv_que[k], b)}
             = IF b \in DOMAIN exit_list THEN {exit_list[b]} ELSE {}
      BY DEF ListInv, ExitListExact
    <3>2. Promise!IsExitOf(m, b) <=> indexed /\ b = a
      BY <1>2 DEF Promise!IsExitOf
    <3>3. \A k \in old : \A c \in Aids : c # a => ~Promise!IsExitOf(recv_que[k], c)
      BY <1>4 DEF Promise!IsExitOf
    <3>4. /\ DOMAIN recv_que' = (DOMAIN recv_que \ old) \cup {n}
          /\ \A k \in DOMAIN recv_que' : recv_que'[k] = IF k = n THEN m ELSE recv_que[k]
          /\ n \notin DOMAIN recv_que
      BY <1>1, <1>3
    <3>5. CASE indexed /\ b = a
      <4>1. {k \in DOMAIN recv_que' : Promise!IsExitOf(recv_que'[k], b)} = {n}
        <5> HIDE DEF n, a, indexed, old
        <5> QED BY <1>4, <3>2, <3>4, <3>5
      <4>2. b \in DOMAIN exit_list' /\ exit_list'[b] = n
        BY <1>1, <3>5
      <4>3. QED
        BY <4>1, <4>2
    <3>6. CASE ~(indexed /\ b = a)
      <4>1. {k \in DOMAIN recv_que' : Promise!IsExitOf(recv_que'[k], b)}
              = {k \in DOMAIN recv_que : Promise!IsExitOf(recv_que[k], b)}
        <5> HIDE DEF n, a, indexed
        <5> QED BY <3>2, <3>3, <3>4, <3>6
      <4>2. /\ b \in DOMAIN exit_list' <=> b \in DOMAIN exit_list
            /\ b \in DOMAIN exit_list => exit_list'[b] = exit_list[b]
        BY <1>1, <3>6
      <4>3. QED
        BY <3>1, <4>1, <4>2
    <3>7. QED
      BY <3>5, <3>6
  <2>2. QED
    BY <2>1 DEF ExitListExact
<1>9. QED
  BY <1>6, <1>7, <1>8 DEF ListInv

LEMMA FetchMatchMsgInv ==
  ASSUME ListInv, NEW t \in Types, NEW ml, FetchMatchMsg(t, ml), UNCHANGED arrivals
  PROVE  ListInv'
<1> USE MailboxAssumption
<1>1. PICK n \in MatchQueue(t) :
        /\ \A k \in MatchQueue(t) : n <= k
        /\ SetMatchQueue(t, MatchQueue(t) \ {n})
        /\ recv_que' = [k \in DOMAIN recv_que \ {n} |-> recv_que[k]]
        /\ exit_list' =
             IF t = Exit /\ recv_que[n].src.kind # "request"
             THEN [b \in DOMAIN exit_list \ {recv_que[n].src.from} |-> exit_list[b]]
             ELSE exit_list
  BY DEF FetchMatchMsg
<1>2. \A s \in Types : MatchQueue(s) = {k \in DOMAIN recv_que : recv_que[k].type = s}
  BY DEF ListInv, MatchQueuesExact
<1>3. n \in DOMAIN recv_que /\ recv_que[n].type = t /\ recv_que[n] \in Message
  BY <1>2 DEF ListInv, ListTypeOK, IsPartialFunction
<1>4. ListTypeOK'
  <2>1. MatchQueue(t) \ {n} \in SUBSET (1..arrivals')
    BY <1>2 DEF ListInv, ListTypeOK, IsPartialFunction
  <2>2. arrivals' \in Nat /\ arrivals <= arrivals'
    BY DEF ListInv, ListTypeOK
  <2>3. /\ cache_match_list' \in [CachedTypes -> SUBSET (1..arrivals')]
        /\ IsPartialFunction(match_queue_list', Types \ CachedTypes, SUBSET (1..arrivals'))
    BY <1>1, <2>1, <2>2, SetMatchQueueType DEF ListInv
  <2>4. IsPartialFunction(recv_que', 1..arrivals', Message)
    BY <1>1 DEF ListInv, ListTypeOK, IsPartialFunction
  <2>5. IsPartialFunction(exit_list', Aids, 1..arrivals')
    BY <1>1 DEF ListInv, ListTypeOK, IsPartialFunction
  <2>6. QED
    BY <2>2, <2>3, <2>4, <2>5 DEF ListInv, ListTypeOK
<1>5. MatchQueuesExact'
  <2>1. /\ \A s \in Types : MatchQueue(s)' =
             IF s = t THEN MatchQueue(t) \ {n} ELSE MatchQueue(s)
        /\ \A s \in DOMAIN match_queue_list' : match_queue_list'[s] # {}
    BY <1>1, SetMatchQueueEffect DEF ListInv
  <2>2. QED
    BY <1>1, <1>2, <1>3, <2>1 DEF MatchQueuesExact
<1>6. ExitListExact'
  <2>1. ASSUME NEW b \in Aids
        PROVE  {k \in DOMAIN recv_que' : Promise!IsExitOf(recv_que'[k], b)}
                 = IF b \in DOMAIN exit_list' THEN {exit_list'[b]} ELSE {}
    <3>1. {k \in DOMAIN recv_que : Promise!IsExitOf(recv_que[k], b)}
             = IF b \in DOMAIN exit_list THEN {exit_list[b]} ELSE {}
      BY DEF ListInv, ExitListExact
    <3>2. {k \in DOMAIN recv_que' : Promise!IsExitOf(recv_que'[k], b)}
             = {k \in DOMAIN recv_que : Promise!IsExitOf(recv_que[k], b)} \ {n}
      BY <1>1
    <3>3. Promise!IsExitOf(recv_que[n], b) <=>
            t = Exit /\ recv_que[n].src.kind # "request" /\ recv_que[n].src.from = b
      BY <1>3 DEF Promise!IsExitOf
    <3>4. CASE Promise!IsExitOf(recv_que[n], b)
      BY <1>1, <1>3, <3>1, <3>2, <3>3, <3>4
    <3>5. CASE ~Promise!IsExitOf(recv_que[n], b)
      <4>1. /\ b \in DOMAIN exit_list' <=> b \in DOMAIN exit_list
            /\ b \in DOMAIN exit_list => exit_list'[b] = exit_list[b]
        BY <1>1, <3>3, <3>5
      <4>2. {k \in DOMAIN recv_que' : Promise!IsExitOf(recv_que'[k], b)}
             = {k \in DOMAIN recv_que : Promise!IsExitOf(recv_que[k], b)}
        BY <3>2, <3>5
      <4>3. QED
        BY <3>1, <4>1, <4>2
    <3>6. QED
      BY <3>4, <3>5
  <2>2. QED
    BY <2>1 DEF ExitListExact
<1>7. QED
  BY <1>4, <1>5, <1>6 DEF ListInv

-----------------------------------------------------------------------------
LEMMA InitInv == Init => IInv
<1> SUFFICES ASSUME Init PROVE IInv
  OBVIOUS
<1> USE MailboxAssumption DEF Init, Empty, Promise!Empty
<1>1. TypeOK
  BY DEF TypeOK, IsPartialFunction
<1>2. MatchQueuesExact
  BY DEF MatchQueuesExact, MatchQueue
<1>3. ExitListExact
  BY DEF ExitListExact
<1>4. QED
  BY <1>1, <1>2, <1>3 DEF IInv

LEMMA StepInv == IInv /\ [Next]_vars => IInv'
<1> SUFFICES ASSUME IInv, [Next]_vars PROVE IInv'
  OBVIOUS
<1> USE MailboxAssumption
<1>1. IInv <=> /\ ListInv
               /\ IsPartialFunction(res_msg_list, ReqIds, Answer)
               /\ wait_reply_list \in [Aids -> Seq(ReqIds)]
  BY DEF IInv, ListInv, TypeOK, ListTypeOK
<1>2. IInv' <=> /\ ListInv'
                /\ IsPartialFunction(res_msg_list', ReqIds, Answer)
                /\ wait_reply_list' \in [Aids -> Seq(ReqIds)]
  BY DEF IInv, ListInv, TypeOK, ListTypeOK
<1>3. ASSUME UNCHANGED <<arrivals, recv_que, index>>
      PROVE  ListInv'
  BY <1>1, <1>3 DEF ListInv, ListTypeOK, MatchQueuesExact, ExitListExact, MatchQueue, index
<1>4. ASSUME NEW m \in Message, Push(m)
      PROVE  IInv'
  BY <1>1, <1>2, <1>4, AddMatchMsgInv DEF Push
<1>5. ASSUME NEW m \in Message, PushRequest(m)
      PROVE  IInv'
  <2>1. ListInv'
    BY <1>1, <1>5, AddMatchMsgInv DEF PushRequest
  <2>2. wait_reply_list' \in [Aids -> Seq(ReqIds)]
    BY <1>1, <1>5, MessageFields DEF PushRequest
  <2>3. QED
    BY <1>1, <1>2, <1>5, <2>1, <2>2 DEF PushRequest
<1>6. ASSUME NEW id \in ReqIds, NEW r \in Answer, PushResponse(id, r)
      PROVE  IInv'
  BY <1>1, <1>2, <1>3, <1>6 DEF PushResponse, IsPartialFunction
<1>7. ASSUME PopFront
      PROVE  IInv'
  <2>1. PICK n \in DOMAIN recv_que : FetchMatchMsg(recv_que[n].type, <<>>)
    BY <1>7 DEF PopFront
  <2>2. recv_que[n].type \in Types
    BY <1>1, MessageFields DEF ListInv, ListTypeOK, IsPartialFunction
  <2>3. QED
    BY <1>1, <1>2, <1>7, <2>1, <2>2, FetchMatchMsgInv DEF PopFront
<1>8. ASSUME NEW ml \in MatchLists, PopMatch(ml)
      PROVE  IInv'
  <2>1. PICK i \in 1..Len(ml) : FetchMatchMsg(ml[i], ml)
    BY <1>8 DEF PopMatch
  <2>2. ml[i] \in Types
    BY <2>1
  <2>3. QED
    BY <1>1, <1>2, <1>8, <2>1, <2>2, FetchMatchMsgInv DEF PopMatch
<1>9. ASSUME NEW ml \in MatchLists, PopNothing(ml)
      PROVE  IInv'
  BY <1>1, <1>2, <1>3, <1>9 DEF PopNothing
<1>10. ASSUME NEW id \in ReqIds, NEW to \in Aids \cup {NilAid}, PopResponse(id, to)
       PROVE  IInv'
  BY <1>1, <1>2, <1>3, <1>10 DEF PopResponse, IsPartialFunction
<1>11. ASSUME NEW a \in Aids, PopRequest(a)
       PROVE  IInv'
  <2>1. ListInv' /\ UNCHANGED res_msg_list
    BY <1>3, <1>11 DEF PopRequest
  <2>2. wait_reply_list[a] # <<>> => Tail(wait_reply_list[a]) \in Seq(ReqIds)
    BY <1>1
  <2>3. wait_reply_list' \in [Aids -> Seq(ReqIds)]
    BY <1>1, <1>11, <2>2 DEF PopRequest
  <2>4. QED
    BY <1>1, <1>2, <2>1, <2>3
<1>12. ASSUME Clear
       PROVE  IInv'
  <2>1. arrivals' \in 0..MaxArrivals
    BY <1>1, <1>12 DEF Clear, ListInv, ListTypeOK
  <2> USE <1>12, <2>1 DEF Clear, Empty, Promise!Empty
  <2>2. TypeOK'
    BY DEF TypeOK, IsPartialFunction
  <2>3. MatchQueuesExact'
    BY DEF MatchQueuesExact, MatchQueue
  <2>4. ExitListExact'
    BY DEF ExitListExact
  <2>5. QED
    BY <2>2, <2>3, <2>4 DEF IInv
<1>13. CASE UNCHANGED vars
  BY <1>1, <1>2, <1>3, <1>13 DEF vars, index
<1>14. QED
  BY <1>4, <1>5, <1>6, <1>7, <1>8, <1>9, <1>10, <1>11, <1>12, <1>13 DEF Next

(* In every reachable state of any mailbox the lists have their types, the match *)
(* queues index exactly the unread messages, and exit_list_ points to the only   *)
(* unread exit notification of each actor.                                       *)
THEOREM IndexesExact == Spec => [](TypeOK /\ MatchQueuesExact /\ ExitListExact)
<1>1. IInv => TypeOK /\ MatchQueuesExact /\ ExitListExact
  BY DEF IInv
<1>2. QED
  BY <1>1, InitInv, StepInv, PTL DEF Spec

-----------------------------------------------------------------------------
(* A message the code appends is one that arrives: with exit_list_ exact, the    *)
(* node add_match_msg erases is the unread exit notification of that actor.      *)
LEMMA AddMatchMsgArrives ==
  ASSUME IInv, NEW m \in Message, AddMatchMsg(m)
  PROVE  /\ arrivals < MaxArrivals
         /\ arrivals' = arrivals + 1
         /\ recv_que' =
              [n \in (DOMAIN recv_que
                        \ (IF m.type = Exit /\ m.src.kind # "request"
                           THEN Promise!ExitsOf(m.src.from) ELSE {}))
                     \cup {arrivals + 1}
                 |-> IF n = arrivals + 1 THEN m ELSE recv_que[n]]
<1>1. m.src.from \in Aids
  BY MessageFields
<1>2. (IF m.type = Exit /\ IndexedSender(m) # NilAid /\ IndexedSender(m) \in DOMAIN exit_list
       THEN {exit_list[IndexedSender(m)]} ELSE {})
        = IF m.type = Exit /\ m.src.kind # "request" THEN Promise!ExitsOf(m.src.from) ELSE {}
  BY <1>1, MailboxAssumption
     DEF IInv, ExitListExact, IndexedSender, Promise!ExitsOf
<1>3. QED
  BY <1>2 DEF AddMatchMsg

LEMMA PushArrives ==
  ASSUME IInv, NEW m \in Message, Push(m) \/ PushRequest(m)
  PROVE  Promise!Arrive(m)
<1>1. AddMatchMsg(m)
  BY DEF Push, PushRequest
<1>2. QED
  BY <1>1, AddMatchMsgArrives DEF Push, PushRequest, Promise!Arrive, Nothing, NoCall

(* With the match queues exact, the head of the queue of the first type that     *)
(* has one is the message the promise asks for.                                  *)
LEMMA PopMatchReceives ==
  ASSUME IInv, NEW ml \in MatchLists, PopMatch(ml)
  PROVE  Promise!Receive(ml)
<1>1. PICK i \in 1..Len(ml) :
        /\ \A j \in 1..(i - 1) : MatchQueue(ml[j]) = {}
        /\ FetchMatchMsg(ml[i], ml)
  BY DEF PopMatch
<1>2. PICK n \in MatchQueue(ml[i]) :
        /\ \A k \in MatchQueue(ml[i]) : n <= k
        /\ recv_que' = [k \in DOMAIN recv_que \ {n} |-> recv_que[k]]
        /\ last' = [call |-> RecvCall(ml), ok |-> TRUE, msg |-> recv_que[n]]
  BY <1>1 DEF FetchMatchMsg
<1>3. ml \in Seq(Types)
  BY MailboxAssumption
<1>4. \A j \in 1..Len(ml) :
        MatchQueue(ml[j]) = {k \in DOMAIN recv_que : recv_que[k].type = ml[j]}
  BY <1>3 DEF IInv, MatchQueuesExact
<1>5. ml # <<>>
  BY <1>1, <1>3
<1>6. Promise!Chosen(n, ml)
  <2>1. n \in DOMAIN recv_que /\ recv_que[n].type = ml[i]
    BY <1>4
  <2>2. \A m \in DOMAIN recv_que : recv_que[m].type = ml[i] => n <= m
    BY <1>2, <1>4
  <2>3. \A m \in DOMAIN recv_que, j \in 1..(i - 1) : recv_que[m].type # ml[j]
    <3>1. \A j \in 1..(i - 1) : j \in 1..Len(ml)
      BY <1>3
    <3>2. QED
      BY <1>1, <1>4, <3>1
  <2>4. QED
    BY <1>5, <2>1, <2>2, <2>3 DEF Promise!Chosen
<1>7. n \in DOMAIN recv_que
  BY <1>4
<1>8. QED
  BY <1>2, <1>6, <1>7 DEF PopMatch, Promise!Receive, RecvCall

LEMMA PopFrontReceives ==
  ASSUME IInv, PopFront
  PROVE  Promise!Receive(<<>>)
<1>1. PICK f \in DOMAIN recv_que :
        /\ \A k \in DOMAIN recv_que : f <= k
        /\ FetchMatchMsg(recv_que[f].type, <<>>)
  BY DEF PopFront
<1>2. recv_que[f].type \in Types /\ DOMAIN recv_que \subseteq Nat
  BY <1>1, MessageFields, MailboxAssumption DEF IInv, TypeOK, IsPartialFunction
<1>3. MatchQueue(recv_que[f].type)
        = {k \in DOMAIN recv_que : recv_que[k].type = recv_que[f].type}
  BY <1>2 DEF IInv, MatchQueuesExact
<1>4. PICK n \in MatchQueue(recv_que[f].type) :
        /\ \A k \in MatchQueue(recv_que[f].type) : n <= k
        /\ recv_que' = [k \in DOMAIN recv_que \ {n} |-> recv_que[k]]
        /\ last' = [call |-> RecvCall(<<>>), ok |-> TRUE, msg |-> recv_que[n]]
  BY <1>1 DEF FetchMatchMsg
<1>5. n = f
  BY <1>1, <1>2, <1>3, <1>4
<1>6. Promise!Chosen(n, <<>>)
  BY <1>1, <1>5 DEF Promise!Chosen
<1>7. QED
  BY <1>1, <1>4, <1>5, <1>6 DEF PopFront, Promise!Receive, RecvCall

LEMMA PopNothingReceivesNothing ==
  ASSUME IInv, NEW ml \in MatchLists, PopNothing(ml)
  PROVE  Promise!ReceiveNothing(ml)
<1>1. ml \in Seq(Types)
  BY MailboxAssumption
<1>2. ASSUME NEW n \in DOMAIN recv_que
      PROVE  ml # <<>> /\ \A i \in 1..Len(ml) : recv_que[n].type # ml[i]
  BY <1>1, <1>2 DEF PopNothing, IInv, MatchQueuesExact
<1>3. QED
  BY <1>2 DEF PopNothing, Promise!ReceiveNothing, Nothing, RecvCall

LEMMA PopResponseReceivesAnswer ==
  ASSUME IInv, NEW id \in ReqIds, NEW to \in Aids \cup {NilAid}, PopResponse(id, to)
  PROVE  Promise!ReceiveAnswer(id, to)
<1>1. CASE id \in DOMAIN res_msg_list
  BY <1>1 DEF PopResponse, Promise!ReceiveAnswer, ResponseCall
<1>2. CASE id \notin DOMAIN res_msg_list /\ to \in DOMAIN exit_list
  <2>1. to \in Aids
    BY <1>2 DEF IInv, TypeOK, IsPartialFunction
  <2>2. Promise!ExitsOf(to) = {exit_list[to]}
    BY <1>2, <2>1 DEF IInv, ExitListExact, Promise!ExitsOf
  <2>3. recv_que[exit_list[to]].type = Exit
    BY <2>2 DEF Promise!ExitsOf, Promise!IsExitOf
  <2>4. QED
    BY <1>2, <2>2, <2>3 DEF PopResponse, Promise!ReceiveAnswer, ResponseCall
<1>3. CASE id \notin DOMAIN res_msg_list /\ to \notin DOMAIN exit_list
  <2>1. Promise!ExitsOf(to) = {}
    <3>1. CASE to \in Aids
      BY <1>3, <3>1 DEF IInv, ExitListExact, Promise!ExitsOf
    <3>2. CASE to = NilAid
      BY <3>2, MessageFields, MailboxAssumption
         DEF IInv, TypeOK, IsPartialFunction, Promise!ExitsOf, Promise!IsExitOf
    <3>3. QED
      BY <3>1, <3>2
  <2>2. QED
    BY <1>3, <2>1 DEF PopResponse, Promise!ReceiveAnswer, Nothing, ResponseCall
<1>4. QED
  BY <1>1, <1>2, <1>3

(* The mailbox of mailbox.cpp implements the selective receive it promises: with *)
(* its indexes exact, every operation of the code is one of the promise.         *)
THEOREM MailboxKeepsPromise == Spec => KeepsPromise
<1>1. Init => Promise!Init
  BY DEF Init, Promise!Init, Empty, Nothing, NoCall, Promise!NoOwed
<1>2. IInv /\ [Next]_vars => [Promise!Next]_(Promise!vars)
  <2> SUFFICES ASSUME IInv, [Next]_vars PROVE [Promise!Next]_(Promise!vars)
    OBVIOUS
  <2>1. ASSUME NEW m \in Message, Push(m) \/ PushRequest(m)
        PROVE  Promise!Next
    BY <2>1, PushArrives DEF Promise!Next, Message
  <2>2. ASSUME NEW id \in ReqIds, NEW r \in Answer, PushResponse(id, r)
        PROVE  Promise!Next
    <3>1. Promise!ArriveAnswer(id, r)
      BY <2>2 DEF PushResponse, Promise!ArriveAnswer, Nothing, NoCall
    <3>2. QED
      BY <3>1 DEF Promise!Next, Answer
  <2>3. ASSUME <<>> \in MatchLists, PopFront
        PROVE  Promise!Next
    BY <2>3, PopFrontReceives DEF Promise!Next
  <2>4. ASSUME NEW ml \in MatchLists, PopMatch(ml)
        PROVE  Promise!Next
    BY <2>4, PopMatchReceives DEF Promise!Next
  <2>5. ASSUME NEW ml \in MatchLists, PopNothing(ml)
        PROVE  Promise!Next
    BY <2>5, PopNothingReceivesNothing DEF Promise!Next
  <2>6. ASSUME NEW id \in ReqIds, NEW to \in Aids \cup {NilAid}, PopResponse(id, to)
        PROVE  Promise!Next
    BY <2>6, PopResponseReceivesAnswer DEF Promise!Next
  <2>7. ASSUME NEW a \in Aids, PopRequest(a)
        PROVE  Promise!Next
    <3>1. Promise!TakeOwed(a)
      BY <2>7 DEF PopRequest, Promise!TakeOwed, Nothing, ReplyCall
    <3>2. QED
      BY <3>1 DEF Promise!Next
  <2>8. ASSUME Clear
        PROVE  Promise!Next
    BY <2>8 DEF Clear, Promise!Clear, Promise!Next, Empty, Nothing, NoCall, Promise!NoOwed
  <2>9. CASE UNCHANGED vars
    BY <2>9 DEF vars, Promise!vars
  <2>10. QED
    BY <2>1, <2>2, <2>3, <2>4, <2>5, <2>6, <2>7, <2>8, <2>9 DEF Next
<1>3. QED
  BY <1>1, <1>2, InitInv, StepInv, PTL DEF Spec, Promise!Spec, KeepsPromise
=============================================================================
