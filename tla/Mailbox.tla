------------------------------- MODULE Mailbox -------------------------------
(***************************************************************************)
(* The mailbox of an actor, libs/actor/src/mailbox.cpp: the list of unread *)
(* messages and the indexes into it.                                       *)
(*                                                                         *)
(* recv_que_ is a std::list and every index holds iterators of it. A node  *)
(* of the list is a stamp, given in increasing order: nodes are only added *)
(* at the end of recv_que_ and of a match queue, so the order of a list is *)
(* the order of its stamps and a list of iterators is a set of stamps.     *)
(* Using an iterator of an erased node is a stamp outside DOMAIN recv_que. *)
(*                                                                         *)
(* svc_exit_list_ is left out: an aid's svc_ is never set by any code of   *)
(* src/, so it stays empty.                                                *)
(***************************************************************************)
EXTENDS Integers, Sequences

CONSTANTS
  Aids, NilAid, Types, Exit, ReqIds, MatchLists, MaxArrivals,
  CachedTypes  \* the types below max_cache_match_size, indexed by the vector

ASSUME MailboxAssumption ==
  /\ NilAid \notin Aids
  /\ Exit \in Types \ CachedTypes
  /\ CachedTypes \subseteq Types
  /\ MatchLists \subseteq Seq(Types)
  /\ MaxArrivals \in Nat

VARIABLES
  arrivals,          \* the last stamp given to a node
  recv_que,          \* node -> <<recv_t, message>>
  cache_match_list,  \* cached type -> nodes
  match_queue_list,  \* other type -> nodes; the entry goes when it is empty
  exit_list,         \* actor -> node of its unread exit notification
  res_msg_list,      \* request id -> its answer
  wait_reply_list,   \* actor -> requests received from it and not replied to
  last               \* the last operation and what it returned

vars == <<arrivals, recv_que, cache_match_list, match_queue_list, exit_list,
          res_msg_list, wait_reply_list, last>>
index == <<cache_match_list, match_queue_list, exit_list>>

Promise == INSTANCE SelectiveReceive
             WITH inbox <- recv_que, answers <- res_msg_list, owed <- wait_reply_list

Message == Promise!Message
Answer == Promise!Answer
NoCall == Promise!NoCall
RecvCall(ml) == Promise!RecvCall(ml)
ResponseCall(id, to) == Promise!ResponseCall(id, to)
ReplyCall(a) == Promise!ReplyCall(a)
Nothing(c) == Promise!Nothing(c)
Empty == Promise!Empty

-----------------------------------------------------------------------------
\* The queue of a type: fetch_match_msg treats a missing entry as empty.
MatchQueue(t) ==
  IF t \in CachedTypes THEN cache_match_list[t]
  ELSE IF t \in DOMAIN match_queue_list THEN match_queue_list[t] ELSE {}

\* Were the emptied entry left in the map.
SetMatchQueueKeepsEmpty(t, q) ==
  /\ cache_match_list' = IF t \in CachedTypes
                         THEN [cache_match_list EXCEPT ![t] = q] ELSE cache_match_list
  /\ match_queue_list' = IF t \in CachedTypes THEN match_queue_list
                         ELSE [s \in DOMAIN match_queue_list \cup {t} |->
                                 IF s = t THEN q ELSE match_queue_list[s]]

\* add_match_msg and fetch_match_msg make q the queue of type t. fetch erases an
\* entry of match_queue_list_ it has emptied.
SetMatchQueue(t, q) ==
  /\ cache_match_list' = IF t \in CachedTypes
                         THEN [cache_match_list EXCEPT ![t] = q] ELSE cache_match_list
  /\ match_queue_list' =
       IF t \in CachedTypes THEN match_queue_list
       ELSE IF q = {} THEN [s \in DOMAIN match_queue_list \ {t} |-> match_queue_list[s]]
       ELSE [s \in DOMAIN match_queue_list \cup {t} |->
               IF s = t THEN q ELSE match_queue_list[s]]

\* The sender add_match_msg indexes an exit notification under: push(request_t)
\* passes aid_t(), so an exit typed request is not indexed.
IndexedSenderOfRequest(m) == m.src.from
IndexedSender(m) == IF m.src.kind = "request" THEN NilAid ELSE m.src.from

\* add_match_msg: append the node, index it, and let a new exit notification of
\* an actor replace the unread one in recv_que_, the match queue and exit_list_.
AddMatchMsg(m) ==
  LET n == arrivals + 1
      a == IndexedSender(m)
      indexed == m.type = Exit /\ a # NilAid
      old == IF indexed /\ a \in DOMAIN exit_list THEN {exit_list[a]} ELSE {}
  IN  /\ arrivals < MaxArrivals
      /\ arrivals' = n
      /\ recv_que' = [k \in (DOMAIN recv_que \ old) \cup {n} |->
                        IF k = n THEN m ELSE recv_que[k]]
      /\ SetMatchQueue(m.type, (MatchQueue(m.type) \ old) \cup {n})
      /\ exit_list' = IF indexed
                      THEN [b \in DOMAIN exit_list \cup {a} |->
                              IF b = a THEN n ELSE exit_list[b]]
                      ELSE exit_list

\* fetch_match_msg, called by pop(ml), for a type whose queue is not empty: its
\* first node.
FetchMatchMsg(t, ml) ==
  \E n \in MatchQueue(t) :
    /\ \A k \in MatchQueue(t) : n <= k
    /\ SetMatchQueue(t, MatchQueue(t) \ {n})
    /\ recv_que' = [k \in DOMAIN recv_que \ {n} |-> recv_que[k]]
    /\ exit_list' =
         IF t = Exit /\ recv_que[n].src.kind # "request"
         THEN [b \in DOMAIN exit_list \ {recv_que[n].src.from} |-> exit_list[b]]
         ELSE exit_list
    /\ last' = [call |-> RecvCall(ml), ok |-> TRUE, msg |-> recv_que[n]]

-----------------------------------------------------------------------------
Init ==
  /\ arrivals = 0
  /\ recv_que = Empty
  /\ cache_match_list = [t \in CachedTypes |-> {}]
  /\ match_queue_list = Empty
  /\ exit_list = Empty
  /\ res_msg_list = Empty
  /\ wait_reply_list = [a \in Aids |-> <<>>]
  /\ last = Nothing(NoCall)

\* push(aid_t, message), push(exit_t, message)
Push(m) ==
  /\ m.src.kind # "request"
  /\ AddMatchMsg(m)
  /\ last' = Nothing(NoCall)
  /\ UNCHANGED <<res_msg_list, wait_reply_list>>

\* push(request_t, message): the request is also owed a reply.
PushRequest(m) ==
  /\ m.src.kind = "request"
  /\ AddMatchMsg(m)
  /\ wait_reply_list' = [wait_reply_list EXCEPT ![m.src.from] = Append(@, m.src.id)]
  /\ last' = Nothing(NoCall)
  /\ UNCHANGED res_msg_list

\* push(response_t, message): std::map::insert keeps the one already there.
PushResponse(id, r) ==
  /\ res_msg_list' = [i \in DOMAIN res_msg_list \cup {id} |->
                        IF i \in DOMAIN res_msg_list THEN res_msg_list[i] ELSE r]
  /\ last' = Nothing(NoCall)
  /\ UNCHANGED <<arrivals, recv_que, index, wait_reply_list>>

\* pop(recv_t&, message&, match_list) with an empty match list: the queue of the
\* type of the first message of recv_que_.
PopFront ==
  /\ \E n \in DOMAIN recv_que :
       /\ \A k \in DOMAIN recv_que : n <= k
       /\ FetchMatchMsg(recv_que[n].type, <<>>)
  /\ UNCHANGED <<arrivals, res_msg_list, wait_reply_list>>

\* Were a type taken before the list's earlier ones.
PopMatchAny(ml) ==
  /\ \E i \in 1..Len(ml) : FetchMatchMsg(ml[i], ml)
  /\ UNCHANGED <<arrivals, res_msg_list, wait_reply_list>>

\* ... with types to match: the first of them that has a message.
PopMatch(ml) ==
  /\ DOMAIN recv_que # {}
  /\ \E i \in 1..Len(ml) :
       /\ \A j \in 1..(i - 1) : MatchQueue(ml[j]) = {}
       /\ FetchMatchMsg(ml[i], ml)
  /\ UNCHANGED <<arrivals, res_msg_list, wait_reply_list>>

\* ... returning false.
PopNothing(ml) ==
  /\ \/ DOMAIN recv_que = {}
     \/ ml # <<>> /\ \A i \in 1..Len(ml) : MatchQueue(ml[i]) = {}
  /\ last' = Nothing(RecvCall(ml))
  /\ UNCHANGED <<arrivals, recv_que, index, res_msg_list, wait_reply_list>>

\* pop(response_t&, message&), `to' being res.get_recver().
PopResponse(id, to) ==
  /\ IF id \in DOMAIN res_msg_list
     THEN /\ last' = [call |-> ResponseCall(id, to), ok |-> TRUE, ans |-> res_msg_list[id]]
          /\ res_msg_list' = [i \in DOMAIN res_msg_list \ {id} |-> res_msg_list[i]]
     ELSE /\ last' = IF to \in DOMAIN exit_list
                     THEN [call |-> ResponseCall(id, to), ok |-> TRUE,
                           ans |-> [from |-> to, type |-> recv_que[exit_list[to]].type]]
                     ELSE Nothing(ResponseCall(id, to))
          /\ UNCHANGED res_msg_list
  /\ UNCHANGED <<arrivals, recv_que, index, wait_reply_list>>

\* pop(aid_t, request_t&), called by basic_actor::pri_reply.
PopRequest(a) ==
  /\ IF wait_reply_list[a] = <<>>
     THEN last' = Nothing(ReplyCall(a)) /\ UNCHANGED wait_reply_list
     ELSE /\ last' = [call |-> ReplyCall(a), ok |-> TRUE, id |-> Head(wait_reply_list[a])]
          /\ wait_reply_list' = [wait_reply_list EXCEPT ![a] = Tail(@)]
  /\ UNCHANGED <<arrivals, recv_que, index, res_msg_list>>

\* clear(), from basic_actor::on_free.
Clear ==
  /\ recv_que' = Empty
  /\ cache_match_list' = [t \in CachedTypes |-> {}]
  /\ match_queue_list' = Empty
  /\ res_msg_list' = Empty
  /\ wait_reply_list' = [a \in Aids |-> <<>>]
  /\ exit_list' = Empty
  /\ last' = Nothing(NoCall)
  /\ UNCHANGED arrivals

Next ==
  \/ \E m \in Message : Push(m) \/ PushRequest(m)
  \/ \E id \in ReqIds, r \in Answer : PushResponse(id, r)
  \/ <<>> \in MatchLists /\ PopFront
  \/ \E ml \in MatchLists : PopMatch(ml) \/ PopNothing(ml)
  \/ \E id \in ReqIds, to \in Aids \cup {NilAid} : PopResponse(id, to)
  \/ \E a \in Aids : PopRequest(a)
  \/ Clear

Spec == Init /\ [][Next]_vars

-----------------------------------------------------------------------------
IsPartialFunction(f, S, T) ==
  /\ f = [x \in DOMAIN f |-> f[x]]
  /\ DOMAIN f \subseteq S
  /\ \A x \in DOMAIN f : f[x] \in T

TypeOK ==
  /\ arrivals \in 0..MaxArrivals
  /\ IsPartialFunction(recv_que, 1..arrivals, Message)
  /\ cache_match_list \in [CachedTypes -> SUBSET (1..arrivals)]
  /\ IsPartialFunction(match_queue_list, Types \ CachedTypes, SUBSET (1..arrivals))
  /\ IsPartialFunction(exit_list, Aids, 1..arrivals)
  /\ IsPartialFunction(res_msg_list, ReqIds, Answer)
  /\ wait_reply_list \in [Aids -> Seq(ReqIds)]

\* The match queues index exactly the unread messages: no queue holds an iterator
\* of an erased node and no unread message is out of reach of recv; and an empty
\* queue does not stay in the map (fetch_match_msg, mailbox.cpp:223-230).
MatchQueuesExact ==
  /\ \A t \in Types : MatchQueue(t) = {n \in DOMAIN recv_que : recv_que[n].type = t}
  /\ \A t \in DOMAIN match_queue_list : match_queue_list[t] # {}

\* exit_list_ names, for each actor, its only unread exit notification: pop of a
\* response and add_match_msg dereference these iterators with no further check
\* (mailbox.cpp:88, 198), after any order of pushes, replacements and reads.
ExitListExact ==
  \A a \in Aids :
    {n \in DOMAIN recv_que : Promise!IsExitOf(recv_que[n], a)}
      = IF a \in DOMAIN exit_list THEN {exit_list[a]} ELSE {}

\* The mailbox keeps the promise: whatever the state of the indexes, recv returns
\* the oldest message of the first type wanted, a miss means there is none, and an
\* exit notification stands for a missing answer as long as it is unread.
KeepsPromise == Promise!Spec
=============================================================================
