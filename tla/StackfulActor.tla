---------------------------- MODULE StackfulActor ----------------------------
(***************************************************************************)
(* An actor that is a stackful coroutine,                                  *)
(* libs/actor/src/coroutine_stackful_actor.cpp: its receives, its timer,   *)
(* and its life from the pool of its cache_pool and back to it.            *)
(*                                                                         *)
(* Everything runs on the strand of the cache_pool. The coroutine runs     *)
(* until it yields; recv, wait and stop yield and are resumed by resume(), *)
(* which calls free_self when the coroutine has ended meanwhile. run is    *)
(* entered by asio::spawn, and a user's own asynchronous operation (on     *)
(* get_yield()) goes on from its completion handler: not by resume().      *)
(* While the coroutine runs handle_recv may still be called, by on_recv    *)
(* with the hint sync further down the same stack.                         *)
(*                                                                         *)
(* The actor is an object that is used again and again. A pack carries the *)
(* aid it was sent to, here its sid_: an aid that is not the actor's any   *)
(* more is refused by check(). What else handle_recv does then, and links, *)
(* change nothing that is modelled here.                                   *)
(***************************************************************************)
EXTENDS Unread, FiniteSets

CONSTANTS
  MatchLists,   \* the match lists recv is called with
  MaxCalls,     \* bound on the operations of the actors' code
  MaxUnread,    \* bound on the unread messages of a type
  MaxSpawns     \* bound on the actors the object is used for

ASSUME StackfulActorAssumption ==
  /\ Exit \notin Types
  /\ MatchLists \subseteq Seq(Types \cup {Exit})
  /\ MaxCalls \in Nat /\ MaxUnread \in Nat /\ MaxSpawns \in Nat

VARIABLES
  sid,         \* aid_.sid_
  known,       \* the sids of the aids that spawn has given out
  mb,          \* mb_
  coro,        \* where the coroutine is
  caller,      \* what runs the coroutine: resume() or asio
  calls,       \* how many operations were begun
  call,        \* the one the coroutine is in, or was in last
  result,      \* what it returned
  recving,     \* recving_, and the match list in curr_match_
  curr_match,
  responsing,  \* responsing_, and recving_res_
  recving_res,
  tmr_sid,     \* tmr_sid_
  waiting,     \* the wait pending on tmr_, at most one
  expired,     \* handlers of waits that have expired, posted to the strand
  posted       \* how many of stop's calls of resume are posted

lifeVars == <<sid, known, posted>>
callVars == <<calls, call>>
waitVars == <<recving, curr_match, responsing, recving_res>>
timerVars == <<tmr_sid, waiting, expired>>
vars == <<lifeVars, mb, coro, caller, callVars, result, waitVars, timerVars>>

NoCall == [op |-> "none"]
NoValue == [ok |-> FALSE, by |-> "none"]
NoResponse == [id |-> 0]

Timeouts == {"zero", "finite", "infin"}
RecvCalls == [op : {"recv"}, match : MatchLists, tmo : Timeouts]
ResponseCalls == [op : {"response"}, id : ReqIds, to : Aids, tmo : Timeouts]
Wait == [op |-> "wait", tmo |-> "finite"]
Handlers == [sid : Nat, n : Nat]

\* The coroutine is suspended in an operation of the actor.
Suspended == coro \in {"recv", "response", "wait"}

-----------------------------------------------------------------------------
\* start_recv_timer. expires_from_now cancels the wait pending. And were tmr_sid_
\* moved on after the handler is bound.
StartRecvTimerBindsOld(n) ==
  /\ tmr_sid' = tmr_sid + 1
  /\ waiting' = {[sid |-> tmr_sid, n |-> n]}
  /\ UNCHANGED expired
StartRecvTimer(n) ==
  /\ tmr_sid' = tmr_sid + 1
  /\ waiting' = {[sid |-> tmr_sid + 1, n |-> n]}
  /\ UNCHANGED expired

Begin(c) ==
  /\ coro = "running"
  /\ calls < MaxCalls
  /\ calls' = calls + 1
  /\ call' = c

\* The operation ends without a yield.
AtOnce(v) ==
  /\ result' = v
  /\ UNCHANGED <<coro, caller>>

\* yield(): control goes back to whatever runs the coroutine.
Yield(where) ==
  /\ coro' = where
  /\ caller' = "none"
  /\ result' = NoValue

\* recv(message&, match)
Recv(c) ==
  /\ Begin(c)
  /\ \/ \E t \in Matching(mb, c.match) :
          /\ mb' \in Taken(mb, t)
          /\ AtOnce([ok |-> TRUE, by |-> "message", type |-> t])
          /\ UNCHANGED <<waitVars, timerVars>>
     \/ /\ Matching(mb, c.match) = {}
        /\ c.tmo = "zero"
        /\ AtOnce([ok |-> FALSE, by |-> "message"])
        /\ UNCHANGED <<mb, waitVars, timerVars>>
     \/ /\ Matching(mb, c.match) = {}
        /\ c.tmo # "zero"
        /\ IF c.tmo = "finite" THEN StartRecvTimer(calls') ELSE UNCHANGED timerVars
        /\ recving' = TRUE
        /\ curr_match' = c.match
        /\ Yield("recv")
        /\ UNCHANGED <<mb, responsing, recving_res>>
  /\ UNCHANGED lifeVars

\* recv(response_t, message&, duration): recving_res_ is set before the mailbox is
\* looked into.
RecvResponse(c) ==
  /\ Begin(c)
  /\ recving_res' = [id |-> c.id, to |-> c.to]
  /\ \/ /\ Answered(mb, c.id, c.to)
        /\ mb' = AnswerTaken(mb, c.id)
        /\ AtOnce([ok |-> TRUE, by |-> "answer", id |-> c.id])
        /\ UNCHANGED <<responsing, timerVars>>
     \/ /\ ~Answered(mb, c.id, c.to)
        /\ c.tmo = "zero"
        /\ AtOnce([ok |-> FALSE, by |-> "answer"])
        /\ UNCHANGED <<mb, responsing, timerVars>>
     \/ /\ ~Answered(mb, c.id, c.to)
        /\ c.tmo # "zero"
        /\ IF c.tmo = "finite" THEN StartRecvTimer(calls') ELSE UNCHANGED timerVars
        /\ responsing' = TRUE
        /\ Yield("response")
        /\ UNCHANGED mb
  /\ UNCHANGED <<lifeVars, recving, curr_match>>

\* wait(duration)
WaitFor ==
  /\ Begin(Wait)
  /\ StartRecvTimer(calls')
  /\ Yield("wait")
  /\ UNCHANGED <<lifeVars, mb, waitVars>>

\* An asynchronous operation of the user's, and its completion.
AsyncBegin ==
  /\ Begin([op |-> "async", tmo |-> "infin"])
  /\ Yield("async")
  /\ UNCHANGED <<lifeVars, mb, waitVars, timerVars>>

AsyncEnd ==
  /\ coro = "async"
  /\ coro' = "running"
  /\ caller' = "asio"
  /\ UNCHANGED <<lifeVars, mb, callVars, result, waitVars, timerVars>>

-----------------------------------------------------------------------------
(* resume *)

\* resume(actor_normal) and resume(actor_timeout), up to the next yield or the end.
\* The scoped_bools reset recving_ and responsing_.
Resume(v) ==
  /\ coro' = "running"
  /\ caller' = "resume"
  /\ result' = v
  /\ recving' = FALSE
  /\ responsing' = FALSE

\* ++tmr_sid_; tmr_.cancel(ec). And were tmr_sid_ left alone.
CancelTimerOnly ==
  /\ waiting' = {}
  /\ UNCHANGED <<tmr_sid, expired>>
CancelTimer ==
  /\ tmr_sid' = tmr_sid + 1
  /\ waiting' = {}
  /\ UNCHANGED expired

\* check(pk.recver_, ...): the pack is for the actor the object is now.
Check(to) == to = sid

\* The messages that end a recv. And were an exit notification pushed and no one
\* resumed.
WakesButExit(box) == IF recving THEN Matching(box, curr_match) \ {Exit} ELSE {}
Wakes(box) == IF recving THEN Matching(box, curr_match) ELSE {}

\* handle_recv of a message, a request or an exit notification.
HandleRecv(pk, to) ==
  /\ pk.kind # "response"
  /\ pk.kind = "message" => mb.count[pk.type] < MaxUnread
  /\ Check(to)
  /\ LET box == Pushed(mb, pk)
     IN  \/ /\ Wakes(box) = {}
            /\ mb' = box
            /\ UNCHANGED <<coro, caller, result, waitVars, timerVars>>
         \/ \E t \in Wakes(box) :
              /\ mb' \in Taken(box, t)
              /\ curr_match' = <<>>
              /\ CancelTimer
              /\ Resume([ok |-> TRUE, by |-> "message", type |-> t])
              /\ UNCHANGED recving_res
  /\ UNCHANGED <<lifeVars, callVars>>

\* handle_recv of a response. recv resets recving_res_ when it goes on.
HandleResponse(pk, to) ==
  /\ pk.kind = "response"
  /\ Check(to)
  /\ LET box == Pushed(mb, pk)
     IN  IF responsing /\ Answered(box, recving_res.id, recving_res.to)
         THEN /\ mb' = AnswerTaken(box, recving_res.id)
              /\ CancelTimer
              /\ Resume([ok |-> TRUE, by |-> "answer", id |-> recving_res.id])
              /\ recving_res' = NoResponse
              /\ UNCHANGED curr_match
         ELSE /\ mb' = box
              /\ UNCHANGED <<coro, caller, result, waitVars, timerVars>>
  /\ UNCHANGED <<lifeVars, callVars>>

\* The wait pending expires: its handler goes to the strand.
Expire ==
  /\ waiting # {}
  /\ expired' = expired \cup waiting
  /\ waiting' = {}
  /\ UNCHANGED <<lifeVars, mb, coro, caller, callVars, result, waitVars, tmr_sid>>

\* Were the timer's id not compared.
CurrentAlways(h) == TRUE
Current(h) == h.sid = tmr_sid

\* handle_recv_timeout, called without an error.
HandleTimeout(h) ==
  /\ h \in expired
  /\ expired' = expired \ {h}
  /\ IF Current(h) THEN Resume([ok |-> FALSE, by |-> "timeout"])
     ELSE UNCHANGED <<coro, caller, result, recving, responsing>>
  /\ UNCHANGED <<lifeVars, mb, callVars, curr_match, recving_res, tmr_sid, waiting>>

-----------------------------------------------------------------------------
(* The actor's life *)

\* make_stackful_actor: the object comes out of the pool and gets its next aid.
Spawn ==
  /\ coro = "pooled"
  /\ Cardinality(known) < MaxSpawns
  /\ coro' = "ready"
  /\ sid' = sid + 1
  /\ known' = known \cup {sid + 1}
  /\ UNCHANGED <<mb, caller, callVars, result, waitVars, timerVars, posted>>

\* asio::spawn enters run.
Run ==
  /\ coro = "ready"
  /\ coro' = "running"
  /\ caller' = "asio"
  /\ call' = NoCall /\ result' = NoValue
  /\ UNCHANGED <<lifeVars, mb, calls, waitVars, timerVars>>

\* The user's function returns: stop(exit_normal) posts a resume and yields. And
\* were it not to post.
ReturnSilently ==
  /\ coro = "running"
  /\ call' = NoCall
  /\ Yield("stop")
  /\ UNCHANGED <<lifeVars, mb, calls, waitVars, timerVars>>
Return ==
  /\ coro = "running"
  /\ posted' = posted + 1
  /\ call' = NoCall
  /\ Yield("stop")
  /\ UNCHANGED <<sid, known, mb, calls, waitVars, timerVars>>

\* free_self and on_free: the aid is changed, the links are told (not modelled here),
\* and everything but the timer and the pending handlers is reset. And were the aid
\* kept.
NewAidForgotten == sid' = sid
NewAid == sid' = sid + 1

OnFree ==
  /\ mb' = NoneUnread
  /\ recving' = FALSE /\ curr_match' = <<>>
  /\ responsing' = FALSE /\ recving_res' = NoResponse

FreeSelf ==
  /\ NewAid
  /\ OnFree
  /\ coro' = "pooled"
  /\ caller' = "none"
  /\ call' = NoCall /\ result' = NoValue
  /\ UNCHANGED <<known, calls, timerVars>>

\* The resume that stop has posted: the coroutine ends, and resume frees the actor.
ResumePosted ==
  /\ posted > 0
  /\ posted' = posted - 1
  /\ FreeSelf

\* The user's function throws: stop(exit_except) only notes that the actor is off.
\* It is for resume to free it; when asio runs the coroutine nobody does.
Throw ==
  /\ coro = "running"
  /\ \/ /\ caller = "resume"
        /\ FreeSelf
        /\ UNCHANGED posted
     \/ /\ caller = "asio"
        /\ coro' = "off"
        /\ caller' = "none"
        /\ UNCHANGED <<lifeVars, mb, callVars, result, waitVars, timerVars>>

-----------------------------------------------------------------------------
Init ==
  /\ sid = 0 /\ known = {} /\ posted = 0
  /\ mb = NoneUnread
  /\ coro = "pooled" /\ caller = "none"
  /\ calls = 0 /\ call = NoCall /\ result = NoValue
  /\ recving = FALSE /\ curr_match = <<>>
  /\ responsing = FALSE /\ recving_res = NoResponse
  /\ tmr_sid = 0 /\ waiting = {} /\ expired = {}

UserCode ==
  \/ \E c \in RecvCalls : Recv(c)
  \/ \E c \in ResponseCalls : RecvResponse(c)
  \/ WaitFor \/ AsyncBegin \/ Return \/ Throw

Receive == \E pk \in Packs, to \in known : HandleRecv(pk, to) \/ HandleResponse(pk, to)
Timeout == Expire \/ \E h \in expired : HandleTimeout(h)

Next == UserCode \/ AsyncEnd \/ Receive \/ Timeout \/ Spawn \/ Run \/ ResumePosted

Spec == Init /\ [][Next]_vars

\* A posted handler runs and a wait expires. Nothing makes a message come.
Fairness ==
  /\ WF_vars(Run)
  /\ WF_vars(ResumePosted)
  /\ WF_vars(Expire)
  /\ \A s \in 1..(2 * MaxCalls) :
       WF_vars(\E h \in expired : h.sid = s /\ HandleTimeout(h))

FairSpec == Spec /\ Fairness

-----------------------------------------------------------------------------
TypeOK ==
  /\ sid \in Nat /\ known \subseteq Nat /\ posted \in Nat
  /\ mb \in [count : [Types -> Nat], exits : SUBSET Aids, answers : SUBSET ReqIds]
  /\ coro \in {"pooled", "ready", "running", "recv", "response", "wait", "async", "stop", "off"}
  /\ caller \in {"none", "resume", "asio"}
  /\ calls \in Nat
  /\ recving \in BOOLEAN /\ responsing \in BOOLEAN
  /\ curr_match \in MatchLists \cup {<<>>}
  /\ recving_res \in [id : ReqIds, to : Aids] \cup {NoResponse}
  /\ tmr_sid \in Nat
  /\ waiting \subseteq Handlers /\ expired \subseteq Handlers

\* resume() only ever finds the coroutine suspended in the operation it ends: whatever
\* may call it (handle_recv, through recving_ and responsing_, a timer that is
\* current, the call that stop has posted) belongs to the operation the coroutine is
\* in, not to one before, nor to the actor the object was before.
ResumesTheSuspended ==
  /\ recving => coro = "recv" /\ curr_match = call.match
  /\ responsing => coro = "response" /\ recving_res = [id |-> call.id, to |-> call.to]
  /\ \A h \in waiting \cup expired : Current(h) => Suspended /\ h.n = calls
  /\ posted = IF coro = "stop" THEN 1 ELSE 0

\* A coroutine suspended in a receive has something that resumes it.
Remembered ==
  /\ coro = "recv" => recving
  /\ coro = "response" => responsing
  /\ Suspended /\ call.tmo = "finite" => \E h \in waiting \cup expired : Current(h)

\* While recv is suspended there is no unread message it asks for, and while it is
\* suspended on a response the answer is not in the mailbox.
NothingMissed ==
  /\ coro = "recv" => Matching(mb, call.match) = {}
  /\ coro = "response" => call.id \notin mb.answers

\* recv returns what it was asked for, and without a message only if it was told not
\* to wait or its own time is up.
ReturnsWhatWasAsked ==
  coro = "running" /\ result # NoValue =>
    IF result.ok
    THEN \/ call.op = "response" /\ result.by = "answer" /\ result.id = call.id
         \/ call.op = "recv" /\ result.by = "message"
              /\ (call.match = <<>> \/ \E i \in 1..Len(call.match) : call.match[i] = result.type)
    ELSE call.tmo = IF result.by = "timeout" THEN "finite" ELSE "zero"

\* An object in the pool keeps nothing of the actor it was and gets nothing that is
\* sent to that one: the next actor starts with what was sent to its own aid.
NothingLeftBehind == coro = "pooled" => mb = NoneUnread

\* The object of an actor that has ended goes back to the pool, by way of free_self,
\* which tells its links: no actor stays switched off. (It does not hold: one that throws
\* while asio runs it does, README.md, section 4.)
NoneLeftOff == coro # "off"

\* A wait with a time limit ends.
TimedCallsReturn ==
  \A n \in 1..MaxCalls : (calls = n /\ Suspended /\ call.tmo = "finite") ~> (calls # n \/ ~Suspended)

\* An actor whose function has returned is freed.
ReturnedIsFreed == coro = "stop" ~> coro = "pooled"
=============================================================================
