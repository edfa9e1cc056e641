---------------------------- MODULE StacklessActor ----------------------------
(***************************************************************************)
(* An actor that is a stackless coroutine,                                 *)
(* libs/actor/src/coroutine_stackless_actor.cpp, with the receives of      *)
(* recv.hpp and spawn.hpp for it, and the free list its object lives in.   *)
(*                                                                         *)
(* The user's function is run again for every step of the coroutine: an    *)
(* operation leaves a handler behind (recv_h_, res_h_, wait_h_, or one     *)
(* posted at once) and the function returns; the handler takes what came   *)
(* and calls run(). recv(actor, ..) of recv.hpp ends the actor when there  *)
(* was nothing to take; recv of the actor itself goes on. quit changes the *)
(* aid and posts stop, which frees the object.                             *)
(*                                                                         *)
(* Handlers run on the strand of the cache_pool, but for adaptor, which    *)
(* asio calls in a thread of its own: the coroutine then runs beside the   *)
(* strand, where an operation looks into the mailbox, arms the timer and   *)
(* stores its handler and what it waits for in steps that the handlers on  *)
(* the strand may come between. And run() looks whether the coroutine is   *)
(* complete after the user's function has returned: whoever resumes it     *)
(* earlier overtakes that look.                                            *)
(*                                                                         *)
(* A handler that finds the coroutine in the function, or not in the       *)
(* operation the handler is for, runs the function where nobody expects    *)
(* it: the coroutine is then astray, and the model stops.                  *)
(***************************************************************************)
EXTENDS Unread, FiniteSets

CONSTANTS
  MatchLists,   \* the match lists recv is called with
  MaxCalls,     \* bound on the operations of the actors' code
  MaxUnread,    \* bound on the unread messages of a type
  MaxSpawns,    \* bound on the actors the object is used for
  MaxLate       \* bound on the runs overtaken when an operation is begun

ASSUME StacklessActorAssumption ==
  /\ Exit \notin Types
  /\ MatchLists \subseteq Seq(Types \cup {Exit})
  /\ MaxCalls \in Nat /\ MaxUnread \in Nat /\ MaxSpawns \in Nat /\ MaxLate \in Nat

VARIABLES
  sid,          \* aid_.sid_
  known,        \* the sids of the aids that spawn has given out
  head, next,   \* the free list: its first object, and next_obj_ of each
  other,        \* another actor lives in the other object of the list
  mb,           \* mb_
  coro,         \* where the coroutine is: "pooled" is stat_ = ready
  thread,       \* what runs it: the strand, or asio through an adaptor
  late,         \* runs that have left the coroutine, and are not through with run()
  beside,       \* a history: something of the actor has run beside the strand
  calls,        \* how many operations were begun
  call,         \* the one the coroutine is in, or was in last
  result,       \* what came of it
  recv_h,       \* recv_h_, res_h_, wait_h_: the operation that left it, 0 when empty,
  res_h,
  wait_h,
  curr_match,   \* curr_match_
  recving_res,  \* recving_res_
  tmr_sid,      \* tmr_sid_
  waiting,      \* the wait pending on tmr_, at most one
  expired,      \* handlers of waits that have expired, posted to the strand
  posted        \* handlers and stops posted to the strand

lifeVars == <<sid, known>>
poolVars == <<head, next, other>>
callVars == <<calls, call, beside>>
runVars == <<coro, thread, result>>
handlerVars == <<recv_h, res_h, wait_h, curr_match, recving_res>>
timerVars == <<tmr_sid, waiting, expired>>
vars == <<lifeVars, poolVars, mb, runVars, late, callVars, handlerVars, timerVars, posted>>

This == "this"
Other == "other"
NoObject == "null"

NoCall == [op |-> "none"]
NoValue == [ok |-> FALSE, by |-> "none"]
NoResponse == [id |-> 0]

Timeouts == {"zero", "finite", "infin"}
\* by helper: recv(actor, ..) of recv.hpp, instead of the actor's own recv.
RecvCalls == [op : {"recv"}, helper : BOOLEAN, match : MatchLists, tmo : Timeouts]
ResponseCalls == [op : {"response"}, helper : BOOLEAN, id : ReqIds, to : Aids, tmo : Timeouts]
Waits == {[op |-> "wait", helper |-> FALSE, tmo |-> "finite"]}
AsyncCalls == {[op |-> "async", helper |-> FALSE, tmo |-> "infin"]}
Calls == RecvCalls \cup ResponseCalls \cup Waits \cup AsyncCalls

Suspended == coro \in {"recv", "response", "wait"}

\* What run() still does after the user's function has left the coroutine: the rest of an
\* operation begun beside the strand, then the look at is_complete; or, when the function
\* has thrown, quit.
Places == {"arm", "store", "list", "return", "finish", "catch"}
Run(n, c, place) == [n |-> n, c |-> c, thread |-> thread, at |-> place]

\* The strand runs one handler at a time, to its end.
NoneReturning == coro # "astray" /\ \A r \in late : r.thread # "strand"
StrandFree == NoneReturning /\ ~(coro = "running" /\ thread = "strand")

-----------------------------------------------------------------------------
(* The end of an operation, and of the actor *)

\* quit: the aid changes at once, the rest is for stop.
Quit(before) ==
  /\ sid' = sid + 1
  /\ posted' = Append(before, [stop |-> TRUE])
  /\ UNCHANGED known

\* run(): the user's function goes on with what came.
Resume(v, before) ==
  /\ coro' = "running" /\ thread' = "strand" /\ result' = v
  /\ posted' = before
  /\ UNCHANGED lifeVars

\* begin_recv adds exit to a list that does not name it,
AddsExit(c) == c.helper /\ c.match # <<>> /\ \A i \in 1..Len(c.match) : c.match[i] # Exit
ListOf(c) == IF AddsExit(c) THEN Append(c.match, Exit) ELSE c.match

\* and end_recv ends the actor on a timeout, and on an exit notification unless the
\* list got exit added (has_exit is what begin_recv returned).
EndsActor(c, v) ==
  /\ c.helper
  /\ v.ok => v.exit /\ ~(c.op = "recv" /\ AddsExit(c))

\* The handler of operation n finds its own operation suspended.
Expected(n) == n = calls /\ coro = call.op

\* handle_recv0 to handle_recv5, recv_handler, wait_handler of operation n, called with
\* what came. And were run called also when end_recv returned false.
HandleAndRun(n, v, before) ==
  IF Expected(n) /\ EndsActor(call, v)
  THEN Quit(before) /\ coro' = "running" /\ thread' = "strand" /\ result' = v
  ELSE Resume(v, before)
Handle(n, v, before) ==
  \/ /\ Expected(n) /\ EndsActor(call, v)
     /\ Quit(before)
     /\ coro' = "quit" /\ thread' = "none" /\ result' = NoValue
  \/ Expected(n) /\ ~EndsActor(call, v) /\ Resume(v, before)
  \/ /\ ~Expected(n)
     /\ coro' = "astray" /\ thread' = "none" /\ result' = NoValue
     /\ posted' = before
     /\ UNCHANGED lifeVars

Message(t) == [ok |-> TRUE, by |-> "message", type |-> t, exit |-> t = Exit]
Answer(id, to) == [ok |-> TRUE, by |-> "answer", id |-> id, exit |-> id \notin mb.answers]
Nothing(by) == [ok |-> FALSE, by |-> by]

-----------------------------------------------------------------------------
(* The operations *)

\* start_recv_timer, start_res_timer, start_wait_timer. expires_from_now cancels the
\* wait pending. And were tmr_sid_ moved on after the handler is bound.
StartTimerBindsOld(c, n) ==
  IF c.tmo = "finite"
  THEN /\ tmr_sid' = tmr_sid + 1
       /\ waiting' = {[sid |-> tmr_sid, op |-> c.op, n |-> n]}
       /\ UNCHANGED expired
  ELSE UNCHANGED timerVars
StartTimer(c, n) ==
  IF c.tmo = "finite"
  THEN /\ tmr_sid' = tmr_sid + 1
       /\ waiting' = {[sid |-> tmr_sid + 1, op |-> c.op, n |-> n]}
       /\ UNCHANGED expired
  ELSE UNCHANGED timerVars

Begin(c) ==
  /\ coro = "running"
  /\ calls < MaxCalls /\ Cardinality(late) <= MaxLate
  /\ calls' = calls + 1
  /\ call' = c
  /\ beside' = (beside \/ thread = "asio")

\* GCE_YIELD: the coroutine is in the operation, and may be resumed, from here on.
Leave(where, place) ==
  /\ coro' = where /\ thread' = "none" /\ result' = NoValue
  /\ late' = late \cup {Run(calls', call', place)}

\* recv and response: what is in the mailbox, or nothing if there is no time to wait,
\* is given to the handler at once, by way of the strand.
PostHandler(c, n, v) ==
  /\ posted' = Append(posted, [stop |-> FALSE, n |-> n, v |-> v])
  /\ Leave(c.op, "return")
  /\ UNCHANGED <<lifeVars, handlerVars, timerVars>>

\* recv_h_ = f, res_h_ = f, wait_h_ = f,
Store(c, n) ==
  /\ recv_h' = IF c.op = "recv" THEN n ELSE recv_h
  /\ res_h' = IF c.op = "response" THEN n ELSE res_h
  /\ wait_h' = IF c.op = "wait" THEN n ELSE wait_h

\* and then curr_match_ = mach, recving_res_ = res. And were the list forgotten.
StoreWhatForgotten(c) ==
  /\ recving_res' = IF c.op = "response" THEN [id |-> c.id, to |-> c.to] ELSE recving_res
  /\ UNCHANGED curr_match
StoreWhat(c) ==
  /\ curr_match' = IF c.op = "recv" THEN ListOf(c) ELSE curr_match
  /\ recving_res' = IF c.op = "response" THEN [id |-> c.id, to |-> c.to] ELSE recving_res

\* Otherwise the handler is left for handle_recv and the timer.
LeaveHandler(c, n) ==
  /\ StartTimer(c, n) /\ Store(c, n) /\ StoreWhat(c)
  /\ Leave(c.op, "return")
  /\ UNCHANGED <<lifeVars, posted>>

\* Beside the strand that takes its time.
LeaveHandlerLate(c) ==
  /\ Leave(c.op, "arm")
  /\ UNCHANGED <<lifeVars, handlerVars, timerVars, posted>>

\* pop finds nothing, and there is time.
Miss(c) == IF thread = "strand" THEN LeaveHandler(c, calls') ELSE LeaveHandlerLate(c)

Recv(c) ==
  /\ Begin(c)
  /\ \/ \E t \in Matching(mb, ListOf(c)) : mb' \in Taken(mb, t) /\ PostHandler(c, calls', Message(t))
     \/ /\ Matching(mb, ListOf(c)) = {}
        /\ IF c.tmo = "zero" THEN PostHandler(c, calls', Nothing("zero")) ELSE Miss(c)
        /\ UNCHANGED mb
  /\ UNCHANGED poolVars

RecvResponse(c) ==
  /\ Begin(c)
  /\ IF Answered(mb, c.id, c.to)
     THEN mb' = AnswerTaken(mb, c.id) /\ PostHandler(c, calls', Answer(c.id, c.to))
     ELSE /\ IF c.tmo = "zero" THEN PostHandler(c, calls', Nothing("zero")) ELSE Miss(c)
          /\ UNCHANGED mb
  /\ UNCHANGED poolVars

Wait ==
  /\ \E c \in Waits : Begin(c) /\ Miss(c)
  /\ UNCHANGED <<mb, poolVars>>

\* An asynchronous operation of the user's with an adaptor for its handler.
AsyncBegin ==
  /\ \E c \in AsyncCalls : Begin(c)
  /\ Leave("async", "return")
  /\ UNCHANGED <<lifeVars, poolVars, mb, handlerVars, timerVars, posted>>

\* adaptor::operator(), in a thread of asio's.
AsyncEnd ==
  /\ coro = "async"
  /\ coro' = "running" /\ thread' = "asio"
  /\ beside' = (beside \/ late # {})
  /\ UNCHANGED <<lifeVars, poolVars, mb, result, late, calls, call, handlerVars, timerVars, posted>>

\* The coroutine is complete, by the end of the user's function or by an exception.
Finish(place) ==
  /\ coro = "running"
  /\ coro' = "complete" /\ thread' = "none" /\ result' = NoValue
  /\ late' = late \cup {Run(calls, call, place)}
  /\ UNCHANGED <<lifeVars, poolVars, mb, callVars, handlerVars, timerVars, posted>>

-----------------------------------------------------------------------------
(* What a run does after the coroutine has been left *)

At(r, place) == late' = (late \ {r}) \cup {[r EXCEPT !.at = place]}

Arm(r) ==
  /\ r.at = "arm"
  /\ StartTimer(r.c, r.n)
  /\ At(r, "store")
  /\ UNCHANGED <<lifeVars, poolVars, mb, runVars, callVars, handlerVars, posted>>

StoreHandler(r) ==
  /\ r.at = "store"
  /\ Store(r.c, r.n)
  /\ At(r, "list")
  /\ UNCHANGED <<lifeVars, poolVars, mb, runVars, callVars, curr_match, recving_res, timerVars, posted>>

StoreList(r) ==
  /\ r.at = "list"
  /\ StoreWhat(r.c)
  /\ At(r, "return")
  /\ UNCHANGED <<lifeVars, poolVars, mb, runVars, callVars, recv_h, res_h, wait_h, timerVars, posted>>

\* run() quits when the coroutine is complete, whoever completed it, or on an exception.
Return(r) ==
  /\ r.at \in {"return", "finish", "catch"}
  /\ late' = late \ {r}
  /\ IF r.at = "catch" \/ coro = "complete" THEN Quit(posted) ELSE UNCHANGED <<lifeVars, posted>>
  /\ UNCHANGED <<poolVars, mb, runVars, callVars, handlerVars, timerVars>>

GoOn(r) == Arm(r) \/ StoreHandler(r) \/ StoreList(r) \/ Return(r)

-----------------------------------------------------------------------------
(* On the strand *)

Check(to) == to = sid

\* ++tmr_sid_; tmr_.cancel(ec). And were tmr_sid_ left alone.
CancelTimerOnly ==
  /\ waiting' = {}
  /\ UNCHANGED <<tmr_sid, expired>>
CancelTimer ==
  /\ tmr_sid' = tmr_sid + 1
  /\ waiting' = {}
  /\ UNCHANGED expired

\* handle_recv of a message, a request or an exit notification, also from within the
\* user's function, when it sends to its own strand. And were an exit notification pushed
\* and no one resumed.
WakesButExit(box) == IF recv_h # 0 THEN Matching(box, curr_match) \ {Exit} ELSE {}
Wakes(box) == IF recv_h # 0 THEN Matching(box, curr_match) ELSE {}

HandleRecv(pk, to) ==
  /\ NoneReturning
  /\ pk.kind # "response"
  /\ pk.kind = "message" => mb.count[pk.type] < MaxUnread
  /\ Check(to)
  /\ LET box == Pushed(mb, pk)
     IN  \/ /\ Wakes(box) = {}
            /\ mb' = box
            /\ UNCHANGED <<lifeVars, runVars, handlerVars, timerVars, posted>>
         \/ \E t \in Wakes(box) :
              /\ mb' \in Taken(box, t)
              /\ curr_match' = <<>> /\ recv_h' = 0
              /\ CancelTimer
              /\ Handle(recv_h, Message(t), posted)
              /\ UNCHANGED <<res_h, wait_h, recving_res>>
  /\ UNCHANGED <<poolVars, late, callVars>>

HandleResponse(pk, to) ==
  /\ NoneReturning
  /\ pk.kind = "response"
  /\ Check(to)
  /\ LET box == Pushed(mb, pk)
     IN  IF /\ res_h # 0 /\ recving_res # NoResponse
            /\ Answered(box, recving_res.id, recving_res.to)
         THEN /\ mb' = AnswerTaken(box, recving_res.id)
              /\ res_h' = 0 /\ recving_res' = NoResponse
              /\ CancelTimer
              /\ Handle(res_h, [Answer(recving_res.id, recving_res.to) EXCEPT
                                  !.exit = recving_res.id \notin box.answers], posted)
              /\ UNCHANGED <<recv_h, wait_h, curr_match>>
         ELSE /\ mb' = box
              /\ UNCHANGED <<lifeVars, runVars, handlerVars, timerVars, posted>>
  /\ UNCHANGED <<poolVars, late, callVars>>

Expire ==
  /\ coro # "astray" /\ waiting # {}
  /\ expired' = expired \cup waiting
  /\ waiting' = {}
  /\ UNCHANGED <<lifeVars, poolVars, mb, runVars, late, callVars, handlerVars, tmr_sid, posted>>

Current(h) == h.sid = tmr_sid

\* handle_recv_timeout, handle_res_timeout, handle_wait_timeout, without an error: the
\* handler they run is the one bound to the wait.
HandleTimeout(h) ==
  /\ StrandFree
  /\ h \in expired
  /\ expired' = expired \ {h}
  /\ IF Current(h)
     THEN /\ recv_h' = IF h.op = "recv" THEN 0 ELSE recv_h
          /\ res_h' = IF h.op = "response" THEN 0 ELSE res_h
          /\ wait_h' = IF h.op = "wait" THEN 0 ELSE wait_h
          /\ curr_match' = IF h.op = "wait" THEN curr_match ELSE <<>>
          /\ Handle(h.n, Nothing("timeout"), posted)
     ELSE UNCHANGED <<lifeVars, runVars, recv_h, res_h, wait_h, curr_match, posted>>
  /\ UNCHANGED <<poolVars, mb, late, callVars, recving_res, tmr_sid, waiting>>

\* A handler that was posted at once.
RunPosted ==
  /\ StrandFree
  /\ posted # <<>> /\ ~Head(posted).stop
  /\ Handle(Head(posted).n, Head(posted).v, Tail(posted))
  /\ UNCHANGED <<poolVars, mb, late, callVars, handlerVars, timerVars>>

-----------------------------------------------------------------------------
(* The free list, and the actor's life *)

\* freelist::get and free, of an object. free follows next_obj_: of an object that is in
\* the list already it frees the one behind it too, and in a list that runs into itself it
\* goes round for ever.
Got(x) == head' = next[x] /\ next' = [next EXCEPT ![x] = NoObject]
Freed(x) ==
  IF next[x] = NoObject
  THEN head' = x /\ next' = [next EXCEPT ![x] = head]
  ELSE head' = next[x] /\ next' = [next EXCEPT ![x] = head, ![next[x]] = x]
Endless(x) == next[x] # NoObject /\ (next[x] = x \/ next[next[x]] # NoObject)

\* make_stackless_actor: init and start, which runs the function at once.
Spawn ==
  /\ NoneReturning
  /\ head = This
  /\ Cardinality(known) < MaxSpawns
  /\ Got(This)
  /\ sid' = sid + 1
  /\ known' = known \cup {sid + 1}
  /\ coro' = "running" /\ thread' = "strand" /\ result' = NoValue
  /\ call' = NoCall
  /\ UNCHANGED <<other, mb, late, calls, beside, handlerVars, timerVars, posted>>

\* on_free: everything but the timer.
OnFree ==
  /\ mb' = NoneUnread
  /\ recv_h' = 0 /\ res_h' = 0 /\ wait_h' = 0
  /\ curr_match' = <<>> /\ recving_res' = NoResponse

\* stop, posted by quit (send_exit tells the links, Links.tla). The coroutine is no more:
\* if it was in the function, or its adaptor is still to be called, that goes astray.
Stop ==
  /\ StrandFree
  /\ posted # <<>> /\ Head(posted).stop
  /\ posted' = Tail(posted)
  /\ ~Endless(This) /\ Freed(This)
  /\ OnFree
  /\ coro' = IF coro \in {"running", "async"} THEN "astray" ELSE "pooled"
  /\ thread' = "none" /\ result' = NoValue
  /\ UNCHANGED <<lifeVars, other, late, callVars, timerVars>>

OtherSpawn == NoneReturning /\ head = Other /\ Got(Other) /\ other' = TRUE
              /\ UNCHANGED <<lifeVars, mb, runVars, late, callVars, handlerVars, timerVars, posted>>
OtherStop == NoneReturning /\ other /\ ~Endless(Other) /\ Freed(Other) /\ other' = FALSE
             /\ UNCHANGED <<lifeVars, mb, runVars, late, callVars, handlerVars, timerVars, posted>>

-----------------------------------------------------------------------------
Init ==
  /\ sid = 0 /\ known = {} /\ posted = <<>>
  /\ head = This /\ next = [x \in {This, Other} |-> IF x = This THEN Other ELSE NoObject]
  /\ other = FALSE
  /\ mb = NoneUnread
  /\ coro = "pooled" /\ thread = "none" /\ result = NoValue
  /\ late = {} /\ beside = FALSE
  /\ calls = 0 /\ call = NoCall
  /\ recv_h = 0 /\ res_h = 0 /\ wait_h = 0
  /\ curr_match = <<>> /\ recving_res = NoResponse
  /\ tmr_sid = 0 /\ waiting = {} /\ expired = {}

UserCode ==
  \/ \E c \in RecvCalls : Recv(c)
  \/ \E c \in ResponseCalls : RecvResponse(c)
  \/ Wait \/ AsyncBegin \/ Finish("finish") \/ Finish("catch")

Receive == \E pk \in Packs, to \in known : HandleRecv(pk, to) \/ HandleResponse(pk, to)
Timeout == Expire \/ \E h \in expired : HandleTimeout(h)
Late == coro # "astray" /\ \E r \in late : GoOn(r)
Pool == Spawn \/ Stop \/ OtherSpawn \/ OtherStop

Next == UserCode \/ Late \/ AsyncEnd \/ Receive \/ Timeout \/ RunPosted \/ Pool

Spec == Init /\ [][Next]_vars

\* What is posted runs, a wait expires, and a thread goes on.
Fairness ==
  /\ WF_vars(RunPosted) /\ WF_vars(Stop) /\ WF_vars(Late) /\ WF_vars(Expire)
  /\ \A s \in 1..(2 * MaxCalls) : WF_vars(\E h \in expired : h.sid = s /\ HandleTimeout(h))

FairSpec == Spec /\ Fairness

-----------------------------------------------------------------------------
TypeOK ==
  /\ sid \in Nat /\ known \subseteq Nat /\ calls \in 0..MaxCalls
  /\ mb \in [count : [Types -> Nat], exits : SUBSET Aids, answers : SUBSET ReqIds]
  /\ coro \in {"pooled", "running", "recv", "response", "wait", "async", "complete", "quit", "astray"}
  /\ thread \in {"none", "strand", "asio"} /\ beside \in BOOLEAN
  /\ {recv_h, res_h, wait_h} \subseteq 0..MaxCalls
  /\ head \in {This, Other, NoObject} /\ next \in [{This, Other} -> {This, Other, NoObject}]
  /\ \A r \in late : r.n \in 0..MaxCalls /\ r.thread \in {"strand", "asio"} /\ r.at \in Places

\* As long as nothing has run beside the strand, at most one handler is there, and it
\* belongs to the operation the coroutine is in: whatever runs next (handle_recv, a timer
\* that is current, what was posted) ends that operation, finds its handler
\* (BOOST_ASSERT(recv_h_), (res_h_), (wait_h_)), and not one of an operation before or of
\* the actor before.
ResumesTheSuspended ==
  ~beside =>
    /\ recv_h # 0 => coro = "recv" /\ recv_h = calls /\ curr_match = ListOf(call)
    /\ res_h # 0 => coro = "response" /\ res_h = calls /\ recving_res = [id |-> call.id, to |-> call.to]
    /\ wait_h # 0 => coro = "wait" /\ wait_h = calls
    /\ \A h \in waiting \cup expired :
         Current(h) => h.n = calls /\ h.op = coro
                       /\ h.n = CASE h.op = "recv" -> recv_h [] h.op = "response" -> res_h
                                  [] OTHER -> wait_h
    /\ Suspended => Len(posted) + Cardinality({recv_h, res_h, wait_h} \ {0}) = 1
    /\ posted # <<>> => Len(posted) = 1
         /\ IF Head(posted).stop THEN coro \in {"quit", "complete"}
            ELSE Suspended /\ Head(posted).n = calls

\* As long as nothing has run beside the strand, an object is in the free list once, when
\* no actor lives in it, and not otherwise: no actor is freed twice, two actors never
\* share an object. It holds for an actor that ends in the thread of an adaptor, too.
Chain == IF head = NoObject THEN <<>>
         ELSE IF next[head] = NoObject THEN <<head>> ELSE <<head, next[head]>>
OneActorPerObject ==
  ~beside =>
    /\ Len(Chain) = (IF coro = "pooled" THEN 1 ELSE 0) + (IF other THEN 0 ELSE 1)
    /\ {Chain[i] : i \in 1..Len(Chain)} =
         (IF coro = "pooled" THEN {This} ELSE {}) \cup (IF other THEN {} ELSE {Other})
    /\ \A x \in {This, Other} : next[x] # x

\* No receive waits for what is in the mailbox already, as long as nothing has run beside
\* the strand.
NothingMissed ==
  ~beside =>
    /\ recv_h # 0 => Matching(mb, ListOf(call)) = {}
    /\ res_h # 0 => call.id \notin mb.answers

\* The function goes on after recv with what it asked for; without a message only if
\* the time it gave is over; and with an exit notification that ends other actors. Again,
\* as long as nothing has run beside the strand.
ReturnsWhatWasAsked ==
  ~beside /\ coro = "running" /\ result # NoValue =>
    IF result.ok
    THEN \/ call.op = "response" /\ result.by = "answer" /\ result.id = call.id
         \/ call.op = "recv" /\ result.by = "message"
              /\ (call.match = <<>> \/ \E i \in 1..Len(ListOf(call)) : ListOf(call)[i] = result.type)
    ELSE /\ call.tmo = IF result.by = "timeout" THEN "finite" ELSE "zero"
         /\ ~call.helper

\* An operation with a time limit ends, and an actor that has quit is freed, as long as
\* nothing runs beside the strand.
TimedCallsEnd ==
  /\ \A n \in 1..MaxCalls :
       (calls = n /\ Suspended /\ call.tmo = "finite") ~> (calls # n \/ ~Suspended \/ beside)
  /\ coro \in {"quit", "complete"} ~> (coro = "pooled" \/ beside)

\* What the asserts of handle_recv_timeout, handle_res_timeout, handle_wait_timeout and
\* handle_recv say: the handler of a timer that is current is there, and a response that
\* is waited for is known. (It does not hold, README.md, section 4: in the thread of an
\* adaptor the timer is armed first.)
AssertsHold ==
  /\ \A h \in expired :
       StrandFree /\ Current(h) => CASE h.op = "recv" -> recv_h # 0
                                     [] h.op = "response" -> res_h # 0
                                     [] OTHER -> wait_h # 0
  /\ NoneReturning /\ res_h # 0 => recving_res # NoResponse

\* What the assert of init says of an object that the free list gives out: its status is
\* ready, that is no actor lives in it.
ReadyInPool == head = This => coro \in {"pooled", "astray"}
=============================================================================
