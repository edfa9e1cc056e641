------------------------ MODULE StacklessActorProofs ------------------------
(***************************************************************************)
(* The stackless actor for any number of operations, actors in one object, *)
(* messages, peers and requests: the handler that runs is that of the      *)
(* operation at hand, gives what was asked for, and was not left with      *)
(* something unread; and the object is in the free list when no actor      *)
(* lives in it, once. All of it as long as nothing has run beside the      *)
(* strand, that is no operation was begun in the thread of an adaptor and  *)
(* no adaptor was called before the run that began its operation had       *)
(* returned: what may happen otherwise is what ReadyInPool, in the run     *)
(* adaptor_quit, and AssertsHold are about, which do not hold.             *)
(*                                                                         *)
(* At most one thing can end an operation: the handler it left, with its   *)
(* timer, or the one it had posted (PostedInv, TimerInv); and at most one  *)
(* run is to look whether the coroutine is complete (LateInv). So nobody   *)
(* calls quit twice, which is what the free list depends on.               *)
(***************************************************************************)
EXTENDS StacklessActor, FiniteSetTheorems, TLAPS

-----------------------------------------------------------------------------
(* What push and the pops do to the mailbox: it stays one, and what a pop returns was
   asked for. *)
Boxes == [count : [Types -> Nat], exits : SUBSET Aids, answers : SUBSET ReqIds]

\* push leaves a mailbox.
LEMMA PushedType ==
  ASSUME NEW box \in Boxes, NEW pk \in Packs
  PROVE  Pushed(box, pk) \in Boxes
<1>1. CASE pk.kind = "message"
  <2>1. pk.type \in Types
    BY <1>1 DEF Packs
  <2> DEFINE c == [box.count EXCEPT ![pk.type] = @ + 1]
  <2>2. c \in [Types -> Nat]
    BY <2>1 DEF Boxes
  <2>3. Pushed(box, pk) = [box EXCEPT !.count = c]
    BY <1>1 DEF Pushed
  <2> HIDE DEF c
  <2>4. QED
    BY <2>2, <2>3 DEF Boxes
<1>2. CASE pk.kind = "exit"
  BY <1>2 DEF Pushed, Packs, Boxes
<1>3. CASE pk.kind = "response"
  BY <1>3 DEF Pushed, Packs, Boxes
<1>4. QED
  BY <1>1, <1>2, <1>3 DEF Packs

\* The type pop takes is one asked for, and has a message.
LEMMA MatchingHas ==
  ASSUME NEW box, NEW ml, NEW t \in Matching(box, ml)
  PROVE  /\ t \in Types \cup {Exit} /\ Has(box, t)
         /\ ml = <<>> \/ \E i \in 1..Len(ml) : ml[i] = t
<1>1. CASE ml = <<>>
  BY <1>1 DEF Matching
<1>2. CASE ml # <<>>
  BY <1>2 DEF Matching
<1>3. QED
  BY <1>1, <1>2

\* The pops leave a mailbox.
LEMMA TakenType ==
  ASSUME NEW box \in Boxes, NEW t \in Types \cup {Exit}, Has(box, t), NEW b \in Taken(box, t)
  PROVE  b \in Boxes
<1>1. CASE t = Exit
  BY <1>1 DEF Taken, Boxes
<1>2. CASE t # Exit
  <2>1. t \in Types /\ box.count[t] \in Nat /\ box.count[t] > 0
    BY <1>2 DEF Has, Boxes
  <2> DEFINE c == [box.count EXCEPT ![t] = @ - 1]
  <2>2. c \in [Types -> Nat]
    BY <2>1 DEF Boxes
  <2>3. b = [box EXCEPT !.count = c]
    BY <1>2 DEF Taken
  <2> HIDE DEF c
  <2>4. QED
    BY <2>2, <2>3 DEF Boxes
<1>3. QED
  BY <1>1, <1>2

LEMMA AnswerTakenType ==
  ASSUME NEW box \in Boxes, NEW id
  PROVE  AnswerTaken(box, id) \in Boxes
BY DEF AnswerTaken, Boxes

\* A response changes nothing that recv looks at.
LEMMA ResponseMatchesNothing ==
  ASSUME NEW box \in Boxes, NEW pk \in Packs, pk.kind = "response", NEW ml
  PROVE  Matching(Pushed(box, pk), ml) = Matching(box, ml)
<1>1. Pushed(box, pk) = [box EXCEPT !.answers = @ \cup {pk.id}]
  BY DEF Pushed
<1>2. Pushed(box, pk).count = box.count /\ Pushed(box, pk).exits = box.exits
  BY <1>1 DEF Boxes
<1>3. \A t : Has(Pushed(box, pk), t) = Has(box, t)
  BY <1>2 DEF Has
<1>4. QED
  BY <1>3 DEF Matching

\* A message, a request or an exit notification is no answer.
LEMMA MessageIsNoAnswer ==
  ASSUME NEW box \in Boxes, NEW pk \in Packs, pk.kind # "response"
  PROVE  Pushed(box, pk).answers = box.answers
<1>1. CASE pk.kind = "message"
  BY <1>1 DEF Pushed, Boxes
<1>2. CASE pk.kind = "exit"
  BY <1>2 DEF Pushed, Boxes
<1>3. QED
  BY <1>1, <1>2 DEF Packs

-----------------------------------------------------------------------------

\* What an operation may be given.
Valid(c, v) ==
  IF v.ok
  THEN \/ c.op = "response" /\ v.by = "answer" /\ v.id = c.id
       \/ c.op = "recv" /\ v.by = "message"
            /\ (c.match = <<>> \/ \E i \in 1..Len(ListOf(c)) : ListOf(c)[i] = v.type)
  ELSE c.tmo = IF v.by = "timeout" THEN "finite" ELSE "zero"

HandlerOf(op) == CASE op = "recv" -> recv_h [] op = "response" -> res_h [] OTHER -> wait_h

\* The handlers are those of the operation the coroutine is in.
HandlersInv ==
  /\ recv_h # 0 => coro = "recv" /\ recv_h = calls /\ curr_match = ListOf(call)
  /\ res_h # 0 => /\ coro = "response" /\ res_h = calls
                  /\ recving_res = [id |-> call.id, to |-> call.to]
  /\ wait_h # 0 => coro = "wait" /\ wait_h = calls
  /\ coro = "recv" => call \in RecvCalls
  /\ coro = "response" => call \in ResponseCalls
  /\ coro = "wait" => call \in Waits
  /\ Suspended => calls > 0
  /\ coro = "async" => result = NoValue
  /\ coro = "running" => thread # "none"

\* One run at most is on its way out of run(): the one that has begun the operation, on
\* the strand, or the one that has completed the coroutine.
LateInv ==
  /\ coro # "astray"
  /\ \/ late = {}
     \/ /\ coro = "complete"
        /\ \E r \in late : late = {r} /\ r.at \in {"finish", "catch"}
     \/ /\ Suspended \/ coro = "async"
        /\ \E r \in late : late = {r} /\ r.at = "return" /\ r.thread = "strand"

\* It has left a handler, or has had one posted; who has quit has had stop posted.
PostedInv ==
  \/ coro \in {"quit", "complete"} /\ late = {} /\ posted = <<[stop |-> TRUE]>>
  \/ coro = "complete" /\ late # {} /\ posted = <<>>
  \/ ~Suspended /\ coro \notin {"quit", "complete"} /\ posted = <<>>
  \/ Suspended /\ HandlerOf(coro) # 0 /\ posted = <<>>
  \/ /\ Suspended /\ HandlerOf(coro) = 0
     /\ posted = <<[stop |-> FALSE, n |-> calls, v |-> posted[1].v]>>
     /\ Valid(call, posted[1].v)

\* A current handler of the timer is the only one, and that of the operation.
TimerInv ==
  /\ tmr_sid \in Nat
  /\ waiting \cap expired = {}
  /\ \A h \in waiting \cup expired :
       /\ h.sid \in Nat /\ h.sid <= tmr_sid
       /\ Current(h) => /\ Suspended /\ call.tmo = "finite"
                        /\ h.n = calls /\ h.op = coro /\ HandlerOf(coro) = calls
  /\ \A g, h \in waiting \cup expired : Current(g) /\ Current(h) => g = h

\* The free list has the objects no actor lives in; what is out of it points nowhere.
ListInv ==
  /\ coro = "pooled" /\ ~other =>
       \/ head = This /\ next[This] = Other /\ next[Other] = NoObject
       \/ head = Other /\ next[Other] = This /\ next[This] = NoObject
  /\ coro = "pooled" /\ other => head = This /\ next[This] = NoObject /\ next[Other] = NoObject
  /\ coro # "pooled" /\ ~other => head = Other /\ next[This] = NoObject /\ next[Other] = NoObject
  /\ coro # "pooled" /\ other => head = NoObject /\ next[This] = NoObject /\ next[Other] = NoObject
  /\ other \in BOOLEAN

Inv ==
  /\ TypeOK /\ HandlersInv /\ LateInv /\ PostedInv /\ TimerInv /\ ListInv
  /\ NothingMissed /\ ReturnsWhatWasAsked

IInv == ~beside => Inv

-----------------------------------------------------------------------------
LEMMA InitInv == Init => Inv
<1> SUFFICES ASSUME Init PROVE Inv
  OBVIOUS
<1> USE DEF Init
<1>1. TypeOK
  <2>1. mb \in [count : [Types -> Nat], exits : SUBSET Aids, answers : SUBSET ReqIds]
    BY DEF NoneUnread
  <2>2. head \in {This, Other, NoObject} /\ next \in [{This, Other} -> {This, Other, NoObject}]
    BY DEF This, Other, NoObject
  <2>3. 0 \in 0..MaxCalls
    BY StacklessActorAssumption
  <2>4. QED
    BY <2>1, <2>2, <2>3 DEF TypeOK
<1>2. HandlersInv /\ LateInv /\ PostedInv /\ TimerInv /\ ListInv
  BY DEF HandlersInv, LateInv, PostedInv, TimerInv, ListInv, Suspended, This, Other, NoObject
<1>3. NothingMissed /\ ReturnsWhatWasAsked
  BY DEF NothingMissed, ReturnsWhatWasAsked
<1>4. QED
  BY <1>1, <1>2, <1>3 DEF Inv

\* No handler of the timer is current where nothing is suspended, and where what ends
\* the operation has been posted.
NoneCurrent ==
  /\ tmr_sid \in Nat
  /\ waiting \cap expired = {}
  /\ \A h \in waiting \cup expired : h.sid \in Nat /\ h.sid <= tmr_sid /\ h.sid # tmr_sid

LEMMA NoneCurrentTimerInv == NoneCurrent => TimerInv
BY DEF NoneCurrent, TimerInv, Current

LEMMA OffNoneCurrent ==
  ASSUME Inv, ~Suspended \/ HandlerOf(coro) = 0
  PROVE  NoneCurrent
<1>1. Suspended => calls # 0
  BY DEF Inv, HandlersInv, TypeOK
<1>2. QED
  BY <1>1 DEF Inv, TimerInv, NoneCurrent, Current

\* The handler there is, if any, is in the variable of its operation.
LEMMA OneHandler ==
  ASSUME Inv
  PROVE  /\ ~Suspended \/ HandlerOf(coro) = 0 => recv_h = 0 /\ res_h = 0 /\ wait_h = 0
         /\ recv_h # 0 => res_h = 0 /\ wait_h = 0 /\ coro = "recv" /\ posted = <<>>
         /\ res_h # 0 => recv_h = 0 /\ wait_h = 0 /\ coro = "response" /\ posted = <<>>
         /\ wait_h # 0 => recv_h = 0 /\ res_h = 0 /\ coro = "wait" /\ posted = <<>>
BY DEF Inv, HandlersInv, PostedInv, HandlerOf, Suspended

(* What ends an operation: the coroutine goes on, or quits. *)
LEMMA EndInv ==
  ASSUME Inv, ~beside, Suspended, NoneReturning, NEW v, Valid(call, v),
         \/ /\ ~EndsActor(call, v)
            /\ coro' = "running" /\ thread' = "strand" /\ result' = v
            /\ sid' = sid /\ posted' = <<>>
         \/ /\ coro' = "quit" /\ thread' = "none" /\ result' = NoValue
            /\ sid' = sid + 1 /\ posted' = <<[stop |-> TRUE]>>,
         known' = known, recv_h' = 0, res_h' = 0, wait_h' = 0,
         mb' \in Boxes, NoneCurrent', UNCHANGED <<poolVars, late, callVars>>
  PROVE  Inv'
<1>0. late = {} /\ late' = {}
  BY DEF Inv, LateInv, NoneReturning, Suspended
<1>1. TypeOK'
  BY <1>0, StacklessActorAssumption DEF Inv, TypeOK, Boxes, poolVars, callVars
<1>2. HandlersInv' /\ LateInv' /\ PostedInv'
  BY <1>0 DEF HandlersInv, LateInv, PostedInv, Suspended
<1>3. TimerInv'
  <2>1. NoneCurrent' => TimerInv'
    BY DEF NoneCurrent, TimerInv, Current
  <2>2. QED
    BY <2>1
<1>4. ListInv'
  BY DEF Inv, ListInv, Suspended, poolVars
<1>5. NothingMissed'
  BY DEF NothingMissed
<1>6. ReturnsWhatWasAsked'
  <2>1. CASE coro' = "quit"
    BY <2>1 DEF ReturnsWhatWasAsked
  <2>2. CASE ~EndsActor(call, v) /\ result' = v
    <3>1. call' = call
      BY DEF callVars
    <3>2. ~v.ok => ~call.helper
      BY <2>2 DEF EndsActor
    <3>3. QED
      BY <2>2, <3>1, <3>2 DEF ReturnsWhatWasAsked, Valid
  <2>3. QED
    BY <2>1, <2>2
<1>7. QED
  BY <1>1, <1>2, <1>3, <1>4, <1>5, <1>6 DEF Inv

(* Handle is one of the two, when it is for the operation at hand and nothing else is    *)
(* posted.                                                                               *)
LEMMA HandleEnds ==
  ASSUME NEW n, Expected(n), NEW v, NEW rest, rest = <<>>, Handle(n, v, rest)
  PROVE  /\ \/ /\ ~EndsActor(call, v)
               /\ coro' = "running" /\ thread' = "strand" /\ result' = v
               /\ sid' = sid /\ posted' = <<>>
            \/ /\ coro' = "quit" /\ thread' = "none" /\ result' = NoValue
               /\ sid' = sid + 1 /\ posted' = <<[stop |-> TRUE]>>
         /\ known' = known
<1>1. CASE EndsActor(call, v)
  <2>1. Quit(rest) /\ coro' = "quit" /\ thread' = "none" /\ result' = NoValue
    BY <1>1 DEF Handle
  <2>2. posted' = <<[stop |-> TRUE]>>
    BY <2>1 DEF Quit
  <2>3. QED
    BY <2>1, <2>2 DEF Quit
<1>2. CASE ~EndsActor(call, v)
  BY <1>2 DEF Handle, Resume, lifeVars
<1>3. QED
  BY <1>1, <1>2

-----------------------------------------------------------------------------
(* The operations *)

\* What is unread and what is waited for stay as they are.
LEMMA SameMissed ==
  ASSUME NothingMissed, UNCHANGED <<mb, beside, call, recv_h, res_h>>
  PROVE  NothingMissed'
<1>1. Matching(mb, ListOf(call))' = Matching(mb, ListOf(call))
  BY DEF Matching, Has, ListOf, AddsExit
<1>2. QED
  BY <1>1 DEF NothingMissed

(* An operation is begun by the run that is in the function, on the strand. *)
LEMMA BeginInv ==
  ASSUME Inv, ~beside', NEW c, Begin(c)
  PROVE  /\ coro = "running" /\ ~Suspended /\ posted = <<>> /\ late = {} /\ NoneCurrent
         /\ thread = "strand" /\ ~beside /\ beside' \in BOOLEAN
         /\ recv_h = 0 /\ res_h = 0 /\ wait_h = 0
         /\ call' = c /\ calls' \in 1..MaxCalls /\ calls' \in 0..MaxCalls /\ calls' > 0
<1>1. coro = "running" /\ ~Suspended /\ call' = c
  BY DEF Begin, Suspended
<1>2. posted = <<>> /\ late = {}
  BY <1>1 DEF Inv, PostedInv, LateInv
<1>3. NoneCurrent /\ recv_h = 0 /\ res_h = 0 /\ wait_h = 0
  BY <1>1, OneHandler, OffNoneCurrent
<1>4. thread = "strand" /\ ~beside /\ beside' \in BOOLEAN
  <2>1. thread \in {"none", "strand", "asio"} /\ thread # "none" /\ beside \in BOOLEAN
    BY <1>1 DEF Inv, HandlersInv, TypeOK
  <2>2. beside' = (beside \/ thread = "asio")
    BY DEF Begin
  <2>3. QED
    BY <2>1, <2>2
<1>5. calls' \in 1..MaxCalls /\ calls' \in 0..MaxCalls /\ calls' > 0
  BY StacklessActorAssumption DEF Begin, Inv, TypeOK
<1>6. QED
  BY <1>1, <1>2, <1>3, <1>4, <1>5

(* The run that leaves an operation behind is on its way out. *)
LEMMA LeaveLate ==
  ASSUME late = {}, thread = "strand", calls' \in 0..MaxCalls, NEW where, Leave(where, "return")
  PROVE  \E r \in late' : /\ late' = {r} /\ r.at = "return" /\ r.thread = "strand"
                          /\ r.n \in 0..MaxCalls /\ r.at \in Places
<1> DEFINE r == Run(calls', call', "return")
<1>1. late' = {r}
  BY DEF Leave
<1>2. r.at = "return" /\ r.thread = "strand" /\ r.n = calls'
  BY DEF Run
<1> HIDE DEF r
<1>3. QED
  BY <1>1, <1>2 DEF Places

(* One that is ended by a handler posted at once. *)
LEMMA PostHandlerInv ==
  ASSUME Inv, ~beside', NEW c \in RecvCalls \cup ResponseCalls, Begin(c), NEW v, Valid(c, v),
         PostHandler(c, calls', v), mb' \in Boxes, UNCHANGED poolVars
  PROVE  Inv'
<1>1. /\ coro = "running" /\ posted = <<>> /\ late = {} /\ thread = "strand"
      /\ calls' \in 0..MaxCalls /\ calls' > 0 /\ call' = c
      /\ coro' = c.op /\ thread' = "none" /\ result' = NoValue
      /\ UNCHANGED <<lifeVars, handlerVars, timerVars>>
      /\ recv_h = 0 /\ res_h = 0 /\ wait_h = 0 /\ NoneCurrent /\ beside' \in BOOLEAN
  BY BeginInv DEF PostHandler, Leave
<1>2. posted' = <<[stop |-> FALSE, n |-> calls', v |-> v]>>
  BY <1>1 DEF PostHandler
<1>3. /\ c \in RecvCalls => c.op = "recv"
      /\ c \in ResponseCalls => c.op = "response"
      /\ c.op = "recv" => c \in RecvCalls
      /\ c.op = "response" => c \in ResponseCalls
  BY DEF RecvCalls, ResponseCalls
<1>a. PICK r \in late' : /\ late' = {r} /\ r.at = "return" /\ r.thread = "strand"
                         /\ r.n \in 0..MaxCalls /\ r.at \in Places
  BY <1>1, LeaveLate DEF PostHandler
<1>4. TypeOK'
  BY <1>1, <1>3, <1>a DEF Inv, TypeOK, Boxes, poolVars, lifeVars, handlerVars
<1>5. HandlersInv' /\ LateInv'
  BY <1>1, <1>3, <1>a DEF HandlersInv, LateInv, Suspended, handlerVars
<1>6. PostedInv'
  <2>1. posted'[1].v = v
    BY <1>2
  <2>2. Suspended' /\ HandlerOf(coro)' = 0
    BY <1>1, <1>3 DEF Suspended, HandlerOf, handlerVars
  <2>3. Valid(call', v)
    BY <1>1
  <2>4. Valid(call, posted[1].v)'
    BY <2>1, <2>3 DEF Valid, ListOf, AddsExit
  <2>5. QED
    BY <1>1, <1>2, <2>1, <2>2, <2>4 DEF PostedInv
<1>7. TimerInv'
  BY <1>1 DEF NoneCurrent, TimerInv, Current, timerVars
<1>8. ListInv'
  BY <1>1, <1>3 DEF Inv, ListInv, poolVars
<1>9. NothingMissed' /\ ReturnsWhatWasAsked'
  BY <1>1, <1>3 DEF NothingMissed, ReturnsWhatWasAsked, handlerVars
<1>10. QED
  BY <1>4, <1>5, <1>6, <1>7, <1>8, <1>9 DEF Inv

(* One that leaves its handler, with a timer or without. *)
LEMMA StartTimerInv ==
  ASSUME NoneCurrent, NEW c, NEW n, StartTimer(c, n)
  PROVE  /\ tmr_sid' \in Nat /\ waiting' \cap expired' = {}
         /\ \A h \in waiting' \cup expired' :
              /\ h.sid \in Nat /\ h.sid <= tmr_sid'
              /\ h.sid = tmr_sid' => c.tmo = "finite" /\ h.n = n /\ h.op = c.op
         /\ \A g, h \in waiting' \cup expired' :
              g.sid = tmr_sid' /\ h.sid = tmr_sid' => g = h
<1>1. CASE c.tmo = "finite"
  <2> DEFINE new == [sid |-> tmr_sid + 1, op |-> c.op, n |-> n]
  <2>1. tmr_sid \in Nat /\ tmr_sid' = tmr_sid + 1 /\ waiting' = {new} /\ expired' = expired
    BY <1>1 DEF StartTimer, NoneCurrent
  <2>2. new.sid = tmr_sid' /\ new.n = n /\ new.op = c.op
    BY <2>1
  <2>3. \A h \in expired : h.sid \in Nat /\ h.sid <= tmr_sid
    BY DEF NoneCurrent
  <2> HIDE DEF new
  <2>4. \A h \in expired : h.sid # tmr_sid' /\ h.sid <= tmr_sid'
    BY <2>1, <2>3
  <2>5. QED
    BY <1>1, <2>1, <2>2, <2>3, <2>4
<1>2. CASE c.tmo # "finite"
  BY <1>2 DEF StartTimer, timerVars, NoneCurrent
<1>3. QED
  BY <1>1, <1>2

LEMMA MissInv ==
  ASSUME Inv, ~beside', NEW c \in RecvCalls \cup ResponseCalls \cup Waits, Begin(c), Miss(c),
         UNCHANGED <<mb, poolVars>>,
         c.op = "recv" => Matching(mb, ListOf(c)) = {},
         c.op = "response" => c.id \notin mb.answers
  PROVE  Inv'
<1>0. /\ LeaveHandler(c, calls') /\ late = {} /\ thread = "strand"
      /\ coro = "running" /\ posted = <<>> /\ NoneCurrent
      /\ recv_h = 0 /\ res_h = 0 /\ wait_h = 0
      /\ call' = c /\ calls' \in 0..MaxCalls /\ calls' > 0 /\ beside' \in BOOLEAN
  BY BeginInv DEF Miss
<1>1. /\ posted' = <<>> /\ UNCHANGED lifeVars
      /\ coro' = c.op /\ thread' = "none" /\ result' = NoValue
  BY <1>0 DEF LeaveHandler, Leave
<1>2. /\ c.op = "recv" => c \in RecvCalls
      /\ c.op = "response" => c \in ResponseCalls
      /\ c.op = "wait" => c \in Waits
      /\ c.op \in {"recv", "response", "wait"}
  BY DEF RecvCalls, ResponseCalls, Waits
<1>3. \/ /\ c.op = "recv" /\ recv_h' = calls' /\ res_h' = 0 /\ wait_h' = 0
         /\ curr_match' = ListOf(c)
      \/ /\ c.op = "response" /\ recv_h' = 0 /\ res_h' = calls' /\ wait_h' = 0
         /\ recving_res' = [id |-> c.id, to |-> c.to]
      \/ c.op = "wait" /\ recv_h' = 0 /\ res_h' = 0 /\ wait_h' = calls'
  BY <1>0, <1>2 DEF LeaveHandler, Store, StoreWhat
<1>4. MaxCalls \in Nat /\ 0 \in 0..MaxCalls
  BY StacklessActorAssumption
<1>a. PICK r \in late' : /\ late' = {r} /\ r.at = "return" /\ r.thread = "strand"
                         /\ r.n \in 0..MaxCalls /\ r.at \in Places
  BY <1>0, LeaveLate DEF LeaveHandler
<1>5. TypeOK'
  BY <1>0, <1>1, <1>2, <1>3, <1>4, <1>a DEF Inv, TypeOK, poolVars, lifeVars
<1>6. HandlersInv' /\ LateInv'
  <2>1. curr_match' = ListOf(c) => curr_match' = ListOf(call)'
    BY <1>0 DEF ListOf, AddsExit
  <2>2. HandlersInv'
    BY <1>0, <1>1, <1>2, <1>3, <2>1 DEF HandlersInv, Suspended
  <2>3. LateInv'
    BY <1>1, <1>2, <1>a DEF LateInv, Suspended
  <2>4. QED
    BY <2>2, <2>3
<1>7. HandlerOf(coro)' = calls' /\ Suspended'
  BY <1>1, <1>2, <1>3 DEF HandlerOf, Suspended
<1>8. PostedInv'
  BY <1>0, <1>1, <1>7 DEF PostedInv
<1>9. TimerInv'
  <2>1. StartTimer(c, calls')
    BY <1>0 DEF LeaveHandler
  <2>2. QED
    BY <1>0, <1>1, <1>7, <2>1, StartTimerInv DEF TimerInv, Current
<1>10. ListInv'
  BY <1>0, <1>1, <1>2 DEF Inv, ListInv, poolVars
<1>11. NothingMissed'
  <2>1. ListOf(call)' = ListOf(c)
    BY <1>0 DEF ListOf, AddsExit
  <2>2. recv_h' # 0 => Matching(mb, ListOf(call))' = {}
    <3>1. Matching(mb, ListOf(call))' = Matching(mb, ListOf(c))
      BY <2>1 DEF Matching, Has
    <3>2. QED
      BY <1>0, <1>3, <3>1
  <2>3. QED
    BY <1>0, <1>3, <2>2 DEF NothingMissed
<1>12. ReturnsWhatWasAsked'
  BY <1>1, <1>2 DEF ReturnsWhatWasAsked
<1>13. QED
  BY <1>5, <1>6, <1>8, <1>9, <1>10, <1>11, <1>12 DEF Inv

LEMMA RecvInv ==
  ASSUME Inv, ~beside', NEW c \in RecvCalls, Recv(c)
  PROVE  Inv'
<1>1. /\ Begin(c) /\ UNCHANGED poolVars /\ c.op = "recv" /\ mb \in Boxes
      /\ c.match \in Seq(Types \cup {Exit})
  BY StacklessActorAssumption DEF Recv, RecvCalls, Inv, TypeOK, Boxes
<1>2. ASSUME NEW t \in Matching(mb, ListOf(c)), mb' \in Taken(mb, t),
             PostHandler(c, calls', Message(t))
      PROVE  Inv'
  <2>1. /\ t \in Types \cup {Exit} /\ Has(mb, t)
        /\ ListOf(c) = <<>> \/ \E i \in 1..Len(ListOf(c)) : ListOf(c)[i] = t
    BY MatchingHas
  <2>2. mb' \in Boxes
    BY <1>1, <1>2, <2>1, TakenType
  <2>3. ListOf(c) = <<>> => c.match = <<>>
    BY <1>1 DEF ListOf, AddsExit
  <2>4. Valid(c, Message(t))
    BY <1>1, <2>1, <2>3 DEF Valid, Message
  <2>5. QED
    BY <1>1, <1>2, <2>2, <2>4, PostHandlerInv
<1>3. CASE c.tmo = "zero" /\ PostHandler(c, calls', Nothing("zero")) /\ UNCHANGED mb
  <2>1. Valid(c, Nothing("zero"))
    BY <1>3 DEF Valid, Nothing
  <2>2. QED
    BY <1>1, <1>3, <2>1, PostHandlerInv
<1>4. CASE Matching(mb, ListOf(c)) = {} /\ Miss(c) /\ UNCHANGED mb
  BY <1>1, <1>4, MissInv
<1>5. QED
  BY <1>2, <1>3, <1>4 DEF Recv

LEMMA RecvResponseInv ==
  ASSUME Inv, ~beside', NEW c \in ResponseCalls, RecvResponse(c)
  PROVE  Inv'
<1>1. Begin(c) /\ UNCHANGED poolVars /\ c.op = "response" /\ mb \in Boxes
  BY DEF RecvResponse, ResponseCalls, Inv, TypeOK, Boxes
<1>2. CASE mb' = AnswerTaken(mb, c.id) /\ PostHandler(c, calls', Answer(c.id, c.to))
  <2>1. mb' \in Boxes
    BY <1>1, <1>2, AnswerTakenType
  <2>2. Valid(c, Answer(c.id, c.to))
    BY <1>1 DEF Valid, Answer
  <2>3. QED
    BY <1>1, <1>2, <2>1, <2>2, PostHandlerInv
<1>3. CASE c.tmo = "zero" /\ PostHandler(c, calls', Nothing("zero")) /\ UNCHANGED mb
  <2>1. Valid(c, Nothing("zero"))
    BY <1>3 DEF Valid, Nothing
  <2>2. QED
    BY <1>1, <1>3, <2>1, PostHandlerInv
<1>4. CASE ~Answered(mb, c.id, c.to) /\ Miss(c) /\ UNCHANGED mb
  BY <1>1, <1>4, MissInv DEF Answered
<1>5. QED
  BY <1>2, <1>3, <1>4 DEF RecvResponse

LEMMA WaitInv ==
  ASSUME Inv, ~beside', Wait
  PROVE  Inv'
<1>1. PICK c \in Waits : Begin(c) /\ Miss(c) /\ UNCHANGED <<mb, poolVars>>
  BY DEF Wait
<1>2. c.op = "wait"
  BY DEF Waits
<1>3. QED
  BY <1>1, <1>2, MissInv

LEMMA AsyncBeginInv ==
  ASSUME Inv, ~beside', AsyncBegin
  PROVE  Inv'
<1>1. PICK c \in AsyncCalls : Begin(c)
  BY DEF AsyncBegin
<1>2. /\ Leave("async", "return")
      /\ UNCHANGED <<lifeVars, poolVars, mb, handlerVars, timerVars, posted>>
      /\ coro' = "async" /\ thread' = "none" /\ result' = NoValue
  BY DEF AsyncBegin, Leave
<1>3. /\ posted = <<>> /\ late = {} /\ thread = "strand" /\ NoneCurrent /\ coro = "running"
      /\ recv_h = 0 /\ res_h = 0 /\ wait_h = 0 /\ calls' \in 0..MaxCalls /\ beside' \in BOOLEAN
  BY <1>1, BeginInv
<1>a. PICK r \in late' : /\ late' = {r} /\ r.at = "return" /\ r.thread = "strand"
                         /\ r.n \in 0..MaxCalls /\ r.at \in Places
  BY <1>2, <1>3, LeaveLate
<1>4. TypeOK'
  BY <1>2, <1>3, <1>a DEF Inv, TypeOK, poolVars, lifeVars, handlerVars
<1>5. HandlersInv' /\ LateInv' /\ PostedInv'
  BY <1>2, <1>3, <1>a DEF HandlersInv, LateInv, PostedInv, Suspended, handlerVars
<1>6. TimerInv'
  BY <1>2, <1>3 DEF NoneCurrent, TimerInv, Current, timerVars
<1>7. ListInv' /\ NothingMissed' /\ ReturnsWhatWasAsked'
  BY <1>2, <1>3 DEF Inv, ListInv, NothingMissed, ReturnsWhatWasAsked, poolVars, handlerVars
<1>8. QED
  BY <1>4, <1>5, <1>6, <1>7 DEF Inv

(* An adaptor that overtakes nobody runs the coroutine with nothing else about. *)
LEMMA AsyncEndInv ==
  ASSUME Inv, ~beside, ~beside', AsyncEnd
  PROVE  Inv'
<1>1. /\ UNCHANGED <<lifeVars, poolVars, mb, result, late, calls, call, handlerVars, timerVars, posted>>
      /\ coro = "async" /\ coro' = "running" /\ thread' = "asio" /\ ~Suspended
      /\ beside' = (beside \/ late # {})
  BY DEF AsyncEnd, Suspended
<1>a. late = {} /\ beside' \in BOOLEAN
  BY <1>1 DEF Inv, TypeOK
<1>2. posted = <<>> /\ recv_h = 0 /\ res_h = 0 /\ wait_h = 0 /\ NoneCurrent /\ result' = NoValue
  BY <1>1, OneHandler, OffNoneCurrent DEF Inv, PostedInv, HandlersInv
<1>3. TypeOK'
  BY <1>1, <1>a DEF Inv, TypeOK, poolVars, lifeVars, handlerVars
<1>4. HandlersInv' /\ LateInv' /\ PostedInv'
  BY <1>1, <1>2, <1>a DEF HandlersInv, LateInv, PostedInv, Suspended, handlerVars
<1>5. TimerInv'
  BY <1>1, <1>2 DEF NoneCurrent, TimerInv, Current, timerVars
<1>6. ListInv' /\ NothingMissed' /\ ReturnsWhatWasAsked'
  BY <1>1, <1>2 DEF Inv, ListInv, NothingMissed, ReturnsWhatWasAsked, poolVars, handlerVars
<1>7. QED
  BY <1>3, <1>4, <1>5, <1>6 DEF Inv

LEMMA FinishInv ==
  ASSUME Inv, ~beside', NEW place \in {"finish", "catch"}, Finish(place)
  PROVE  Inv'
<1>1. /\ UNCHANGED <<lifeVars, poolVars, mb, callVars, handlerVars, timerVars, posted>>
      /\ coro = "running" /\ coro' = "complete" /\ thread' = "none" /\ result' = NoValue
      /\ late' = late \cup {Run(calls, call, place)} /\ ~Suspended
  BY DEF Finish, Suspended
<1>2. /\ posted = <<>> /\ recv_h = 0 /\ res_h = 0 /\ wait_h = 0 /\ NoneCurrent /\ late = {}
      /\ thread \in {"strand", "asio"} /\ calls \in 0..MaxCalls
  <2>1. posted = <<>> /\ late = {}
    BY <1>1 DEF Inv, PostedInv, LateInv
  <2>2. recv_h = 0 /\ res_h = 0 /\ wait_h = 0 /\ NoneCurrent
    BY <1>1, OneHandler, OffNoneCurrent
  <2>3. thread \in {"strand", "asio"} /\ calls \in 0..MaxCalls
    BY <1>1 DEF Inv, HandlersInv, TypeOK
  <2>4. QED
    BY <2>1, <2>2, <2>3
<1>a. PICK r \in late' : /\ late' = {r} /\ r.at \in {"finish", "catch"}
                         /\ r.thread \in {"strand", "asio"} /\ r.n \in 0..MaxCalls
  <2> DEFINE r == Run(calls, call, place)
  <2>1. late' = {r}
    BY <1>1, <1>2
  <2>2. r.at = place /\ r.thread = thread /\ r.n = calls
    BY DEF Run
  <2> HIDE DEF r
  <2>3. QED
    BY <1>2, <2>1, <2>2
<1>4. TypeOK'
  BY <1>1, <1>a DEF Inv, TypeOK, poolVars, callVars, handlerVars, lifeVars, Places
<1>5. HandlersInv' /\ LateInv' /\ PostedInv'
  BY <1>1, <1>2, <1>a DEF HandlersInv, LateInv, PostedInv, Suspended, handlerVars
<1>6. TimerInv'
  BY <1>1, <1>2 DEF NoneCurrent, TimerInv, Current, timerVars
<1>7. ListInv' /\ NothingMissed' /\ ReturnsWhatWasAsked'
  BY <1>1, <1>2 DEF Inv, ListInv, NothingMissed, ReturnsWhatWasAsked, poolVars, handlerVars
<1>8. QED
  BY <1>4, <1>5, <1>6, <1>7 DEF Inv

(* The one run on its way out looks whether the coroutine is complete, and quits if it is. *)
LEMMA GoOnInv ==
  ASSUME Inv, ~beside', NEW r \in late, GoOn(r)
  PROVE  Inv'
<1>1. /\ late = {r} /\ r.at \in {"return", "finish", "catch"}
      /\ r.at = "return" => Suspended \/ coro = "async"
      /\ r.at # "return" => coro = "complete"
  BY DEF Inv, LateInv
<1>2. Return(r)
  BY <1>1 DEF GoOn, Arm, StoreHandler, StoreList
<1>3. late' = {} /\ UNCHANGED <<poolVars, mb, runVars, callVars, handlerVars, timerVars>>
  BY <1>1, <1>2 DEF Return
<1> USE DEF poolVars, runVars, callVars, handlerVars, timerVars, lifeVars
<1>4. CASE r.at = "return"
  <2>1. UNCHANGED <<lifeVars, posted>> /\ coro # "complete"
    BY <1>1, <1>2, <1>4 DEF Return, Suspended
  <2>2. TypeOK'
    BY <1>3, <2>1 DEF Inv, TypeOK
  <2>3. HandlersInv' /\ LateInv' /\ ListInv' /\ ReturnsWhatWasAsked'
    BY <1>3, <2>1 DEF Inv, HandlersInv, LateInv, ListInv, ReturnsWhatWasAsked, Suspended, ListOf, AddsExit
  <2>4. PostedInv' /\ TimerInv'
    BY <1>1, <1>3, <2>1, <1>4
       DEF Inv, PostedInv, TimerInv, Current, Suspended, HandlerOf, Valid, ListOf, AddsExit
  <2>5. NothingMissed'
    BY <1>3, SameMissed DEF Inv
  <2>6. QED
    BY <2>2, <2>3, <2>4, <2>5 DEF Inv
<1>5. CASE r.at # "return"
  <2>1. coro = "complete" /\ ~Suspended /\ late # {}
    BY <1>1, <1>5 DEF Suspended
  <2>2. posted = <<>> /\ recv_h = 0 /\ res_h = 0 /\ wait_h = 0 /\ NoneCurrent
    BY <2>1, OneHandler, OffNoneCurrent DEF Inv, PostedInv
  <2>3. Quit(posted)
    BY <1>2, <2>1 DEF Return
  <2>4. posted' = <<[stop |-> TRUE]>> /\ sid' = sid + 1 /\ known' = known
    BY <2>2, <2>3 DEF Quit
  <2>5. TypeOK'
    BY <1>3, <2>4 DEF Inv, TypeOK
  <2>6. HandlersInv' /\ LateInv' /\ PostedInv'
    BY <1>3, <2>1, <2>2, <2>4 DEF HandlersInv, LateInv, PostedInv, Suspended
  <2>7. TimerInv'
    BY <1>3, <2>2 DEF NoneCurrent, TimerInv, Current
  <2>8. ListInv' /\ NothingMissed' /\ ReturnsWhatWasAsked'
    BY <1>3, <2>1, <2>2 DEF Inv, ListInv, NothingMissed, ReturnsWhatWasAsked
  <2>9. QED
    BY <2>5, <2>6, <2>7, <2>8 DEF Inv
<1>6. QED
  BY <1>4, <1>5

-----------------------------------------------------------------------------
(* On the strand *)

(* What ends a wait moves tmr_sid_ past every handler there is. *)
LEMMA CancelTimerInv ==
  ASSUME Inv, CancelTimer
  PROVE  NoneCurrent'
<1>1. /\ tmr_sid \in Nat /\ tmr_sid' = tmr_sid + 1 /\ waiting' = {} /\ expired' = expired
      /\ \A h \in expired : h.sid \in Nat /\ h.sid <= tmr_sid
  BY DEF CancelTimer, Inv, TimerInv
<1>2. \A h \in expired : h.sid # tmr_sid' /\ h.sid <= tmr_sid'
  BY <1>1
<1>3. QED
  BY <1>1, <1>2 DEF NoneCurrent

(* A pack that ends nothing leaves everything but the mailbox as it is. *)
LEMMA PushedInv ==
  ASSUME Inv, mb' \in Boxes, NothingMissed',
         UNCHANGED <<lifeVars, poolVars, runVars, late, callVars, handlerVars, timerVars, posted>>
  PROVE  Inv'
<1> USE DEF lifeVars, poolVars, runVars, callVars, handlerVars, timerVars
<1>1. TypeOK'
  BY DEF Inv, TypeOK, Boxes
<1>2. HandlersInv' /\ LateInv' /\ ListInv' /\ ReturnsWhatWasAsked'
  BY DEF Inv, HandlersInv, LateInv, ListInv, ReturnsWhatWasAsked, Suspended, ListOf, AddsExit
<1>3. PostedInv' /\ TimerInv'
  BY DEF Inv, PostedInv, TimerInv, Current, Suspended, HandlerOf, Valid, ListOf, AddsExit
<1>4. QED
  BY <1>1, <1>2, <1>3 DEF Inv

LEMMA HandleRecvInv ==
  ASSUME Inv, ~beside, NEW pk \in Packs, NEW to \in known, HandleRecv(pk, to)
  PROVE  Inv'
<1> DEFINE box == Pushed(mb, pk)
<1>1. mb \in Boxes /\ box \in Boxes /\ box.answers = mb.answers /\ pk.kind # "response"
      /\ UNCHANGED <<poolVars, late, callVars>> /\ NoneReturning
  BY PushedType, MessageIsNoAnswer DEF Inv, TypeOK, Boxes, HandleRecv
<1> HIDE DEF box
<1>2. CASE /\ Wakes(box) = {} /\ mb' = box
           /\ UNCHANGED <<lifeVars, runVars, handlerVars, timerVars, posted>>
  <2>1. NothingMissed'
    <3>1. recv_h # 0 => Matching(box, ListOf(call)) = {}
      BY <1>2 DEF Wakes, Inv, HandlersInv
    <3>2. res_h # 0 => call.id \notin box.answers
      BY <1>1 DEF Inv, NothingMissed
    <3>3. call' = call /\ recv_h' = recv_h /\ res_h' = res_h /\ mb' = box
      BY <1>1, <1>2 DEF handlerVars, callVars
    <3>4. Matching(mb, ListOf(call))' = Matching(box, ListOf(call))
      BY <3>3 DEF Matching, Has, ListOf, AddsExit
    <3>5. QED
      BY <3>1, <3>2, <3>3, <3>4 DEF NothingMissed
  <2>2. QED
    BY <1>1, <1>2, <2>1, PushedInv
<1>3. ASSUME NEW t \in Wakes(box), mb' \in Taken(box, t), recv_h' = 0, CancelTimer,
             Handle(recv_h, Message(t), posted), UNCHANGED <<res_h, wait_h>>
      PROVE  Inv'
  <2>1. /\ recv_h # 0 /\ t \in Matching(box, ListOf(call)) /\ coro = "recv" /\ recv_h = calls
        /\ call \in RecvCalls /\ res_h' = 0 /\ wait_h' = 0 /\ posted = <<>>
    BY <1>3, OneHandler DEF Wakes, Inv, HandlersInv
  <2>2. /\ t \in Types \cup {Exit} /\ Has(box, t)
        /\ ListOf(call) = <<>> \/ \E i \in 1..Len(ListOf(call)) : ListOf(call)[i] = t
    BY <2>1, MatchingHas
  <2>3. mb' \in Boxes
    BY <1>1, <1>3, <2>2, TakenType
  <2>4. Valid(call, Message(t))
    <3>1. call.op = "recv" /\ call.match \in Seq(Types \cup {Exit})
      BY <2>1, StacklessActorAssumption DEF RecvCalls
    <3>2. ListOf(call) = <<>> => call.match = <<>>
      BY <3>1 DEF ListOf, AddsExit
    <3>3. QED
      BY <2>2, <3>1, <3>2 DEF Valid, Message
  <2>5. NoneCurrent'
    BY <1>3, CancelTimerInv
  <2>6. Suspended /\ Expected(recv_h)
    BY <2>1 DEF Suspended, Expected, RecvCalls
  <2>7. QED
    BY <1>1, <1>3, <2>1, <2>3, <2>4, <2>5, <2>6, HandleEnds, EndInv
<1>4. QED
  BY <1>2, <1>3 DEF HandleRecv, box

(* The record of a response has a sender, that of no response has none. *)
LEMMA SomeResponse == \A i, t : [id |-> i, to |-> t] # NoResponse
<1> SUFFICES ASSUME NEW i, NEW t, [id |-> i, to |-> t] = NoResponse PROVE FALSE
  OBVIOUS
<1>1. DOMAIN [id |-> i, to |-> t] = {"id", "to"} /\ DOMAIN NoResponse = {"id"}
  BY DEF NoResponse
<1>2. QED
  BY <1>1

LEMMA HandleResponseInv ==
  ASSUME Inv, ~beside, NEW pk \in Packs, NEW to \in known, HandleResponse(pk, to)
  PROVE  Inv'
<1> DEFINE box == Pushed(mb, pk)
<1> DEFINE id == recving_res.id
<1>1. /\ mb \in Boxes /\ box \in Boxes
      /\ Matching(box, ListOf(call)) = Matching(mb, ListOf(call))
      /\ UNCHANGED <<poolVars, late, callVars>> /\ NoneReturning
  BY PushedType, ResponseMatchesNothing DEF Inv, TypeOK, Boxes, HandleResponse
<1> HIDE DEF box
<1>2. CASE /\ ~(res_h # 0 /\ recving_res # NoResponse /\ Answered(box, id, recving_res.to))
           /\ mb' = box
           /\ UNCHANGED <<lifeVars, runVars, handlerVars, timerVars, posted>>
  <2>1. NothingMissed'
    <3>1. res_h # 0 => call.id \notin box.answers
      <4>1. res_h # 0 => /\ recving_res = [id |-> call.id, to |-> call.to]
                         /\ recving_res # NoResponse /\ id = call.id
        BY SomeResponse DEF Inv, HandlersInv
      <4>2. QED
        BY <1>2, <4>1 DEF Answered
    <3>2. recv_h # 0 => Matching(box, ListOf(call)) = {}
      BY <1>1 DEF Inv, NothingMissed
    <3>3. call' = call /\ recv_h' = recv_h /\ res_h' = res_h /\ mb' = box
      BY <1>1, <1>2 DEF handlerVars, callVars
    <3>4. Matching(mb, ListOf(call))' = Matching(box, ListOf(call))
      BY <3>3 DEF Matching, Has, ListOf, AddsExit
    <3>5. QED
      BY <3>1, <3>2, <3>3, <3>4 DEF NothingMissed
  <2>2. QED
    BY <1>1, <1>2, <2>1, PushedInv
<1>3. CASE /\ res_h # 0 /\ mb' = AnswerTaken(box, id) /\ res_h' = 0 /\ CancelTimer
           /\ Handle(res_h, [Answer(id, recving_res.to) EXCEPT !.exit = id \notin box.answers], posted)
           /\ UNCHANGED <<recv_h, wait_h>>
  <2> DEFINE v == [Answer(id, recving_res.to) EXCEPT !.exit = id \notin box.answers]
  <2>1. /\ coro = "response" /\ call \in ResponseCalls /\ id = call.id /\ res_h = calls
        /\ recv_h' = 0 /\ wait_h' = 0 /\ posted = <<>> /\ Suspended
    BY <1>3, OneHandler DEF Inv, HandlersInv, Suspended
  <2>2. mb' \in Boxes
    BY <1>1, <1>3, AnswerTakenType
  <2>3. v.ok /\ v.by = "answer" /\ v.id = id
    BY DEF Answer
  <2> HIDE DEF v
  <2>4. Valid(call, v)
    BY <2>1, <2>3 DEF Valid, ResponseCalls
  <2>5. NoneCurrent'
    BY <1>3, CancelTimerInv
  <2>6. Handle(res_h, v, posted) /\ Expected(res_h)
    BY <1>3, <2>1 DEF v, Expected, ResponseCalls
  <2>7. QED
    BY <1>1, <1>3, <2>1, <2>2, <2>4, <2>5, <2>6, HandleEnds, EndInv
<1>4. QED
  BY <1>2, <1>3 DEF HandleResponse, box

LEMMA ExpireInv ==
  ASSUME Inv, ~beside, Expire
  PROVE  Inv'
<1> USE DEF Expire, lifeVars, poolVars, runVars, callVars, handlerVars
<1>1. TypeOK'
  BY DEF Inv, TypeOK
<1>2. HandlersInv' /\ LateInv' /\ ListInv'
  BY DEF Inv, HandlersInv, LateInv, ListInv, Suspended, ListOf, AddsExit
<1>3. ReturnsWhatWasAsked'
  BY DEF Inv, ReturnsWhatWasAsked, ListOf, AddsExit
<1>4. NothingMissed'
  BY SameMissed DEF Inv
<1>5. PostedInv'
  BY DEF Inv, PostedInv, Suspended, HandlerOf, Valid, ListOf, AddsExit
<1>6. TimerInv'
  <2>1. waiting' \cup expired' = waiting \cup expired
    OBVIOUS
  <2>2. QED
    BY <2>1 DEF Inv, TimerInv, Current, Suspended, HandlerOf
<1>7. QED
  BY <1>1, <1>2, <1>3, <1>4, <1>5, <1>6 DEF Inv

(* A current handler finds its own operation suspended; no other is current. *)
LEMMA HandleTimeoutInv ==
  ASSUME Inv, ~beside, NEW h \in expired, HandleTimeout(h)
  PROVE  Inv'
<1>1. /\ expired' = expired \ {h}
      /\ UNCHANGED <<poolVars, mb, late, callVars, recving_res, tmr_sid, waiting>>
      /\ mb \in Boxes /\ NoneReturning
  BY DEF HandleTimeout, StrandFree, Inv, TypeOK, Boxes
<1>2. CASE ~Current(h) /\ UNCHANGED <<lifeVars, runVars, recv_h, res_h, wait_h, curr_match, posted>>
  <2> USE <1>1, <1>2 DEF lifeVars, poolVars, runVars, callVars
  <2>1. TypeOK'
    BY DEF Inv, TypeOK
  <2>2. HandlersInv' /\ LateInv' /\ ListInv'
    BY DEF Inv, HandlersInv, LateInv, ListInv, Suspended, ListOf, AddsExit
  <2>3. ReturnsWhatWasAsked'
    BY DEF Inv, ReturnsWhatWasAsked, ListOf, AddsExit
  <2>4. NothingMissed'
    BY SameMissed DEF Inv
  <2>5. PostedInv'
    BY DEF Inv, PostedInv, Suspended, HandlerOf, Valid, ListOf, AddsExit
  <2>6. TimerInv'
    BY DEF Inv, TimerInv, Current, Suspended, HandlerOf
  <2>7. QED
    BY <2>1, <2>2, <2>3, <2>4, <2>5, <2>6 DEF Inv
<1>3. CASE /\ Current(h) /\ Handle(h.n, Nothing("timeout"), posted)
           /\ recv_h' = IF h.op = "recv" THEN 0 ELSE recv_h
           /\ res_h' = IF h.op = "response" THEN 0 ELSE res_h
           /\ wait_h' = IF h.op = "wait" THEN 0 ELSE wait_h
  <2>1. /\ Suspended /\ call.tmo = "finite" /\ h.op = coro /\ h.n = calls
        /\ HandlerOf(coro) = calls /\ calls # 0
    BY <1>3 DEF Inv, TimerInv, HandlersInv, TypeOK
  <2>2. NoneCurrent'
    BY <1>1, <1>3 DEF Inv, TimerInv, NoneCurrent, Current
  <2>3. posted = <<>> /\ recv_h' = 0 /\ res_h' = 0 /\ wait_h' = 0
    <3>1. CASE coro = "recv"
      BY <1>3, <2>1, <3>1, OneHandler DEF HandlerOf
    <3>2. CASE coro = "response"
      BY <1>3, <2>1, <3>2, OneHandler DEF HandlerOf
    <3>3. CASE coro = "wait"
      BY <1>3, <2>1, <3>3, OneHandler DEF HandlerOf
    <3>4. QED
      BY <2>1, <3>1, <3>2, <3>3 DEF Suspended
  <2>4. Valid(call, Nothing("timeout"))
    BY <2>1 DEF Valid, Nothing
  <2>5. Expected(h.n)
    BY <2>1 DEF Inv, HandlersInv, Expected, Suspended, RecvCalls, ResponseCalls, Waits
  <2>6. QED
    BY <1>1, <1>3, <2>1, <2>2, <2>3, <2>4, <2>5, HandleEnds, EndInv
<1>4. QED
  BY <1>2, <1>3 DEF HandleTimeout

(* What was posted is what the operation was to be ended with. *)
LEMMA RunPostedInv ==
  ASSUME Inv, ~beside, RunPosted
  PROVE  Inv'
<1>1. PICK v : /\ Suspended /\ HandlerOf(coro) = 0 /\ Valid(call, v)
               /\ posted = <<[stop |-> FALSE, n |-> calls, v |-> v]>>
  <2>1. posted # <<[stop |-> TRUE]>> /\ posted # <<>>
    BY DEF RunPosted
  <2>2. QED
    BY <2>1 DEF Inv, PostedInv
<1>2. Head(posted).n = calls /\ Head(posted).v = v /\ Tail(posted) = <<>>
  <2> DEFINE p == [stop |-> FALSE, n |-> calls, v |-> v]
  <2>1. posted = <<p>> /\ p.n = calls /\ p.v = v
    BY <1>1
  <2> HIDE DEF p
  <2>2. Head(posted) = p /\ Tail(posted) = <<>>
    BY <2>1
  <2>3. QED
    BY <2>1, <2>2, Zenon
<1>3. /\ recv_h' = 0 /\ res_h' = 0 /\ wait_h' = 0 /\ mb' = mb /\ mb \in Boxes
      /\ UNCHANGED <<poolVars, late, callVars>> /\ NoneReturning
  BY <1>1, OneHandler DEF RunPosted, StrandFree, handlerVars, Inv, TypeOK, Boxes
<1>4. NoneCurrent'
  BY <1>1, OffNoneCurrent DEF RunPosted, NoneCurrent, timerVars
<1>5. Handle(calls, v, Tail(posted))
  BY <1>2 DEF RunPosted
<1>6. Expected(calls)
  BY <1>1 DEF Inv, HandlersInv, Expected, Suspended, RecvCalls, ResponseCalls, Waits
<1>7. QED
  BY <1>1, <1>2, <1>3, <1>4, <1>5, <1>6, HandleEnds, EndInv

-----------------------------------------------------------------------------
(* The free list, and the actor's life *)

LEMMA SpawnInv ==
  ASSUME Inv, ~beside, Spawn
  PROVE  Inv'
<1>1. /\ coro = "pooled" /\ coro' = "running" /\ thread' = "strand" /\ result' = NoValue
      /\ sid' = sid + 1 /\ known' = known \cup {sid + 1}
      /\ head' = next[This] /\ next' = [next EXCEPT ![This] = NoObject]
      /\ UNCHANGED <<other, mb, late, calls, handlerVars, timerVars, posted>>
  BY DEF Spawn, Got, Inv, ListInv, This, Other, NoObject
<1>2. posted = <<>> /\ recv_h = 0 /\ res_h = 0 /\ wait_h = 0 /\ NoneCurrent /\ late = {}
  BY <1>1, OneHandler, OffNoneCurrent DEF Inv, PostedInv, LateInv, Suspended
<1>3. TypeOK'
  BY <1>1, <1>2 DEF Spawn, Inv, TypeOK, handlerVars, This, Other, NoObject
<1>4. HandlersInv' /\ LateInv' /\ PostedInv'
  BY <1>1, <1>2 DEF HandlersInv, LateInv, PostedInv, Suspended, handlerVars
<1>5. TimerInv'
  BY <1>1, <1>2 DEF NoneCurrent, TimerInv, Current, timerVars
<1>6. ListInv'
  BY <1>1 DEF Spawn, Inv, TypeOK, ListInv, This, Other, NoObject
<1>7. NothingMissed' /\ ReturnsWhatWasAsked'
  BY <1>1, <1>2 DEF NothingMissed, ReturnsWhatWasAsked, handlerVars
<1>8. QED
  BY <1>3, <1>4, <1>5, <1>6, <1>7 DEF Inv

LEMMA StopInv ==
  ASSUME Inv, ~beside, Stop
  PROVE  Inv'
<1>1. coro \in {"quit", "complete"} /\ late = {} /\ posted = <<[stop |-> TRUE]>>
  <2>1. posted # <<>> /\ Head(posted).stop
    BY DEF Stop
  <2>2. \A v : posted # <<[stop |-> FALSE, n |-> calls, v |-> v]>>
    BY <2>1
  <2>3. QED
    BY <2>1, <2>2 DEF Inv, PostedInv
<1>2. /\ posted' = <<>> /\ coro' = "pooled" /\ thread' = "none" /\ result' = NoValue
      /\ mb' = NoneUnread /\ recv_h' = 0 /\ res_h' = 0 /\ wait_h' = 0 /\ late' = {}
      /\ head' = This /\ next' = [next EXCEPT ![This] = head]
      /\ UNCHANGED <<lifeVars, other, callVars, timerVars>>
  <2>1. next[This] = NoObject
    BY <1>1 DEF Inv, ListInv
  <2>2. QED
    BY <1>1, <2>1 DEF Stop, OnFree, Freed
<1>3. NoneCurrent
  BY <1>1, OffNoneCurrent DEF Suspended
<1>4. TypeOK'
  <2>1. NoneUnread \in [count : [Types -> Nat], exits : SUBSET Aids, answers : SUBSET ReqIds]
    BY DEF NoneUnread
  <2>2. head' \in {This, Other, NoObject} /\ next' \in [{This, Other} -> {This, Other, NoObject}]
    BY <1>2 DEF Inv, TypeOK
  <2>3. /\ sid' \in Nat /\ known' \subseteq Nat /\ calls' \in 0..MaxCalls /\ 0 \in 0..MaxCalls
        /\ beside' \in BOOLEAN
    BY <1>2, StacklessActorAssumption DEF Inv, TypeOK, lifeVars, callVars
  <2>4. QED
    BY <1>2, <2>1, <2>2, <2>3 DEF TypeOK
<1>5. HandlersInv' /\ LateInv' /\ PostedInv'
  BY <1>2 DEF HandlersInv, LateInv, PostedInv, Suspended
<1>6. TimerInv'
  BY <1>2, <1>3 DEF NoneCurrent, TimerInv, Current, timerVars
<1>7. ListInv'
  BY <1>1, <1>2 DEF Inv, TypeOK, ListInv, This, Other, NoObject
<1>8. NothingMissed' /\ ReturnsWhatWasAsked'
  BY <1>2 DEF NothingMissed, ReturnsWhatWasAsked
<1>9. QED
  BY <1>4, <1>5, <1>6, <1>7, <1>8 DEF Inv

LEMMA OtherInv ==
  ASSUME Inv, ~beside, OtherSpawn \/ OtherStop
  PROVE  Inv'
<1> USE DEF lifeVars, runVars, callVars, handlerVars, timerVars
<1>1. UNCHANGED <<lifeVars, mb, runVars, late, callVars, handlerVars, timerVars, posted>>
  BY DEF OtherSpawn, OtherStop
<1>a. /\ OtherSpawn => /\ head = Other /\ other' = TRUE
                       /\ head' = next[Other] /\ next' = [next EXCEPT ![Other] = NoObject]
      /\ OtherStop => /\ other /\ other' = FALSE
                      /\ head' = Other /\ next' = [next EXCEPT ![Other] = head]
  <2>1. other => next[Other] = NoObject
    BY DEF Inv, ListInv
  <2>2. QED
    BY <2>1 DEF OtherSpawn, OtherStop, Got, Freed
<1>2. ListInv' /\ head' \in {This, Other, NoObject}
      /\ next' \in [{This, Other} -> {This, Other, NoObject}]
  <2>1. coro' = coro /\ next \in [{This, Other} -> {This, Other, NoObject}]
        /\ head \in {This, Other, NoObject} /\ This # Other /\ NoObject \notin {This, Other}
    BY <1>1 DEF Inv, TypeOK, This, Other, NoObject
  <2>2. CASE OtherSpawn
    BY <1>a, <2>1, <2>2 DEF Inv, ListInv
  <2>3. CASE OtherStop
    BY <1>a, <2>1, <2>3 DEF Inv, ListInv
  <2>4. QED
    BY <2>2, <2>3
<1>3. TypeOK'
  BY <1>1, <1>2 DEF Inv, TypeOK
<1>4. HandlersInv' /\ LateInv' /\ ReturnsWhatWasAsked' /\ NothingMissed'
  BY <1>1 DEF Inv, HandlersInv, LateInv, ReturnsWhatWasAsked, NothingMissed, Suspended,
              ListOf, AddsExit, Matching, Has
<1>5. PostedInv' /\ TimerInv'
  BY <1>1 DEF Inv, PostedInv, TimerInv, Current, Suspended, HandlerOf, Valid, ListOf, AddsExit
<1>6. QED
  BY <1>2, <1>3, <1>4, <1>5 DEF Inv

-----------------------------------------------------------------------------
(* Nothing takes back that something has run beside the strand. *)
LEMMA BesideStays ==
  ASSUME [Next]_vars, ~beside'
  PROVE  ~beside
<1>1. CASE UserCode
  <2>1. ASSUME NEW c, Begin(c) PROVE ~beside
    BY <2>1 DEF Begin
  <2>2. ASSUME NEW place, Finish(place) PROVE ~beside
    BY <2>2 DEF Finish, callVars
  <2>3. QED
    BY <1>1, <2>1, <2>2 DEF UserCode, Recv, RecvResponse, Wait, AsyncBegin
<1>2. CASE Late
  BY <1>2 DEF Late, GoOn, Arm, StoreHandler, StoreList, Return, callVars
<1>3. CASE AsyncEnd
  BY <1>3 DEF AsyncEnd
<1>4. CASE Receive
  BY <1>4 DEF Receive, HandleRecv, HandleResponse, callVars
<1>5. CASE Timeout \/ RunPosted
  BY <1>5 DEF Timeout, Expire, HandleTimeout, RunPosted, callVars
<1>6. CASE Pool
  BY <1>6 DEF Pool, Spawn, Stop, OtherSpawn, OtherStop, callVars
<1>7. CASE UNCHANGED vars
  BY <1>7 DEF vars, callVars
<1>8. QED
  BY <1>1, <1>2, <1>3, <1>4, <1>5, <1>6, <1>7 DEF Next

LEMMA StepInv == IInv /\ [Next]_vars => IInv'
<1> SUFFICES ASSUME IInv, [Next]_vars, ~beside' PROVE Inv'
  BY DEF IInv
<1>0. Inv /\ ~beside
  BY BesideStays DEF IInv
<1>1. CASE UserCode
  <2>1. ASSUME NEW c \in RecvCalls, Recv(c) PROVE Inv'
    BY <1>0, <2>1, RecvInv
  <2>2. ASSUME NEW c \in ResponseCalls, RecvResponse(c) PROVE Inv'
    BY <1>0, <2>2, RecvResponseInv
  <2>3. CASE Wait \/ AsyncBegin
    BY <1>0, <2>3, WaitInv, AsyncBeginInv
  <2>4. CASE Finish("finish") \/ Finish("catch")
    BY <1>0, <2>4, FinishInv
  <2>5. QED
    BY <1>1, <2>1, <2>2, <2>3, <2>4 DEF UserCode
<1>2. CASE Late
  BY <1>0, <1>2, GoOnInv DEF Late
<1>3. CASE AsyncEnd
  BY <1>0, <1>3, AsyncEndInv
<1>4. CASE Receive
  BY <1>0, <1>4, HandleRecvInv, HandleResponseInv DEF Receive
<1>5. CASE Timeout
  BY <1>0, <1>5, ExpireInv, HandleTimeoutInv DEF Timeout
<1>6. CASE RunPosted
  BY <1>0, <1>6, RunPostedInv
<1>7. CASE Pool
  BY <1>0, <1>7, SpawnInv, StopInv, OtherInv DEF Pool
<1>8. CASE UNCHANGED vars
  <2> USE <1>8 DEF vars, lifeVars, poolVars, runVars, callVars, handlerVars, timerVars
  <2>1. NothingMissed'
    BY <1>0, SameMissed DEF Inv
  <2>2. mb' \in Boxes
    BY <1>0 DEF Inv, TypeOK, Boxes
  <2>3. QED
    BY <1>0, <2>1, <2>2, PushedInv
<1>9. QED
  BY <1>1, <1>2, <1>3, <1>4, <1>5, <1>6, <1>7, <1>8 DEF Next

LEMMA Invariance == Spec => []IInv
<1>1. Init => IInv
  BY InitInv DEF IInv
<1>2. QED
  BY <1>1, StepInv, PTL DEF Spec

(* What the invariant says of handlers is what ResumesTheSuspended counts. *)
LEMMA InvResumes == IInv => ResumesTheSuspended
<1> SUFFICES ASSUME Inv, ~beside PROVE ResumesTheSuspended
  BY DEF IInv, ResumesTheSuspended
<1>1. /\ recv_h # 0 => coro = "recv" /\ recv_h = calls /\ curr_match = ListOf(call)
      /\ res_h # 0 => coro = "response" /\ res_h = calls
                      /\ recving_res = [id |-> call.id, to |-> call.to]
      /\ wait_h # 0 => coro = "wait" /\ wait_h = calls
  BY DEF Inv, HandlersInv
<1>2. \A h \in waiting \cup expired :
        Current(h) => h.n = calls /\ h.op = coro /\ h.n = HandlerOf(h.op)
  BY DEF Inv, TimerInv
<1>3. Suspended => Len(posted) + Cardinality({recv_h, res_h, wait_h} \ {0}) = 1
  <2> SUFFICES ASSUME Suspended
               PROVE  Len(posted) + Cardinality({recv_h, res_h, wait_h} \ {0}) = 1
    OBVIOUS
  <2>1. CASE HandlerOf(coro) # 0 /\ posted = <<>>
    <3>1. PICK n : {recv_h, res_h, wait_h} \ {0} = {n}
      <4>1. CASE coro = "recv"
        <5>1. recv_h # 0
          BY <2>1, <4>1 DEF HandlerOf
        <5>2. {recv_h, res_h, wait_h} \ {0} = {recv_h}
          BY <5>1, OneHandler
        <5>3. QED
          BY <5>2
      <4>2. CASE coro = "response"
        <5>1. res_h # 0
          BY <2>1, <4>2 DEF HandlerOf
        <5>2. {recv_h, res_h, wait_h} \ {0} = {res_h}
          BY <5>1, OneHandler
        <5>3. QED
          BY <5>2
      <4>3. CASE coro = "wait"
        <5>1. wait_h # 0
          BY <2>1, <4>3 DEF HandlerOf
        <5>2. {recv_h, res_h, wait_h} \ {0} = {wait_h}
          BY <5>1, OneHandler
        <5>3. QED
          BY <5>2
      <4>4. QED
        BY <4>1, <4>2, <4>3 DEF Suspended
    <3>2. Cardinality({recv_h, res_h, wait_h} \ {0}) = 1
      BY <3>1, FS_Singleton
    <3>3. Len(posted) = 0
      BY <2>1
    <3>4. QED
      BY <3>2, <3>3
  <2>2. CASE /\ HandlerOf(coro) = 0
             /\ posted = <<[stop |-> FALSE, n |-> calls, v |-> posted[1].v]>>
    <3>1. {recv_h, res_h, wait_h} \ {0} = {}
      BY <2>2, OneHandler
    <3>2. Cardinality({recv_h, res_h, wait_h} \ {0}) = 0
      BY <3>1, FS_EmptySet
    <3>3. Len(posted) = 1
      BY <2>2
    <3>4. QED
      BY <3>2, <3>3
  <2>3. QED
    BY <2>1, <2>2 DEF Inv, PostedInv, Suspended
<1>4. posted # <<>> =>
        /\ Len(posted) = 1
        /\ IF Head(posted).stop THEN coro \in {"quit", "complete"}
           ELSE Suspended /\ Head(posted).n = calls
  <2>1. CASE coro \in {"quit", "complete"} /\ posted = <<[stop |-> TRUE]>>
    BY <2>1
  <2>2. CASE /\ Suspended
             /\ posted = <<[stop |-> FALSE, n |-> calls, v |-> posted[1].v]>>
    <3> DEFINE v == posted[1].v
    <3>1. posted = <<[stop |-> FALSE, n |-> calls, v |-> v]>>
      BY <2>2
    <3> HIDE DEF v
    <3> DEFINE p == [stop |-> FALSE, n |-> calls, v |-> v]
    <3>2. posted = <<p>> /\ p.stop = FALSE /\ p.n = calls
      BY <3>1
    <3> HIDE DEF p
    <3>3. Head(posted) = p /\ Len(posted) = 1
      BY <3>2
    <3>4. QED
      BY <2>2, <3>2, <3>3
  <2>3. QED
    BY <2>1, <2>2 DEF Inv, PostedInv
<1>5. QED
  BY <1>1, <1>2, <1>3, <1>4 DEF ResumesTheSuspended, HandlerOf

LEMMA InvOneActor == IInv => OneActorPerObject
<1> SUFFICES ASSUME Inv, ~beside PROVE OneActorPerObject
  BY DEF IInv, OneActorPerObject
<1> USE DEF This, Other, NoObject
<1> DEFINE In == (IF coro = "pooled" THEN {This} ELSE {}) \cup (IF other THEN {} ELSE {Other})
<1> DEFINE Size == (IF coro = "pooled" THEN 1 ELSE 0) + (IF other THEN 0 ELSE 1)
<1>1. ASSUME NEW x, NEW y, Chain = <<x, y>>
      PROVE  Len(Chain) = 2 /\ {Chain[i] : i \in 1..Len(Chain)} = {x, y}
  BY <1>1
<1>2. ASSUME NEW x, Chain = <<x>>
      PROVE  Len(Chain) = 1 /\ {Chain[i] : i \in 1..Len(Chain)} = {x}
  BY <1>2
<1>3. Chain = <<>> => Len(Chain) = 0 /\ {Chain[i] : i \in 1..Len(Chain)} = {}
  OBVIOUS
<1>4. CASE coro = "pooled" /\ ~other
  <2>1. Chain = <<This, Other>> \/ Chain = <<Other, This>>
    BY <1>4 DEF Inv, ListInv, Chain
  <2>2. Len(Chain) = 2 /\ {Chain[i] : i \in 1..Len(Chain)} = {This, Other}
    BY <1>1, <2>1
  <2>3. \A x \in {This, Other} : next[x] # x
    BY <1>4 DEF Inv, ListInv
  <2>4. QED
    BY <1>4, <2>2, <2>3 DEF OneActorPerObject
<1>5. CASE coro = "pooled" /\ other
  <2>1. Chain = <<This>>
    BY <1>5 DEF Inv, ListInv, Chain
  <2>2. Len(Chain) = 1 /\ {Chain[i] : i \in 1..Len(Chain)} = {This}
    BY <1>2, <2>1
  <2>3. \A x \in {This, Other} : next[x] # x
    BY <1>5 DEF Inv, ListInv
  <2>4. QED
    BY <1>5, <2>2, <2>3 DEF OneActorPerObject
<1>6. CASE coro # "pooled" /\ ~other
  <2>1. Chain = <<Other>>
    BY <1>6 DEF Inv, ListInv, Chain
  <2>2. Len(Chain) = 1 /\ {Chain[i] : i \in 1..Len(Chain)} = {Other}
    BY <1>2, <2>1
  <2>3. \A x \in {This, Other} : next[x] # x
    BY <1>6 DEF Inv, ListInv
  <2>4. QED
    BY <1>6, <2>2, <2>3 DEF OneActorPerObject
<1>7. CASE coro # "pooled" /\ other
  <2>1. Chain = <<>>
    BY <1>7 DEF Inv, ListInv, Chain
  <2>2. \A x \in {This, Other} : next[x] # x
    BY <1>7 DEF Inv, ListInv
  <2>3. QED
    BY <1>3, <1>7, <2>1, <2>2 DEF OneActorPerObject
<1>8. QED
  BY <1>4, <1>5, <1>6, <1>7 DEF Inv, ListInv

(* As long as nothing has run beside the strand, whatever may run the coroutine next ends   *)
(* the operation it is in, with the handler that this operation left: handle_recv, a timer  *)
(* that is current, or what was posted.                                                     *)
THEOREM HandlersEndTheirOperation == Spec => []ResumesTheSuspended
<1>1. IInv => ResumesTheSuspended
  BY InvResumes
<1>2. QED
  BY Invariance, <1>1, PTL

(* As long as nothing has run beside the strand, a receive returns what it asked for, a     *)
(* notification that does not end the actor, or its own time-out, and waits for nothing     *)
(* that is unread.                                                                          *)
THEOREM ReceivesAnswerTheirCall == Spec => [](NothingMissed /\ ReturnsWhatWasAsked)
<1>1. IInv => NothingMissed /\ ReturnsWhatWasAsked
  BY DEF IInv, Inv, NothingMissed, ReturnsWhatWasAsked
<1>2. QED
  BY Invariance, <1>1, PTL

(* As long as nothing has run beside the strand, each object is in the free list, once,     *)
(* exactly while no actor lives in it.                                                      *)
THEOREM FreedOnce == Spec => []OneActorPerObject
<1>1. IInv => OneActorPerObject
  BY InvOneActor
<1>2. QED
  BY Invariance, <1>1, PTL
=============================================================================
