------------------------- MODULE StackfulActorProofs -------------------------
(***************************************************************************)
(* The stackful actor for any number of operations, spawns, messages,      *)
(* peers and requests: resume finds the coroutine suspended in the         *)
(* operation it ends, nothing is missed while it is suspended, and nothing *)
(* of an actor, or meant for it, is left for the next one in its object.   *)
(***************************************************************************)
EXTENDS StackfulActor, TLAPS

-----------------------------------------------------------------------------
(* What push and the pops do to the mailbox: it stays one, and what a pop returns was
   asked for. *)
Boxes == [count : [Types -> Nat], exits : SUBSET Aids, answers : SUBSET ReqIds]

\* push leaves a mailbox.
LEMMA PushedType ==
  ASSUME NEW box \in Boxes, NEW pk \in Packs
  PROVE  Pushed(box, pk) \in Boxes
<1>1. CASE pk.kind = "message"
  <2>1. pk.type \in Types
    BY <1>1 DEF Packs
  <2> DEFINE c == [box.count EXCEPT ![pk.type] = @ + 1]
  <2>2. c \in [Types -> Nat]
    BY <2>1 DEF Boxes
  <2>3. Pushed(box, pk) = [box EXCEPT !.count = c]
    BY <1>1 DEF Pushed
  <2> HIDE DEF c
  <2>4. QED
    BY <2>2, <2>3 DEF Boxes
<1>2. CASE pk.kind = "exit"
  BY <1>2 DEF Pushed, Packs, Boxes
<1>3. CASE pk.kind = "response"
  BY <1>3 DEF Pushed, Packs, Boxes
<1>4. QED
  BY <1>1, <1>2, <1>3 DEF Packs

\* The type pop takes is one asked for, and has a message.
LEMMA MatchingHas ==
  ASSUME NEW box, NEW ml, NEW t \in Matching(box, ml)
  PROVE  /\ t \in Types \cup {Exit} /\ Has(box, t)
         /\ ml = <<>> \/ \E i \in 1..Len(ml) : ml[i] = t
<1>1. CASE ml = <<>>
  BY <1>1 DEF Matching
<1>2. CASE ml # <<>>
  BY <1>2 DEF Matching
<1>3. QED
  BY <1>1, <1>2

\* The pops leave a mailbox.
LEMMA TakenType ==
  ASSUME NEW box \in Boxes, NEW t \in Types \cup {Exit}, Has(box, t), NEW b \in Taken(box, t)
  PROVE  b \in Boxes
<1>1. CASE t = Exit
  BY <1>1 DEF Taken, Boxes
<1>2. CASE t # Exit
  <2>1. t \in Types /\ box.count[t] \in Nat /\ box.count[t] > 0
    BY <1>2 DEF Has, Boxes
  <2> DEFINE c == [box.count EXCEPT ![t] = @ - 1]
  <2>2. c \in [Types -> Nat]
    BY <2>1 DEF Boxes
  <2>3. b = [box EXCEPT !.count = c]
    BY <1>2 DEF Taken
  <2> HIDE DEF c
  <2>4. QED
    BY <2>2, <2>3 DEF Boxes
<1>3. QED
  BY <1>1, <1>2

LEMMA AnswerTakenType ==
  ASSUME NEW box \in Boxes, NEW id
  PROVE  AnswerTaken(box, id) \in Boxes
BY DEF AnswerTaken, Boxes

\* A response changes nothing that recv looks at.
LEMMA ResponseMatchesNothing ==
  ASSUME NEW box \in Boxes, NEW pk \in Packs, pk.kind = "response", NEW ml
  PROVE  Matching(Pushed(box, pk), ml) = Matching(box, ml)
<1>1. Pushed(box, pk) = [box EXCEPT !.answers = @ \cup {pk.id}]
  BY DEF Pushed
<1>2. Pushed(box, pk).count = box.count /\ Pushed(box, pk).exits = box.exits
  BY <1>1 DEF Boxes
<1>3. \A t : Has(Pushed(box, pk), t) = Has(box, t)
  BY <1>2 DEF Has
<1>4. QED
  BY <1>3 DEF Matching

\* A message, a request or an exit notification is no answer.
LEMMA MessageIsNoAnswer ==
  ASSUME NEW box \in Boxes, NEW pk \in Packs, pk.kind # "response"
  PROVE  Pushed(box, pk).answers = box.answers
<1>1. CASE pk.kind = "message"
  BY <1>1 DEF Pushed, Boxes
<1>2. CASE pk.kind = "exit"
  BY <1>2 DEF Pushed, Boxes
<1>3. QED
  BY <1>1, <1>2 DEF Packs

-----------------------------------------------------------------------------

Calls == RecvCalls \cup ResponseCalls

\* recving_ and responsing_ are true exactly while recv has yielded, with what it was
\* called with.
WaitInv ==
  /\ recving <=> coro = "recv"
  /\ responsing <=> coro = "response"
  /\ coro = "recv" => call \in RecvCalls /\ curr_match = call.match
  /\ coro = "response" => /\ call \in ResponseCalls
                          /\ recving_res = [id |-> call.id, to |-> call.to]
  /\ coro = "wait" => call = Wait
  /\ Suspended \/ coro = "async" => result = NoValue
  /\ posted = IF coro = "stop" THEN 1 ELSE 0

\* A current handler is the only one, and is that of the operation that has yielded.
TimerInv ==
  /\ waiting \cap expired = {}
  /\ \A h \in waiting \cup expired :
       h.sid <= tmr_sid /\ (Current(h) => Suspended /\ call.tmo = "finite" /\ h.n = calls)
  /\ \A g, h \in waiting \cup expired : Current(g) /\ Current(h) => g = h
  /\ Suspended /\ call.tmo = "finite" => \E h \in waiting \cup expired : Current(h)

\* Nobody knows the aid of an object in the pool.
LifeInv ==
  /\ \A k \in known : k <= sid
  /\ coro = "pooled" => sid \notin known /\ mb = NoneUnread

IInv == TypeOK /\ WaitInv /\ TimerInv /\ LifeInv /\ NothingMissed /\ ReturnsWhatWasAsked

-----------------------------------------------------------------------------
LEMMA InitInv == Init => IInv
<1> SUFFICES ASSUME Init PROVE IInv
  OBVIOUS
<1> USE DEF Init
<1>1. TypeOK
  BY DEF TypeOK, NoneUnread, NoResponse
<1>2. WaitInv /\ TimerInv /\ LifeInv
  BY DEF WaitInv, TimerInv, LifeInv, Suspended
<1>3. NothingMissed /\ ReturnsWhatWasAsked
  BY DEF NothingMissed, ReturnsWhatWasAsked
<1>4. QED
  BY <1>1, <1>2, <1>3 DEF IInv

(* Where the coroutine is not suspended, before and after, no handler is current. *)
LEMMA NotSuspendedTimerInv ==
  ASSUME IInv, ~Suspended, ~Suspended', UNCHANGED timerVars
  PROVE  TimerInv'
BY DEF IInv, TimerInv, timerVars, Current

(* The timer an operation starts is the only current one. *)
LEMMA StartRecvTimerInv ==
  ASSUME IInv, coro = "running", NEW n \in Nat, StartRecvTimer(n)
  PROVE  /\ tmr_sid' \in Nat /\ waiting' \subseteq Handlers /\ expired' \subseteq Handlers
         /\ waiting' \cap expired' = {}
         /\ \A h \in waiting' \cup expired' :
              h.sid <= tmr_sid' /\ (h.sid = tmr_sid' => h.n = n)
         /\ \A g, h \in waiting' \cup expired' :
              g.sid = tmr_sid' /\ h.sid = tmr_sid' => g = h
         /\ \E h \in waiting' \cup expired' : h.sid = tmr_sid'
<1> DEFINE new == [sid |-> tmr_sid + 1, n |-> n]
<1>1. tmr_sid \in Nat /\ tmr_sid' = tmr_sid + 1 /\ waiting' = {new} /\ expired' = expired
  BY DEF StartRecvTimer, IInv, TypeOK
<1>2. new \in Handlers /\ new.sid = tmr_sid' /\ new.n = n
  BY <1>1 DEF Handlers
<1>3. \A h \in expired : h \in Handlers /\ h.sid \in Nat /\ h.sid <= tmr_sid
  BY DEF IInv, TypeOK, TimerInv, Handlers
<1> HIDE DEF new
<1>4. \A h \in expired : h.sid # tmr_sid' /\ h.sid <= tmr_sid'
  BY <1>1, <1>3
<1>5. QED
  BY <1>1, <1>2, <1>3, <1>4

(* An operation that yields, with a timer or without one. *)
LEMMA YieldTimerInv ==
  ASSUME IInv, coro = "running", Suspended', calls' \in Nat,
         IF call'.tmo = "finite" THEN StartRecvTimer(calls') ELSE UNCHANGED timerVars
  PROVE  /\ tmr_sid' \in Nat /\ waiting' \subseteq Handlers /\ expired' \subseteq Handlers
         /\ TimerInv'
<1>1. CASE call'.tmo = "finite"
  BY <1>1, StartRecvTimerInv DEF TimerInv, Current
<1>2. CASE call'.tmo # "finite"
  <2>1. UNCHANGED timerVars /\ ~Suspended
    BY <1>2 DEF Suspended
  <2>2. QED
    BY <1>2, <2>1 DEF IInv, TypeOK, TimerInv, Current, timerVars
<1>3. QED
  BY <1>1, <1>2

(* The operations that end at once leave the coroutine running. *)
LEMMA AtOnceInv ==
  ASSUME IInv, NEW c \in Calls, Begin(c), NEW v, AtOnce(v), mb' \in Boxes,
         recving_res' \in [id : ReqIds, to : Aids] \cup {NoResponse},
         UNCHANGED <<lifeVars, recving, curr_match, responsing, timerVars>>,
         ReturnsWhatWasAsked'
  PROVE  IInv'
<1>1. coro = "running" /\ coro' = "running" /\ caller' = caller /\ calls' = calls + 1
  BY DEF Begin, AtOnce
<1>2. TypeOK'
  BY <1>1 DEF IInv, TypeOK, Boxes, lifeVars, timerVars
<1>3. WaitInv' /\ LifeInv' /\ NothingMissed'
  BY <1>1 DEF IInv, WaitInv, LifeInv, NothingMissed, Suspended, lifeVars
<1>4. TimerInv'
  BY <1>1, NotSuspendedTimerInv DEF Suspended
<1>5. QED
  BY <1>2, <1>3, <1>4 DEF IInv

LEMMA RecvInv ==
  ASSUME IInv, NEW c \in RecvCalls, Recv(c)
  PROVE  IInv'
<1>1. /\ Begin(c) /\ UNCHANGED lifeVars
      /\ coro = "running" /\ calls \in Nat /\ calls' = calls + 1 /\ call' = c
      /\ c \in Calls /\ c.op = "recv" /\ c.match \in MatchLists /\ mb \in Boxes
      /\ recving_res \in [id : ReqIds, to : Aids] \cup {NoResponse}
  BY DEF Recv, Begin, Calls, RecvCalls, IInv, TypeOK, Boxes
<1>2. ASSUME NEW t \in Matching(mb, c.match), mb' \in Taken(mb, t),
             AtOnce([ok |-> TRUE, by |-> "message", type |-> t]),
             UNCHANGED <<waitVars, timerVars>>
      PROVE  IInv'
  <2>1. mb' \in Boxes
    BY <1>1, <1>2, MatchingHas, TakenType
  <2>2. ReturnsWhatWasAsked'
    BY <1>1, <1>2, MatchingHas DEF ReturnsWhatWasAsked, AtOnce
  <2>3. QED
    BY <1>1, <1>2, <2>1, <2>2, AtOnceInv DEF waitVars
<1>3. ASSUME c.tmo = "zero", AtOnce([ok |-> FALSE, by |-> "message"]),
             UNCHANGED <<mb, waitVars, timerVars>>
      PROVE  IInv'
  <2>1. ReturnsWhatWasAsked'
    BY <1>1, <1>3 DEF ReturnsWhatWasAsked, AtOnce
  <2>2. QED
    BY <1>1, <1>3, <2>1, AtOnceInv DEF waitVars
<1>4. ASSUME Matching(mb, c.match) = {}, c.tmo # "zero",
             IF c.tmo = "finite" THEN StartRecvTimer(calls') ELSE UNCHANGED timerVars,
             recving' = TRUE, curr_match' = c.match, Yield("recv"),
             UNCHANGED <<mb, responsing, recving_res>>
      PROVE  IInv'
  <2>1. coro' = "recv" /\ caller' = "none" /\ result' = NoValue /\ Suspended'
    BY <1>4 DEF Yield, Suspended
  <2>2. /\ tmr_sid' \in Nat /\ waiting' \subseteq Handlers /\ expired' \subseteq Handlers
        /\ TimerInv'
    BY <1>1, <1>4, <2>1, YieldTimerInv
  <2>3. TypeOK'
    BY <1>1, <1>4, <2>1, <2>2 DEF IInv, TypeOK, lifeVars
  <2>4. WaitInv' /\ LifeInv'
    BY <1>1, <1>4, <2>1 DEF IInv, WaitInv, LifeInv, Suspended, lifeVars
  <2>5. NothingMissed' /\ ReturnsWhatWasAsked'
    BY <1>1, <1>4, <2>1 DEF NothingMissed, ReturnsWhatWasAsked
  <2>6. QED
    BY <2>2, <2>3, <2>4, <2>5 DEF IInv
<1>5. QED
  BY <1>2, <1>3, <1>4 DEF Recv

LEMMA RecvResponseInv ==
  ASSUME IInv, NEW c \in ResponseCalls, RecvResponse(c)
  PROVE  IInv'
<1>1. /\ Begin(c) /\ UNCHANGED <<lifeVars, recving, curr_match>>
      /\ coro = "running" /\ calls \in Nat /\ calls' = calls + 1 /\ call' = c
      /\ c \in Calls /\ c.op = "response" /\ c.id \in ReqIds /\ c.to \in Aids /\ mb \in Boxes
      /\ recving_res' = [id |-> c.id, to |-> c.to]
      /\ recving_res' \in [id : ReqIds, to : Aids] \cup {NoResponse}
  BY DEF RecvResponse, Begin, Calls, ResponseCalls, IInv, TypeOK, Boxes
<1>2. ASSUME mb' = AnswerTaken(mb, c.id),
             AtOnce([ok |-> TRUE, by |-> "answer", id |-> c.id]),
             UNCHANGED <<responsing, timerVars>>
      PROVE  IInv'
  <2>1. mb' \in Boxes
    BY <1>1, <1>2, AnswerTakenType
  <2>2. ReturnsWhatWasAsked'
    BY <1>1, <1>2 DEF ReturnsWhatWasAsked, AtOnce
  <2>3. QED
    BY <1>1, <1>2, <2>1, <2>2, AtOnceInv
<1>3. ASSUME c.tmo = "zero", AtOnce([ok |-> FALSE, by |-> "answer"]),
             UNCHANGED <<mb, responsing, timerVars>>
      PROVE  IInv'
  <2>1. ReturnsWhatWasAsked'
    BY <1>1, <1>3 DEF ReturnsWhatWasAsked, AtOnce
  <2>2. QED
    BY <1>1, <1>3, <2>1, AtOnceInv
<1>4. ASSUME ~Answered(mb, c.id, c.to), c.tmo # "zero",
             IF c.tmo = "finite" THEN StartRecvTimer(calls') ELSE UNCHANGED timerVars,
             responsing' = TRUE, Yield("response"), UNCHANGED mb
      PROVE  IInv'
  <2>1. coro' = "response" /\ caller' = "none" /\ result' = NoValue /\ Suspended'
    BY <1>4 DEF Yield, Suspended
  <2>2. /\ tmr_sid' \in Nat /\ waiting' \subseteq Handlers /\ expired' \subseteq Handlers
        /\ TimerInv'
    BY <1>1, <1>4, <2>1, YieldTimerInv
  <2>3. TypeOK'
    BY <1>1, <1>4, <2>1, <2>2 DEF IInv, TypeOK, lifeVars
  <2>4. WaitInv' /\ LifeInv'
    BY <1>1, <1>4, <2>1 DEF IInv, WaitInv, LifeInv, Suspended, lifeVars
  <2>5. NothingMissed' /\ ReturnsWhatWasAsked'
    BY <1>1, <1>4, <2>1 DEF NothingMissed, ReturnsWhatWasAsked, Answered
  <2>6. QED
    BY <2>2, <2>3, <2>4, <2>5 DEF IInv
<1>5. QED
  BY <1>1, <1>2, <1>3, <1>4 DEF RecvResponse

LEMMA WaitForInv ==
  ASSUME IInv, WaitFor
  PROVE  IInv'
<1>1. /\ coro = "running" /\ calls \in Nat /\ calls' = calls + 1 /\ call' = Wait
      /\ StartRecvTimer(calls') /\ UNCHANGED <<lifeVars, mb, waitVars>>
      /\ coro' = "wait" /\ caller' = "none" /\ result' = NoValue /\ Suspended'
  BY DEF WaitFor, Begin, Yield, Suspended, IInv, TypeOK
<1>2. /\ tmr_sid' \in Nat /\ waiting' \subseteq Handlers /\ expired' \subseteq Handlers
      /\ TimerInv'
  BY <1>1, YieldTimerInv DEF Wait
<1>3. TypeOK'
  BY <1>1, <1>2 DEF IInv, TypeOK, lifeVars, waitVars
<1>4. WaitInv' /\ LifeInv'
  BY <1>1 DEF IInv, WaitInv, LifeInv, Suspended, lifeVars, waitVars
<1>5. NothingMissed' /\ ReturnsWhatWasAsked'
  BY <1>1 DEF NothingMissed, ReturnsWhatWasAsked
<1>6. QED
  BY <1>2, <1>3, <1>4, <1>5 DEF IInv

(* The user's asynchronous operations. *)
LEMMA AsyncInv ==
  ASSUME IInv, AsyncBegin \/ AsyncEnd
  PROVE  IInv'
<1>1. UNCHANGED <<lifeVars, mb, waitVars, timerVars>>
  BY DEF AsyncBegin, AsyncEnd
<1>2. \/ /\ coro = "running" /\ coro' = "async" /\ caller' = "none" /\ result' = NoValue
         /\ calls' = calls + 1
      \/ /\ coro = "async" /\ coro' = "running" /\ caller' = "asio" /\ calls' = calls
         /\ result' = result /\ result = NoValue
  BY DEF AsyncBegin, AsyncEnd, Begin, Yield, callVars, IInv, WaitInv
<1>3. TypeOK'
  BY <1>1, <1>2 DEF IInv, TypeOK, lifeVars, waitVars, timerVars
<1>4. WaitInv' /\ LifeInv'
  BY <1>1, <1>2 DEF IInv, WaitInv, LifeInv, Suspended, lifeVars, waitVars
<1>5. TimerInv'
  BY <1>1, <1>2, NotSuspendedTimerInv DEF Suspended
<1>6. NothingMissed' /\ ReturnsWhatWasAsked'
  BY <1>2 DEF NothingMissed, ReturnsWhatWasAsked
<1>7. QED
  BY <1>3, <1>4, <1>5, <1>6 DEF IInv

(* What ends a wait moves tmr_sid_ past every handler there is. *)
LEMMA CancelTimerInv ==
  ASSUME IInv, CancelTimer, ~Suspended'
  PROVE  /\ tmr_sid' \in Nat /\ waiting' \subseteq Handlers /\ expired' \subseteq Handlers
         /\ TimerInv'
<1>1. tmr_sid \in Nat /\ tmr_sid' = tmr_sid + 1 /\ waiting' = {} /\ expired' = expired
      /\ \A h \in expired : h \in Handlers /\ h.sid \in Nat /\ h.sid <= tmr_sid
  BY DEF CancelTimer, IInv, TypeOK, TimerInv, Handlers
<1>2. \A h \in expired : h.sid # tmr_sid' /\ h.sid <= tmr_sid'
  BY <1>1
<1>3. QED
  BY <1>1, <1>2 DEF TimerInv, Current

(* resume of a coroutine that is suspended in an operation. *)
LEMMA ResumeInv ==
  ASSUME IInv, Suspended, NEW v, Resume(v), UNCHANGED <<lifeVars, callVars>>, mb' \in Boxes
  PROVE  /\ coro' = "running" /\ caller' = "resume" /\ result' = v /\ ~Suspended'
         /\ recving' \in BOOLEAN /\ responsing' \in BOOLEAN
         /\ WaitInv' /\ LifeInv' /\ NothingMissed'
BY DEF Resume, Suspended, lifeVars, callVars, IInv, WaitInv, LifeInv, NothingMissed

(* A pack that resumes nothing leaves everything but the mailbox as it is. *)
LEMMA PushedInv ==
  ASSUME IInv, mb' \in Boxes, NothingMissed', coro = "pooled" => mb' = mb,
         UNCHANGED <<lifeVars, coro, caller, callVars, result, waitVars, timerVars>>
  PROVE  IInv'
<1> USE DEF lifeVars, callVars, waitVars, timerVars
<1>1. TypeOK'
  BY DEF IInv, TypeOK, Boxes
<1>2. WaitInv' /\ LifeInv' /\ ReturnsWhatWasAsked'
  BY DEF IInv, WaitInv, LifeInv, Suspended, ReturnsWhatWasAsked
<1>3. TimerInv'
  BY DEF IInv, TimerInv, Current, Suspended
<1>4. QED
  BY <1>1, <1>2, <1>3 DEF IInv

LEMMA HandleRecvInv ==
  ASSUME IInv, NEW pk \in Packs, NEW to \in known, HandleRecv(pk, to)
  PROVE  IInv'
<1> DEFINE box == Pushed(mb, pk)
<1>1. mb \in Boxes /\ box \in Boxes /\ box.answers = mb.answers /\ pk.kind # "response"
      /\ UNCHANGED <<lifeVars, callVars>> /\ coro # "pooled"
  BY PushedType, MessageIsNoAnswer DEF IInv, TypeOK, Boxes, HandleRecv, Check, LifeInv
<1> HIDE DEF box
<1>2. CASE /\ Wakes(box) = {} /\ mb' = box
           /\ UNCHANGED <<coro, caller, result, waitVars, timerVars>>
  <2>1. NothingMissed'
    BY <1>1, <1>2 DEF IInv, NothingMissed, Wakes, WaitInv, waitVars, callVars
  <2>2. QED
    BY <1>1, <1>2, <2>1, PushedInv
<1>3. ASSUME NEW t \in Wakes(box), mb' \in Taken(box, t), curr_match' = <<>>, CancelTimer,
             Resume([ok |-> TRUE, by |-> "message", type |-> t]), UNCHANGED recving_res
      PROVE  IInv'
  <2>1. /\ recving /\ t \in Matching(box, curr_match)
        /\ coro = "recv" /\ call.op = "recv" /\ curr_match = call.match
    BY <1>3 DEF Wakes, IInv, WaitInv, RecvCalls
  <2>2. mb' \in Boxes
    BY <1>1, <1>3, <2>1, MatchingHas, TakenType
  <2>3. /\ coro' = "running" /\ caller' = "resume" /\ ~Suspended'
        /\ result' = [ok |-> TRUE, by |-> "message", type |-> t]
        /\ recving' \in BOOLEAN /\ responsing' \in BOOLEAN
        /\ WaitInv' /\ LifeInv' /\ NothingMissed'
    BY <1>1, <1>3, <2>1, <2>2, ResumeInv DEF Suspended
  <2>4. /\ tmr_sid' \in Nat /\ waiting' \subseteq Handlers /\ expired' \subseteq Handlers
        /\ TimerInv'
    BY <1>3, <2>3, CancelTimerInv
  <2>5. TypeOK'
    BY <1>1, <1>3, <2>2, <2>3, <2>4 DEF IInv, TypeOK, Boxes, lifeVars, callVars
  <2>6. ReturnsWhatWasAsked'
    BY <1>1, <2>1, <2>3, MatchingHas DEF ReturnsWhatWasAsked, callVars
  <2>7. QED
    BY <2>3, <2>4, <2>5, <2>6 DEF IInv
<1>4. QED
  BY <1>1, <1>2, <1>3 DEF HandleRecv, box

LEMMA HandleResponseInv ==
  ASSUME IInv, NEW pk \in Packs, NEW to \in known, HandleResponse(pk, to)
  PROVE  IInv'
<1> DEFINE box == Pushed(mb, pk)
<1>1. /\ mb \in Boxes /\ box \in Boxes
      /\ Matching(box, call.match) = Matching(mb, call.match)
      /\ UNCHANGED <<lifeVars, callVars>> /\ coro # "pooled"
  BY PushedType, ResponseMatchesNothing
     DEF IInv, TypeOK, Boxes, HandleResponse, Check, LifeInv
<1> HIDE DEF box
<1>2. CASE /\ ~(responsing /\ Answered(box, recving_res.id, recving_res.to)) /\ mb' = box
           /\ UNCHANGED <<coro, caller, result, waitVars, timerVars>>
  <2>1. NothingMissed'
    BY <1>1, <1>2 DEF IInv, NothingMissed, Answered, WaitInv, waitVars, callVars
  <2>2. QED
    BY <1>1, <1>2, <2>1, PushedInv
<1>3. CASE /\ responsing /\ mb' = AnswerTaken(box, recving_res.id) /\ CancelTimer
           /\ Resume([ok |-> TRUE, by |-> "answer", id |-> recving_res.id])
           /\ recving_res' = NoResponse /\ UNCHANGED curr_match
  <2>1. coro = "response" /\ call.op = "response" /\ recving_res.id = call.id
    BY <1>3 DEF IInv, WaitInv, ResponseCalls
  <2>2. mb' \in Boxes
    BY <1>1, <1>3, AnswerTakenType
  <2>3. /\ coro' = "running" /\ caller' = "resume" /\ ~Suspended'
        /\ result' = [ok |-> TRUE, by |-> "answer", id |-> recving_res.id]
        /\ recving' \in BOOLEAN /\ responsing' \in BOOLEAN
        /\ WaitInv' /\ LifeInv' /\ NothingMissed'
    BY <1>1, <1>3, <2>1, <2>2, ResumeInv DEF Suspended
  <2>4. /\ tmr_sid' \in Nat /\ waiting' \subseteq Handlers /\ expired' \subseteq Handlers
        /\ TimerInv'
    BY <1>3, <2>3, CancelTimerInv
  <2>5. TypeOK'
    BY <1>1, <1>3, <2>2, <2>3, <2>4 DEF IInv, TypeOK, Boxes, lifeVars, callVars
  <2>6. ReturnsWhatWasAsked'
    BY <1>1, <2>1, <2>3 DEF ReturnsWhatWasAsked, callVars
  <2>7. QED
    BY <2>3, <2>4, <2>5, <2>6 DEF IInv
<1>4. QED
  BY <1>1, <1>2, <1>3 DEF HandleResponse, box

LEMMA ExpireInv ==
  ASSUME IInv, Expire
  PROVE  IInv'
<1> USE DEF Expire, lifeVars, callVars, waitVars
<1>1. TypeOK'
  BY DEF IInv, TypeOK
<1>2. WaitInv' /\ LifeInv' /\ NothingMissed' /\ ReturnsWhatWasAsked'
  BY DEF IInv, WaitInv, LifeInv, Suspended, NothingMissed, ReturnsWhatWasAsked
<1>3. TimerInv'
  <2>1. waiting' \cup expired' = waiting \cup expired
    OBVIOUS
  <2>2. QED
    BY <2>1 DEF IInv, TimerInv, Current, Suspended
<1>4. QED
  BY <1>1, <1>2, <1>3 DEF IInv

(* A current handler finds its own operation suspended; no other is current. *)
LEMMA HandleTimeoutInv ==
  ASSUME IInv, NEW h \in expired, HandleTimeout(h)
  PROVE  IInv'
<1>1. /\ expired' = expired \ {h}
      /\ UNCHANGED <<lifeVars, mb, callVars, curr_match, recving_res, tmr_sid, waiting>>
  BY DEF HandleTimeout
<1>2. CASE ~Current(h) /\ UNCHANGED <<coro, caller, result, recving, responsing>>
  <2> USE <1>1, <1>2 DEF lifeVars, callVars
  <2>1. TypeOK'
    BY DEF IInv, TypeOK
  <2>2. WaitInv' /\ LifeInv' /\ NothingMissed' /\ ReturnsWhatWasAsked'
    BY DEF IInv, WaitInv, LifeInv, Suspended, NothingMissed, ReturnsWhatWasAsked
  <2>3. TimerInv'
    BY DEF IInv, TimerInv, Current, Suspended
  <2>4. QED
    BY <2>1, <2>2, <2>3 DEF IInv
<1>3. CASE Current(h) /\ Resume([ok |-> FALSE, by |-> "timeout"])
  <2>1. Suspended /\ call.tmo = "finite" /\ mb' \in Boxes
    BY <1>1, <1>3 DEF IInv, TimerInv, TypeOK, Boxes
  <2>2. \A g \in waiting' \cup expired' : ~Current(g)
    BY <1>1, <1>3 DEF IInv, TimerInv
  <2>3. /\ coro' = "running" /\ caller' = "resume" /\ ~Suspended'
        /\ result' = [ok |-> FALSE, by |-> "timeout"]
        /\ recving' \in BOOLEAN /\ responsing' \in BOOLEAN
        /\ WaitInv' /\ LifeInv' /\ NothingMissed'
    BY <1>1, <1>3, <2>1, ResumeInv
  <2>4. TypeOK'
    BY <1>1, <2>3 DEF IInv, TypeOK, lifeVars, callVars
  <2>5. TimerInv'
    BY <1>1, <2>2, <2>3 DEF IInv, TimerInv, Current
  <2>6. ReturnsWhatWasAsked'
    BY <1>1, <2>1, <2>3 DEF ReturnsWhatWasAsked, callVars
  <2>7. QED
    BY <2>3, <2>4, <2>5, <2>6 DEF IInv
<1>4. QED
  BY <1>2, <1>3 DEF HandleTimeout

-----------------------------------------------------------------------------
(* The life of the object. *)

LEMMA SpawnInv ==
  ASSUME IInv, Spawn
  PROVE  IInv'
<1> USE DEF Spawn, callVars, waitVars
<1>1. TypeOK' /\ WaitInv'
  BY DEF IInv, TypeOK, WaitInv, Suspended, timerVars
<1>2. LifeInv' /\ NothingMissed' /\ ReturnsWhatWasAsked'
  BY DEF IInv, TypeOK, LifeInv, NothingMissed, ReturnsWhatWasAsked
<1>3. TimerInv'
  BY NotSuspendedTimerInv DEF Suspended
<1>4. QED
  BY <1>1, <1>2, <1>3 DEF IInv

LEMMA RunInv ==
  ASSUME IInv, Run
  PROVE  IInv'
<1> USE DEF Run, lifeVars, waitVars
<1>1. TypeOK' /\ WaitInv'
  BY DEF IInv, TypeOK, WaitInv, Suspended, timerVars
<1>2. LifeInv' /\ NothingMissed' /\ ReturnsWhatWasAsked'
  BY DEF IInv, LifeInv, NothingMissed, ReturnsWhatWasAsked
<1>3. TimerInv'
  BY NotSuspendedTimerInv DEF Suspended
<1>4. QED
  BY <1>1, <1>2, <1>3 DEF IInv

LEMMA ReturnInv ==
  ASSUME IInv, Return
  PROVE  IInv'
<1> USE DEF Return, Yield, waitVars
<1>1. TypeOK' /\ WaitInv'
  BY DEF IInv, TypeOK, WaitInv, Suspended, timerVars
<1>2. LifeInv' /\ NothingMissed' /\ ReturnsWhatWasAsked'
  BY DEF IInv, LifeInv, NothingMissed, ReturnsWhatWasAsked
<1>3. TimerInv'
  BY NotSuspendedTimerInv DEF Suspended
<1>4. QED
  BY <1>1, <1>2, <1>3 DEF IInv

(* free_self, whoever ended the coroutine: the next aid is one nobody knows. *)
LEMMA FreeSelfInv ==
  ASSUME IInv, ~Suspended, FreeSelf, posted' = 0
  PROVE  IInv'
<1> USE DEF FreeSelf, NewAid, OnFree
<1>1. TypeOK'
  <2>1. NoneUnread \in [count : [Types -> Nat], exits : SUBSET Aids, answers : SUBSET ReqIds]
    BY DEF NoneUnread
  <2>2. sid' \in Nat /\ known' \subseteq Nat /\ posted' \in Nat /\ calls' \in Nat
    BY DEF IInv, TypeOK
  <2>3. /\ tmr_sid' \in Nat /\ waiting' \subseteq Handlers /\ expired' \subseteq Handlers
    BY DEF IInv, TypeOK, timerVars
  <2>4. /\ coro' = "pooled" /\ caller' = "none" /\ mb' = NoneUnread
        /\ recving' = FALSE /\ responsing' = FALSE
        /\ curr_match' = <<>> /\ recving_res' = NoResponse
    OBVIOUS
  <2>5. QED
    BY <2>1, <2>2, <2>3, <2>4 DEF TypeOK
<1>2. WaitInv'
  BY DEF WaitInv, Suspended
<1>3. LifeInv'
  BY DEF IInv, TypeOK, LifeInv
<1>4. NothingMissed' /\ ReturnsWhatWasAsked'
  BY DEF NothingMissed, ReturnsWhatWasAsked
<1>5. TimerInv'
  BY NotSuspendedTimerInv DEF Suspended
<1>6. QED
  BY <1>1, <1>2, <1>3, <1>4, <1>5 DEF IInv

LEMMA ResumePostedInv ==
  ASSUME IInv, ResumePosted
  PROVE  IInv'
<1>1. coro = "stop" /\ posted = 1 /\ posted' = 0
  BY DEF ResumePosted, IInv, WaitInv
<1>2. QED
  BY <1>1, FreeSelfInv DEF ResumePosted, Suspended

LEMMA ThrowInv ==
  ASSUME IInv, Throw
  PROVE  IInv'
<1>1. coro = "running" /\ posted = 0
  BY DEF Throw, IInv, WaitInv
<1>2. CASE FreeSelf /\ UNCHANGED posted
  BY <1>1, <1>2, FreeSelfInv DEF Suspended
<1>3. CASE /\ coro' = "off" /\ caller' = "none"
           /\ UNCHANGED <<lifeVars, mb, callVars, result, waitVars, timerVars>>
  <2> USE <1>1, <1>3 DEF lifeVars, callVars, waitVars
  <2>1. TypeOK' /\ WaitInv'
    BY DEF IInv, TypeOK, WaitInv, Suspended, timerVars
  <2>2. LifeInv' /\ NothingMissed' /\ ReturnsWhatWasAsked'
    BY DEF IInv, LifeInv, NothingMissed, ReturnsWhatWasAsked
  <2>3. TimerInv'
    BY NotSuspendedTimerInv DEF Suspended
  <2>4. QED
    BY <2>1, <2>2, <2>3 DEF IInv
<1>4. QED
  BY <1>2, <1>3 DEF Throw

-----------------------------------------------------------------------------
LEMMA StepInv == IInv /\ [Next]_vars => IInv'
<1> SUFFICES ASSUME IInv, [Next]_vars PROVE IInv'
  OBVIOUS
<1>1. CASE UserCode
  BY <1>1, RecvInv, RecvResponseInv, WaitForInv, AsyncInv, ReturnInv, ThrowInv DEF UserCode
<1>2. CASE AsyncEnd
  BY <1>2, AsyncInv
<1>3. CASE Receive
  BY <1>3, HandleRecvInv, HandleResponseInv DEF Receive
<1>4. CASE Timeout
  BY <1>4, ExpireInv, HandleTimeoutInv DEF Timeout
<1>5. CASE Spawn \/ Run \/ ResumePosted
  BY <1>5, SpawnInv, RunInv, ResumePostedInv
<1>6. CASE UNCHANGED vars
  <2>1. mb' \in Boxes /\ NothingMissed'
    BY <1>6 DEF IInv, TypeOK, Boxes, NothingMissed, vars, callVars
  <2>2. QED
    BY <1>6, <2>1, PushedInv DEF vars
<1>7. QED
  BY <1>1, <1>2, <1>3, <1>4, <1>5, <1>6 DEF Next

LEMMA Invariant == Spec => []IInv
BY InitInv, StepInv, PTL DEF Spec

(* For any number of operations and spawns, whatever may call resume finds the     *)
(* coroutine suspended in the operation it ends, and a suspended one has something *)
(* that resumes it.                                                                *)
THEOREM ResumeFindsItsWait == Spec => [](TypeOK /\ ResumesTheSuspended /\ Remembered)
<1>1. IInv => TypeOK /\ ResumesTheSuspended /\ Remembered
  BY DEF IInv, WaitInv, TimerInv, ResumesTheSuspended, Remembered
<1>2. QED
  BY <1>1, Invariant, PTL

(* For any number of operations and messages, a suspended receive misses nothing it *)
(* waits for, and a receive returns what it asked for or for a reason it allowed.   *)
THEOREM ReceivesAnswerTheirCall == Spec => [](NothingMissed /\ ReturnsWhatWasAsked)
<1>1. IInv => NothingMissed /\ ReturnsWhatWasAsked
  BY DEF IInv
<1>2. QED
  BY <1>1, Invariant, PTL

(* However often the object is used, an actor leaves nothing behind in it and gets   *)
(* nothing that is sent to it once it has been freed.                                *)
THEOREM NextActorStartsClean == Spec => []NothingLeftBehind
<1>1. IInv => NothingLeftBehind
  BY DEF IInv, LifeInv, NothingLeftBehind
<1>2. QED
  BY <1>1, Invariant, PTL
=============================================================================
