------------------------- MODULE ThreadedActorProofs -------------------------
(***************************************************************************)
(* The blocking receives for any number of calls, messages, peers and      *)
(* requests: promises outlive nobody's pointer to them, a blocked thread   *)
(* is remembered, nothing it waits for is missed, and a call returns what  *)
(* it asked for.                                                           *)
(***************************************************************************)
EXTENDS ThreadedActor, TLAPS

-----------------------------------------------------------------------------
(* What push and the pops do to the mailbox: it stays one, and what a pop returns was
   asked for. *)
Boxes == [count : [Types -> Nat], exits : SUBSET Aids, answers : SUBSET ReqIds]

\* push leaves a mailbox.
LEMMA PushedType ==
  ASSUME NEW box \in Boxes, NEW pk \in Packs
  PROVE  Pushed(box, pk) \in Boxes
<1>1. CASE pk.kind = "message"
  <2>1. pk.type \in Types
    BY <1>1 DEF Packs
  <2> DEFINE c == [box.count EXCEPT ![pk.type] = @ + 1]
  <2>2. c \in [Types -> Nat]
    BY <2>1 DEF Boxes
  <2>3. Pushed(box, pk) = [box EXCEPT !.count = c]
    BY <1>1 DEF Pushed
  <2> HIDE DEF c
  <2>4. QED
    BY <2>2, <2>3 DEF Boxes
<1>2. CASE pk.kind = "exit"
  BY <1>2 DEF Pushed, Packs, Boxes
<1>3. CASE pk.kind = "response"
  BY <1>3 DEF Pushed, Packs, Boxes
<1>4. QED
  BY <1>1, <1>2, <1>3 DEF Packs

\* The type pop takes is one asked for, and has a message.
LEMMA MatchingHas ==
  ASSUME NEW box, NEW ml, NEW t \in Matching(box, ml)
  PROVE  /\ t \in Types \cup {Exit} /\ Has(box, t)
         /\ ml = <<>> \/ \E i \in 1..Len(ml) : ml[i] = t
<1>1. CASE ml = <<>>
  BY <1>1 DEF Matching
<1>2. CASE ml # <<>>
  BY <1>2 DEF Matching
<1>3. QED
  BY <1>1, <1>2

\* The pops leave a mailbox.
LEMMA TakenType ==
  ASSUME NEW box \in Boxes, NEW t \in Types \cup {Exit}, Has(box, t), NEW b \in Taken(box, t)
  PROVE  b \in Boxes
<1>1. CASE t = Exit
  BY <1>1 DEF Taken, Boxes
<1>2. CASE t # Exit
  <2>1. t \in Types /\ box.count[t] \in Nat /\ box.count[t] > 0
    BY <1>2 DEF Has, Boxes
  <2> DEFINE c == [box.count EXCEPT ![t] = @ - 1]
  <2>2. c \in [Types -> Nat]
    BY <2>1 DEF Boxes
  <2>3. b = [box EXCEPT !.count = c]
    BY <1>2 DEF Taken
  <2> HIDE DEF c
  <2>4. QED
    BY <2>2, <2>3 DEF Boxes
<1>3. QED
  BY <1>1, <1>2

LEMMA AnswerTakenType ==
  ASSUME NEW box \in Boxes, NEW id
  PROVE  AnswerTaken(box, id) \in Boxes
BY DEF AnswerTaken, Boxes

\* A response changes nothing that recv looks at.
LEMMA ResponseMatchesNothing ==
  ASSUME NEW box \in Boxes, NEW pk \in Packs, pk.kind = "response", NEW ml
  PROVE  Matching(Pushed(box, pk), ml) = Matching(box, ml)
<1>1. Pushed(box, pk) = [box EXCEPT !.answers = @ \cup {pk.id}]
  BY DEF Pushed
<1>2. Pushed(box, pk).count = box.count /\ Pushed(box, pk).exits = box.exits
  BY <1>1 DEF Boxes
<1>3. \A t : Has(Pushed(box, pk), t) = Has(box, t)
  BY <1>2 DEF Has
<1>4. QED
  BY <1>3 DEF Matching

\* A message, a request or an exit notification is no answer.
LEMMA MessageIsNoAnswer ==
  ASSUME NEW box \in Boxes, NEW pk \in Packs, pk.kind # "response"
  PROVE  Pushed(box, pk).answers = box.answers
<1>1. CASE pk.kind = "message"
  BY <1>1 DEF Pushed, Boxes
<1>2. CASE pk.kind = "exit"
  BY <1>2 DEF Pushed, Boxes
<1>3. QED
  BY <1>1, <1>2 DEF Packs

-----------------------------------------------------------------------------

Calls == RecvCalls \cup ResponseCalls

\* The thread is blocked, and on the strand the actor waits for its call.
WaitsFor(op) == thread = "waiting" /\ call.op = op

\* recv_p_ and res_p_ are set exactly while try_recv or try_response has blocked the
\* thread, with what the call asks for.
WaitInv ==
  /\ thread # "running" => call \in Calls /\ calls > 0
  /\ recv_p = IF WaitsFor("recv") THEN calls ELSE NoPromise
  /\ WaitsFor("recv") => curr_match = call.match
  /\ res_p = IF WaitsFor("response") THEN calls ELSE NoPromise
  /\ WaitsFor("response") => recving_res = [id |-> call.id, to |-> call.to]

\* A current handler is the only one, and is that of the call the thread is in.
TimerInv ==
  /\ waiting \cap expired = {}
  /\ \A h \in waiting \cup expired :
       /\ h.sid <= tmr_sid
       /\ Current(h) => /\ thread = "waiting" /\ call.tmo = "finite"
                        /\ h.op = call.op /\ h.p = calls
  /\ \A g, h \in waiting \cup expired : Current(g) /\ Current(h) => g = h
  /\ thread = "waiting" /\ call.tmo = "finite" => \E h \in waiting \cup expired : Current(h)

IInv == TypeOK /\ WaitInv /\ TimerInv /\ NothingMissed /\ ReturnsWhatWasAsked

-----------------------------------------------------------------------------
LEMMA InitInv == Init => IInv
<1> SUFFICES ASSUME Init PROVE IInv
  OBVIOUS
<1> USE DEF Init
<1>1. TypeOK
  BY DEF TypeOK, NoneUnread, NoCall, NoResponse, NoPromise
<1>2. WaitInv /\ TimerInv
  BY DEF WaitInv, TimerInv, WaitsFor
<1>3. NothingMissed /\ ReturnsWhatWasAsked
  BY DEF NothingMissed, ReturnsWhatWasAsked
<1>4. QED
  BY <1>1, <1>2, <1>3 DEF IInv

(* The thread's own steps: nobody waits, so no handler is current. *)
LEMMA CallInv ==
  ASSUME IInv, NEW c \in Calls, Call(c)
  PROVE  IInv'
<1> USE DEF IInv, Call, waitVars, timerVars
<1>1. TypeOK'
  BY DEF TypeOK, Calls
<1>2. WaitInv'
  BY DEF WaitInv, WaitsFor, TypeOK
<1>3. TimerInv'
  BY DEF TimerInv, Current
<1>4. NothingMissed' /\ ReturnsWhatWasAsked'
  BY DEF NothingMissed, ReturnsWhatWasAsked, WaitInv, WaitsFor
<1>5. QED
  BY <1>1, <1>2, <1>3, <1>4

LEMMA ReturnInv ==
  ASSUME IInv, Return
  PROVE  IInv'
<1> USE DEF IInv, Return, waitVars, timerVars
<1>1. TypeOK'
  BY DEF TypeOK
<1>2. WaitInv'
  BY DEF WaitInv, WaitsFor
<1>3. TimerInv'
  BY DEF TimerInv, Current
<1>4. NothingMissed' /\ ReturnsWhatWasAsked'
  BY DEF NothingMissed, ReturnsWhatWasAsked, WaitInv, WaitsFor
<1>5. QED
  BY <1>1, <1>2, <1>3, <1>4

(* try_recv and try_response find what they want, or give up, or begin to wait.  *)
(* The timer they start is the only current one.                                 *)
LEMMA StartRecvTimerInv ==
  ASSUME IInv, thread = "posted", StartRecvTimer
  PROVE  /\ tmr_sid' \in Nat /\ waiting' \subseteq Handlers /\ expired' \subseteq Handlers
         /\ waiting' \cap expired' = {}
         /\ \A h \in waiting' \cup expired' :
              /\ h.sid <= tmr_sid'
              /\ h.sid = tmr_sid' => h.op = call.op /\ h.p = calls
         /\ \A g, h \in waiting' \cup expired' :
              g.sid = tmr_sid' /\ h.sid = tmr_sid' => g = h
         /\ \E h \in waiting' \cup expired' : h.sid = tmr_sid'
<1> DEFINE new == [sid |-> tmr_sid + 1, op |-> call.op, p |-> calls]
<1>1. tmr_sid \in Nat /\ tmr_sid' = tmr_sid + 1 /\ waiting' = {new} /\ expired' = expired
  BY DEF StartRecvTimer, IInv, TypeOK
<1>2. call.op \in {"recv", "response"} /\ calls \in Nat
  BY DEF IInv, WaitInv, TypeOK, Calls, RecvCalls, ResponseCalls
<1>3. new \in Handlers /\ new.sid = tmr_sid' /\ new.op = call.op /\ new.p = calls
  BY <1>1, <1>2 DEF Handlers
<1>4. \A h \in expired : h \in Handlers /\ h.sid \in Nat /\ h.sid <= tmr_sid
  BY DEF IInv, TypeOK, TimerInv, Handlers
<1> HIDE DEF new
<1>5. \A h \in expired : h.sid # tmr_sid' /\ h.sid <= tmr_sid'
  BY <1>1, <1>4
<1>6. QED
  BY <1>1, <1>3, <1>4, <1>5

LEMMA TryRecvInv ==
  ASSUME IInv, TryRecv
  PROVE  IInv'
<1>1. /\ thread = "posted" /\ call.op = "recv" /\ call \in RecvCalls
      /\ calls \in Nat /\ calls > 0
      /\ calls' = calls /\ call' = call
      /\ recv_p = NoPromise /\ res_p = NoPromise
  BY DEF TryRecv, IInv, WaitInv, WaitsFor, Calls, RecvCalls, ResponseCalls, TypeOK
<1>2. CASE UNCHANGED <<waitVars, timerVars>> /\ thread' = "ready" /\ mb' \in Boxes
           /\ ReturnsWhatWasAsked'
  <2> USE <1>1, <1>2 DEF waitVars, timerVars
  <2>1. TypeOK'
    BY DEF IInv, TypeOK, Boxes
  <2>2. WaitInv'
    BY DEF IInv, WaitInv, WaitsFor
  <2>3. TimerInv'
    BY DEF IInv, TimerInv, Current
  <2>4. NothingMissed'
    BY DEF NothingMissed
  <2>5. QED
    BY <2>1, <2>2, <2>3, <2>4 DEF IInv
<1>3. ASSUME NEW t \in Matching(mb, call.match), mb' \in Taken(mb, t),
             SetValue([ok |-> TRUE, by |-> "message", type |-> t]),
             UNCHANGED <<waitVars, timerVars>>
      PROVE  IInv'
  <2>1. mb' \in Boxes
    BY <1>3, MatchingHas, TakenType DEF IInv, TypeOK, Boxes
  <2>2. ReturnsWhatWasAsked'
    BY <1>1, <1>3, MatchingHas DEF ReturnsWhatWasAsked, SetValue
  <2>3. QED
    BY <1>2, <1>3, <2>1, <2>2 DEF SetValue
<1>4. ASSUME call.tmo = "zero", SetValue([ok |-> FALSE, by |-> "message"]),
             UNCHANGED <<mb, waitVars, timerVars>>
      PROVE  IInv'
  <2>1. mb' \in Boxes
    BY <1>4 DEF IInv, TypeOK, Boxes
  <2>2. ReturnsWhatWasAsked'
    BY <1>1, <1>4 DEF ReturnsWhatWasAsked, SetValue
  <2>3. QED
    BY <1>2, <1>4, <2>1, <2>2 DEF SetValue
<1>5. ASSUME Matching(mb, call.match) = {}, call.tmo # "zero",
             IF call.tmo = "finite" THEN StartRecvTimer ELSE UNCHANGED timerVars,
             recv_p' = calls, curr_match' = call.match, thread' = "waiting",
             UNCHANGED <<mb, result, res_p, recving_res>>
      PROVE  IInv'
  <2> USE <1>1, <1>5
  <2>1. tmr_sid' \in Nat /\ waiting' \subseteq Handlers /\ expired' \subseteq Handlers
    BY StartRecvTimerInv DEF IInv, TypeOK, timerVars
  <2>2. call.match \in MatchLists
    BY DEF RecvCalls
  <2>3. TypeOK'
    BY <2>1, <2>2 DEF IInv, TypeOK
  <2>4. WaitInv'
    BY DEF IInv, WaitInv, WaitsFor
  <2>5. TimerInv'
    <3>1. CASE call.tmo = "finite"
      BY <3>1, StartRecvTimerInv DEF TimerInv, Current
    <3>2. CASE call.tmo # "finite"
      BY <3>2 DEF IInv, TimerInv, Current, timerVars
    <3>3. QED
      BY <3>1, <3>2
  <2>6. NothingMissed' /\ ReturnsWhatWasAsked'
    BY DEF NothingMissed, ReturnsWhatWasAsked
  <2>7. QED
    BY <2>3, <2>4, <2>5, <2>6 DEF IInv
<1>6. QED
  BY <1>3, <1>4, <1>5 DEF TryRecv

LEMMA TryResponseInv ==
  ASSUME IInv, TryResponse
  PROVE  IInv'
<1>1. /\ thread = "posted" /\ call.op = "response" /\ call \in ResponseCalls
      /\ calls \in Nat /\ calls > 0
      /\ calls' = calls /\ call' = call
      /\ recv_p = NoPromise /\ res_p = NoPromise
  BY DEF TryResponse, IInv, WaitInv, WaitsFor, Calls, RecvCalls, ResponseCalls, TypeOK
<1>2. CASE UNCHANGED <<waitVars, timerVars>> /\ thread' = "ready" /\ mb' \in Boxes
           /\ ReturnsWhatWasAsked'
  <2> USE <1>1, <1>2 DEF waitVars, timerVars
  <2>1. TypeOK'
    BY DEF IInv, TypeOK, Boxes
  <2>2. WaitInv'
    BY DEF IInv, WaitInv, WaitsFor
  <2>3. TimerInv'
    BY DEF IInv, TimerInv, Current
  <2>4. NothingMissed'
    BY DEF NothingMissed
  <2>5. QED
    BY <2>1, <2>2, <2>3, <2>4 DEF IInv
<1>3. ASSUME mb' = AnswerTaken(mb, call.id),
             SetValue([ok |-> TRUE, by |-> "answer", id |-> call.id]),
             UNCHANGED <<waitVars, timerVars>>
      PROVE  IInv'
  <2>1. mb' \in Boxes
    BY <1>3, AnswerTakenType DEF IInv, TypeOK, Boxes
  <2>2. ReturnsWhatWasAsked'
    BY <1>1, <1>3 DEF ReturnsWhatWasAsked, SetValue
  <2>3. QED
    BY <1>2, <1>3, <2>1, <2>2 DEF SetValue
<1>4. ASSUME call.tmo = "zero", SetValue([ok |-> FALSE, by |-> "answer"]),
             UNCHANGED <<mb, waitVars, timerVars>>
      PROVE  IInv'
  <2>1. mb' \in Boxes
    BY <1>4 DEF IInv, TypeOK, Boxes
  <2>2. ReturnsWhatWasAsked'
    BY <1>1, <1>4 DEF ReturnsWhatWasAsked, SetValue
  <2>3. QED
    BY <1>2, <1>4, <2>1, <2>2 DEF SetValue
<1>5. ASSUME ~Answered(mb, call.id, call.to), call.tmo # "zero",
             IF call.tmo = "finite" THEN StartRecvTimer ELSE UNCHANGED timerVars,
             res_p' = calls, recving_res' = [id |-> call.id, to |-> call.to],
             thread' = "waiting",
             UNCHANGED <<mb, result, recv_p, curr_match>>
      PROVE  IInv'
  <2> USE <1>1, <1>5
  <2>1. tmr_sid' \in Nat /\ waiting' \subseteq Handlers /\ expired' \subseteq Handlers
    BY StartRecvTimerInv DEF IInv, TypeOK, timerVars
  <2>2. call.id \in ReqIds /\ call.to \in Aids
    BY DEF ResponseCalls
  <2>3. TypeOK'
    BY <2>1, <2>2 DEF IInv, TypeOK
  <2>4. WaitInv'
    BY DEF IInv, WaitInv, WaitsFor
  <2>5. TimerInv'
    <3>1. CASE call.tmo = "finite"
      BY <3>1, StartRecvTimerInv DEF TimerInv, Current
    <3>2. CASE call.tmo # "finite"
      BY <3>2 DEF IInv, TimerInv, Current, timerVars
    <3>3. QED
      BY <3>1, <3>2
  <2>6. NothingMissed' /\ ReturnsWhatWasAsked'
    BY DEF NothingMissed, ReturnsWhatWasAsked, Answered
  <2>7. QED
    BY <2>3, <2>4, <2>5, <2>6 DEF IInv
<1>6. QED
  BY <1>3, <1>4, <1>5 DEF TryResponse

(* What ends a wait moves tmr_sid_ past every handler there is. *)
LEMMA CancelTimerInv ==
  ASSUME IInv, CancelTimer, thread' = "ready"
  PROVE  /\ tmr_sid' \in Nat /\ waiting' \subseteq Handlers /\ expired' \subseteq Handlers
         /\ TimerInv'
<1>1. tmr_sid \in Nat /\ tmr_sid' = tmr_sid + 1 /\ waiting' = {} /\ expired' = expired
      /\ \A h \in expired : h \in Handlers /\ h.sid \in Nat /\ h.sid <= tmr_sid
  BY DEF CancelTimer, IInv, TypeOK, TimerInv, Handlers
<1>2. \A h \in expired : h.sid # tmr_sid' /\ h.sid <= tmr_sid'
  BY <1>1
<1>3. QED
  BY <1>1, <1>2 DEF TimerInv, Current

(* A handler that completes a wait finds the thread in that wait. *)
LEMMA CompleteRecvInv ==
  ASSUME IInv, recv_p # NoPromise, NEW v, CompleteRecv(v), UNCHANGED <<calls, call>>
  PROVE  /\ WaitInv' /\ NothingMissed'
         /\ thread' = "ready" /\ result' = v
         /\ recv_p' \in Nat /\ res_p' \in Nat /\ curr_match' = <<>> /\ UNCHANGED recving_res
<1>1. thread = "waiting" /\ call.op = "recv" /\ res_p = NoPromise
  BY DEF IInv, WaitInv, WaitsFor
<1>2. QED
  BY <1>1 DEF CompleteRecv, SetValue, IInv, WaitInv, WaitsFor, NothingMissed, NoPromise

LEMMA CompleteResponseInv ==
  ASSUME IInv, res_p # NoPromise, NEW v, CompleteResponse(v), UNCHANGED <<calls, call>>
  PROVE  /\ WaitInv' /\ NothingMissed'
         /\ thread' = "ready" /\ result' = v
         /\ recv_p' \in Nat /\ res_p' \in Nat /\ recving_res' = NoResponse /\ UNCHANGED curr_match
<1>1. thread = "waiting" /\ call.op = "response" /\ recv_p = NoPromise
  BY DEF IInv, WaitInv, WaitsFor
<1>2. QED
  BY <1>1 DEF CompleteResponse, SetValue, IInv, WaitInv, WaitsFor, NothingMissed, NoPromise

(* A pack that ends no wait leaves everything but the mailbox as it is. *)
LEMMA PushedInv ==
  ASSUME IInv, mb' \in Boxes, NothingMissed',
         UNCHANGED <<threadVars, waitVars, timerVars>>
  PROVE  IInv'
<1> USE DEF threadVars, waitVars, timerVars
<1>1. TypeOK'
  BY DEF IInv, TypeOK, Boxes
<1>2. WaitInv' /\ ReturnsWhatWasAsked'
  BY DEF IInv, WaitInv, WaitsFor, ReturnsWhatWasAsked
<1>3. TimerInv'
  BY DEF IInv, TimerInv, Current
<1>4. QED
  BY <1>1, <1>2, <1>3 DEF IInv

LEMMA HandleRecvInv ==
  ASSUME IInv, NEW pk \in Packs, HandleRecv(pk)
  PROVE  IInv'
<1> DEFINE box == Pushed(mb, pk)
<1>1. mb \in Boxes /\ box \in Boxes /\ box.answers = mb.answers
      /\ pk.kind # "response" /\ UNCHANGED <<calls, call>>
  BY PushedType, MessageIsNoAnswer DEF IInv, TypeOK, Boxes, HandleRecv
<1> HIDE DEF box
<1>2. CASE Wakes(box) = {} /\ mb' = box /\ UNCHANGED <<thread, result, waitVars, timerVars>>
  <2>1. NothingMissed'
    BY <1>1, <1>2 DEF IInv, NothingMissed, Wakes, WaitInv, WaitsFor, waitVars
  <2>2. QED
    BY <1>1, <1>2, <2>1, PushedInv DEF threadVars
<1>3. ASSUME NEW t \in Wakes(box), mb' \in Taken(box, t),
             CompleteRecv([ok |-> TRUE, by |-> "message", type |-> t]), CancelTimer
      PROVE  IInv'
  <2>1. recv_p # NoPromise /\ t \in Matching(box, curr_match)
    BY <1>3 DEF Wakes
  <2>2. mb' \in Boxes
    BY <1>1, <1>3, <2>1, MatchingHas, TakenType
  <2>3. /\ WaitInv' /\ NothingMissed' /\ thread' = "ready"
        /\ result' = [ok |-> TRUE, by |-> "message", type |-> t]
        /\ recv_p' \in Nat /\ res_p' \in Nat /\ curr_match' = <<>> /\ UNCHANGED recving_res
    BY <1>1, <1>3, <2>1, CompleteRecvInv
  <2>4. /\ tmr_sid' \in Nat /\ waiting' \subseteq Handlers /\ expired' \subseteq Handlers
        /\ TimerInv'
    BY <1>3, <2>3, CancelTimerInv
  <2>5. TypeOK'
    BY <1>1, <2>2, <2>3, <2>4 DEF IInv, TypeOK, Boxes
  <2>6. ReturnsWhatWasAsked'
    <3>1. call.op = "recv" /\ curr_match = call.match
      BY <2>1 DEF IInv, WaitInv, WaitsFor
    <3>2. QED
      BY <1>1, <2>1, <2>3, <3>1, MatchingHas DEF ReturnsWhatWasAsked
  <2>7. QED
    BY <2>3, <2>4, <2>5, <2>6 DEF IInv
<1>4. QED
  BY <1>1, <1>2, <1>3 DEF HandleRecv, box

LEMMA HandleResponseInv ==
  ASSUME IInv, NEW pk \in Packs, HandleResponse(pk)
  PROVE  IInv'
<1> DEFINE box == Pushed(mb, pk)
<1>1. mb \in Boxes /\ box \in Boxes /\ Matching(box, call.match) = Matching(mb, call.match)
      /\ UNCHANGED <<calls, call>>
  BY PushedType, ResponseMatchesNothing DEF IInv, TypeOK, Boxes, HandleResponse
<1> HIDE DEF box
<1>2. CASE ~WakesResponse(box) /\ mb' = box /\ UNCHANGED <<thread, result, waitVars, timerVars>>
  <2>1. NothingMissed'
    BY <1>1, <1>2 DEF IInv, NothingMissed, WakesResponse, Answered, WaitInv, WaitsFor, waitVars
  <2>2. QED
    BY <1>1, <1>2, <2>1, PushedInv DEF threadVars
<1>3. CASE /\ WakesResponse(box) /\ mb' = AnswerTaken(box, recving_res.id)
           /\ CompleteResponse([ok |-> TRUE, by |-> "answer", id |-> recving_res.id])
           /\ CancelTimer
  <2>1. res_p # NoPromise
    BY <1>3 DEF WakesResponse
  <2>2. mb' \in Boxes
    BY <1>1, <1>3, AnswerTakenType
  <2>3. /\ WaitInv' /\ NothingMissed' /\ thread' = "ready"
        /\ result' = [ok |-> TRUE, by |-> "answer", id |-> recving_res.id]
        /\ recv_p' \in Nat /\ res_p' \in Nat /\ recving_res' = NoResponse /\ UNCHANGED curr_match
    BY <1>1, <1>3, <2>1, CompleteResponseInv
  <2>4. /\ tmr_sid' \in Nat /\ waiting' \subseteq Handlers /\ expired' \subseteq Handlers
        /\ TimerInv'
    BY <1>3, <2>3, CancelTimerInv
  <2>5. TypeOK'
    BY <1>1, <2>2, <2>3, <2>4 DEF IInv, TypeOK, Boxes
  <2>6. ReturnsWhatWasAsked'
    <3>1. call.op = "response" /\ recving_res.id = call.id
      BY <2>1 DEF IInv, WaitInv, WaitsFor
    <3>2. QED
      BY <1>1, <2>3, <3>1 DEF ReturnsWhatWasAsked
  <2>7. QED
    BY <2>3, <2>4, <2>5, <2>6 DEF IInv
<1>4. QED
  BY <1>1, <1>2, <1>3 DEF HandleResponse, box

LEMMA ExpireInv ==
  ASSUME IInv, Expire
  PROVE  IInv'
<1> USE DEF Expire, threadVars, waitVars
<1>1. TypeOK'
  BY DEF IInv, TypeOK
<1>2. WaitInv' /\ NothingMissed' /\ ReturnsWhatWasAsked'
  BY DEF IInv, WaitInv, WaitsFor, NothingMissed, ReturnsWhatWasAsked
<1>3. TimerInv'
  <2>1. waiting' \cup expired' = waiting \cup expired
    OBVIOUS
  <2>2. QED
    BY <2>1 DEF IInv, TimerInv, Current
<1>4. QED
  BY <1>1, <1>2, <1>3 DEF IInv

(* A current handler finds its own call waiting; there is no other current one. *)
LEMMA HandleTimeoutInv ==
  ASSUME IInv, NEW h \in expired, HandleTimeout(h)
  PROVE  IInv'
<1>1. /\ expired' = expired \ {h} /\ UNCHANGED <<mb, calls, call, tmr_sid, waiting>>
  BY DEF HandleTimeout
<1>2. CASE ~Current(h) /\ UNCHANGED <<thread, result, waitVars>>
  <2> USE <1>1, <1>2 DEF waitVars
  <2>1. TypeOK'
    BY DEF IInv, TypeOK
  <2>2. WaitInv' /\ NothingMissed' /\ ReturnsWhatWasAsked'
    BY DEF IInv, WaitInv, WaitsFor, NothingMissed, ReturnsWhatWasAsked
  <2>3. TimerInv'
    BY DEF IInv, TimerInv, Current
  <2>4. QED
    BY <2>1, <2>2, <2>3 DEF IInv
<1>3. CASE Current(h)
  <2>1. /\ thread = "waiting" /\ call.tmo = "finite" /\ h.op = call.op
        /\ call \in Calls /\ calls > 0
    BY <1>3 DEF IInv, TimerInv, WaitInv
  <2>2. \A g \in waiting' \cup expired' : ~Current(g)
    BY <1>1, <1>3 DEF IInv, TimerInv
  <2>3. ASSUME thread' = "ready" PROVE TimerInv'
    BY <1>1, <2>2, <2>3 DEF IInv, TimerInv, Current
  <2>4. CASE h.op = "recv"
    <3>1. recv_p # NoPromise
      BY <2>1, <2>4 DEF IInv, WaitInv, WaitsFor, NoPromise
    <3>2. CompleteRecv([ok |-> FALSE, by |-> "timeout"])
      BY <1>3, <2>4 DEF HandleTimeout
    <3>3. /\ WaitInv' /\ NothingMissed' /\ thread' = "ready"
          /\ result' = [ok |-> FALSE, by |-> "timeout"]
          /\ recv_p' \in Nat /\ res_p' \in Nat /\ curr_match' = <<>> /\ UNCHANGED recving_res
      BY <1>1, <3>1, <3>2, CompleteRecvInv
    <3>4. TypeOK'
      BY <1>1, <3>3 DEF IInv, TypeOK
    <3>5. ReturnsWhatWasAsked'
      BY <1>1, <2>1, <3>3 DEF ReturnsWhatWasAsked
    <3>6. QED
      BY <2>3, <3>3, <3>4, <3>5 DEF IInv
  <2>5. CASE h.op # "recv"
    <3>1. res_p # NoPromise
      BY <2>1, <2>5 DEF IInv, WaitInv, WaitsFor, NoPromise, Calls, RecvCalls, ResponseCalls
    <3>2. CompleteResponse([ok |-> FALSE, by |-> "timeout"])
      BY <1>3, <2>5 DEF HandleTimeout
    <3>3. /\ WaitInv' /\ NothingMissed' /\ thread' = "ready"
          /\ result' = [ok |-> FALSE, by |-> "timeout"]
          /\ recv_p' \in Nat /\ res_p' \in Nat /\ recving_res' = NoResponse /\ UNCHANGED curr_match
      BY <1>1, <3>1, <3>2, CompleteResponseInv
    <3>4. TypeOK'
      BY <1>1, <3>3 DEF IInv, TypeOK
    <3>5. ReturnsWhatWasAsked'
      BY <1>1, <2>1, <3>3 DEF ReturnsWhatWasAsked
    <3>6. QED
      BY <2>3, <3>3, <3>4, <3>5 DEF IInv
  <2>6. QED
    BY <2>4, <2>5
<1>4. QED
  BY <1>2, <1>3 DEF HandleTimeout

LEMMA StepInv == IInv /\ [Next]_vars => IInv'
<1> SUFFICES ASSUME IInv, [Next]_vars PROVE IInv'
  OBVIOUS
<1>1. ASSUME NEW c \in RecvCalls \cup ResponseCalls, Call(c) PROVE IInv'
  BY <1>1, CallInv DEF Calls
<1>2. CASE Return
  BY <1>2, ReturnInv
<1>3. CASE Try
  BY <1>3, TryRecvInv, TryResponseInv DEF Try
<1>4. CASE Receive
  BY <1>4, HandleRecvInv, HandleResponseInv DEF Receive
<1>5. CASE Timeout
  BY <1>5, ExpireInv, HandleTimeoutInv DEF Timeout
<1>6. CASE UNCHANGED vars
  <2>1. mb' \in Boxes /\ NothingMissed'
    BY <1>6 DEF IInv, TypeOK, Boxes, NothingMissed, vars, waitVars, threadVars
  <2>2. QED
    BY <1>6, <2>1, PushedInv DEF vars
<1>7. QED
  BY <1>1, <1>2, <1>3, <1>4, <1>5, <1>6 DEF Next

LEMMA Invariant == Spec => []IInv
BY InitInv, StepInv, PTL DEF Spec

LEMMA SafeInv == IInv => PromiseAlive /\ Remembered
<1> SUFFICES ASSUME IInv PROVE PromiseAlive /\ Remembered
  OBVIOUS
<1>1. PromiseAlive
  <2>1. recv_p # NoPromise => thread = "waiting" /\ call.op = "recv" /\ recv_p = calls
    BY DEF IInv, WaitInv, WaitsFor
  <2>2. res_p # NoPromise => /\ thread = "waiting" /\ call.op = "response"
                             /\ res_p = calls /\ recving_res # NoResponse
    BY DEF IInv, WaitInv, WaitsFor, NoResponse
  <2>3. ASSUME NEW h \in waiting \cup expired, Current(h)
        PROVE  h.p = IF h.op = "recv" THEN recv_p ELSE res_p
    BY <2>3 DEF IInv, WaitInv, WaitsFor, TimerInv, TypeOK, Calls, RecvCalls, ResponseCalls
  <2>4. QED
    BY <2>1, <2>2, <2>3 DEF PromiseAlive
<1>2. Remembered
  BY DEF Remembered, IInv, WaitInv, WaitsFor, TimerInv, Calls, RecvCalls, ResponseCalls
<1>3. QED
  BY <1>1, <1>2

(* For any number of calls, whoever may set a promise finds it in the call the   *)
(* thread is blocked in, and a blocked thread is always remembered.              *)
THEOREM PromisesStayAlive == Spec => [](TypeOK /\ PromiseAlive /\ Remembered)
<1>1. IInv => TypeOK
  BY DEF IInv
<1>2. QED
  BY <1>1, Invariant, SafeInv, PTL

(* For any number of calls and messages, a blocked receive misses nothing it     *)
(* waits for, and a call returns what it asked for or for the reason it allowed. *)
THEOREM ReceivesAnswerTheirCall == Spec => [](NothingMissed /\ ReturnsWhatWasAsked)
<1>1. IInv => NothingMissed /\ ReturnsWhatWasAsked
  BY DEF IInv
<1>2. QED
  BY <1>1, Invariant, PTL
=============================================================================
