---------------------------- MODULE ThreadedActor ----------------------------
(***************************************************************************)
(* The blocking receives of an actor that runs on a user's thread,         *)
(* libs/actor/src/thread_mapped_actor.cpp.                                 *)
(*                                                                         *)
(* recv puts a promise on the thread's stack, posts try_recv or            *)
(* try_response to the actor's strand and blocks on the future. Everything *)
(* else runs on the strand, one handler at a time: try_recv leaves in      *)
(* recv_p_ or res_p_ a pointer to the promise and may start a timer;       *)
(* handle_recv, for each pack, and the timer's handler set the promise.    *)
(* When the thread has its value it returns and the promise is gone.       *)
(*                                                                         *)
(* A promise is the number of the call it belongs to. tmr_ has at most one *)
(* wait pending. A wait that is cancelled completes with an error, which   *)
(* its handler ignores; one that has expired before cannot be cancelled    *)
(* any more and its handler still runs, whatever happened since.           *)
(*                                                                         *)
(* The actor's aid does not change while the thread uses it, so handle_recv*)
(* always finds the pack's receiver right. Links are Links' matter.        *)
(***************************************************************************)
EXTENDS Unread

CONSTANTS
  MatchLists,  \* the match lists recv is called with
  MaxCalls,    \* bound on the calls of the thread
  MaxUnread    \* bound on the unread messages of a type

ASSUME ThreadedActorAssumption ==
  /\ Exit \notin Types
  /\ MatchLists \subseteq Seq(Types \cup {Exit})
  /\ MaxCalls \in Nat /\ MaxUnread \in Nat

VARIABLES
  mb,          \* mb_
  thread,      \* the user's thread: in its own code, or how far in recv
  calls,       \* how many calls the thread has made: the last promise
  call,        \* the arguments of the call it is in
  result,      \* the value of that call's promise
  recv_p,      \* recv_p_, and the match list in curr_match_
  curr_match,
  res_p,       \* res_p_, and recving_res_
  recving_res,
  tmr_sid,     \* tmr_sid_
  waiting,     \* the wait pending on tmr_, at most one: the arguments bound
  expired      \* handlers of waits that have expired, posted to the strand

waitVars == <<recv_p, curr_match, res_p, recving_res>>
timerVars == <<tmr_sid, waiting, expired>>
threadVars == <<thread, calls, call, result>>
vars == <<mb, threadVars, waitVars, timerVars>>

NoPromise == 0
NoCall == [op |-> "none", tmo |-> "infin"]
NoValue == [ok |-> FALSE, by |-> "none"]
NoResponse == [id |-> 0]

Timeouts == {"zero", "finite", "infin"}
RecvCalls == [op : {"recv"}, match : MatchLists, tmo : Timeouts]
ResponseCalls == [op : {"response"}, id : ReqIds, to : Aids, tmo : Timeouts]
Handlers == [sid : Nat, op : {"recv", "response"}, p : Nat]

-----------------------------------------------------------------------------
(* The user's thread *)

\* recv(message&, match) and recv(response_t, message&, duration).
Call(c) ==
  /\ thread = "running"
  /\ calls < MaxCalls
  /\ thread' = "posted"
  /\ calls' = calls + 1
  /\ call' = c
  /\ result' = NoValue
  /\ UNCHANGED <<mb, waitVars, timerVars>>

\* f.get() returns, and with it recv.
Return ==
  /\ thread = "ready"
  /\ thread' = "running"
  /\ call' = NoCall
  /\ UNCHANGED <<mb, calls, result, waitVars, timerVars>>

-----------------------------------------------------------------------------
(* The strand *)

SetValue(v) == thread' = "ready" /\ result' = v

\* Were tmr_sid_ moved on after the handler is bound.
StartRecvTimerBindsOld ==
  /\ tmr_sid' = tmr_sid + 1
  /\ waiting' = {[sid |-> tmr_sid, op |-> call.op, p |-> calls]}
  /\ UNCHANGED expired

\* start_recv_timer, for the promise of the current call. expires_from_now
\* cancels the wait pending.
StartRecvTimer ==
  /\ tmr_sid' = tmr_sid + 1
  /\ waiting' = {[sid |-> tmr_sid + 1, op |-> call.op, p |-> calls]}
  /\ UNCHANGED expired

TryRecv ==
  /\ thread = "posted" /\ call.op = "recv"
  /\ \/ \E t \in Matching(mb, call.match) :
          /\ mb' \in Taken(mb, t)
          /\ SetValue([ok |-> TRUE, by |-> "message", type |-> t])
          /\ UNCHANGED <<waitVars, timerVars>>
     \/ /\ Matching(mb, call.match) = {}
        /\ call.tmo = "zero"
        /\ SetValue([ok |-> FALSE, by |-> "message"])
        /\ UNCHANGED <<mb, waitVars, timerVars>>
     \/ /\ Matching(mb, call.match) = {}
        /\ call.tmo # "zero"
        /\ IF call.tmo = "finite" THEN StartRecvTimer ELSE UNCHANGED timerVars
        /\ recv_p' = calls
        /\ curr_match' = call.match
        /\ thread' = "waiting"
        /\ UNCHANGED <<mb, result, res_p, recving_res>>
  /\ UNCHANGED <<calls, call>>

TryResponse ==
  /\ thread = "posted" /\ call.op = "response"
  /\ \/ /\ Answered(mb, call.id, call.to)
        /\ mb' = AnswerTaken(mb, call.id)
        /\ SetValue([ok |-> TRUE, by |-> "answer", id |-> call.id])
        /\ UNCHANGED <<waitVars, timerVars>>
     \/ /\ ~Answered(mb, call.id, call.to)
        /\ call.tmo = "zero"
        /\ SetValue([ok |-> FALSE, by |-> "answer"])
        /\ UNCHANGED <<mb, waitVars, timerVars>>
     \/ /\ ~Answered(mb, call.id, call.to)
        /\ call.tmo # "zero"
        /\ IF call.tmo = "finite" THEN StartRecvTimer ELSE UNCHANGED timerVars
        /\ res_p' = calls
        /\ recving_res' = [id |-> call.id, to |-> call.to]
        /\ thread' = "waiting"
        /\ UNCHANGED <<mb, result, recv_p, curr_match>>
  /\ UNCHANGED <<calls, call>>

\* How handle_recv and the timer's handlers end the wait. PromiseAlive says that
\* the promise they set is that of the call the thread is blocked in.
CompleteRecv(v) ==
  /\ recv_p' = NoPromise
  /\ curr_match' = <<>>
  /\ SetValue(v)
  /\ UNCHANGED <<res_p, recving_res>>

CompleteResponse(v) ==
  /\ res_p' = NoPromise
  /\ recving_res' = NoResponse
  /\ SetValue(v)
  /\ UNCHANGED <<recv_p, curr_match>>

\* Were tmr_sid_ left alone.
CancelTimerOnly ==
  /\ waiting' = {}
  /\ UNCHANGED <<tmr_sid, expired>>

\* ++tmr_sid_; tmr_.cancel(ec)
CancelTimer ==
  /\ tmr_sid' = tmr_sid + 1
  /\ waiting' = {}
  /\ UNCHANGED expired

\* Were an exit notification pushed and no one woken up.
WakesButExit(box) == IF recv_p = NoPromise THEN {} ELSE Matching(box, curr_match) \ {Exit}

\* The messages that end a wait for one, once pk is pushed, and the response.
Wakes(box) == IF recv_p = NoPromise THEN {} ELSE Matching(box, curr_match)
WakesResponse(box) == res_p # NoPromise /\ Answered(box, recving_res.id, recving_res.to)

\* handle_recv of a message, a request or an exit notification.
HandleRecv(pk) ==
  /\ pk.kind # "response"
  /\ pk.kind = "message" => mb.count[pk.type] < MaxUnread
  /\ LET box == Pushed(mb, pk)
     IN  \/ /\ Wakes(box) = {}
            /\ mb' = box
            /\ UNCHANGED <<thread, result, waitVars, timerVars>>
         \/ \E t \in Wakes(box) :
              /\ mb' \in Taken(box, t)
              /\ CompleteRecv([ok |-> TRUE, by |-> "message", type |-> t])
              /\ CancelTimer
  /\ UNCHANGED <<calls, call>>

\* handle_recv of a response.
HandleResponse(pk) ==
  /\ pk.kind = "response"
  /\ LET box == Pushed(mb, pk)
     IN  IF WakesResponse(box)
         THEN /\ mb' = AnswerTaken(box, recving_res.id)
              /\ CompleteResponse([ok |-> TRUE, by |-> "answer", id |-> recving_res.id])
              /\ CancelTimer
         ELSE /\ mb' = box
              /\ UNCHANGED <<thread, result, waitVars, timerVars>>
  /\ UNCHANGED <<calls, call>>

\* The wait pending expires: its handler goes to the strand.
Expire ==
  /\ waiting # {}
  /\ expired' = expired \cup waiting
  /\ waiting' = {}
  /\ UNCHANGED <<mb, threadVars, waitVars, tmr_sid>>

\* Were the timer's id not compared.
CurrentAlways(h) == TRUE

\* A handler is current when nothing has moved tmr_sid_ on since it was bound.
Current(h) == h.sid = tmr_sid

\* handle_recv_timeout and handle_res_timeout, called without an error.
HandleTimeout(h) ==
  /\ h \in expired
  /\ expired' = expired \ {h}
  /\ IF Current(h)
     THEN IF h.op = "recv" THEN CompleteRecv([ok |-> FALSE, by |-> "timeout"])
          ELSE CompleteResponse([ok |-> FALSE, by |-> "timeout"])
     ELSE UNCHANGED <<thread, result, waitVars>>
  /\ UNCHANGED <<mb, calls, call, tmr_sid, waiting>>

-----------------------------------------------------------------------------
Init ==
  /\ mb = NoneUnread
  /\ thread = "running" /\ calls = 0 /\ call = NoCall /\ result = NoValue
  /\ recv_p = NoPromise /\ curr_match = <<>>
  /\ res_p = NoPromise /\ recving_res = NoResponse
  /\ tmr_sid = 0 /\ waiting = {} /\ expired = {}

Try == TryRecv \/ TryResponse
Timeout == Expire \/ \E h \in expired : HandleTimeout(h)
Receive == \E pk \in Packs : HandleRecv(pk) \/ HandleResponse(pk)

Next ==
  \/ \E c \in RecvCalls \cup ResponseCalls : Call(c)
  \/ Return
  \/ Try
  \/ Receive
  \/ Timeout

Spec == Init /\ [][Next]_vars

\* A posted handler runs, a wait expires, and a thread whose future is ready goes
\* on. Nothing makes a message come, or the thread call again.
Fairness ==
  /\ WF_vars(Try)
  /\ WF_vars(Expire)
  /\ \A s \in 1..(2 * MaxCalls) :
       WF_vars(\E h \in expired : h.sid = s /\ HandleTimeout(h))
  /\ WF_vars(Return)

FairSpec == Spec /\ Fairness

-----------------------------------------------------------------------------
TypeOK ==
  /\ mb \in [count : [Types -> Nat], exits : SUBSET Aids, answers : SUBSET ReqIds]
  /\ thread \in {"running", "posted", "waiting", "ready"}
  /\ calls \in Nat
  /\ call \in RecvCalls \cup ResponseCalls \cup {NoCall}
  /\ recv_p \in Nat /\ res_p \in Nat
  /\ curr_match \in MatchLists \cup {<<>>}
  /\ recving_res \in [id : ReqIds, to : Aids] \cup {NoResponse}
  /\ tmr_sid \in Nat
  /\ waiting \subseteq Handlers /\ expired \subseteq Handlers

\* Whoever may set a promise sets the promise of the call the thread is blocked in,
\* and only once: recv_p_, res_p_ and the promise bound in a timer handler that is
\* still current never outlive that call. This holds the assertions of the timeout
\* handlers (thread_mapped_actor.cpp:299, 314) and of handle_recv (:374).
PromiseAlive ==
  /\ recv_p # NoPromise => /\ thread = "waiting" /\ call.op = "recv"
                           /\ recv_p = calls
  /\ res_p # NoPromise => /\ thread = "waiting" /\ call.op = "response"
                          /\ res_p = calls
                          /\ recving_res # NoResponse
  /\ \A h \in waiting \cup expired : Current(h) =>
       h.p = IF h.op = "recv" THEN recv_p ELSE res_p

\* A blocked thread is never forgotten: something will wake it up, the pointer to
\* its promise or the timer of its call.
Remembered ==
  thread = "waiting" =>
    /\ recv_p = calls \/ res_p = calls
    /\ call.tmo = "finite" => \E h \in waiting \cup expired : Current(h) /\ h.p = calls

\* While recv is blocked there is no unread message it asks for, and while it is
\* blocked on a response the answer is not in the mailbox (try_recv looks before it
\* waits, handle_recv wakes it up for what comes later).
NothingMissed ==
  /\ recv_p # NoPromise => Matching(mb, call.match) = {}
  /\ res_p # NoPromise => call.id \notin mb.answers

\* recv returns what it was asked for, and without a message only if it was told not
\* to wait or its own time is up: the timer of an earlier call never ends it.
ReturnsWhatWasAsked ==
  thread = "ready" =>
    IF result.ok
    THEN \/ call.op = "response" /\ result.by = "answer" /\ result.id = call.id
         \/ call.op = "recv" /\ result.by = "message"
              /\ (call.match = <<>> \/ \E i \in 1..Len(call.match) : call.match[i] = result.type)
    ELSE call.tmo = IF result.by = "timeout" THEN "finite" ELSE "zero"

\* A call that has a time limit returns.
TimedCallsReturn ==
  \A n \in 1..MaxCalls :
    (calls = n /\ thread # "running" /\ call.tmo # "infin") ~> (thread = "running")
=============================================================================
