------------------------------ MODULE Connection ------------------------------
(***************************************************************************)
(* One socket actor, libs/actor/src/socket.cpp, over its tcp::socket,      *)
(* impl/tcp/socket.cpp, with its heartbeat, heartbeat.cpp: one that        *)
(* connects and connects again, or one an acceptor has made.               *)
(*                                                                         *)
(* Three things run on the strand, in any order: the coroutine (run_conn   *)
(* or run), the handler of the write that is going on, and the handlers of *)
(* the heartbeat's timer. The network and the peer are external. What is   *)
(* in the messages, links and registrations are elsewhere (Links.tla,      *)
(* Registry.tla).                                                          *)
(*                                                                         *)
(* A pack is written and read in two pieces, so that a connection may be   *)
(* lost between them, login and heartbeat messages in one; a second login  *)
(* or heartbeat message in the same buffer is left out. curr_reconn_       *)
(* starts at 2^32 - 1 and is not counted.                                  *)
(***************************************************************************)
EXTENDS Integers, Sequences, SequencesExt

CONSTANTS
  Roles,        \* which sockets: those that connect, those of an acceptor
  Tries,        \* init_reconn_try_ and reconn_try_
  HbCount,      \* heartbeat_count_
  SizeMax,      \* the largest size_t
  Loads,        \* bounds on the packs sent over the socket and by the peer, in pairs
  MaxBreaks,    \* bound on the times the network fails
  MaxPosted     \* bound on the heartbeat's handlers posted when a connect is over

ASSUME ConnectionAssumption ==
  /\ Roles \subseteq {"connect", "accept"}
  /\ Tries \in Nat
  /\ SizeMax \in Nat /\ HbCount \in 1..SizeMax
  /\ Loads \subseteq Nat \X Nat
  /\ MaxBreaks \in Nat /\ MaxPosted \in Nat

VARIABLES
  role, load,   \* which socket, and how much it is to carry
  stat,         \* stat_
  pc,           \* where the coroutine is
  init, retry,  \* connect's parameter and its counter
  ok,           \* how the attempt to connect that is over ended
  answered,     \* how often the sire was sent msg_new_conn
  conn,         \* conn_
  cache,        \* conn_cache_
  rcache,       \* recv_cache_
  t,            \* the tcp::socket of skt_
  h,            \* hb_
  line,         \* the network: up, dead (both ends notice), silent (neither does)
  in,           \* what came over the connection and was not read
  half,         \* the message the peer has got the first piece of
  arrived,      \* packs that reached the peer, over all the connections
  handled,      \* messages handle_net_msg got
  sent, came,   \* packs sent, packs the peer wrote, so far
  cut,          \* a connection was lost with a piece of a message in recv_cache_
  breaks

coVars == <<role, load, pc, init, retry, ok, answered>>
readVars == <<rcache, handled, cut>>
lineVars == <<line, in, half>>
peerVars == <<came, arrived, breaks>>
vars == <<coVars, stat, conn, cache, readVars, t, h, lineVars, peerVars, sent>>

\* made: skt_ is not null; open: sock_ is; buffer: the pieces not yet written of
\* send_buffer_[sending_buffer_]; doomed: the closing of sock_ has cut the write off.
NoSocket == [made |-> FALSE, open |-> FALSE, closed |-> FALSE, ending |-> FALSE,
             sending |-> FALSE, buffer |-> <<>>, standby |-> <<>>, doomed |-> FALSE]

\* on: ~stopped_; left: curr_count_; tmr: a wait is pending on tmr_; fired, aborted: how
\* many handlers are posted, of waits that expired and of waits that were cancelled.
NoHeartbeat == [on |-> TRUE, left |-> 0, tmr |-> FALSE, fired |-> 0, aborted |-> 0]

\* Packs are numbered from 1, by the sender and by the peer.
Hb == 0
Login == -1
Garbage == -2
NoMsg == -3
Pieces(ms) ==
  FlattenSeq([i \in 1..Len(ms) |-> IF ms[i] > 0 THEN <<<<ms[i], 1>>, <<ms[i], 2>>>>
                                               ELSE <<<<ms[i], 0>>>>])
Put(ms, m) == IF m <= 0 /\ \E i \in 1..Len(ms) : ms[i] <= 0 THEN ms ELSE Append(ms, m)
PutAll(ms, new) == FoldLeft(Put, ms, new)

-----------------------------------------------------------------------------
(* tcp::socket *)

\* send of messages, one after the other: the first is written at once, after what is
\* in the standby buffer, when no write is going on.
SktSend(s, ms) ==
  IF s.ending THEN s
  ELSE IF s.sending THEN [s EXCEPT !.standby = PutAll(@, ms)]
  ELSE [s EXCEPT !.sending = TRUE, !.standby = Tail(ms), !.doomed = ~s.open,
                 !.buffer = IF s.open THEN Pieces(Put(s.standby, Head(ms))) ELSE <<>>]

\* close_socket, reset: the write that is going on is aborted, its end_send is to come.
CloseSocket(s) == [s EXCEPT !.open = FALSE, !.doomed = s.sending, !.buffer = <<>>]

\* close: the socket stays open for the write that is going on. And were close to do
\* nothing then.
SktCloseIdle(s) == IF ~s.made \/ s.sending THEN s ELSE CloseSocket([s EXCEPT !.closed = TRUE])
SktClose(s) ==
  IF ~s.made THEN s
  ELSE IF s.sending THEN [s EXCEPT !.closed = TRUE]
  ELSE CloseSocket([s EXCEPT !.closed = TRUE])

\* async_write gets on. What is written to a silent line goes nowhere.
Write ==
  /\ t.sending /\ ~t.doomed /\ t.buffer # <<>> /\ line # "dead"
  /\ LET p == Head(t.buffer)
     IN  /\ t' = [t EXCEPT !.buffer = Tail(@)]
         /\ IF line = "silent" THEN UNCHANGED <<half, arrived>>
            ELSE /\ half' = IF p[2] = 1 /\ half = NoMsg THEN p[1] ELSE NoMsg
                 /\ arrived' = IF half # (IF p[2] = 2 THEN p[1] ELSE NoMsg)
                               THEN Append(arrived, Garbage)
                               ELSE IF p[2] = 2 THEN Append(arrived, p[1]) ELSE arrived
  /\ UNCHANGED <<coVars, stat, conn, cache, readVars, h, line, in, came, breaks, sent>>

\* end_send, with an error or without. And were the standby buffer not empty after it
\* has become the one to send.
EndedTwice(s, err) ==
  IF ~err /\ s.standby # <<>>
  THEN [s EXCEPT !.buffer = Pieces(s.standby)]
  ELSE [s EXCEPT !.sending = FALSE, !.buffer = <<>>, !.doomed = FALSE, !.open = @ /\ ~s.closed]
Ended(s, err) ==
  IF ~err /\ s.standby # <<>>
  THEN [s EXCEPT !.buffer = Pieces(s.standby), !.standby = <<>>]
  ELSE [s EXCEPT !.sending = FALSE, !.buffer = <<>>, !.doomed = FALSE, !.open = @ /\ ~s.closed]

EndSend ==
  /\ t.sending
  /\ LET err == t.doomed \/ line = "dead"
     IN  /\ err \/ t.buffer = <<>>
         /\ t' = Ended(t, err)
  /\ pc' = IF t.closed /\ ~t'.sending /\ pc = "skt_end" THEN "skt_done" ELSE pc
  /\ UNCHANGED <<role, load, init, retry, ok, answered, stat, conn, cache, readVars, h, lineVars,
                 peerVars, sent>>

-----------------------------------------------------------------------------
(* heartbeat *)

\* start_timer: expires_from_now cancels the wait that is pending.
HbTimer(b) == [b EXCEPT !.tmr = TRUE, !.aborted = IF b.tmr THEN @ + 1 ELSE @]
HbStart(b) == HbTimer([b EXCEPT !.on = TRUE, !.left = HbCount])
HbStop(b) == [b EXCEPT !.on = FALSE, !.tmr = FALSE, !.aborted = IF b.tmr THEN @ + 1 ELSE @]
Beat(b) == IF b.on THEN [b EXCEPT !.left = HbCount] ELSE b
HbWaiting(b) == (IF b.tmr THEN 1 ELSE 0) + b.fired + b.aborted

HbExpire ==
  /\ h.tmr
  /\ h' = [h EXCEPT !.tmr = FALSE, !.fired = @ + 1]
  /\ UNCHANGED <<coVars, stat, conn, cache, readVars, t, lineVars, peerVars, sent>>

-----------------------------------------------------------------------------
(* socket: sending and closing *)

\* send: what is cached goes first.
Sent(s, q, c, m) ==
  IF c THEN [t |-> SktSend(s, Append(q, m)), cache |-> <<>>]
       ELSE [t |-> s, cache |-> Put(q, m)]

SendPack ==
  /\ sent < load[1]
  /\ pc \notin {"started", "freed"}
  /\ sent' = sent + 1
  /\ LET s == Sent(t, cache, conn, sent') IN t' = s.t /\ cache' = s.cache
  /\ UNCHANGED <<coVars, stat, conn, readVars, h, lineVars, peerVars>>

\* close.
Close(s, b) == stat' = "off" /\ t' = SktClose(s) /\ h' = HbStop(b)

\* stop, by the cache_pool.
Stop ==
  /\ pc \notin {"started", "freed"} /\ stat = "on"
  /\ Close(t, h)
  /\ UNCHANGED <<coVars, conn, cache, readVars, lineVars, peerVars, sent>>

\* handle_timeout of a wait that has expired: send_msg_hb, then timeout_, which is
\* reconn or close, or the next wait. And were no wait begun after a heartbeat.
Minus1(n) == IF n = 0 THEN SizeMax ELSE n - 1
NextTickNone(b) == b
NextTick(b) == HbTimer(b)

HbTick(b) ==
  LET s == Sent(t, cache, conn, Hb)
      n == [b EXCEPT !.left = Minus1(@)]
  IN  /\ cache' = s.cache
      /\ \/ n.left # 0 /\ h' = NextTick(n) /\ t' = s.t /\ UNCHANGED stat
         \/ n.left = 0 /\ role = "connect" /\ h' = n /\ t' = CloseSocket(s.t) /\ UNCHANGED stat
         \/ n.left = 0 /\ role = "accept" /\ Close(s.t, n)

HandleTimeout ==
  /\ \/ h.fired > 0 /\ h.on /\ HbTick([h EXCEPT !.fired = @ - 1])
     \/ h.fired > 0 /\ ~h.on /\ h' = [h EXCEPT !.fired = @ - 1] /\ UNCHANGED <<stat, t, cache>>
     \/ h.aborted > 0 /\ h' = [h EXCEPT !.aborted = @ - 1] /\ UNCHANGED <<stat, t, cache>>
  /\ pc' = IF ~h'.on /\ pc = "hb_end" THEN "hb_done" ELSE pc
  /\ UNCHANGED <<role, load, init, retry, ok, answered, conn, readVars, lineVars, peerVars, sent>>

-----------------------------------------------------------------------------
(* The coroutine: run_conn and run. s, b, q, c: what has become of skt_, hb_,   *)
(* conn_cache_ and conn_ in the step so far.                                 *)

\* free_self after the waits: on_neterr clears the cache.
Free(s) ==
  /\ pc' = "freed" /\ t' = [s EXCEPT !.made = FALSE]
  /\ conn' = FALSE /\ cache' = <<>>

\* skt_->wait_end. And were the write not waited for.
SktWaitEndNot(s, q, c) == Free(s)
SktWaitEnd(s, q, c) ==
  IF s.made /\ s.sending
  THEN pc' = "skt_end" /\ t' = [s EXCEPT !.ending = TRUE] /\ conn' = c /\ cache' = q
  ELSE Free([s EXCEPT !.ending = TRUE])

FreeSelf(s, b, q, c) ==
  IF HbWaiting(b) > 0 THEN pc' = "hb_end" /\ t' = s /\ conn' = c /\ cache' = q
  ELSE SktWaitEnd(s, q, c)

\* The same after close, as a step of its own when there is nothing to wait for.
AfterClose(b) == pc' = IF HbWaiting(b) > 0 THEN "hb_end" ELSE "hb_done"

HbDone ==
  /\ pc = "hb_done"
  /\ SktWaitEnd(t, cache, conn)
  /\ UNCHANGED <<role, load, init, retry, ok, answered, stat, readVars, h, lineVars, peerVars, sent>>

SktDone ==
  /\ pc = "skt_done"
  /\ Free(t)
  /\ UNCHANGED <<role, load, init, retry, ok, answered, stat, readVars, h, lineVars, peerVars, sent>>

\* skt_->connect, the first of a loop of connect or a later one.
Attempt(s, q, r, i) ==
  /\ pc' = "resolving" /\ t' = CloseSocket(s) /\ conn' = FALSE /\ cache' = q
  /\ retry' = r /\ init' = i
  /\ line' = "dead" /\ in' = <<>> /\ half' = NoMsg

\* The coroutine begins; stop of the cache_pool, or a bad endpoint, may end it at once.
Start ==
  /\ pc = "started"
  /\ answered' = 0
  /\ \/ role = "connect" /\ stat' = "on" /\ h' = h
          /\ Attempt([t EXCEPT !.made = TRUE], cache, 0, TRUE)
     \/ role = "accept" /\ stat' = "on" /\ h' = HbStart(h)
          /\ pc' = "reading" /\ t' = [t EXCEPT !.made = TRUE, !.open = TRUE]
          /\ line' = "up" /\ in' = Pieces(<<Login>>)
          /\ UNCHANGED <<half, conn, cache, init, retry>>
  /\ UNCHANGED <<role, load, ok, readVars, peerVars, sent>>

StartInVain ==
  /\ pc = "started"
  /\ answered' = IF role = "connect" THEN 1 ELSE 0
  /\ stat' \in {"ready", "off"}
  /\ FreeSelf(t, h, cache, conn)
  /\ UNCHANGED <<role, load, init, retry, ok, readVars, h, lineVars, peerVars, sent>>

Resolved ==
  /\ pc = "resolving"
  /\ \/ pc' = "connecting" /\ t' = [t EXCEPT !.open = TRUE] /\ UNCHANGED ok
     \/ pc' = "tried" /\ ok' = FALSE /\ UNCHANGED t
  /\ UNCHANGED <<role, load, init, retry, answered, stat, conn, cache, readVars, h, lineVars, peerVars, sent>>

Connected ==
  /\ pc = "connecting"
  /\ pc' = "tried"
  /\ \/ ok' = FALSE /\ UNCHANGED <<line, in>>
     \/ t.open /\ ok' = TRUE /\ line' = "up" /\ in' = Pieces(<<Login>>)
  /\ UNCHANGED <<role, load, init, retry, answered, stat, conn, cache, readVars, t, h, half, peerVars, sent>>

\* connect goes on after the attempt.
AnswerSire == answered' = IF init THEN answered + 1 ELSE answered

ConnectDone ==
  /\ pc = "tried" /\ ok /\ stat = "on"
  /\ h.fired + h.aborted <= MaxPosted
  /\ LET s == Sent(t, cache, TRUE, Login) IN t' = s.t /\ cache' = s.cache
  /\ h' = HbStart(h)
  /\ conn' = TRUE /\ pc' = "reading" /\ init' = FALSE
  /\ AnswerSire
  /\ UNCHANGED <<role, load, retry, ok, stat, readVars, lineVars, peerVars, sent>>

ConnectFailed ==
  /\ pc = "tried" /\ ~ok /\ stat = "on"
  /\ IF retry + 1 <= Tries
     THEN /\ pc' = "pausing" /\ retry' = retry + 1
          /\ UNCHANGED <<init, answered, conn, cache, t, lineVars>>
     ELSE IF init
     THEN Attempt(t, <<>>, 0, FALSE) /\ AnswerSire
     ELSE /\ pc' = "pausing" /\ retry' = 0 /\ conn' = FALSE /\ cache' = <<>>
          /\ UNCHANGED <<init, answered, t, lineVars>>
  /\ UNCHANGED <<role, load, ok, stat, readVars, h, peerVars, sent>>

PauseOver ==
  /\ pc = "pausing" /\ stat = "on"
  /\ Attempt(t, cache, retry, init)
  /\ UNCHANGED <<role, load, ok, answered, stat, readVars, h, peerVars, sent>>

\* stat_ != on.
ConnectOff ==
  /\ pc \in {"tried", "pausing"} /\ stat # "on"
  /\ FreeSelf(t, h, cache, conn)
  /\ AnswerSire
  /\ UNCHANGED <<role, load, init, retry, ok, stat, readVars, h, lineVars, peerVars, sent>>

\* recv has failed: on_neterr, then connect again, or the end.
NetErr ==
  /\ \/ role = "connect" /\ stat = "on" /\ Attempt(t, <<>>, 0, FALSE) /\ UNCHANGED <<stat, h>>
     \/ role = "connect" /\ stat # "on" /\ FreeSelf(t, h, <<>>, FALSE)
          /\ UNCHANGED <<stat, h, init, retry, lineVars>>
     \/ role = "accept" /\ Close(t, h) /\ AfterClose(h)
          /\ conn' = FALSE /\ cache' = <<>>
          /\ UNCHANGED <<init, retry, lineVars>>
  /\ UNCHANGED <<role, load, ok, answered>>

ReadError ==
  /\ pc = "reading"
  /\ ~t.open \/ line = "dead" \/ (stat # "on" /\ in # <<>>)
  /\ NetErr
  /\ cut' = (cut \/ (rcache # <<>> /\ pc' = "resolving"))
  /\ UNCHANGED <<rcache, handled, peerVars, sent>>

\* parse_message. And were a message taken when its first piece is there.
WholeEarly(rc) == rc # <<>>
Whole(rc) == rc # <<>> /\ (Head(rc)[2] = 0 \/ Len(rc) > 1)
Parsed(rc) == IF Head(rc)[2] = 0 THEN [m |-> Head(rc)[1], rest |-> Tail(rc)]
              ELSE [m |-> IF Len(rc) > 1 /\ Head(rc)[2] = 1 /\ rc[2] = <<Head(rc)[1], 2>>
                          THEN Head(rc)[1] ELSE Garbage,
                    rest |-> SubSeq(rc, 3, Len(rc))]

\* The messages there are in a load, and what is left of it.
Load(rc) ==
  LET f[i \in 1..(Len(rc) + 1)] ==
        LET s == SubSeq(rc, i, Len(rc))
            p == Parsed(s)
            g == f[Len(rc) - Len(p.rest) + 1]
        IN  IF Whole(s) THEN [ms |-> <<p.m>> \o g.ms, rest |-> g.rest] ELSE [ms |-> <<>>, rest |-> s]
  IN  f[1]

\* The messages of a load are handled one after the other, in one run of the strand: a
\* login message is answered, and each is a beat.
Handled(ms) ==
  /\ handled' = handled \o SelectSeq(ms, LAMBDA m : m \notin {Login, Hb})
  /\ LET s == Sent(t, cache, conn, Login)
     IN  IF Login \in ToSet(ms) /\ role = "accept" THEN t' = s.t /\ cache' = s.cache
         ELSE UNCHANGED <<t, cache>>
  /\ h' = IF ms = <<>> THEN h ELSE Beat(h)
  /\ UNCHANGED <<pc, stat>>

\* Garbage is handled, too, or it throws. (What came before it in the same load is as in
\* a load of its own.)
Threw(ms) ==
  /\ ms # <<>> /\ Head(ms) = Garbage
  /\ Close(t, h) /\ AfterClose(h)
  /\ UNCHANGED <<handled, cache>>

\* recv reads some of what came, any part of it.
Read ==
  /\ pc = "reading" /\ stat = "on" /\ t.open /\ in # <<>>
  /\ \E n \in 1..Len(in) :
       LET got == Load(rcache \o SubSeq(in, 1, n))
       IN  /\ in' = SubSeq(in, n + 1, Len(in))
           /\ rcache' = got.rest
           /\ Handled(got.ms) \/ Threw(got.ms)
  /\ UNCHANGED <<role, load, init, retry, ok, answered, conn, line, half, cut, peerVars, sent>>

-----------------------------------------------------------------------------
(* The network and the peer *)

\* The peer begins with its login, or what it answers to ours.
PeerSends(m) ==
  /\ line = "up" /\ pc # "freed" /\ <<m, 0>> \notin ToSet(in)
  /\ m \in {Hb, came + 1} \ {load[2] + 1}
  /\ in' = in \o Pieces(<<m>>)
  /\ came' = IF m = Hb THEN came ELSE m
  /\ UNCHANGED <<coVars, stat, conn, cache, readVars, t, h, line, half, arrived, breaks, sent>>

Break ==
  /\ line = "up" /\ breaks < MaxBreaks /\ pc # "freed"
  /\ breaks' = breaks + 1
  /\ line' \in {"dead", "silent"} /\ in' = <<>>
  /\ UNCHANGED <<coVars, stat, conn, cache, readVars, t, h, half, came, arrived, sent>>

-----------------------------------------------------------------------------
\* connect of the actor has cached the login message; start has set conn_.
Init ==
  /\ role \in Roles /\ load \in Loads /\ stat = "ready" /\ pc = "started"
  /\ init = FALSE /\ retry = 0 /\ ok = FALSE /\ answered = 0
  /\ conn = (role = "accept")
  /\ cache = IF role = "connect" THEN <<Login>> ELSE <<>>
  /\ rcache = <<>> /\ handled = <<>> /\ cut = FALSE
  /\ t = NoSocket /\ h = NoHeartbeat
  /\ line = "dead" /\ in = <<>> /\ half = NoMsg
  /\ came = 0 /\ arrived = <<>> /\ breaks = 0 /\ sent = 0

Coroutine ==
  \/ Start \/ StartInVain \/ Resolved \/ Connected \/ ConnectDone \/ ConnectFailed
  \/ PauseOver \/ ConnectOff \/ ReadError \/ HbDone \/ SktDone
Peer == \E m \in {Hb, came + 1} : PeerSends(m)

Next ==
  \/ Coroutine \/ Read \/ Write \/ EndSend \/ HbExpire \/ HandleTimeout
  \/ SendPack \/ Stop \/ Peer \/ Break

Spec == Init /\ [][Next]_vars

\* What is posted runs, time passes, every attempt to connect ends, and so does every
\* write: the peer reads.
Fairness ==
  /\ WF_vars(Coroutine) /\ WF_vars(Read) /\ WF_vars(Write) /\ WF_vars(EndSend)
  /\ WF_vars(HbExpire) /\ WF_vars(HandleTimeout)

FairSpec == Spec /\ Fairness

-----------------------------------------------------------------------------
TypeOK ==
  /\ role \in Roles /\ load \in Loads /\ stat \in {"ready", "on", "off"}
  /\ pc \in {"started", "resolving", "connecting", "tried", "pausing", "reading",
             "hb_end", "hb_done", "skt_end", "skt_done", "freed"}
  /\ retry \in 0..Tries /\ answered \in 0..1
  /\ h.left \in 0..SizeMax /\ HbWaiting(h) \in Nat
  /\ line \in {"up", "dead", "silent"}

\* What is sent reaches the peer in the order it was sent, at most once, and every
\* connection carries whole messages one after the other, although cached messages,
\* the standby buffer and a write that fails go from one connection to the next.
Increasing(s) == \A i, j \in 1..Len(s) : i < j => s[i] < s[j]
SentInOrderOnce == Garbage \notin ToSet(arrived) /\ Increasing(arrived)

\* What is handled is what the peer wrote, in order, each message once, in whatever
\* portions it is read and over however many connections, until one is lost with a piece
\* of a message in recv_cache_ and another is made: the piece is kept then.
ReadsWhatWasSent ==
  ~cut => Garbage \notin ToSet(handled) /\ Increasing(handled)

\* What handle_net_msg asserts of every message that comes: that it is one that a socket
\* has written, with a tag (BOOST_ASSERT(has_tag)). (It does not hold after cut, README.md,
\* section 4.)
HandlesOnlyPacks == Garbage \notin ToSet(handled)

\* A pack finds skt_ whenever conn_ is set (BOOST_ASSERT(skt_) of send and send_msg), and
\* skt_ goes away, and the object with it, only when no write and no wait of the
\* heartbeat is going on and none will be begun. (Handlers of waits that are over may still
\* be posted: heartbeat's wait_end goes on at the first.)
QuietWhenFreed ==
  /\ conn /\ pc # "started" => t.made
  /\ pc = "freed" => ~t.sending /\ ~h.tmr /\ ~(h.on /\ h.fired > 0)
  /\ t.sending => t.made
  /\ pc \in {"hb_end", "hb_done", "skt_end", "skt_done"} => stat = "off" /\ (t.made => t.closed)

\* A connection that has gone silent does not stay: the heartbeat finds out.
SilenceIsNoticed ==
  (line = "silent" /\ stat = "on") ~> (line # "silent" \/ stat # "on")

\* The actor that asked for a connection is answered, connected or not, and a socket that
\* is stopped is freed whatever it was doing.
Settled == (role = "connect" => answered = 1) /\ (stat = "off" => pc = "freed")
ConnectAnsweredStopEnds == []<>Settled
=============================================================================
