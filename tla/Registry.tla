------------------------------- MODULE Registry -------------------------------
(***************************************************************************)
(* What a context knows of its sockets and services: the lists of every    *)
(* cache_pool (libs/actor/src/cache_pool.cpp), the calls of context.cpp    *)
(* that pass a registration on to all of them, and the life of sockets and *)
(* acceptors as far as it registers, deregisters and stops.                *)
(*                                                                         *)
(* Every cache_pool has a strand. context::register_socket and the like    *)
(* dispatch to one strand after the other, so that the calls of two        *)
(* strands may come in different orders to different pools. The pool of a  *)
(* nonblocking_actor gets the calls as packs, which keep the order as a    *)
(* strand does (PackQueue.tla), and is a pool like the others here.        *)
(* Connections themselves are in Connection.tla.                           *)
(***************************************************************************)
EXTENDS Integers, Sequences, FiniteSets, SequencesExt, FiniteSetsExt

CONSTANTS
  Pools,        \* the cache_pools
  Sockets,      \* aids of sockets, numbers: std::set<aid_t> is ordered
  Ctxs,         \* ctxid_t of other contexts, numbers: std::map is ordered
  Types,        \* those of socket_comm, socket_router, socket_joint there are
  Actors,       \* actors that register under one name
  Home,         \* the cache_pool of each of them
  Dials,        \* connects: the socket, its pool, that of the actor, the target
  Accepted,     \* what an acceptor may accept: the socket and the pool chosen for it
  MaxCalls      \* bound on connects, binds, logins and registrations

ASSUME RegistryAssumption ==
  /\ IsFiniteSet(Pools)
  /\ Sockets \subseteq Nat \ {0} /\ Ctxs \subseteq Nat \ {0} /\ IsFiniteSet(Sockets)
  /\ Types \subseteq {"comm", "router", "joint"}
  /\ Home \in [Actors -> Pools]
  /\ Dials \subseteq Sockets \X Pools \X Pools \X (Types \X Ctxs)
  /\ Accepted \subseteq Sockets \X Pools
  /\ MaxCalls \in Nat

VARIABLES
  lists,        \* conn_list_, router_list_, joint_list_ of every pool
  curr,         \* their curr_.._list_: a ctxid
  svc,          \* service_list_ of every pool, for the one name
  stopped,      \* stopped_
  members,      \* socket_list_ of every pool
  acceptors,    \* acceptor_list_ of every pool: the one acceptor
  queue,        \* what waits for the strand of each pool
  todo,         \* the dispatches a strand, or the main thread, is in the middle of
  st,           \* where the life of each socket is
  pool,         \* user_ of each socket
  pair,         \* its curr_pr
  due,          \* where, and as what, the actor that connected is to register it, too
  bySire,       \* registrations made like that
  acc,          \* where the life of the acceptor is, and its pool
  registered,   \* actors between register_service and deregister_service
  calls

poolVars == <<lists, curr, svc>>
stopVars == <<stopped, members, acceptors>>
sktVars == <<st, pool, pair, due, bySire>>
vars == <<poolVars, stopVars, queue, todo, sktVars, acc, registered, calls>>

Pairs == Types \X Ctxs
Main == "main"
None == 0
NoPair == <<"comm", None>>

-----------------------------------------------------------------------------
(* Lists of a cache_pool. served: the sockets of an entry that were selected in *)
(* this round; a change of the list begins another.                            *)

Begin(S) == IF S = {} THEN None ELSE Min(S)
\* ++itr, and begin again after the last.
After(S, x) == Begin(IF \E y \in S : y > x THEN {y \in S : y > x} ELSE S)

NoEntry == [known |-> FALSE, skts |-> {}, curr |-> None, served |-> {}]
Known(L, ty) == {c \in Ctxs : L[<<ty, c>>].known}

\* register_socket.
Registered(L, pr, s) ==
  [L EXCEPT ![pr] = [known |-> TRUE, skts |-> @.skts \cup {s},
                     served |-> IF s \in @.skts THEN @.served ELSE {},
                     curr |-> IF @.skts \subseteq {s} THEN s ELSE @.curr]]
RegisteredCurr(C, L, pr) ==
  IF Known(L, pr[1]) = {pr[2]} THEN [C EXCEPT ![pr[1]] = pr[2]] ELSE C

\* deregister_socket: the entry stays. And were the current socket left.
DeregisteredOnly(L, pr, s) ==
  IF pr \in Pairs /\ L[pr].known
  THEN [L EXCEPT ![pr] = [@ EXCEPT !.skts = @ \ {s}, !.served = {}]]
  ELSE L
Deregistered(L, pr, s) ==
  IF pr \in Pairs /\ L[pr].known
  THEN [L EXCEPT ![pr] = [@ EXCEPT !.skts = @ \ {s}, !.served = {},
                                   !.curr = Begin(L[pr].skts \ {s})]]
  ELSE L

\* The rest of select_.._socket and select_router once the entry is found.
Taken(e) ==
  IF e.skts = {} THEN e
  ELSE [e EXCEPT !.curr = After(e.skts, e.curr),
                 !.served = IF e.served \cup {e.curr} = e.skts THEN {} ELSE @ \cup {e.curr}]
SelectEntry(p, pr) == lists' = [lists EXCEPT ![p][pr] = Taken(@)]

\* select_straight_socket, with a ctxid and without, and select_router (joint sockets
\* likewise).
SelectStraight(p, c) ==
  /\ "comm" \in Types
  /\ lists[p][<<"comm", c>>].known
  /\ SelectEntry(p, <<"comm", c>>)
  /\ UNCHANGED curr

SelectAny(p, ty) ==
  /\ Known(lists[p], ty) # {}
  /\ SelectEntry(p, <<ty, curr[p][ty]>>)
  /\ curr' = [curr EXCEPT ![p][ty] = After(Known(lists[p], ty), @)]

SelectSocket(p) ==
  /\ todo[p] = <<>>
  /\ (\E c \in Ctxs : SelectStraight(p, c)) \/ (\E ty \in Types : SelectAny(p, ty))
  /\ UNCHANGED <<svc, stopVars, queue, todo, sktVars, acc, registered, calls>>

-----------------------------------------------------------------------------
(* Dispatches. A strand does nothing else before it is through with them.      *)

Reg(pr, s) == [op |-> "reg", pr |-> pr, skt |-> s]
Dereg(pr, s) == [op |-> "dereg", pr |-> pr, skt |-> s]
RegSvc(a) == [op |-> "regsvc", actor |-> a]
DeregSvc(a) == [op |-> "deregsvc", actor |-> a]
Spawn(s) == [op |-> "spawn", skt |-> s]
StopPool == [op |-> "stop"]

\* context::register_socket and the like, called on the strand of p: one after the other
\* to every pool; what goes to its own strand is called at once.
ToAll(from, ops) ==
  LET others == SetToSeq(Pools \ {from})
  IN  FlattenSeq([i \in 1..Len(ops) |->
        [j \in 1..Len(others) |-> [to |-> others[j], op |-> ops[i]]]])

Dispatch(p) ==
  /\ todo[p] # <<>>
  /\ LET d == Head(todo[p]) IN queue' = [queue EXCEPT ![d.to] = Append(@, d.op)]
  /\ todo' = [todo EXCEPT ![p] = Tail(@)]
  /\ UNCHANGED <<poolVars, stopVars, sktVars, acc, registered, calls>>

Call == calls < MaxCalls /\ calls' = calls + 1

-----------------------------------------------------------------------------
(* Services *)

\* cache_pool::register_service, deregister_service, of a service list.
Inserted(v, a) == IF v = "none" THEN a ELSE v
Erased(v, a) == IF v = a THEN "none" ELSE v

RegisterService(a) ==
  LET p == Home[a]
  IN  /\ todo[p] = <<>> /\ ~stopped[p] /\ Call
      /\ a \notin registered
      /\ registered' = registered \cup {a}
      /\ svc' = [svc EXCEPT ![p] = Inserted(@, a)]
      /\ todo' = [todo EXCEPT ![p] = ToAll(p, <<RegSvc(a)>>)]
      /\ UNCHANGED <<lists, curr, stopVars, queue, sktVars, acc>>

DeregisterService(a) ==
  LET p == Home[a]
  IN  /\ todo[p] = <<>> /\ Call
      /\ a \in registered
      /\ registered' = registered \ {a}
      /\ svc' = [svc EXCEPT ![p] = Erased(@, a)]
      /\ todo' = [todo EXCEPT ![p] = ToAll(p, <<DeregSvc(a)>>)]
      /\ UNCHANGED <<lists, curr, stopVars, queue, sktVars, acc>>

-----------------------------------------------------------------------------
(* Sockets *)

\* Calls of register_socket and deregister_socket on the pool's own strand, in turn.
Apply(p, op) ==
  /\ lists' = [lists EXCEPT ![p] =
       IF op.op = "reg" THEN Registered(@, op.pr, op.skt) ELSE Deregistered(@, op.pr, op.skt)]
  /\ curr' = IF op.op = "reg" THEN [curr EXCEPT ![p] = RegisteredCurr(@, lists'[p], op.pr)]
             ELSE curr

\* connect_impl, on the strand of the pool chosen: get_socket, init, connect. The actor
\* that connects lives in the pool sire.
Connect(s, p, sire, pr) ==
  /\ todo[p] = <<>> /\ Call
  /\ st[s] = "none" /\ pr[1] \in {"comm", "router"}
  /\ st' = [st EXCEPT ![s] = "connect"]
  /\ pool' = [pool EXCEPT ![s] = p]
  /\ pair' = [pair EXCEPT ![s] = pr]
  /\ due' = [due EXCEPT ![s] = {<<sire, pr>>}]
  /\ Apply(p, Reg(pr, s))
  /\ UNCHANGED <<svc, stopVars, queue, todo, bySire, acc, registered>>

\* The coroutine of a socket begins: run_conn of one that connects, run of one accepted.
\* And were stopped() not looked at.
MayRunAlways(p) == TRUE
MayRun(p) == ~stopped[p]

Run(s) ==
  LET p == pool[s]
  IN  /\ st[s] \in {"connect", "accepted"} /\ todo[p] = <<>>
      /\ IF MayRun(p)
         THEN /\ st' = [st EXCEPT ![s] = "on"]
              /\ members' = [members EXCEPT ![p] = @ \cup {s}]
              /\ todo' = IF st[s] = "connect"
                         THEN [todo EXCEPT ![p] = ToAll(p, <<Reg(pair[s], s)>>)] ELSE todo
         ELSE /\ st' = [st EXCEPT ![s] = "off"]
              /\ UNCHANGED <<members, todo>>
      /\ UNCHANGED <<poolVars, stopped, acceptors, queue, pool, pair, due, bySire, acc,
                     registered, calls>>

\* sync_ctxid, when the other side's login, or its answer, names another context or type.
\* And were the old registration left.
MovedOnly(s, pr) == ToAll(pool[s], <<Reg(pr, s)>>)
Moved(s, pr) == ToAll(pool[s], <<Dereg(pair[s], s), Reg(pr, s)>>)

SyncCtxid(s, pr) ==
  LET p == pool[s]
      L == Registered(Deregistered(lists[p], pair[s], s), pr, s)
  IN  /\ st[s] = "on" /\ todo[p] = <<>> /\ Call
      /\ pr # pair[s]
      /\ pair' = [pair EXCEPT ![s] = pr]
      /\ lists' = [lists EXCEPT ![p] = L]
      /\ curr' = [curr EXCEPT ![p] = RegisteredCurr(@, L, pr)]
      /\ todo' = [todo EXCEPT ![p] = Moved(s, pr)]
      /\ UNCHANGED <<svc, stopVars, queue, st, pool, due, bySire, acc, registered>>

\* The connection ends, or is stopped: free_self.
FreeSelf(s) ==
  LET p == pool[s]
  IN  /\ st[s] \in {"on", "off"} /\ todo[p] = <<>>
      /\ st' = [st EXCEPT ![s] = "freed"]
      /\ members' = [members EXCEPT ![p] = @ \ {s}]
      /\ IF pair[s] = NoPair THEN UNCHANGED <<lists, curr, todo>>
         ELSE /\ Apply(p, Dereg(pair[s], s))
              /\ todo' = [todo EXCEPT ![p] = ToAll(p, <<Dereg(pair[s], s)>>)]
      /\ UNCHANGED <<svc, stopped, acceptors, queue, pool, pair, due, bySire, acc, registered, calls>>

\* connect, handle_connect (remote.hpp): the actor gets msg_new_conn, some time after the
\* socket has begun, and registers the socket under the target's id in its own pool.
SireRegisters(s, p, pr) ==
  /\ <<p, pr>> \in due[s] /\ todo[p] = <<>>
  /\ st[s] # "connect"
  /\ due' = [due EXCEPT ![s] = {}]
  /\ Apply(p, Reg(pr, s))
  /\ bySire' = bySire \cup {<<p, pr, s>>}
  /\ UNCHANGED <<svc, stopVars, queue, todo, st, pool, pair, acc, registered, calls>>
-----------------------------------------------------------------------------
(* Acceptors, stopping, and what comes to a strand *)

\* bind_impl, on the strand of the pool chosen.
Bind(p) ==
  /\ todo[p] = <<>> /\ Call
  /\ acc.st = "none"
  /\ acc' = [st |-> "bind", pool |-> p]
  /\ UNCHANGED <<poolVars, stopVars, queue, todo, sktVars, registered>>

RunAcceptor ==
  LET p == acc.pool
  IN  /\ acc.st = "bind" /\ todo[p] = <<>>
      /\ IF MayRun(p)
         THEN acc' = [acc EXCEPT !.st = "on"] /\ acceptors' = acceptors \cup {p}
         ELSE acc' = [acc EXCEPT !.st = "over"] /\ UNCHANGED acceptors
      /\ UNCHANGED <<poolVars, stopped, members, queue, todo, sktVars, registered, calls>>

\* A connection is accepted: spawn_socket is posted to some pool. The accept that has
\* already completed when the acceptor is stopped is not lost, and is the last.
Accept(s, p) ==
  /\ acc.st \in {"on", "off"} /\ todo[acc.pool] = <<>> /\ Call
  /\ st[s] = "none"
  /\ st' = [st EXCEPT ![s] = "posted"]
  /\ acc' = IF acc.st = "off" THEN [acc EXCEPT !.st = "over"] ELSE acc
  /\ queue' = [queue EXCEPT ![p] = Append(@, Spawn(s))]
  /\ UNCHANGED <<poolVars, stopVars, todo, pool, pair, due, bySire, registered>>

\* accept fails, or the acceptor is stopped: free_self.
AcceptorFree ==
  /\ acc.st \in {"on", "off", "over"} /\ todo[acc.pool] = <<>>
  /\ acc' = [acc EXCEPT !.st = "freed"]
  /\ acceptors' = acceptors \ {acc.pool}
  /\ UNCHANGED <<poolVars, stopped, members, queue, todo, sktVars, registered, calls>>

\* context::stop, in the main thread, dispatches stop to every pool.
Stop ==
  /\ \A p \in Pools : ~stopped[p]
  /\ todo[Main] = <<>> /\ ~\E p \in Pools : StopPool \in ToSet(queue[p])
  /\ todo' = [todo EXCEPT ![Main] =
       LET ps == SetToSeq(Pools) IN [i \in 1..Len(ps) |-> [to |-> ps[i], op |-> StopPool]]]
  /\ UNCHANGED <<poolVars, stopVars, queue, sktVars, acc, registered, calls>>

\* cache_pool::stop: every socket and acceptor in the pool's lists is closed.
StopNow(p) ==
  /\ stopped' = [stopped EXCEPT ![p] = TRUE]
  /\ st' = [s \in Sockets |-> IF s \in members[p] THEN "off" ELSE st[s]]
  /\ acc' = IF p \in acceptors THEN [acc EXCEPT !.st = "off"] ELSE acc
  /\ members' = [members EXCEPT ![p] = {}]
  /\ acceptors' = acceptors \ {p}
  /\ UNCHANGED <<poolVars, pool, pair>>

SpawnSocket(p, s) ==
  /\ st' = [st EXCEPT ![s] = "accepted"]
  /\ pool' = [pool EXCEPT ![s] = p]
  /\ pair' = [pair EXCEPT ![s] = NoPair]
  /\ UNCHANGED <<poolVars, stopVars, acc>>

Deliver(p) ==
  /\ todo[p] = <<>> /\ queue[p] # <<>>
  /\ queue' = [queue EXCEPT ![p] = Tail(@)]
  /\ LET op == Head(queue[p])
     IN  \/ op.op \in {"reg", "dereg"} /\ Apply(p, op)
              /\ UNCHANGED <<svc, stopVars, st, pool, pair, acc>>
         \/ op.op = "regsvc" /\ svc' = [svc EXCEPT ![p] = Inserted(@, op.actor)]
              /\ UNCHANGED <<lists, curr, stopVars, st, pool, pair, acc>>
         \/ op.op = "deregsvc" /\ svc' = [svc EXCEPT ![p] = Erased(@, op.actor)]
              /\ UNCHANGED <<lists, curr, stopVars, st, pool, pair, acc>>
         \/ op.op = "spawn" /\ SpawnSocket(p, op.skt)
         \/ op.op = "stop" /\ StopNow(p)
  /\ UNCHANGED <<todo, due, bySire, registered, calls>>

-----------------------------------------------------------------------------
Init ==
  /\ lists = [p \in Pools |-> [pr \in Pairs |-> NoEntry]]
  /\ curr = [p \in Pools |-> [ty \in Types |-> None]]
  /\ svc = [p \in Pools |-> "none"]
  /\ stopped = [p \in Pools |-> FALSE]
  /\ members = [p \in Pools |-> {}] /\ acceptors = {}
  /\ queue = [p \in Pools |-> <<>>]
  /\ todo = [p \in Pools \cup {Main} |-> <<>>]
  /\ st = [s \in Sockets |-> "none"]
  /\ pool = [s \in Sockets |-> "none"]
  /\ pair = [s \in Sockets |-> NoPair]
  /\ due = [s \in Sockets |-> {}] /\ bySire = {}
  /\ acc = [st |-> "none", pool |-> "none"]
  /\ registered = {} /\ calls = 0

Services == \E a \in Actors : RegisterService(a) \/ DeregisterService(a)
Connects == \E d \in Dials : Connect(d[1], d[2], d[3], d[4])
Logins == \E s \in Sockets, pr \in Pairs : SyncCtxid(s, pr)
Accepts == \E d \in Accepted : Accept(d[1], d[2])
Sires == \E s \in Sockets, p \in Pools, pr \in Pairs : SireRegisters(s, p, pr)

Next ==
  \/ \E p \in Pools : SelectSocket(p)
  \/ \E p \in Pools \cup {Main} : Dispatch(p)
  \/ \E p \in Pools : Deliver(p)
  \/ Services \/ Connects \/ Logins \/ Sires
  \/ \E s \in Sockets : Run(s) \/ FreeSelf(s)
  \/ \E p \in Pools : Bind(p)
  \/ RunAcceptor \/ Accepts \/ AcceptorFree \/ Stop

Spec == Init /\ [][Next]_vars

\* What is posted to a strand runs, and what is stopped ends (Connection.tla): a socket
\* that is on may stay so.
Fairness ==
  /\ \A p \in Pools : WF_vars(Deliver(p))
  /\ \A p \in Pools \cup {Main} : WF_vars(Dispatch(p))
  /\ \A s \in Sockets : WF_vars(Run(s)) /\ WF_vars(st[s] = "off" /\ FreeSelf(s))
  /\ WF_vars(RunAcceptor) /\ WF_vars(acc.st \in {"off", "over"} /\ AcceptorFree)

FairSpec == Spec /\ Fairness

-----------------------------------------------------------------------------
TypeOK ==
  /\ \A p \in Pools : \A pr \in Pairs : lists[p][pr].skts \subseteq Sockets
  /\ \A p \in Pools : svc[p] \in Actors \cup {"none"}
  /\ \A s \in Sockets : st[s] \in {"none", "connect", "posted", "accepted", "on", "off", "freed"}
  /\ calls \in 0..MaxCalls

\* The iterators that select_socket dereferences are those of a socket in the list and of
\* an entry that exists, whatever was registered and deregistered in between; and as
\* long as the list stays, no socket is taken again before every other one of it was.
SocketsTakeTurns ==
  \A p \in Pools :
    /\ \A pr \in Pairs :
         LET e == lists[p][pr]
         IN  IF e.skts = {} THEN e.curr = None ELSE e.curr \in e.skts \ e.served
    /\ \A ty \in Types : Known(lists[p], ty) # {} => curr[p][ty] \in Known(lists[p], ty)

\* When every dispatch has come through, each pool knows a socket under its context as
\* long as it lives and no longer, and no service that has deregistered: registrations do
\* not overtake each other. What the actor that connected has registered itself is left
\* out: it may come after the socket is gone, and stays then. A pool may still lack a
\* service: of two actors that hand a name over, some pools may refuse the second and
\* then erase the first.
Drained == \A p \in Pools : queue[p] = <<>> /\ todo[p] = <<>>
Alive(pr) == {s \in Sockets : st[s] = "on" /\ pair[s] = pr}
PoolsAgree ==
  Drained =>
    \A p \in Pools :
      /\ \A pr \in Pairs :
           /\ Alive(pr) \subseteq lists[p][pr].skts
           /\ \A s \in lists[p][pr].skts \ Alive(pr) :
                st[s] \in {"connect", "off"} \/ <<p, pr, s>> \in bySire
      /\ svc[p] \in registered \cup {"none"}

\* After stop every socket and acceptor ends, those too that were connecting, posted to
\* another pool or not begun when the pool was stopped: nothing keeps the io_service, and
\* context::stop that joins its threads, from coming to an end.
StopEnds ==
  \A p \in Pools : (stopped[p]) ~>
    /\ acc.pool = p => acc.st = "freed"
    /\ \A s \in Sockets : pool[s] = p => st[s] = "freed"
=============================================================================
