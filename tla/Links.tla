-------------------------------- MODULE Links --------------------------------
(***************************************************************************)
(* Links and monitors: how an actor is told that another one has exited,   *)
(* in the same context, over a socket, and over the two sockets of a       *)
(* router (libs/actor/src/basic_actor.cpp, socket.cpp).                    *)
(*                                                                         *)
(* Who links keeps the link, sends link_t, and whoever gets it keeps a     *)
(* link back (for a monitor only the one that is watched does). An actor   *)
(* that exits sends exit_t along its list. A socket remembers the links    *)
(* that go through it, and when its connection fails tells their local     *)
(* ends that the others exited; a router does so with pairs of sockets,    *)
(* wrapping link_t and exit_t in fwd_link_t and fwd_exit_t between them.   *)
(*                                                                         *)
(* An aid is the object an actor lives in and its sid_: the object changes *)
(* its sid_ when the actor exits and when the next one starts. An accepted *)
(* socket that loses its connection is freed, the connection made again is *)
(* accepted by the same object under a new aid. It is registered when it   *)
(* has read msg_login, which comes after what the peer had in its cache:   *)
(* until then nobody in its context finds a socket to that peer, not even  *)
(* this socket itself for an answer. (That the registration reaches other  *)
(* cache_pools later is left to Registry.tla.) Every actor and socket has  *)
(* a strand of its own (a cache_pool each): whatever is sent is posted.    *)
(***************************************************************************)
EXTENDS Integers, Sequences, FiniteSets, SequencesExt

CONSTANTS
  Objects,      \* the objects actors live in,
  Mortal,       \* those whose actor may exit of its own accord,
  Trapping,     \* those whose actor reads exit notifications and goes on
  MayLink,      \* pairs <<o, p>>: the actor in o may link to one in p
  Alone,        \* those of them that are linked only when no others are (a bound)
  Connectors,   \* sockets that connect,
  Acceptors,    \* and those made by an acceptor;
  Peer,         \* socket -> the socket at the other end of its connection
  Routing,      \* those of a router, accepted by its context
  Ctx,          \* object or socket -> its context
  Route,        \* <<c, d>> -> the socket of context c that leads to d
  Router,       \* context -> its socket that leads to a router, or none
  MaxLinks,     \* bound on the calls of link and monitor
  MaxBreaks,    \* bound on the failures of connections
  Reused        \* the objects that are used again, for one more actor (a bound)

Sockets == Connectors \cup Acceptors

ASSUME LinksAssumption ==
  /\ Mortal \subseteq Objects /\ Trapping \subseteq Objects /\ Reused \subseteq Objects
  /\ MayLink \subseteq Objects \X Objects /\ Alone \subseteq MayLink
  /\ Peer \in [Sockets -> Sockets] /\ Connectors \cap Acceptors = {}
  /\ \A s \in Sockets : Peer[Peer[s]] = s /\ (s \in Connectors <=> Peer[s] \in Acceptors)
  /\ Routing \subseteq Acceptors /\ Objects \cap Sockets = {}
  \* A socket of its context leads to whoever an actor may link to, and back to it, and one
  \* of a router's does. (From the context of a router nobody links: select_socket does not
  \* find the router's sockets.)
  /\ \A p \in MayLink :
       /\ Ctx[p[1]] # Ctx[p[2]] => /\ Route[<<Ctx[p[1]], Ctx[p[2]]>>] \in Sockets \ Routing
                                  /\ Route[<<Ctx[p[2]], Ctx[p[1]]>>] \in Sockets \ Routing
       /\ \A s \in Routing : Route[<<Ctx[s], Ctx[p[2]]>>] \in Routing
  /\ MaxLinks \in Nat /\ MaxBreaks \in Nat

VARIABLES
  sid,          \* object -> sid_
  live,         \* object -> an actor is in it
  link_list,    \* object -> link_list_
  monitor_list, \* object -> monitor_list_
  inbox,        \* object -> the exit notifications unread
  strand,       \* object or socket -> the packs posted to its strand
  straight,     \* socket -> straight_link_list_: pairs of a local and a remote aid
  routes,       \* socket -> router_link_list_
  gen,          \* socket -> the sid_ of the aid it is known by
  conn,         \* socket -> conn_
  registered,   \* socket -> it is in the list of its context, for its peer's context
  cache,        \* socket -> conn_cache_
  net,          \* socket -> what its peer has sent and it has not handled
  ahead,        \* socket -> how many of those come before msg_login, if it is to come
  broken,       \* connector -> its connection has failed, whoever knows it
  aborted,      \* the router's process has ended in an assertion
  links,        \* history: the links made, <<who, to whom>>,
  exited,       \* the actors that have exited,
  told,         \* and who was told of whom, <<who, of whom, why>>
  forgotten,    \* the links the code loses, <<who, to whom, where>>,
  calls,        \* how many calls of link and monitor there were,
  breaks        \* and how many connections have failed

actorVars == <<sid, live, link_list, monitor_list, inbox>>
socketVars == <<straight, routes, gen, conn, registered, cache>>
netVars == <<net, ahead, broken, aborted, breaks>>
historyVars == <<links, exited, told, forgotten, calls>>
vars == <<actorVars, strand, socketVars, netVars, historyVars>>

Aid(o) == <<o, sid[o]>>
SktAid(s) == <<s, gen[s]>>
NoSkt == <<"none", 0>>

\* check(aid, ...), for an actor and for a socket.
Check(aid) == aid = Aid(aid[1])
CheckSkt(skt) == skt = SktAid(skt[1])

\* A pack: its tag_ (how is the type of a link or the code of an exit, aid whom the tag
\* names, via the socket that fwd_link_t and fwd_exit_t name), recver_ and skt_.
Pack(tag, how, aid, to, skt) ==
  [tag |-> tag, how |-> how, aid |-> aid, to |-> to, skt |-> skt, via |-> NoSkt]
Link(type, aid, to, skt) == Pack("link", type, aid, to, skt)
Exit(code, aid, to, skt) == Pack("exit", code, aid, to, skt)
Already(aid, to, skt) == Pack("aid", "already", aid, to, skt)
Fwd(pk, skt, via) == [pk EXCEPT !.tag = IF pk.tag = "link" THEN "fwd_link" ELSE "fwd_exit",
                                !.skt = skt, !.via = via]
Unwrapped(pk) == [pk EXCEPT !.tag = CASE pk.tag = "fwd_link" -> "link"
                                      [] pk.tag = "fwd_exit" -> "exit"
                                      [] OTHER -> pk.tag,
                            !.via = NoSkt]

\* Sets of [at, pk] posted to the strands.
Posted(str, sends) ==
  [x \in DOMAIN str |->
     str[x] \o LET to == {d \in sends : d.at = x} IN [i \in 1..Cardinality(to) |-> SetToSeq(to)[i].pk]]
PostTo(str, x, pk) == [str EXCEPT ![x] = Append(@, pk)]

\* select_socket finds a socket in conn_list_ or, for want of one, in router_list_,
\* select_joint_socket in joint_list_, where the sockets of a router are.
Registered(skts, s) == IF s \in skts /\ registered[s] THEN SktAid(s) ELSE NoSkt
SelectSocket(c, d) ==
  LET skt == Registered(Sockets \ Routing, Route[<<c, d>>])
  IN  IF skt # NoSkt THEN skt ELSE Registered(Sockets \ Routing, Router[c])
SelectJointSocket(c, d) == Registered(Routing, Route[<<c, d>>])

\* send_already_exited from context c, to who sent the link_t: if it is of the context and
\* still lives, or else by the socket that select_socket finds. If there is none no one
\* is answered.
Answered(c, str, pk) ==
  LET skt == SelectSocket(c, Ctx[pk.aid[1]])
  IN  IF Ctx[pk.aid[1]] = c
      THEN IF Check(pk.aid) THEN PostTo(str, pk.aid[1], Already(pk.to, pk.aid, NoSkt)) ELSE str
      ELSE IF skt = NoSkt THEN str ELSE PostTo(str, skt[1], Already(pk.to, pk.aid, skt))
NoAnswer(c, pk) == Ctx[pk.aid[1]] # c /\ SelectSocket(c, Ctx[pk.aid[1]]) = NoSkt

Forget(pk, where) == forgotten \cup {<<pk.aid, pk.to, where>>}

-----------------------------------------------------------------------------
(* Actors *)

\* std::map::insert: an entry there is stays.
AddLink(list, aid, skt) ==
  IF \E l \in list : l.aid = aid THEN list ELSE list \cup {[aid |-> aid, skt |-> skt]}

\* pri_link and pri_monitor.
Keep(o, type, aid, skt) ==
  IF type = "linked"
  THEN link_list' = [link_list EXCEPT ![o] = AddLink(@, aid, skt)] /\ UNCHANGED monitor_list
  ELSE monitor_list' = [monitor_list EXCEPT ![o] = @ \cup {aid}] /\ UNCHANGED link_list

LinkTo(o, type, aid) ==
  /\ live[o] /\ <<o, aid[1]>> \in MayLink
  /\ calls < MaxLinks /\ (<<o, aid[1]>> \in Alone => calls = 0)
  /\ calls' = IF <<o, aid[1]>> \in Alone THEN MaxLinks ELSE calls + 1
  /\ LET local == Ctx[aid[1]] = Ctx[o]
         skt == IF local THEN NoSkt ELSE SelectSocket(Ctx[o], Ctx[aid[1]])
     IN  IF ~local /\ skt = NoSkt
         THEN /\ strand' = PostTo(strand, o, Already(aid, Aid(o), NoSkt))
              /\ UNCHANGED <<link_list, monitor_list>>
         ELSE /\ Keep(o, type, aid, skt)
              /\ strand' = PostTo(strand, IF local THEN aid[1] ELSE skt[1],
                                  Link(type, Aid(o), aid, skt))
  /\ links' = links \cup {<<Aid(o), aid>>}
  /\ UNCHANGED <<sid, live, inbox, socketVars, netVars, exited, told, forgotten>>

\* free_self: update_aid, send_exit along the list, on_free. And were on_free to leave
\* the list, or the exits sent in the name of the new aid.
ClearListForgotten(o) == UNCHANGED link_list
ClearList(o) == link_list' = [link_list EXCEPT ![o] = {}]

SendExitOfNext(o) ==
  {[at |-> IF l.skt = NoSkt THEN l.aid[1] ELSE l.skt[1],
    pk |-> Exit("exited", <<o, sid[o] + 1>>, l.aid, l.skt)] : l \in link_list[o]}
SendExit(o) ==
  {[at |-> IF l.skt = NoSkt THEN l.aid[1] ELSE l.skt[1],
    pk |-> Exit("exited", Aid(o), l.aid, l.skt)] : l \in link_list[o]}

Free(o) ==
  /\ sid' = [sid EXCEPT ![o] = @ + 1]
  /\ live' = [live EXCEPT ![o] = FALSE]
  /\ strand' = Posted(strand, SendExit(o))
  /\ ClearList(o)
  /\ monitor_list' = [monitor_list EXCEPT ![o] = {}]
  /\ inbox' = [inbox EXCEPT ![o] = <<>>]
  /\ exited' = exited \cup {Aid(o)}
  /\ UNCHANGED <<socketVars, netVars, links, forgotten, calls>>

\* (An actor that no link names exits unnoticed: left out, to bound the states.)
ExitActor(o) ==
  /\ live[o] /\ o \in Mortal
  /\ \E l \in links : Aid(o) \in {l[1], l[2]}
  /\ Free(o)
  /\ UNCHANGED told

\* recv of an exit notification. A match list that does not name exit gets it added,
\* and recv throws what it reads: the actor exits too.
Told(o) == told' = told \cup {<<Aid(o), Head(inbox[o]).aid, Head(inbox[o]).why>>}

RecvExit(o) ==
  /\ live[o] /\ inbox[o] # <<>>
  /\ Told(o)
  /\ IF o \in Trapping
     THEN /\ inbox' = [inbox EXCEPT ![o] = Tail(@)]
          /\ UNCHANGED <<sid, live, link_list, monitor_list, strand, socketVars, netVars,
                         links, exited, forgotten, calls>>
     ELSE Free(o)

\* The next actor of the object.
Spawn(o) ==
  /\ o \in Reused /\ sid[o] = 2
  /\ sid' = [sid EXCEPT ![o] = @ + 1]
  /\ live' = [live EXCEPT ![o] = TRUE]
  /\ UNCHANGED <<link_list, monitor_list, inbox, strand, socketVars, netVars, historyVars>>

\* handle_recv of an actor.
Arrives(o, pk, rest) ==
  /\ strand' = rest
  /\ IF pk.tag = "link"
     THEN /\ link_list' = [link_list EXCEPT ![o] = AddLink(@, pk.aid, pk.skt)]
          /\ forgotten' = IF \E l \in link_list[o] : l.aid = pk.aid /\ l.skt # pk.skt
                          THEN Forget(pk, "stored before") ELSE forgotten
          /\ UNCHANGED <<monitor_list, inbox>>
     ELSE /\ inbox' = [inbox EXCEPT ![o] =
                         Append(@, [aid |-> pk.aid, why |-> pk.how])]
          /\ IF pk.tag = "exit"
             THEN /\ link_list' = [link_list EXCEPT ![o] = {l \in @ : l.aid # pk.aid}]
                  /\ monitor_list' = [monitor_list EXCEPT ![o] = @ \ {pk.aid}]
             ELSE UNCHANGED <<link_list, monitor_list>>
          /\ UNCHANGED forgotten

\* The aid is not the object's any more: a link is answered.
Bounce(o, pk, rest) ==
  /\ strand' = IF pk.tag = "link" THEN Answered(Ctx[o], rest, pk) ELSE rest
  /\ forgotten' = IF pk.tag = "link" /\ NoAnswer(Ctx[o], pk) THEN Forget(pk, "no answer") ELSE forgotten
  /\ UNCHANGED <<link_list, monitor_list, inbox>>

HandleRecv(o) ==
  /\ strand[o] # <<>>
  /\ LET pk == Head(strand[o])
         rest == [strand EXCEPT ![o] = Tail(@)]
     IN  IF Check(pk.to) THEN Arrives(o, pk, rest) ELSE Bounce(o, pk, rest)
  /\ UNCHANGED <<sid, live, socketVars, netVars, links, exited, told, calls>>
-----------------------------------------------------------------------------
(* Sockets *)

Wire(s) == IF s \in Connectors THEN s ELSE Peer[s]

\* send: over the connection, after what was cached; into the cache while there is none.
NetWith(n, s, pk) ==
  IF conn[s] /\ ~broken[Wire(s)] THEN [n EXCEPT ![Peer[s]] = @ \o Append(cache[s], pk)] ELSE n
CacheWith(s, pk) ==
  [cache EXCEPT ![s] = IF conn[s] THEN <<>> ELSE Append(@, pk)]

\* add_ and remove_straight_link, add_ and remove_router_link.
AddStraight(s, src, des) == [straight EXCEPT ![s] = @ \cup {<<src, des>>}]
RemoveStraight(s, src, des) == [straight EXCEPT ![s] = @ \ {<<src, des>>}]
RoutesOf(s, src, des) == {r \in routes[s] : r.src = src /\ r.des = des}
AddRoute(s, src, des, skt) ==
  IF RoutesOf(s, src, des) # {} THEN routes
  ELSE [routes EXCEPT ![s] = @ \cup {[src |-> src, des |-> des, skt |-> skt]}]
RemoveRoute(s, src, des) == [routes EXCEPT ![s] = @ \ RoutesOf(s, src, des)]

\* handle_recv of a socket: the books are kept, and the pack goes out. And were the
\* sender's link not noted.
NoteNothing(s, pk) == UNCHANGED <<straight, routes>>
Note(s, pk) ==
  CASE pk.tag = "link"     -> straight' = AddStraight(s, pk.aid, pk.to) /\ UNCHANGED routes
    [] pk.tag = "exit"     -> straight' = RemoveStraight(s, pk.aid, pk.to) /\ UNCHANGED routes
    [] pk.tag = "fwd_link" -> routes' = AddRoute(s, pk.aid, pk.to, pk.via) /\ UNCHANGED straight
    [] pk.tag = "fwd_exit" -> routes' = RemoveRoute(s, pk.aid, pk.to) /\ UNCHANGED straight
    [] OTHER               -> UNCHANGED <<straight, routes>>

\* The aid of the socket is not its own any more: link_t is answered, fwd_link_t is not.
SocketBounce(s, pk, rest) ==
  /\ strand' = IF pk.tag = "link" THEN Answered(Ctx[s], rest, pk) ELSE rest
  /\ forgotten' = IF pk.tag = "fwd_link" THEN Forget(pk, "socket gone") ELSE forgotten

SocketRecv(s) ==
  /\ strand[s] # <<>>
  /\ LET pk == Head(strand[s])
         rest == [strand EXCEPT ![s] = Tail(@)]
     IN  IF CheckSkt(pk.skt)
         THEN /\ strand' = rest
              /\ Note(s, pk)
              /\ net' = NetWith(net, s, Unwrapped(pk))
              /\ cache' = CacheWith(s, Unwrapped(pk))
              /\ UNCHANGED forgotten
         ELSE /\ SocketBounce(s, pk, rest)
              /\ UNCHANGED <<straight, routes, net, cache>>
  /\ UNCHANGED <<actorVars, gen, conn, registered, ahead, broken, aborted, breaks,
                 links, exited, told, calls>>

\* handle_net_msg of a socket that is not a router's.
FromNet(s, pk, rest) ==
  /\ net' = rest
  /\ IF Check(pk.to)
     THEN /\ strand' = PostTo(strand, pk.to[1], [pk EXCEPT !.skt = SktAid(s)])
          /\ straight' = CASE pk.tag = "link" /\ pk.how = "linked" -> AddStraight(s, pk.to, pk.aid)
                           [] pk.tag = "exit" -> RemoveStraight(s, pk.to, pk.aid)
                           [] OTHER -> straight
          /\ UNCHANGED forgotten
     ELSE /\ strand' = IF pk.tag = "link" THEN Answered(Ctx[s], strand, pk) ELSE strand
          /\ forgotten' = IF pk.tag = "link" /\ NoAnswer(Ctx[s], pk)
                          THEN Forget(pk, "no answer") ELSE forgotten
          /\ UNCHANGED straight
  /\ UNCHANGED routes

\* handle_net_msg of a router's socket.
RouteLink(s, pk, rest) ==
  LET skt == SelectJointSocket(Ctx[s], Ctx[pk.to[1]])
  IN  /\ pk.tag = "link"
      /\ net' = rest
      /\ IF skt = NoSkt
         THEN /\ strand' = Answered(Ctx[s], strand, pk)
              /\ forgotten' = IF NoAnswer(Ctx[s], pk) THEN Forget(pk, "no socket") ELSE forgotten
              /\ UNCHANGED routes
         ELSE /\ strand' = PostTo(strand, skt[1], Fwd(pk, skt, SktAid(s)))
              /\ routes' = IF pk.how = "linked" THEN AddRoute(s, pk.to, pk.aid, skt) ELSE routes
              /\ UNCHANGED forgotten
      /\ UNCHANGED <<straight, aborted, broken, conn, registered>>

\* An exit goes where the link came from. There must be one, BOOST_ASSERT(skt): the
\* process ends otherwise, and with it its connections.
RouteExit(s, pk, rest) ==
  /\ pk.tag = "exit"
  /\ \/ \E r \in RoutesOf(s, pk.to, pk.aid) :
          /\ strand' = PostTo(strand, r.skt[1], Fwd(pk, r.skt, SktAid(s)))
          /\ routes' = RemoveRoute(s, pk.to, pk.aid)
          /\ net' = rest
          /\ UNCHANGED <<aborted, broken, conn, registered>>
     \/ /\ RoutesOf(s, pk.to, pk.aid) = {}
        /\ aborted' = TRUE
        /\ conn' = [t \in Sockets |-> conn[t] /\ t \notin Routing]
        /\ registered' = [t \in Sockets |-> registered[t] /\ t \notin Routing]
        /\ broken' = [c \in Connectors |-> broken[c] \/ c \in Routing \/ Peer[c] \in Routing]
        /\ strand' = [x \in DOMAIN strand |-> IF x \in Routing THEN <<>> ELSE strand[x]]
        /\ routes' = [t \in Sockets |-> {}]
        /\ net' = [t \in Sockets |-> IF t \in Routing THEN <<>> ELSE net[t]]
  /\ UNCHANGED <<straight, forgotten>>

RouteAlready(s, pk, rest) ==
  /\ pk.tag = "aid"
  /\ LET skt == SelectJointSocket(Ctx[s], Ctx[pk.to[1]])
     IN  IF skt = NoSkt
         THEN forgotten' = forgotten \cup {<<pk.to, pk.aid, "no answer">>} /\ UNCHANGED strand
         ELSE strand' = PostTo(strand, skt[1], [pk EXCEPT !.skt = skt]) /\ UNCHANGED forgotten
  /\ net' = rest
  /\ UNCHANGED <<straight, routes, aborted, broken, conn, registered>>

LoggedIn(s) == registered[s] \/ ahead[s] > 0

HandleNetMsg(s) ==
  /\ conn[s] /\ net[s] # <<>> /\ LoggedIn(s)
  /\ ahead' = [ahead EXCEPT ![s] = IF registered[s] THEN 0 ELSE @ - 1]
  /\ LET pk == Head(net[s])
         rest == [net EXCEPT ![s] = Tail(@)]
     IN  \/ s \in Routing /\ (RouteLink(s, pk, rest) \/ RouteExit(s, pk, rest) \/ RouteAlready(s, pk, rest))
         \/ s \notin Routing /\ FromNet(s, pk, rest) /\ UNCHANGED <<aborted, broken, conn, registered>>
  /\ UNCHANGED <<actorVars, gen, cache, breaks, links, exited, told, calls>>

\* msg_login, which run handles itself: sync_ctxid registers the socket.
Login(s) ==
  /\ conn[s] /\ ~registered[s] /\ ahead[s] = 0
  /\ registered' = [registered EXCEPT ![s] = TRUE]
  /\ UNCHANGED <<actorVars, strand, straight, routes, gen, conn, cache, netVars, historyVars>>

\* A connection fails: nothing more goes over it, and some of what was sent may be lost.
Break(c) ==
  /\ ~broken[c] /\ conn[c] /\ conn[Peer[c]]
  /\ breaks < MaxBreaks
  /\ breaks' = breaks + 1
  /\ broken' = [broken EXCEPT ![c] = TRUE]
  /\ UNCHANGED <<actorVars, strand, socketVars, net, ahead, aborted, historyVars>>

\* on_neterr: the local ends of the links are told, and the other sockets of the
\* router; the cache is dropped.
Tell(s) ==
  {[at |-> l[1][1], pk |-> Exit("neterr", l[2], l[1], l[1])] : l \in straight[s]}
  \cup {[at |-> r.skt[1],
         pk |-> Fwd(Exit("neterr", r.des, r.src, NoSkt), r.skt, SktAid(s))] : r \in routes[s]}

OnNeterr(s) ==
  /\ strand' = Posted(strand, Tell(s))
  /\ straight' = [straight EXCEPT ![s] = {}]
  /\ routes' = [routes EXCEPT ![s] = {}]
  /\ cache' = [cache EXCEPT ![s] = <<>>]

\* recv fails. An accepted socket is freed, and deregistered.
RecvFails(s) ==
  /\ conn[s] /\ broken[Wire(s)]
  /\ conn' = [conn EXCEPT ![s] = FALSE]
  /\ net' = [net EXCEPT ![s] = <<>>]
  /\ OnNeterr(s)
  /\ gen' = IF s \in Acceptors THEN [gen EXCEPT ![s] = @ + 1] ELSE gen
  /\ registered' = IF s \in Acceptors THEN [registered EXCEPT ![s] = FALSE] ELSE registered
  /\ UNCHANGED <<actorVars, ahead, broken, aborted, breaks, historyVars>>

\* connect, after reconn_try attempts have failed,
GiveUp(c) ==
  /\ ~conn[c]
  /\ straight[c] # {} \/ routes[c] # {} \/ cache[c] # <<>>
  /\ OnNeterr(c)
  /\ UNCHANGED <<actorVars, gen, conn, registered, netVars, historyVars>>

\* and when one succeeds: what is in the cache goes out, and then msg_login.
Reconnect(c) ==
  /\ ~conn[c] /\ ~conn[Peer[c]]
  /\ ~(aborted /\ (c \in Routing \/ Peer[c] \in Routing))
  /\ conn' = [conn EXCEPT ![c] = TRUE, ![Peer[c]] = TRUE]
  /\ broken' = [broken EXCEPT ![c] = FALSE]
  /\ net' = [net EXCEPT ![Peer[c]] = cache[c]]
  /\ ahead' = [ahead EXCEPT ![Peer[c]] = Len(cache[c])]
  /\ cache' = [cache EXCEPT ![c] = <<>>]
  /\ UNCHANGED <<actorVars, strand, straight, routes, gen, registered, aborted, breaks, historyVars>>

-----------------------------------------------------------------------------
Init ==
  /\ sid = [o \in Objects |-> 1] /\ live = [o \in Objects |-> TRUE]
  /\ link_list = [o \in Objects |-> {}] /\ monitor_list = [o \in Objects |-> {}]
  /\ inbox = [o \in Objects |-> <<>>]
  /\ strand = [x \in Objects \cup Sockets |-> <<>>]
  /\ straight = [s \in Sockets |-> {}] /\ routes = [s \in Sockets |-> {}]
  /\ gen = [s \in Sockets |-> 1]
  /\ conn = [s \in Sockets |-> TRUE] /\ registered = [s \in Sockets |-> TRUE]
  /\ cache = [s \in Sockets |-> <<>>]
  /\ net = [s \in Sockets |-> <<>>] /\ ahead = [s \in Sockets |-> 0]
  /\ broken = [c \in Connectors |-> FALSE] /\ aborted = FALSE /\ breaks = 0
  /\ links = {} /\ exited = {} /\ told = {} /\ forgotten = {} /\ calls = 0

Aids == (Objects \X {1}) \cup (Reused \X {3})
Known == {a \in Aids : a[2] <= sid[a[1]]}

UserCode(o) ==
  \/ \E a \in Known, type \in {"linked", "monitored"} : LinkTo(o, type, a)
  \/ ExitActor(o) \/ Spawn(o)

Next ==
  \/ \E o \in Objects : UserCode(o) \/ RecvExit(o) \/ HandleRecv(o)
  \/ \E s \in Sockets : SocketRecv(s) \/ HandleNetMsg(s) \/ Login(s) \/ RecvFails(s)
  \/ \E c \in Connectors : Break(c) \/ GiveUp(c) \/ Reconnect(c)

Spec == Init /\ [][Next]_vars

\* Strands run what was posted, sockets read what came or see that the connection has
\* failed, and one that tries to connect again either does or gives up.
Fairness ==
  /\ \A o \in Objects : WF_vars(HandleRecv(o)) /\ WF_vars(RecvExit(o))
  /\ \A s \in Sockets :
       /\ WF_vars(SocketRecv(s)) /\ WF_vars(HandleNetMsg(s) \/ Login(s))
       /\ WF_vars(RecvFails(s))
  /\ \A c \in Connectors : WF_vars(GiveUp(c) \/ Reconnect(c))

FairSpec == Spec /\ Fairness

-----------------------------------------------------------------------------
TypeOK ==
  /\ \A o \in Objects :
       /\ sid[o] \in 1..4 /\ (live[o] <=> sid[o] % 2 = 1)
       /\ {l.aid : l \in link_list[o]} \cup monitor_list[o] \subseteq Aids
       /\ \A l, k \in link_list[o] : l.aid = k.aid => l = k
  /\ \A s \in Sockets :
       /\ straight[s] \subseteq Aids \X Aids
       /\ \A r \in routes[s] : r.src \in Aids /\ r.des \in Aids /\ r.skt[1] \in Sockets
       /\ \A i \in 1..Len(net[s]) : net[s][i].tag \in {"link", "exit", "aid"}
       /\ registered[s] \in BOOLEAN /\ ahead[s] \in Nat /\ (conn[s] => ahead[s] <= Len(net[s]))
       /\ s \in Connectors => registered[s]

\* No actor is told that another has exited when it has not, unless a connection
\* failed: neither the actor that now lives in an object for one that did before, nor
\* on either side of a router.
ToldTheTruth ==
  \A t \in told :
    /\ t[3] = "exited" => t[2] \in exited
    /\ t[3] = "already" => t[2] \in exited \/ breaks > 0 \/ aborted
    /\ t[3] = "neterr" => breaks > 0 \/ aborted

\* An actor keeps links and monitors only of its own: never one that the actor that was
\* in its object before had asked for, or was asked for.
OwnLinksOnly ==
  \A o \in Objects : \A a \in {l.aid : l \in link_list[o]} \cup monitor_list[o] :
    live[o] /\ (<<Aid(o), a>> \in links \/ <<a, Aid(o)>> \in links)

\* A router finds the link of every exit it forwards (BOOST_ASSERT(skt)) as long as no
\* connection has failed and not both ends of the link exit: only exits that cross each
\* other, or a failed connection, leave it without one.
RouterKnowsLinks ==
  aborted => breaks > 0 \/ \E l \in links : l[1] \in exited /\ l[2] \in exited

\* Who linked to or monitors an actor that has exited is told of it in the end, or
\* exits first. The code loses a link only after a connection has failed, and in four
\* ways: a router passes it to a socket that has gone meanwhile; it comes again over a
\* new connection while the actor still has the one of the old connection in its list;
\* a router has no socket for it, and none that select_socket finds for the answer; or it
\* is to be answered over a connection made again, before its msg_login has been read.
LinkersAreTold ==
  \A a, b \in Aids :
    <<a[1], b[1]>> \in MayLink =>
      ((<<a, b>> \in links /\ b \in exited)
         ~> \/ a \in exited
            \/ \E t \in told : t[1] = a /\ t[2] = b
            \/ breaks > 0 /\ \E f \in forgotten : f[1] = a /\ f[2] = b)

\* What the comment in handle_net_msg says: `no socket found, send already exit back'. (It
\* does not hold: select_socket finds none for the answer, README.md, section 4.)
NoSocketIsAnswered == \A f \in forgotten : f[3] # "no socket"
=============================================================================
