----------------------------- MODULE LinksProofs -----------------------------
(***************************************************************************)
(* Links and monitors among any actors, over any sockets and any router,   *)
(* for any number of links and failures: what an actor is told of another  *)
(* is true, its lists are its own, and a router loses no link's record.    *)
(*                                                                         *)
(* What an exit or an answer says is true when it is made, and stays so:   *)
(* who has exited has exited, a connection that failed has failed (Truth). *)
(* So every pack posted, sent or cached anywhere is one of Packs, whatever *)
(* the sockets do with it, and of the two ends of a link whoever keeps it  *)
(* is in it. Without a failure every socket has the aid it was opened with *)
(* (PacksAt, ConnsOK) and is found by select_socket (Selected): no pack to *)
(* it is bounced, so none is said to be `already exited' that lives.       *)
(*                                                                         *)
(* The second part is about a router, until a connection fails. An exit    *)
(* on its way to a router's socket finds the record of its link there,     *)
(* because the link was recorded before, or is ahead of the exit on the    *)
(* same way, or because whom it is for has exited too: that is Way, over   *)
(* what has come to the socket (net), what its peer has still to send (its *)
(* strand) and the links kept by the actors behind the peer, whose exits   *)
(* will be sent. PlacedOK, PassingOK, RecordsOK and KeptOK say what Way    *)
(* needs of the packs, the records and the lists (WayInv).                 *)
(***************************************************************************)
EXTENDS Links, FiniteSetTheorems, SequenceTheorems, TLAPS

-----------------------------------------------------------------------------
\* The assumptions of Links, under a name that is expanded only where they are used.
LkAssumed == LinksAssumption

Failed == breaks > 0 \/ aborted

\* What an actor may be told of another one, and why.
Truth(a, why) ==
  /\ why = "exited" => a \in exited
  /\ why = "already" => a \in exited \/ Failed
  /\ why = "neterr" => Failed

SktIds == Sockets \X (Nat \ {0})
Hows == {"linked", "monitored", "exited", "already", "neterr"}
PackSet == [tag : {"link", "exit", "fwd_link", "fwd_exit", "aid"}, how : Hows,
            aid : Aids, to : Aids,
            skt : SktIds \cup (Objects \X Nat) \cup {NoSkt}, via : SktIds \cup {NoSkt}]

\* A pack names actors there are or were; a link is one that was made, and what an exit
\* or an answer tells is true.
Packs ==
  {pk \in PackSet :
     /\ pk.aid \in Known /\ pk.to \in Known
     /\ pk.tag \in {"link", "fwd_link"} => /\ <<pk.aid, pk.to>> \in links
                                           /\ <<pk.aid[1], pk.to[1]>> \in MayLink
                                           /\ pk.skt \in SktIds \cup {NoSkt}
     /\ pk.tag = "fwd_link" => pk.via \in SktIds
     /\ Truth(pk.aid, pk.how)}

\* It is posted to the actor it is for; and to a socket under the aid it still has, as
\* long as no connection has failed.
PacksAt(x) ==
  {pk \in Packs :
     /\ x \in Objects => pk.to[1] = x
     /\ x \notin Objects /\ pk.tag = "link" /\ ~Failed => pk.skt \in Sockets \X {1}}

Notes == {n \in [aid : Aids, why : Hows] : Truth(n.aid, n.why)}
Linked(a, b) == <<a, b>> \in links \/ <<b, a>> \in links

ObjectsOK ==
  /\ sid \in [Objects -> 1..4] /\ live \in [Objects -> BOOLEAN]
  /\ \A o \in Objects : /\ live[o] <=> sid[o] \in {1, 3}
                        /\ sid[o] \in {3, 4} => o \in Reused
  /\ \A a \in Aids : a[2] < sid[a[1]] => a \in exited
ListsOK ==
  /\ link_list = [o \in Objects |-> link_list[o]]
  /\ monitor_list = [o \in Objects |-> monitor_list[o]]
  /\ \A o \in Objects :
       /\ link_list[o] \subseteq [aid : Known, skt : SktIds \cup {NoSkt}]
       /\ IsFiniteSet(link_list[o])
       /\ monitor_list[o] \subseteq Known
       /\ \A a \in {l.aid : l \in link_list[o]} \cup monitor_list[o] :
            live[o] /\ Linked(Aid(o), a)
InboxOK ==
  /\ inbox = [o \in Objects |-> inbox[o]]
  /\ \A o \in Objects : inbox[o] \in Seq(Notes)
PostedOK ==
  /\ strand = [x \in Objects \cup Sockets |-> strand[x]]
  /\ \A x \in Objects \cup Sockets : strand[x] \in Seq(PacksAt(x))
SentOK == net \in [Sockets -> Seq(Packs)] /\ cache \in [Sockets -> Seq(Packs)]
BooksOK ==
  /\ straight = [s \in Sockets |-> straight[s]] /\ routes = [s \in Sockets |-> routes[s]]
  /\ \A s \in Sockets :
       /\ straight[s] \subseteq Known \X Known /\ IsFiniteSet(straight[s])
       /\ routes[s] \subseteq [src : Known, des : Known, skt : SktIds] /\ IsFiniteSet(routes[s])
ConnsOK ==
  /\ gen \in [Sockets -> Nat \ {0}] /\ conn \in [Sockets -> BOOLEAN]
  /\ registered \in [Sockets -> BOOLEAN]
  /\ broken \in [Connectors -> BOOLEAN] /\ breaks \in Nat /\ aborted \in BOOLEAN
  /\ ~Failed => /\ \A s \in Sockets : conn[s] /\ gen[s] = 1 /\ registered[s]
                /\ \A c \in Connectors : ~broken[c]
ToldOK == \A t \in told : Truth(t[2], t[3])

LkInv == ObjectsOK /\ ListsOK /\ InboxOK /\ PostedOK /\ SentOK /\ BooksOK /\ ConnsOK /\ ToldOK

-----------------------------------------------------------------------------

\* Aids are pairs of an object and an odd number.
LEMMA AidPairs ==
  ASSUME LkAssumed
  PROVE  /\ \A a \in Aids : a = <<a[1], a[2]>> /\ a[1] \in Objects /\ a[2] \in {1, 3}
                               /\ (a[2] = 3 => a[1] \in Reused)
         /\ Known \subseteq Aids
         /\ Aids \subseteq Objects \X Nat
<1>1. Reused \subseteq Objects
  BY DEF LkAssumed, LinksAssumption
<1>2. ASSUME NEW a \in Objects \X {1}
      PROVE  a = <<a[1], a[2]>> /\ a[1] \in Objects /\ a[2] = 1
  OBVIOUS
<1>3. ASSUME NEW a \in Reused \X {3}
      PROVE  a = <<a[1], a[2]>> /\ a[1] \in Reused /\ a[2] = 3
  OBVIOUS
<1>4. Known \subseteq Aids
  BY DEF Known
<1>5. Aids \subseteq Objects \X Nat
  BY <1>1 DEF Aids
<1>6. QED
  BY <1>1, <1>2, <1>3, <1>4, <1>5 DEF Aids

\* Nobody has linked: the lists, strands and books are empty.
LEMMA LkInit ==
  ASSUME LkAssumed, Init
  PROVE  LkInv
<1>1. \A o \in Objects : sid[o] = 1 /\ live[o] = TRUE
  BY DEF Init
<1>3. ObjectsOK
  <2>1. sid \in [Objects -> 1..4] /\ live \in [Objects -> BOOLEAN]
    BY DEF Init
  <2>2. \A a \in Aids : a[1] \in Objects /\ a[2] \in {1, 3}
    BY AidPairs
  <2>3. QED
    BY <1>1, <2>1, <2>2 DEF ObjectsOK
<1>4. IsFiniteSet({})
  BY FS_EmptySet
<1>5. ListsOK /\ BooksOK
  BY <1>4 DEF Init, ListsOK, BooksOK
<1>6. <<>> \in Seq(Notes) /\ <<>> \in Seq(Packs) /\ \A x : <<>> \in Seq(PacksAt(x))
  <2>1. \A S : <<>> \in Seq(S)
    OBVIOUS
  <2>2. QED
    BY <2>1
<1>7. InboxOK /\ PostedOK /\ SentOK
  BY <1>6 DEF Init, InboxOK, PostedOK, SentOK
<1>8. ConnsOK /\ ToldOK
  <2>1. /\ gen = [s \in Sockets |-> 1] /\ conn = [s \in Sockets |-> TRUE]
        /\ registered = [s \in Sockets |-> TRUE]
        /\ broken = [c \in Connectors |-> FALSE] /\ aborted = FALSE /\ breaks = 0 /\ told = {}
    BY DEF Init
  <2>2. /\ gen \in [Sockets -> Nat \ {0}] /\ conn \in [Sockets -> BOOLEAN]
        /\ broken \in [Connectors -> BOOLEAN] /\ registered \in [Sockets -> BOOLEAN]
    BY <2>1
  <2>3. /\ \A s \in Sockets : conn[s] /\ gen[s] = 1 /\ registered[s]
        /\ \A c \in Connectors : ~broken[c]
    BY <2>1
  <2>4. QED
    BY <2>1, <2>2, <2>3 DEF ConnsOK, ToldOK
<1>9. QED
  BY <1>3, <1>5, <1>7, <1>8 DEF LkInv

\* No step takes back that an actor was there, that a link was made, that an actor has
\* exited or a connection has failed.
Grows ==
  /\ Known \subseteq Known' /\ links \subseteq links' /\ exited \subseteq exited'
  /\ Failed => Failed'

\* So packs and notifications that were possible are still so.
LEMMA PacksStay ==
  ASSUME Grows
  PROVE  /\ Packs \subseteq Packs' /\ Notes \subseteq Notes'
         /\ \A x : PacksAt(x) \subseteq PacksAt(x)'
         /\ \A s \in Seq(Packs) : s \in Seq(Packs')
         /\ \A s \in Seq(Notes) : s \in Seq(Notes')
         /\ \A x : \A s \in Seq(PacksAt(x)) : s \in Seq(PacksAt(x)')
         /\ \A a, why : Truth(a, why) => Truth(a, why)'
<1>1. \A a, why : Truth(a, why) => Truth(a, why)'
  BY DEF Grows, Truth
<1>2. Packs \subseteq Packs'
  BY <1>1 DEF Grows, Packs, PackSet, SktIds, Aids, Sockets, NoSkt
<1>3. Notes \subseteq Notes'
  BY <1>1 DEF Notes, Aids
<1>4. \A x : PacksAt(x) \subseteq PacksAt(x)'
  BY <1>2 DEF Grows, PacksAt
<1>5. \A S, T : S \subseteq T => \A s \in Seq(S) : s \in Seq(T)
  OBVIOUS
<1>6. QED
  BY <1>1, <1>2, <1>3, <1>4, <1>5

\* What a step does not touch is right afterwards, too.
LEMMA PartsStay ==
  ASSUME LkInv, Grows
  PROVE  /\ UNCHANGED inbox => InboxOK'
         /\ UNCHANGED strand => PostedOK'
         /\ UNCHANGED <<net, cache>> => SentOK'
         /\ UNCHANGED <<straight, routes>> => BooksOK'
         /\ UNCHANGED told => ToldOK'
         /\ UNCHANGED <<sid, live>> => ObjectsOK'
         /\ UNCHANGED <<sid, live, link_list, monitor_list>> => ListsOK'
         /\ UNCHANGED <<gen, conn, registered, broken, breaks, aborted>> => ConnsOK'
<1>1. UNCHANGED inbox => InboxOK'
  BY PacksStay DEF LkInv, InboxOK
<1>2. UNCHANGED strand => PostedOK'
  BY PacksStay DEF LkInv, PostedOK, Sockets
<1>3. UNCHANGED <<net, cache>> => SentOK'
  BY PacksStay DEF LkInv, SentOK, Sockets
<1>4. UNCHANGED <<straight, routes>> => BooksOK'
  <2>1. ASSUME UNCHANGED <<straight, routes>>, NEW s \in Sockets
        PROVE  /\ straight'[s] \subseteq Known' \X Known'
               /\ routes'[s] \subseteq [src : Known', des : Known', skt : SktIds]
    <3>1. /\ straight[s] \subseteq Known \X Known /\ Known \subseteq Known'
          /\ routes[s] \subseteq [src : Known, des : Known, skt : SktIds]
      BY DEF LkInv, BooksOK, Grows
    <3>2. \A K, L : K \subseteq L => /\ K \X K \subseteq L \X L
                                    /\ [src : K, des : K, skt : SktIds] \subseteq [src : L, des : L, skt : SktIds]
      OBVIOUS
    <3>3. /\ Known \X Known \subseteq Known' \X Known'
          /\ [src : Known, des : Known, skt : SktIds] \subseteq [src : Known', des : Known', skt : SktIds]
      BY <3>1, <3>2
    <3>4. QED
      BY <2>1, <3>1, <3>3
  <2>2. SktIds' = SktIds /\ Sockets' = Sockets
    BY DEF SktIds, Sockets
  <2>3. ASSUME UNCHANGED <<straight, routes>> PROVE BooksOK'
    BY <2>1, <2>2, <2>3 DEF LkInv, BooksOK
  <2>4. QED
    BY <2>3
<1>5. UNCHANGED told => ToldOK'
  BY PacksStay DEF LkInv, ToldOK
<1>6. UNCHANGED <<sid, live>> => ObjectsOK'
  BY DEF LkInv, ObjectsOK, Grows, Aids
<1>7. ASSUME UNCHANGED <<sid, live, link_list, monitor_list>> PROVE ListsOK'
  <2>1. SktIds' = SktIds /\ NoSkt' = NoSkt /\ \A o \in Objects : Aid(o)' = Aid(o)
    BY <1>7 DEF Sockets, SktIds, Aid, NoSkt
  <2>2. ASSUME NEW o \in Objects, NEW a \in {l.aid : l \in link_list[o]} \cup monitor_list[o]
        PROVE  live'[o] /\ Linked(Aid(o), a)'
    <3>1. live[o] /\ Linked(Aid(o), a)
      BY DEF LkInv, ListsOK
    <3>2. live'[o] /\ links \subseteq links'
      BY <1>7, <3>1 DEF Grows
    <3>3. QED
      BY <2>1, <3>1, <3>2 DEF Linked
  <2>3. Known \subseteq Known'
    BY DEF Grows
  <2>4. [aid : Known, skt : SktIds \cup {NoSkt}] \subseteq [aid : Known', skt : SktIds \cup {NoSkt}]
    BY <2>3
  <2>5. \A o \in Objects :
          /\ link_list'[o] \subseteq [aid : Known', skt : SktIds \cup {NoSkt}]
          /\ IsFiniteSet(link_list'[o])
          /\ monitor_list'[o] \subseteq Known'
    BY <1>7, <2>3, <2>4 DEF LkInv, ListsOK
  <2>6. /\ link_list' = [o \in Objects |-> link_list'[o]]
        /\ monitor_list' = [o \in Objects |-> monitor_list'[o]]
    BY <1>7 DEF LkInv, ListsOK
  <2>7. QED
    BY <1>7, <2>1, <2>2, <2>5, <2>6 DEF ListsOK
<1>8. UNCHANGED <<gen, conn, registered, broken, breaks, aborted>> => ConnsOK'
  BY DEF LkInv, ConnsOK, Failed, Sockets
<1>9. QED
  BY <1>1, <1>2, <1>3, <1>4, <1>5, <1>6, <1>7, <1>8

\* A pack has the fields it is made with.
LEMMA PackType ==
  ASSUME NEW tag \in {"link", "exit", "aid"}, NEW how \in Hows, NEW aid \in Aids, NEW to \in Aids,
         NEW skt \in SktIds \cup (Objects \X Nat) \cup {NoSkt}
  PROVE  /\ Pack(tag, how, aid, to, skt) \in PackSet
         /\ LET pk == Pack(tag, how, aid, to, skt)
            IN  pk.tag = tag /\ pk.how = how /\ pk.aid = aid /\ pk.to = to /\ pk.skt = skt
BY DEF Pack, PackSet

\* A pack posted, and several.
LEMMA PostedTo ==
  ASSUME NEW D, NEW P, NEW str, str = [x \in D |-> str[x]], \A x \in D : str[x] \in Seq(P[x]),
         NEW y, NEW pk, y \in D => pk \in P[y]
  PROVE  /\ PostTo(str, y, pk) = [x \in D |-> PostTo(str, y, pk)[x]]
         /\ \A x \in D : PostTo(str, y, pk)[x] \in Seq(P[x])
<1>1. \A x \in D : x = y => Append(str[x], pk) \in Seq(P[x])
  OBVIOUS
<1>2. QED
  BY <1>1 DEF PostTo

\* A finite set has an order.
LEMMA InSomeOrder ==
  ASSUME NEW T, IsFiniteSet(T)
  PROVE  /\ Cardinality(T) \in Nat
         /\ \A i \in 1..Cardinality(T) : SetToSeq(T)[i] \in T
         /\ \A i, j \in 1..Cardinality(T) : SetToSeq(T)[i] = SetToSeq(T)[j] => i = j
<1> DEFINE n == Cardinality(T)
<1>1. n = Cardinality(T) /\ n \in Nat
  BY FS_CardinalityType
<1>2. PICK f \in [1..n -> T] : \A i, j \in 1..n : f[i] = f[j] => i = j
  <2>1. ExistsBijection(1..n, T)
    BY <1>1, FS_CardinalityType
  <2>2. QED
    BY <2>1 DEF ExistsBijection, Bijection, Injection, IsInjective
<1>3. f \in [1..n -> T] /\ IsInjective(f)
  BY <1>2 DEF IsInjective
<1>4. SetToSeq(T) = CHOOSE g \in [1..n -> T] : IsInjective(g)
  BY DEF SetToSeq
<1> HIDE DEF n
<1>5. SetToSeq(T) \in [1..n -> T] /\ IsInjective(SetToSeq(T))
  BY <1>3, <1>4
<1>6. \A i, j \in 1..n : SetToSeq(T)[i] = SetToSeq(T)[j] => i = j
  BY <1>5 DEF IsInjective
<1>7. QED
  BY <1>1, <1>5, <1>6 DEF n

\* Packs posted together.
LEMMA PostedAll ==
  ASSUME NEW D, NEW P, NEW str, str = [x \in D |-> str[x]], \A x \in D : str[x] \in Seq(P[x]),
         NEW out, IsFiniteSet(out), \A d \in out : d.at \in D => d.pk \in P[d.at]
  PROVE  /\ Posted(str, out) = [x \in D |-> Posted(str, out)[x]]
         /\ \A x \in D : Posted(str, out)[x] \in Seq(P[x])
<1>1. DOMAIN str = D
  BY Zenon
<1> DEFINE to(x) == {d \in out : d.at = x}
           q(x) == [i \in 1..Cardinality(to(x)) |-> SetToSeq(to(x))[i].pk]
<1>2. Posted(str, out) = [x \in D |-> str[x] \o q(x)]
  BY <1>1 DEF Posted
<1>3. ASSUME NEW x \in D PROVE q(x) \in Seq(P[x])
  <2>1. IsFiniteSet(to(x))
    BY FS_Subset
  <2> DEFINE T == to(x)
             n == Cardinality(T)
             g == SetToSeq(T)
  <2>2. n \in Nat /\ \A i \in 1..n : g[i] \in T
    BY <2>1, InSomeOrder
  <2>3. \A d \in T : d.pk \in P[x]
    OBVIOUS
  <2> HIDE DEF T, n, g
  <2>4. [i \in 1..n |-> g[i].pk] \in Seq(P[x])
    BY <2>2, <2>3
  <2>5. QED
    BY <2>4 DEF T, n, g
<1> HIDE DEF q
<1>4. \A x \in D : str[x] \o q(x) \in Seq(P[x])
  BY <1>3
<1>5. QED
  BY <1>2, <1>4

\* What the assumptions say of routes and connections.
LEMMA LkRoutes ==
  ASSUME LkAssumed
  PROVE  /\ \A p \in MayLink :
              /\ p[1] \in Objects /\ p[2] \in Objects
              /\ Ctx[p[1]] # Ctx[p[2]] => Route[<<Ctx[p[1]], Ctx[p[2]]>>] \in Sockets \ Routing
              /\ \A s \in Routing : Route[<<Ctx[s], Ctx[p[2]]>>] \in Routing
         /\ Objects \cap Sockets = {} /\ Routing \subseteq Sockets /\ Reused \subseteq Objects
         /\ Peer \in [Sockets -> Sockets]
         /\ \A s \in Sockets : Wire(s) \in Connectors
<1>1. MayLink \subseteq Objects \X Objects
  BY DEF LkAssumed, LinksAssumption
<1>2. /\ Peer \in [Sockets -> Sockets]
      /\ \A s \in Sockets : Peer[Peer[s]] = s /\ (s \in Connectors <=> Peer[s] \in Acceptors)
  BY DEF LkAssumed, LinksAssumption
<1>3. \A s \in Sockets : Wire(s) \in Connectors
  BY <1>2 DEF Wire, Sockets
<1>4. Routing \subseteq Sockets
  BY DEF LkAssumed, LinksAssumption, Sockets
<1>5. QED
  BY <1>1, <1>2, <1>3, <1>4 DEF LkAssumed, LinksAssumption

\* A socket of S that is found is known by its aid; if it is not, a connection has failed.
Found(skt, S, x) ==
  /\ skt \in SktIds \cup {NoSkt}
  /\ skt # NoSkt => skt \in SktIds /\ skt[1] \in S
  /\ skt # NoSkt /\ ~Failed => skt \in Sockets \X {1}
  /\ x \in S => /\ skt = NoSkt => Failed
                /\ ~Failed => skt = <<x, 1>>

LEMMA FindsIt ==
  ASSUME LkInv, NEW S, S \subseteq Sockets, NEW x
  PROVE  Found(Registered(S, x), S, x)
<1>1. CASE x \in S /\ registered[x]
  <2>1. x \in Sockets /\ gen[x] \in Nat \ {0} /\ (~Failed => gen[x] = 1)
    BY <1>1 DEF LkInv, ConnsOK
  <2>2. Registered(S, x) = <<x, gen[x]>>
    BY <1>1 DEF Registered, SktAid
  <2>3. <<x, gen[x]>> \in SktIds /\ <<x, gen[x]>>[1] = x /\ <<x, gen[x]>> # NoSkt
    BY <2>1 DEF SktIds, NoSkt
  <2>4. ~Failed => <<x, gen[x]>> = <<x, 1>> /\ <<x, gen[x]>> \in Sockets \X {1}
    BY <2>1
  <2>5. QED
    BY <1>1, <2>2, <2>3, <2>4 DEF Found
<1>2. CASE ~(x \in S /\ registered[x])
  <2>1. Registered(S, x) = NoSkt
    BY <1>2 DEF Registered
  <2>2. x \in S => Failed
    BY <1>2 DEF LkInv, ConnsOK
  <2>3. QED
    BY <2>1, <2>2 DEF Found
<1>3. QED
  BY <1>1, <1>2

\* select_socket finds a socket that is no router's, select_joint_socket one of a router.
LEMMA Selected ==
  ASSUME LkAssumed, LkInv, NEW c, NEW d
  PROVE  /\ Found(SelectSocket(c, d), Sockets \ Routing, Route[<<c, d>>])
         /\ Found(SelectJointSocket(c, d), Routing, Route[<<c, d>>])
<1>1. Routing \subseteq Sockets
  BY LkRoutes
<1>2. PICK x, y, S : x = Route[<<c, d>>] /\ y = Router[c] /\ S = Sockets \ Routing
  OBVIOUS
<1>3. PICK k, l : k = Registered(S, x) /\ l = Registered(S, y)
  OBVIOUS
<1>4. Found(k, S, x) /\ Found(l, S, y)
  BY <1>2, <1>3, FindsIt
<1>5. SelectSocket(c, d) = IF k # NoSkt THEN k ELSE l
  BY <1>2, <1>3 DEF SelectSocket
<1>6. Found(SelectSocket(c, d), S, x)
  BY <1>4, <1>5 DEF Found
<1>7. SelectJointSocket(c, d) = Registered(Routing, x)
  BY <1>2 DEF SelectJointSocket
<1>8. Found(SelectJointSocket(c, d), Routing, x)
  BY <1>1, <1>7, FindsIt
<1>9. QED
  BY <1>2, <1>6, <1>8

\* The next actor of an object gets an aid nobody had.
LEMMA SpawnLk ==
  ASSUME LkAssumed, LkInv, NEW o \in Objects, Spawn(o)
  PROVE  LkInv'
<1>1. /\ o \in Reused /\ sid[o] = 2
      /\ sid' = [sid EXCEPT ![o] = 3]
      /\ live' = [live EXCEPT ![o] = TRUE]
      /\ UNCHANGED <<link_list, monitor_list, inbox, strand, straight, routes, gen, conn, registered, cache, net, broken,
                     aborted, breaks, links, exited, told>>
  BY DEF Spawn, socketVars, netVars, historyVars
<1>2. sid \in [Objects -> 1..4] /\ live \in [Objects -> BOOLEAN] /\ ~live[o]
  BY <1>1 DEF LkInv, ObjectsOK
<1>3. /\ sid'[o] = 3 /\ live'[o] = TRUE
      /\ \A x \in Objects : x # o => sid'[x] = sid[x] /\ live'[x] = live[x]
  BY <1>1, <1>2
<1>4. \A a \in Aids : a[1] \in Objects /\ a[2] \in {1, 3}
  BY AidPairs
<1>5. Grows
  BY <1>1, <1>2, <1>3, <1>4 DEF Grows, Failed, Known, Aids
<1>6. InboxOK' /\ PostedOK' /\ SentOK' /\ BooksOK' /\ ToldOK' /\ ConnsOK'
  BY <1>1, <1>5, PartsStay
<1>7. ObjectsOK'
  <2>1. sid' \in [Objects -> 1..4] /\ live' \in [Objects -> BOOLEAN]
    BY <1>1, <1>2
  <2>2. \A x \in Objects : /\ live'[x] <=> sid'[x] \in {1, 3}
                           /\ sid'[x] \in {3, 4} => x \in Reused
    BY <1>1, <1>3 DEF LkInv, ObjectsOK
  <2>3. \A a \in Aids : a[2] < sid'[a[1]] => a \in exited
    BY <1>1, <1>3, <1>4 DEF LkInv, ObjectsOK
  <2>4. QED
    BY <1>1, <2>1, <2>2, <2>3 DEF ObjectsOK, Aids
<1>8. ListsOK'
  <2>1. ASSUME NEW x \in Objects, NEW a \in {l.aid : l \in link_list[x]} \cup monitor_list[x]
        PROVE  live'[x] /\ (Linked(Aid(x), a))'
    <3>1. live[x] /\ Linked(Aid(x), a) /\ x # o
      BY <1>2 DEF LkInv, ListsOK
    <3>2. QED
      BY <1>1, <1>3, <3>1 DEF Linked, Aid
  <2>2. SktIds' = SktIds /\ NoSkt' = NoSkt
    BY DEF SktIds, Sockets, NoSkt
  <2>3. Known \subseteq Known'
    BY <1>5 DEF Grows
  <2>4. \A x \in Objects : /\ link_list[x] \subseteq [aid : Known', skt : SktIds \cup {NoSkt}]
                           /\ monitor_list[x] \subseteq Known'
    BY <2>3 DEF LkInv, ListsOK
  <2>5. QED
    BY <1>1, <2>1, <2>2, <2>4 DEF LkInv, ListsOK
<1>9. QED
  BY <1>6, <1>7, <1>8 DEF LkInv

\* A connection fails: from here on more may be told.
LEMMA BreakLk ==
  ASSUME LkAssumed, LkInv, NEW c \in Connectors, Break(c)
  PROVE  LkInv'
<1>1. /\ breaks' = breaks + 1 /\ broken' = [broken EXCEPT ![c] = TRUE]
      /\ UNCHANGED <<sid, live, link_list, monitor_list, inbox, strand, straight, routes, gen, conn, registered, cache, net,
                     aborted, links, exited, told>>
  BY DEF Break, actorVars, socketVars, historyVars
<1>2. breaks \in Nat /\ Failed'
  BY <1>1 DEF LkInv, ConnsOK, Failed
<1>3. Grows
  BY <1>1, <1>2 DEF Grows, Known, Aids
<1>4. ConnsOK'
  BY <1>1, <1>2 DEF LkInv, ConnsOK, Sockets
<1>5. QED
  BY <1>1, <1>3, <1>4, PartsStay DEF LkInv

\* The strands that the packs there may be fit on, after a step.
Fits(str) ==
  /\ str = [x \in Objects \cup Sockets |-> str[x]]
  /\ \A x \in Objects \cup Sockets : str[x] \in Seq(PacksAt(x)')

\* The strands as they are, after a step that lets the packs there be grow.
LEMMA StrandFits ==
  ASSUME LkInv, Grows
  PROVE  Fits(strand)
BY PacksStay DEF LkInv, PostedOK, Fits

\* Strands that fit are right.
LEMMA FitsOK ==
  ASSUME NEW str, Fits(str), strand' = str
  PROVE  PostedOK'
<1>1. Sockets' = Sockets
  BY DEF Sockets
<1>2. QED
  BY <1>1 DEF Fits, PostedOK

\* One pack more that is right where it is posted.
LEMMA PostOne ==
  ASSUME NEW str, Fits(str), NEW y, NEW pk, y \in Objects \cup Sockets => pk \in PacksAt(y)'
  PROVE  Fits(PostTo(str, y, pk))
<1> DEFINE D == Objects \cup Sockets
           P == [x \in D |-> PacksAt(x)']
<1>1. str = [x \in D |-> str[x]] /\ \A x \in D : str[x] \in Seq(P[x])
  BY DEF Fits
<1>2. y \in D => pk \in P[y]
  OBVIOUS
<1>3. \A x \in D : P[x] = PacksAt(x)'
  OBVIOUS
<1> HIDE DEF P, D
<1> DEFINE q == PostTo(str, y, pk)
<1>4. q = [x \in D |-> q[x]] /\ \A x \in D : q[x] \in Seq(P[x])
  BY <1>1, <1>2, PostedTo
<1> HIDE DEF q
<1>5. Fits(q)
  BY <1>3, <1>4 DEF Fits, D
<1>6. QED
  BY <1>5 DEF q

\* Several of them.
LEMMA PostMany ==
  ASSUME NEW str, Fits(str), NEW out, IsFiniteSet(out),
         \A d \in out : d.at \in Objects \cup Sockets => d.pk \in PacksAt(d.at)'
  PROVE  Fits(Posted(str, out))
<1> DEFINE D == Objects \cup Sockets
           P == [x \in D |-> PacksAt(x)']
<1>1. str = [x \in D |-> str[x]] /\ \A x \in D : str[x] \in Seq(P[x])
  BY DEF Fits
<1>2. \A d \in out : d.at \in D => d.pk \in P[d.at]
  OBVIOUS
<1>3. \A x \in D : P[x] = PacksAt(x)'
  OBVIOUS
<1> HIDE DEF P, D
<1> DEFINE q == Posted(str, out)
<1>4. q = [x \in D |-> q[x]] /\ \A x \in D : q[x] \in Seq(P[x])
  BY <1>1, <1>2, PostedAll
<1> HIDE DEF q
<1>5. Fits(q)
  BY <1>3, <1>4 DEF Fits, D
<1>6. QED
  BY <1>5 DEF q

\* What is left when the first pack is taken, and that pack.
LEMMA TakeOne ==
  ASSUME LkInv, Grows, NEW y \in Objects \cup Sockets, strand[y] # <<>>
  PROVE  /\ Fits([strand EXCEPT ![y] = Tail(@)])
         /\ Head(strand[y]) \in PacksAt(y)
<1>1. strand[y] \in Seq(PacksAt(y))
  BY DEF LkInv, PostedOK
<1>2. Head(strand[y]) \in PacksAt(y)
  BY <1>1
<1>3. Fits(strand)
  BY StrandFits
<1>4. strand[y] \in Seq(PacksAt(y)')
  BY <1>3 DEF Fits
<1>5. Tail(strand[y]) \in Seq(PacksAt(y)')
  BY <1>4
<1>6. QED
  BY <1>2, <1>3, <1>5 DEF Fits

\* What is no variable.
LEMMA Fixed ==
  /\ SktIds' = SktIds /\ Sockets' = Sockets /\ Aids' = Aids /\ NoSkt' = NoSkt
  /\ PackSet' = PackSet
BY DEF SktIds, Sockets, Aids, NoSkt, PackSet

\* The aid of an actor that lives.
LEMMA MyAid ==
  ASSUME LkAssumed, LkInv, NEW o \in Objects, live[o]
  PROVE  /\ Aid(o) = <<o, sid[o]>> /\ Aid(o) \in Known /\ Aid(o)[1] = o
         /\ sid[o] \in {1, 3}
<1>1. sid[o] \in {1, 3} /\ (sid[o] = 3 => o \in Reused)
  BY DEF LkInv, ObjectsOK
<1>2. Aid(o) = <<o, sid[o]>>
  BY DEF Aid
<1>3. <<o, sid[o]>> \in Aids
  BY <1>1 DEF Aids
<1>4. QED
  BY <1>1, <1>2, <1>3 DEF Known

\* An exit or an answer that is true, and a link that was made.
LEMMA NewsPack ==
  ASSUME LkAssumed, Grows, NEW tag \in {"exit", "aid"}, NEW how \in Hows, NEW aid \in Known', NEW to \in Known',
         NEW skt \in SktIds \cup (Objects \X Nat) \cup {NoSkt}, Truth(aid, how)',
         NEW x, x \in Objects => to[1] = x
  PROVE  Pack(tag, how, aid, to, skt) \in PacksAt(x)'
<1> DEFINE pk == Pack(tag, how, aid, to, skt)
<1>1. Known' \subseteq Aids
  BY Fixed DEF Known
<1>2. pk \in PackSet /\ pk.tag = tag /\ pk.how = how /\ pk.aid = aid /\ pk.to = to /\ pk.skt = skt
  BY <1>1, PackType
<1> HIDE DEF pk
<1>3. pk \in Packs'
  BY <1>2, Fixed DEF Packs
<1>4. pk \in PacksAt(x)'
  BY <1>2, <1>3 DEF PacksAt
<1>5. QED
  BY <1>4 DEF pk

\* A link that was made.
LEMMA LinkPack ==
  ASSUME LkAssumed, Grows, NEW how \in Hows, NEW aid \in Known', NEW to \in Known',
         NEW skt \in SktIds \cup {NoSkt}, Truth(aid, how)',
         <<aid, to>> \in links', <<aid[1], to[1]>> \in MayLink,
         NEW x, x \in Objects => to[1] = x, x \notin Objects /\ ~Failed' => skt \in Sockets \X {1}
  PROVE  Pack("link", how, aid, to, skt) \in PacksAt(x)'
<1> DEFINE pk == Pack("link", how, aid, to, skt)
<1>1. Known' \subseteq Aids
  BY Fixed DEF Known
<1>2. pk \in PackSet /\ pk.tag = "link" /\ pk.how = how /\ pk.aid = aid /\ pk.to = to /\ pk.skt = skt
  BY <1>1, PackType
<1> HIDE DEF pk
<1>3. pk \in Packs'
  BY <1>2, Fixed DEF Packs
<1>4. pk \in PacksAt(x)'
  BY <1>2, <1>3, Fixed DEF PacksAt
<1>5. QED
  BY <1>4 DEF pk

\* The lists of an actor that has just linked to another one or monitors it.
LEMMA KeepLk ==
  ASSUME LkAssumed, LkInv, Grows, NEW o \in Objects, live[o], UNCHANGED <<sid, live>>,
         NEW type, NEW a \in Known, NEW skt \in SktIds \cup {NoSkt},
         Linked(<<o, sid[o]>>, a)', Keep(o, type, a, skt)
  PROVE  ListsOK'
<1>0. Known \subseteq Known' /\ links \subseteq links'
  BY DEF Grows
<1>1. \A x \in Objects : Aid(x)' = Aid(x)
  BY DEF Aid
<1>2. /\ link_list = [x \in Objects |-> link_list[x]]
      /\ monitor_list = [x \in Objects |-> monitor_list[x]]
      /\ \A x \in Objects :
           /\ link_list[x] \subseteq [aid : Known', skt : SktIds \cup {NoSkt}]
           /\ IsFiniteSet(link_list[x])
           /\ monitor_list[x] \subseteq Known'
  BY <1>0 DEF LkInv, ListsOK
<1>3. \A x \in Objects : \A b \in {l.aid : l \in link_list[x]} \cup monitor_list[x] :
        live'[x] /\ Linked(Aid(x), b)'
  <2>1. SUFFICES ASSUME NEW x \in Objects, NEW b \in {l.aid : l \in link_list[x]} \cup monitor_list[x]
                 PROVE  live'[x] /\ Linked(Aid(x), b)'
    OBVIOUS
  <2>2. live[x] /\ Linked(Aid(x), b)
    BY DEF LkInv, ListsOK
  <2>3. QED
    BY <1>0, <1>1, <2>2 DEF Linked
<1>4. live'[o] /\ Linked(Aid(o), a)'
  BY DEF Linked, Aid
<1>5. CASE type = "linked"
  <2> DEFINE new == AddLink(link_list[o], a, skt)
             e == [aid |-> a, skt |-> skt]
  <2>1. link_list' = [link_list EXCEPT ![o] = new] /\ UNCHANGED monitor_list
    BY <1>5 DEF Keep
  <2>2. new = link_list[o] \/ new = link_list[o] \cup {e}
    BY DEF AddLink
  <2>3. e \in [aid : Known', skt : SktIds \cup {NoSkt}] /\ e.aid = a
    BY <1>0
  <2> HIDE DEF new, e
  <2>4. IsFiniteSet(new)
    <3>1. IsFiniteSet(link_list[o])
      BY <1>2
    <3>2. QED
      BY <2>2, <3>1, FS_AddElement
  <2>5. new \subseteq [aid : Known', skt : SktIds \cup {NoSkt}]
    BY <1>2, <2>2, <2>3
  <2>6. link_list'[o] = new /\ \A x \in Objects : x # o => link_list'[x] = link_list[x]
    BY <1>2, <2>1
  <2>7. link_list' = [x \in Objects |-> link_list'[x]]
    BY <1>2, <2>1
  <2>8. \A x \in Objects : \A b \in {l.aid : l \in link_list'[x]} \cup monitor_list'[x] :
          live'[x] /\ Linked(Aid(x), b)'
    <3>1. SUFFICES ASSUME NEW x \in Objects, NEW b \in {l.aid : l \in link_list'[x]} \cup monitor_list'[x]
                   PROVE  live'[x] /\ Linked(Aid(x), b)'
      OBVIOUS
    <3>2. CASE x # o
      BY <1>3, <2>1, <2>6, <3>2
    <3>3. CASE x = o
      <4>1. b \in {l.aid : l \in link_list[o]} \cup monitor_list[o] \/ b = a
        BY <2>1, <2>2, <2>3, <2>6, <3>3
      <4>2. QED
        BY <1>3, <1>4, <3>3, <4>1
    <3>4. QED
      BY <3>2, <3>3
  <2>9. \A x \in Objects :
           /\ link_list'[x] \subseteq [aid : Known', skt : SktIds \cup {NoSkt}]
           /\ IsFiniteSet(link_list'[x])
           /\ monitor_list'[x] \subseteq Known'
    BY <1>2, <2>1, <2>4, <2>5, <2>6
  <2>10. QED
    BY <1>2, <2>1, <2>7, <2>8, <2>9, Fixed DEF ListsOK
<1>6. CASE type # "linked"
  <2>1. monitor_list' = [monitor_list EXCEPT ![o] = @ \cup {a}] /\ UNCHANGED link_list
    BY <1>6 DEF Keep
  <2>2. /\ monitor_list'[o] = monitor_list[o] \cup {a}
        /\ \A x \in Objects : x # o => monitor_list'[x] = monitor_list[x]
        /\ monitor_list' = [x \in Objects |-> monitor_list'[x]]
    BY <1>2, <2>1
  <2>3. \A x \in Objects : monitor_list'[x] \subseteq Known'
    BY <1>0, <1>2, <2>2
  <2>4. \A x \in Objects : \A b \in {l.aid : l \in link_list'[x]} \cup monitor_list'[x] :
          live'[x] /\ Linked(Aid(x), b)'
    BY <1>3, <1>4, <2>1, <2>2
  <2>5. QED
    BY <1>2, <2>1, <2>2, <2>3, <2>4, Fixed DEF ListsOK
<1>7. QED
  BY <1>5, <1>6

\* link and monitor: the list, and the pack for the other one, or the answer that there is no
\* socket.
LEMMA LinkToLk ==
  ASSUME LkAssumed, LkInv, NEW o \in Objects, NEW type \in {"linked", "monitored"}, NEW a \in Known, LinkTo(o, type, a)
  PROVE  LkInv'
<1> DEFINE local == Ctx[a[1]] = Ctx[o]
<1>a. PICK me : me = Aid(o)
  OBVIOUS
<1>b. PICK skt : skt = IF local THEN NoSkt ELSE SelectSocket(Ctx[o], Ctx[a[1]])
  OBVIOUS
<1>1. /\ live[o] /\ <<o, a[1]>> \in MayLink /\ links' = links \cup {<<me, a>>}
      /\ UNCHANGED <<sid, live, inbox, straight, routes, gen, conn, registered, cache, net, broken,
                     aborted, breaks, exited, told>>
  BY <1>a DEF LinkTo, socketVars, netVars
<1>2. Grows /\ Known' = Known /\ Failed' = Failed
  BY <1>1 DEF Grows, Failed, Known, Aids
<1>3. InboxOK' /\ SentOK' /\ BooksOK' /\ ToldOK' /\ ConnsOK' /\ ObjectsOK'
  BY <1>1, <1>2, PartsStay
<1>4. me \in Known' /\ a \in Known' /\ me[1] = o /\ a[1] \in Objects
  BY <1>1, <1>2, <1>a, MyAid, AidPairs
<1>5. \/ /\ ~local /\ skt = NoSkt
         /\ strand' = PostTo(strand, o, Already(a, me, NoSkt))
         /\ UNCHANGED <<link_list, monitor_list>>
      \/ /\ ~(~local /\ skt = NoSkt)
         /\ Keep(o, type, a, skt)
         /\ strand' = PostTo(strand, IF local THEN a[1] ELSE skt[1], Link(type, me, a, skt))
  BY <1>a, <1>b DEF LinkTo
<1>6. ~local => Route[<<Ctx[o], Ctx[a[1]]>>] \in Sockets \ Routing
  <2>1. <<o, a[1]>>[1] = o /\ <<o, a[1]>>[2] = a[1]
    OBVIOUS
  <2>2. QED
    BY <1>1, <2>1, LkRoutes
<1>7. ~local => /\ skt \in SktIds \cup {NoSkt}
                /\ skt = NoSkt => Failed
                /\ skt # NoSkt => skt \in SktIds /\ skt[1] \in Sockets
                /\ ~Failed => skt \in Sockets \X {1}
  BY <1>6, <1>b, Selected DEF Found
<1>8. local => skt = NoSkt
  BY <1>b
<1>9. Objects \cap Sockets = {}
  BY LkRoutes
<1>10. Fits(strand)
  BY <1>2, StrandFits
<1> HIDE DEF local
<1>11. CASE ~local /\ skt = NoSkt
  <2>1. Failed'
    BY <1>2, <1>7, <1>11
  <2>2. Truth(a, "already")'
    BY <2>1 DEF Truth
  <2>3. Pack("aid", "already", a, me, NoSkt) \in PacksAt(o)'
    BY <1>2, <1>4, <2>2, NewsPack DEF Hows
  <2>4. Fits(PostTo(strand, o, Already(a, me, NoSkt)))
    BY <1>10, <2>3, PostOne DEF Already
  <2>5. PostedOK'
    BY <1>5, <1>11, <2>4, FitsOK
  <2>6. ListsOK'
    BY <1>1, <1>2, <1>5, <1>11, PartsStay
  <2>7. QED
    BY <1>3, <2>5, <2>6 DEF LkInv
<1>12. CASE ~(~local /\ skt = NoSkt)
  <2>0. PICK x : x = IF local THEN a[1] ELSE skt[1]
    OBVIOUS
  <2>1. Keep(o, type, a, skt) /\ strand' = PostTo(strand, x, Link(type, me, a, skt))
    BY <1>5, <1>12, <2>0
  <2>2. ListsOK'
    <3>1. skt \in SktIds \cup {NoSkt} /\ Linked(<<o, sid[o]>>, a)'
      BY <1>1, <1>7, <1>8, <1>a DEF Linked, Aid
    <3>2. QED
      BY <1>1, <1>2, <2>1, <3>1, KeepLk
  <2>3. Truth(me, type)'
    BY DEF Truth
  <2>4. x \in Objects => a[1] = x
    BY <1>7, <1>9, <1>12, <2>0
  <2>5. x \notin Objects /\ ~Failed' => skt \in Sockets \X {1}
    BY <1>2, <1>4, <1>7, <2>0
  <2>6. skt \in SktIds \cup {NoSkt} /\ <<me, a>> \in links' /\ <<me[1], a[1]>> \in MayLink
    BY <1>1, <1>4, <1>7, <1>8
  <2>7. Pack("link", type, me, a, skt) \in PacksAt(x)'
    <3>1. type \in Hows
      BY DEF Hows
    <3>2. /\ Grows /\ me \in Known' /\ a \in Known' /\ Truth(me, type)'
          /\ skt \in SktIds \cup {NoSkt} /\ <<me, a>> \in links' /\ <<me[1], a[1]>> \in MayLink
          /\ x \in Objects => a[1] = x
          /\ x \notin Objects /\ ~Failed' => skt \in Sockets \X {1}
      BY <1>2, <1>4, <2>3, <2>4, <2>5, <2>6
    <3>3. QED
      BY <3>1, <3>2, LinkPack
  <2>8. Fits(PostTo(strand, x, Link(type, me, a, skt)))
    BY <1>10, <2>7, PostOne DEF Link
  <2>9. PostedOK'
    BY <2>1, <2>8, FitsOK
  <2>10. QED
    BY <1>3, <2>2, <2>9 DEF LkInv
<1>13. QED
  BY <1>11, <1>12

\* The image of a finite set (FS_Image takes an operator).
LEMMA FiniteImage ==
  ASSUME NEW S, IsFiniteSet(S), NEW g
  PROVE  IsFiniteSet({g[x] : x \in S})
<1> DEFINE T == {g[x] : x \in S}
           h == [x \in S |-> g[x]]
<1>1. h \in [S -> T]
  OBVIOUS
<1>2. \A t \in T : \E x \in S : h[x] = t
  OBVIOUS
<1>3. h \in Surjection(S, T)
  BY <1>1, <1>2 DEF Surjection
<1> HIDE DEF T, h
<1>4. IsFiniteSet(T)
  BY <1>3, FS_Surjection
<1>5. QED
  BY <1>4 DEF T

\* What an actor out when it exits.
LEMMA ExitsSent ==
  ASSUME LkAssumed, LkInv, Grows, NEW o \in Objects, live[o], Aid(o) \in exited'
  PROVE  /\ IsFiniteSet(SendExit(o))
         /\ \A d \in SendExit(o) : d.at \in Objects \cup Sockets => d.pk \in PacksAt(d.at)'
<1>1. PICK me : me = Aid(o)
  OBVIOUS
<1>2. PICK L : L = link_list[o]
  OBVIOUS
<1>3. IsFiniteSet(L) /\ L \subseteq [aid : Known, skt : SktIds \cup {NoSkt}]
  BY <1>2 DEF LkInv, ListsOK
<1> DEFINE at(l) == IF l.skt = NoSkt THEN l.aid[1] ELSE l.skt[1]
           f(l) == [at |-> at(l), pk |-> Exit("exited", me, l.aid, l.skt)]
<1>4. SendExit(o) = {f(l) : l \in L}
  BY <1>1, <1>2 DEF SendExit
<1>5. IsFiniteSet({f(l) : l \in L})
  <2> DEFINE g == [l \in L |-> f(l)]
  <2>1. IsFiniteSet({g[l] : l \in L})
    <3> HIDE DEF g
    <3>1. QED
      BY <1>3, FiniteImage
  <2>2. {g[l] : l \in L} = {f(l) : l \in L}
    <3> HIDE DEF f
    <3>1. QED
      OBVIOUS
  <2>3. QED
    BY <2>1, <2>2
<1>6. me \in Known' /\ Truth(me, "exited")'
  <2>1. me \in Known /\ me \in exited'
    BY <1>1, MyAid
  <2>2. QED
    BY <2>1 DEF Grows, Truth
<1>7. ASSUME NEW l \in L, NEW x, x = at(l)
      PROVE  Exit("exited", me, l.aid, l.skt) \in PacksAt(x)'
  <2>1. l.aid \in Known' /\ l.skt \in SktIds \cup {NoSkt}
    BY <1>3 DEF Grows
  <2>2. x \in Objects => l.aid[1] = x
    <3>1. l.skt \in SktIds => l.skt[1] \in Sockets
      BY DEF SktIds
    <3>2. Objects \cap Sockets = {}
      BY LkRoutes
    <3>3. QED
      BY <1>7, <2>1, <3>1, <3>2
  <2>3. "exit" \in {"exit", "aid"} /\ "exited" \in Hows
    BY DEF Hows
  <2>4. Pack("exit", "exited", me, l.aid, l.skt) \in PacksAt(x)'
    BY <1>6, <2>1, <2>2, <2>3, NewsPack
  <2>5. QED
    BY <2>4 DEF Exit
<1>8. ASSUME NEW l \in L
      PROVE  f(l).pk \in PacksAt(f(l).at)'
  <2>1. PICK x : x = at(l)
    OBVIOUS
  <2>2. f(l).at = x /\ f(l).pk = Exit("exited", me, l.aid, l.skt)
    BY <2>1
  <2>3. QED
    BY <1>7, <2>1, <2>2
<1> HIDE DEF f
<1>9. QED
  BY <1>4, <1>5, <1>8

\* free_self: the aid is gone before the exits are sent and the lists are empty.
LEMMA FreeLk ==
  ASSUME LkAssumed, LkInv, NEW o \in Objects, live[o], Free(o)
  PROVE  /\ Grows /\ ObjectsOK' /\ ListsOK' /\ InboxOK' /\ PostedOK' /\ SentOK' /\ BooksOK' /\ ConnsOK'
         /\ UNCHANGED Failed
<1>1. PICK me : me = Aid(o)
  OBVIOUS
<1>2. /\ sid' = [sid EXCEPT ![o] = sid[o] + 1] /\ live' = [live EXCEPT ![o] = FALSE]
      /\ strand' = Posted(strand, SendExit(o))
      /\ link_list' = [link_list EXCEPT ![o] = {}] /\ monitor_list' = [monitor_list EXCEPT ![o] = {}]
      /\ inbox' = [inbox EXCEPT ![o] = <<>>] /\ exited' = exited \cup {me}
      /\ UNCHANGED <<straight, routes, gen, conn, registered, cache, net, broken, aborted, breaks, links>>
  BY <1>1 DEF Free, ClearList, socketVars, netVars
<1>3. me = <<o, sid[o]>> /\ sid[o] \in {1, 3}
  BY <1>1, MyAid
<1>4. sid \in [Objects -> 1..4] /\ live \in [Objects -> BOOLEAN]
  BY DEF LkInv, ObjectsOK
<1>5. /\ sid'[o] = sid[o] + 1 /\ live'[o] = FALSE
      /\ \A x \in Objects : x # o => sid'[x] = sid[x] /\ live'[x] = live[x]
  BY <1>2, <1>4
<1>6. \A a \in Aids : a = <<a[1], a[2]>> /\ a[1] \in Objects /\ a[2] \in {1, 3}
  BY AidPairs
<1>7. UNCHANGED Failed
  BY <1>2 DEF Failed
<1>8. Grows
  <2>1. \A a \in Aids : a[2] <= sid[a[1]] => a[2] <= sid'[a[1]]
    BY <1>3, <1>5, <1>6
  <2>2. Known \subseteq Known'
    BY <2>1, Fixed DEF Known
  <2>3. QED
    BY <1>2, <1>7, <2>2 DEF Grows
<1>9. SentOK' /\ BooksOK' /\ ConnsOK'
  BY <1>2, <1>8, PartsStay
<1>10. ObjectsOK'
  <2>1. sid[o] + 1 \in {2, 4} /\ (sid[o] + 1 = 4 => o \in Reused)
    BY <1>3 DEF LkInv, ObjectsOK
  <2>2. sid' \in [Objects -> 1..4] /\ live' \in [Objects -> BOOLEAN]
    BY <1>2, <1>4, <2>1
  <2>3. \A x \in Objects : /\ live'[x] <=> sid'[x] \in {1, 3}
                           /\ sid'[x] \in {3, 4} => x \in Reused
    BY <1>5, <2>1 DEF LkInv, ObjectsOK
  <2>4. ASSUME NEW a \in Aids, a[2] < sid'[a[1]] PROVE a \in exited'
    <3>1. CASE a[1] # o \/ a[2] < sid[o]
      BY <1>2, <1>5, <1>6, <2>4, <3>1 DEF LkInv, ObjectsOK
    <3>2. CASE a[1] = o /\ ~(a[2] < sid[o])
      <4>1. a[2] = sid[o]
        BY <1>3, <1>5, <1>6, <2>4, <3>2
      <4>2. a = me
        BY <1>3, <1>6, <3>2, <4>1
      <4>3. QED
        BY <1>2, <4>2
    <3>3. QED
      BY <3>1, <3>2
  <2>5. QED
    BY <2>2, <2>3, <2>4, Fixed DEF ObjectsOK
<1>11. ListsOK'
  <2>1. \A x \in Objects : /\ link_list'[x] = IF x = o THEN {} ELSE link_list[x]
                           /\ monitor_list'[x] = IF x = o THEN {} ELSE monitor_list[x]
    BY <1>2 DEF LkInv, ListsOK
  <2>2. /\ link_list' = [x \in Objects |-> link_list'[x]] /\ monitor_list' = [x \in Objects |-> monitor_list'[x]]
    BY <1>2 DEF LkInv, ListsOK
  <2>3. Known \subseteq Known'
    BY <1>8 DEF Grows
  <2>4. ASSUME NEW x \in Objects
        PROVE  /\ link_list'[x] \subseteq [aid : Known', skt : SktIds \cup {NoSkt}]
               /\ IsFiniteSet(link_list'[x])
               /\ monitor_list'[x] \subseteq Known'
               /\ \A a \in {l.aid : l \in link_list'[x]} \cup monitor_list'[x] :
                    live'[x] /\ Linked(Aid(x), a)'
    <3>1. CASE x = o
      BY <2>1, <3>1, FS_EmptySet
    <3>2. CASE x # o
      <4>1. link_list'[x] = link_list[x] /\ monitor_list'[x] = monitor_list[x]
        BY <2>1, <3>2
      <4>2. /\ link_list[x] \subseteq [aid : Known, skt : SktIds \cup {NoSkt}]
            /\ IsFiniteSet(link_list[x])
            /\ monitor_list[x] \subseteq Known
            /\ \A a \in {l.aid : l \in link_list[x]} \cup monitor_list[x] :
                  live[x] /\ Linked(Aid(x), a)
        BY DEF LkInv, ListsOK
      <4>3. \A a : Linked(Aid(x), a)' <=> Linked(Aid(x), a)
        BY <1>2, <1>5, <3>2 DEF Linked, Aid
      <4>4. [aid : Known, skt : SktIds \cup {NoSkt}] \subseteq [aid : Known', skt : SktIds \cup {NoSkt}]
        BY <2>3
      <4>5. live'[x] = live[x]
        BY <1>5, <3>2
      <4>6. QED
        BY <2>3, <4>1, <4>2, <4>3, <4>4, <4>5
    <3>3. QED
      BY <3>1, <3>2
  <2>5. QED
    BY <2>2, <2>4, Fixed DEF ListsOK
<1>12. InboxOK'
  <2>1. \A x \in Objects : inbox'[x] = IF x = o THEN <<>> ELSE inbox[x]
    BY <1>2 DEF LkInv, InboxOK
  <2>2. inbox' = [x \in Objects |-> inbox'[x]]
    BY <1>2 DEF LkInv, InboxOK
  <2>3. <<>> \in Seq(Notes')
    OBVIOUS
  <2>4. \A x \in Objects : inbox'[x] \in Seq(Notes')
    BY <1>8, <2>1, <2>3, PacksStay DEF LkInv, InboxOK
  <2>5. QED
    BY <2>2, <2>4 DEF InboxOK
<1>13. PostedOK'
  <2>1. Fits(Posted(strand, SendExit(o)))
    <3>0. me \in exited'
      BY <1>2
    <3>1. /\ IsFiniteSet(SendExit(o))
          /\ \A d \in SendExit(o) : d.at \in Objects \cup Sockets => d.pk \in PacksAt(d.at)'
      BY <1>1, <1>8, <3>0, ExitsSent
    <3>2. Fits(strand)
      BY <1>8, StrandFits
    <3>3. QED
      BY <3>1, <3>2, PostMany
  <2>2. QED
    BY <1>2, <2>1, FitsOK
<1>14. QED
  BY <1>7, <1>8, <1>9, <1>10, <1>11, <1>12, <1>13

\* An actor exits of its own accord,
LEMMA ExitActorLk ==
  ASSUME LkAssumed, LkInv, NEW o \in Objects, ExitActor(o)
  PROVE  LkInv'
<1>1. live[o] /\ Free(o) /\ UNCHANGED told
  BY DEF ExitActor
<1>2. Grows
  BY <1>1, FreeLk
<1>3. QED
  BY <1>1, <1>2, FreeLk, PartsStay DEF LkInv

\* or because of an exit it reads; one that traps exits goes on.
LEMMA RecvExitLk ==
  ASSUME LkAssumed, LkInv, NEW o \in Objects, RecvExit(o)
  PROVE  LkInv'
<1>1. PICK n : n = Head(inbox[o])
  OBVIOUS
<1>2. inbox[o] \in Seq(Notes) /\ inbox[o] # <<>>
  BY DEF RecvExit, LkInv, InboxOK
<1>3. n \in Notes /\ Tail(inbox[o]) \in Seq(Notes)
  BY <1>1, <1>2
<1>4. told' = told \cup {<<Aid(o), n.aid, n.why>>} /\ live[o]
  BY <1>1 DEF RecvExit, Told
<1>5. Grows => ToldOK'
  <2>1. ASSUME Grows, NEW t \in told'
        PROVE  Truth(t[2], t[3])'
    <3>1. CASE t \in told
      <4>1. Truth(t[2], t[3])
        BY <3>1 DEF LkInv, ToldOK
      <4>2. QED
        BY <2>1, <4>1, PacksStay
    <3>2. CASE t = <<Aid(o), n.aid, n.why>>
      <4>1. Truth(n.aid, n.why)
        BY <1>3 DEF Notes
      <4>2. Truth(n.aid, n.why)'
        BY <2>1, <4>1, PacksStay
      <4>3. t[2] = n.aid /\ t[3] = n.why
        BY <3>2
      <4>4. QED
        BY <4>2, <4>3
    <3>3. QED
      BY <1>4, <2>1, <3>1, <3>2
  <2>2. QED
    BY <2>1 DEF ToldOK
<1>6. CASE o \in Trapping
  <2>1. /\ inbox' = [inbox EXCEPT ![o] = Tail(inbox[o])]
        /\ UNCHANGED <<sid, live, link_list, monitor_list, strand, straight, routes, gen, conn, registered, cache, net,
                       broken, aborted, breaks, links, exited>>
    BY <1>6 DEF RecvExit, socketVars, netVars
  <2>2. Grows
    BY <2>1 DEF Grows, Failed, Known, Aids
  <2>3. InboxOK'
    <3>1. \A x \in Objects : inbox'[x] \in Seq(Notes)
      BY <1>3, <2>1 DEF LkInv, InboxOK
    <3>2. inbox' = [x \in Objects |-> inbox'[x]]
      BY <2>1 DEF LkInv, InboxOK
    <3>3. \A x \in Objects : inbox'[x] \in Seq(Notes')
      BY <2>2, <3>1, PacksStay
    <3>4. QED
      BY <3>2, <3>3 DEF InboxOK
  <2>4. QED
    BY <1>5, <2>1, <2>2, <2>3, PartsStay DEF LkInv
<1>7. CASE o \notin Trapping
  <2>1. Free(o)
    BY <1>7 DEF RecvExit
  <2>2. QED
    BY <1>4, <1>5, <2>1, FreeLk DEF LkInv
<1>8. QED
  BY <1>6, <1>7

\* A pack comes to the actor it is for.
LEMMA ArrivesLk ==
  ASSUME LkAssumed, LkInv, Grows, NEW o \in Objects, NEW pk \in PacksAt(o), Check(pk.to),
         NEW rest, Fits(rest),
         Arrives(o, pk, rest), UNCHANGED <<sid, live, straight, routes, gen, conn, registered, cache, net, broken,
                                              aborted, breaks, links, exited, told>>
  PROVE  LkInv'
<1>1. /\ pk \in Packs /\ pk.to[1] = o /\ pk.to \in Known /\ pk.aid \in Known /\ pk.how \in Hows
      /\ pk.tag = "link" => <<pk.aid, pk.to>> \in links /\ pk.skt \in SktIds \cup {NoSkt}
      /\ Truth(pk.aid, pk.how)
  BY DEF PacksAt, Packs, PackSet
<1>2. pk.to = <<o, sid[o]>>
  BY <1>1 DEF Check, Aid
<1>3. live[o]
  <2>1. pk.to[2] \in {1, 3}
    BY <1>1, AidPairs
  <2>2. sid[o] \in {1, 3}
    BY <1>2, <2>1
  <2>3. QED
    BY <2>2 DEF LkInv, ObjectsOK
<1>4. strand' = rest
  BY DEF Arrives
<1>5. PostedOK' /\ SentOK' /\ BooksOK' /\ ToldOK' /\ ObjectsOK' /\ ConnsOK'
  BY <1>4, FitsOK, PartsStay
<1>6. CASE pk.tag = "link"
  <2>1. Keep(o, "linked", pk.aid, pk.skt) /\ UNCHANGED inbox
    BY <1>6 DEF Arrives, Keep
  <2>2. Linked(<<o, sid[o]>>, pk.aid)'
    BY <1>1, <1>2, <1>6 DEF Linked
  <2>3. ListsOK'
    BY <1>1, <1>3, <1>6, <2>1, <2>2, KeepLk
  <2>4. QED
    BY <1>5, <2>1, <2>3, PartsStay DEF LkInv
<1>7. CASE pk.tag # "link"
  <2>1. inbox' = [inbox EXCEPT ![o] = Append(inbox[o], [aid |-> pk.aid, why |-> pk.how])]
    BY <1>7 DEF Arrives
  <2>2. InboxOK'
    <3>1. [aid |-> pk.aid, why |-> pk.how] \in Notes
      <4>1. pk.aid \in Aids
        BY <1>1, AidPairs
      <4>2. QED
        BY <1>1, <4>1 DEF Notes
    <3>2. inbox[o] \in Seq(Notes)
      BY DEF LkInv, InboxOK
    <3>3. Append(inbox[o], [aid |-> pk.aid, why |-> pk.how]) \in Seq(Notes)
      BY <3>1, <3>2
    <3>4. \A x \in Objects : inbox'[x] \in Seq(Notes)
      BY <2>1, <3>3 DEF LkInv, InboxOK
    <3>5. inbox' = [x \in Objects |-> inbox'[x]]
      BY <2>1 DEF LkInv, InboxOK
    <3>6. \A x \in Objects : inbox'[x] \in Seq(Notes')
      BY <3>4, PacksStay
    <3>7. QED
      BY <3>5, <3>6 DEF InboxOK
  <2>3. CASE pk.tag # "exit"
    <3>1. UNCHANGED <<link_list, monitor_list>>
      BY <1>7, <2>3 DEF Arrives
    <3>2. QED
      BY <1>5, <2>2, <3>1, PartsStay DEF LkInv
  <2>4. CASE pk.tag = "exit"
    <3>1. /\ link_list' = [link_list EXCEPT ![o] = {l \in link_list[o] : l.aid # pk.aid}]
          /\ monitor_list' = [monitor_list EXCEPT ![o] = monitor_list[o] \ {pk.aid}]
      BY <2>4 DEF Arrives
    <3>2. \A x \in Objects : link_list'[x] \subseteq link_list[x] /\ monitor_list'[x] \subseteq monitor_list[x]
      BY <3>1 DEF LkInv, ListsOK
    <3>3. /\ link_list' = [x \in Objects |-> link_list'[x]] /\ monitor_list' = [x \in Objects |-> monitor_list'[x]]
      BY <3>1 DEF LkInv, ListsOK
    <3>4. ASSUME NEW x \in Objects
          PROVE  /\ link_list'[x] \subseteq [aid : Known', skt : SktIds \cup {NoSkt}]
                 /\ IsFiniteSet(link_list'[x])
                 /\ monitor_list'[x] \subseteq Known'
                 /\ \A a \in {l.aid : l \in link_list'[x]} \cup monitor_list'[x] :
                      live'[x] /\ Linked(Aid(x), a)'
      <4>1. /\ link_list[x] \subseteq [aid : Known, skt : SktIds \cup {NoSkt}]
            /\ IsFiniteSet(link_list[x])
            /\ monitor_list[x] \subseteq Known
            /\ \A a \in {l.aid : l \in link_list[x]} \cup monitor_list[x] :
                  live[x] /\ Linked(Aid(x), a)
        BY DEF LkInv, ListsOK
      <4>2. Known' = Known /\ \A a : Linked(Aid(x), a)' <=> Linked(Aid(x), a)
        BY DEF Linked, Aid, Known, Aids
      <4>3. IsFiniteSet(link_list'[x])
        BY <3>2, <4>1, FS_Subset
      <4>4. QED
        BY <3>2, <4>1, <4>2, <4>3
    <3>5. ListsOK'
      BY <3>3, <3>4, Fixed DEF ListsOK
    <3>6. QED
      BY <1>5, <2>2, <3>5 DEF LkInv
  <2>5. QED
    BY <2>3, <2>4
<1>8. QED
  BY <1>6, <1>7

\* Who is known under an aid that it has no more has exited.
LEMMA GoneHasExited ==
  ASSUME LkAssumed, LkInv, NEW a \in Known, ~Check(a)
  PROVE  a \in exited
<1>1. a \in Aids /\ a = <<a[1], a[2]>> /\ a[1] \in Objects /\ a[2] \in {1, 3} /\ a[2] <= sid[a[1]]
  BY AidPairs DEF Known
<1>2. sid[a[1]] \in 1..4 /\ a[2] # sid[a[1]]
  BY <1>1 DEF LkInv, ObjectsOK, Check, Aid
<1>3. a[2] < sid[a[1]]
  BY <1>1, <1>2
<1>4. QED
  BY <1>1, <1>3 DEF LkInv, ObjectsOK

\* A pack for an actor that has exited: a link is answered, and the answer is true.
\* Where send_already_exited posts its answer, if it does.
AnswerTo(x, k, pk) ==
  \/ x = pk.aid[1] /\ k = NoSkt
  \/ /\ k \in SktIds /\ x = k[1] /\ x \in Sockets
     /\ ~Failed => k \in Sockets \X {1}

LEMMA AnswersTo ==
  ASSUME LkAssumed, LkInv, NEW c, NEW str, NEW pk
  PROVE  \/ Answered(c, str, pk) = str
         \/ \E x, k : /\ AnswerTo(x, k, pk)
                      /\ Answered(c, str, pk) = PostTo(str, x, Already(pk.to, pk.aid, k))
<1>1. PICK skt : skt = SelectSocket(c, Ctx[pk.aid[1]])
  OBVIOUS
<1>2. skt # NoSkt => AnswerTo(skt[1], skt, pk)
  BY <1>1, Selected DEF Found, AnswerTo
<1>3. AnswerTo(pk.aid[1], NoSkt, pk)
  BY DEF AnswerTo
<1>4. \/ Answered(c, str, pk) = str
      \/ Answered(c, str, pk) = PostTo(str, pk.aid[1], Already(pk.to, pk.aid, NoSkt))
      \/ skt # NoSkt /\ Answered(c, str, pk) = PostTo(str, skt[1], Already(pk.to, pk.aid, skt))
  BY <1>1 DEF Answered
<1>5. QED
  BY <1>2, <1>3, <1>4

\* An answer that is true.
LEMMA AnswerLk ==
  ASSUME LkAssumed, LkInv, Grows, NEW c, NEW str, Fits(str), NEW pk, pk.aid \in Known, pk.to \in Known,
         Truth(pk.to, "already")'
  PROVE  Fits(Answered(c, str, pk))
<1>1. pk.aid \in Known' /\ pk.to \in Known'
  BY DEF Grows
<1>2. ASSUME NEW x, NEW k, AnswerTo(x, k, pk)
      PROVE  Fits(PostTo(str, x, Already(pk.to, pk.aid, k)))
  <2>1. k \in SktIds \cup (Objects \X Nat) \cup {NoSkt} /\ (x \in Objects => pk.aid[1] = x)
    BY <1>2, LkRoutes DEF AnswerTo
  <2>2. "already" \in Hows /\ "aid" \in {"exit", "aid"}
    BY DEF Hows
  <2>3. Pack("aid", "already", pk.to, pk.aid, k) \in PacksAt(x)'
    BY <1>1, <2>1, <2>2, NewsPack
  <2>4. QED
    BY <2>3, PostOne DEF Already
<1>3. QED
  BY <1>2, AnswersTo

\* A pack for an actor that has exited: a link is answered, and the answer is true.
LEMMA BounceLk ==
  ASSUME LkAssumed, LkInv, Grows, NEW o \in Objects, NEW pk \in PacksAt(o), ~Check(pk.to),
         NEW rest, Fits(rest),
         Bounce(o, pk, rest), UNCHANGED <<sid, live, straight, routes, gen, conn, registered, cache, net, broken,
                                             aborted, breaks, links, exited, told>>
  PROVE  LkInv'
<1>1. pk.to \in Known /\ pk.aid \in Known
  BY DEF PacksAt, Packs
<1>2. Truth(pk.to, "already")'
  BY <1>1, GoneHasExited DEF Grows, Truth
<1>3. strand' = Answered(Ctx[o], rest, pk) \/ strand' = rest
  BY DEF Bounce
<1>4. Fits(strand')
  BY <1>1, <1>2, <1>3, AnswerLk
<1>5. PostedOK'
  BY <1>4, Fixed DEF Fits, PostedOK
<1>6. UNCHANGED <<link_list, monitor_list, inbox>>
  BY DEF Bounce
<1>7. QED
  BY <1>5, <1>6, PartsStay DEF LkInv

\* Whatever the strand of an actor runs.
LEMMA HandleRecvLk ==
  ASSUME LkAssumed, LkInv, NEW o \in Objects, HandleRecv(o)
  PROVE  LkInv'
<1>1. /\ strand[o] # <<>>
      /\ UNCHANGED <<sid, live, straight, routes, gen, conn, registered, cache, net, broken,
                     aborted, breaks, links, exited, told>>
  BY DEF HandleRecv, socketVars, netVars
<1>2. Grows
  BY <1>1 DEF Grows, Failed, Known, Aids
<1>3. PICK pk : pk = Head(strand[o])
  OBVIOUS
<1>4. PICK rest : rest = [strand EXCEPT ![o] = Tail(@)]
  OBVIOUS
<1>5. pk \in PacksAt(o) /\ Fits(rest)
  BY <1>1, <1>2, <1>3, <1>4, TakeOne
<1>6. IF Check(pk.to) THEN Arrives(o, pk, rest) ELSE Bounce(o, pk, rest)
  BY <1>3, <1>4 DEF HandleRecv
<1>7. QED
  BY <1>1, <1>2, <1>5, <1>6, ArrivesLk, BounceLk

\* What goes out over a connection, or waits for one.
LEMMA GoesOut ==
  ASSUME LkAssumed, LkInv, NEW n \in [Sockets -> Seq(Packs)], NEW s \in Sockets, NEW pk \in Packs
  PROVE  /\ NetWith(n, s, pk) \in [Sockets -> Seq(Packs)]
         /\ CacheWith(s, pk) \in [Sockets -> Seq(Packs)]
<1>1. Peer[s] \in Sockets
  BY LkRoutes
<1>2. cache \in [Sockets -> Seq(Packs)]
  BY DEF LkInv, SentOK
<1>3. cache[s] \in Seq(Packs) /\ n[Peer[s]] \in Seq(Packs)
  BY <1>1, <1>2
<1>4. Append(cache[s], pk) \in Seq(Packs)
  BY <1>3
<1>5. n[Peer[s]] \o Append(cache[s], pk) \in Seq(Packs)
  BY <1>3, <1>4
<1>6. [n EXCEPT ![Peer[s]] = n[Peer[s]] \o Append(cache[s], pk)] \in [Sockets -> Seq(Packs)]
  BY <1>5
<1>7. NetWith(n, s, pk) \in [Sockets -> Seq(Packs)]
  BY <1>6 DEF NetWith
<1>8. <<>> \in Seq(Packs)
  OBVIOUS
<1>9. PICK c : c = IF conn[s] THEN <<>> ELSE Append(cache[s], pk)
  OBVIOUS
<1>10. c \in Seq(Packs)
  BY <1>4, <1>8, <1>9
<1>11. CacheWith(s, pk) = [cache EXCEPT ![s] = c]
  BY <1>9 DEF CacheWith
<1>12. [cache EXCEPT ![s] = c] \in [Sockets -> Seq(Packs)]
  BY <1>2, <1>10
<1>13. QED
  BY <1>7, <1>11, <1>12

\* What is on the way stays right.
LEMMA SentStays ==
  ASSUME Grows, net' \in [Sockets -> Seq(Packs)], cache' \in [Sockets -> Seq(Packs)]
  PROVE  SentOK'
BY PacksStay, Fixed DEF SentOK

\* The books of one socket change.
LEMMA BooksOf ==
  ASSUME LkInv, Grows, NEW s \in Sockets,
         NEW S, S \subseteq Known' \X Known', IsFiniteSet(S), straight' = [straight EXCEPT ![s] = S],
         NEW R, R \subseteq [src : Known', des : Known', skt : SktIds], IsFiniteSet(R),
         routes' = [routes EXCEPT ![s] = R]
  PROVE  BooksOK'
<1>1. /\ straight = [t \in Sockets |-> straight[t]] /\ routes = [t \in Sockets |-> routes[t]]
      /\ \A t \in Sockets :
           /\ straight[t] \subseteq Known \X Known /\ IsFiniteSet(straight[t])
           /\ routes[t] \subseteq [src : Known, des : Known, skt : SktIds] /\ IsFiniteSet(routes[t])
  BY DEF LkInv, BooksOK
<1>2. Known \subseteq Known'
  BY DEF Grows
<1>3. \A K, L : K \subseteq L => /\ K \X K \subseteq L \X L
                                /\ [src : K, des : K, skt : SktIds] \subseteq [src : L, des : L, skt : SktIds]
  OBVIOUS
<1>4. /\ Known \X Known \subseteq Known' \X Known'
      /\ [src : Known, des : Known, skt : SktIds] \subseteq [src : Known', des : Known', skt : SktIds]
  BY <1>2, <1>3
<1>5. \A t \in Sockets : /\ straight'[t] = IF t = s THEN S ELSE straight[t]
                         /\ routes'[t] = IF t = s THEN R ELSE routes[t]
  BY <1>1
<1>6. \A t \in Sockets :
         /\ straight'[t] \subseteq Known' \X Known' /\ IsFiniteSet(straight'[t])
         /\ routes'[t] \subseteq [src : Known', des : Known', skt : SktIds] /\ IsFiniteSet(routes'[t])
  BY <1>1, <1>4, <1>5
<1>7. straight' = [t \in Sockets |-> straight'[t]] /\ routes' = [t \in Sockets |-> routes'[t]]
  BY <1>1
<1>8. QED
  BY <1>6, <1>7, Fixed DEF BooksOK

\* add_ and remove_straight_link, add_ and remove_router_link keep them.
LEMMA BookStraight ==
  ASSUME LkAssumed, LkInv, Grows, NEW s \in Sockets, NEW a \in Known, NEW b \in Known,
         UNCHANGED routes,
         straight' = AddStraight(s, a, b) \/ straight' = RemoveStraight(s, a, b) \/ straight' = straight
  PROVE  BooksOK'
<1>1. /\ straight = [t \in Sockets |-> straight[t]] /\ routes = [t \in Sockets |-> routes[t]]
      /\ straight[s] \subseteq Known \X Known /\ IsFiniteSet(straight[s])
      /\ routes[s] \subseteq [src : Known, des : Known, skt : SktIds] /\ IsFiniteSet(routes[s])
  BY DEF LkInv, BooksOK
<1>2. PICK S : /\ straight' = [straight EXCEPT ![s] = S]
               /\ S = straight[s] \cup {<<a, b>>} \/ S = straight[s] \ {<<a, b>>} \/ S = straight[s]
  BY <1>1 DEF AddStraight, RemoveStraight
<1>3. IsFiniteSet(S)
  <2>1. IsFiniteSet(straight[s] \cup {<<a, b>>})
    BY <1>1, FS_AddElement
  <2>2. IsFiniteSet(straight[s] \ {<<a, b>>})
    BY <1>1, FS_Subset
  <2>3. QED
    BY <1>1, <1>2, <2>1, <2>2
<1>4. PICK R : R = routes[s]
  OBVIOUS
<1>5. routes' = [routes EXCEPT ![s] = R]
  BY <1>1, <1>4
<1>6. /\ S \subseteq Known' \X Known'
      /\ R \subseteq [src : Known', des : Known', skt : SktIds] /\ IsFiniteSet(R)
  BY <1>1, <1>2, <1>4 DEF Grows
<1>7. QED
  BY <1>2, <1>3, <1>5, <1>6, BooksOf

\* The same for the books of a router.
LEMMA BookRoutes ==
  ASSUME LkAssumed, LkInv, Grows, NEW s \in Sockets, NEW a \in Known, NEW b \in Known, NEW skt,
         UNCHANGED straight,
         \/ skt \in SktIds /\ routes' = AddRoute(s, a, b, skt)
         \/ routes' = RemoveRoute(s, a, b)
         \/ routes' = routes
  PROVE  BooksOK'
<1>1. /\ straight = [t \in Sockets |-> straight[t]] /\ routes = [t \in Sockets |-> routes[t]]
      /\ straight[s] \subseteq Known \X Known /\ IsFiniteSet(straight[s])
      /\ routes[s] \subseteq [src : Known, des : Known, skt : SktIds] /\ IsFiniteSet(routes[s])
  BY DEF LkInv, BooksOK
<1> DEFINE e == [src |-> a, des |-> b, skt |-> skt]
<1>2. PICK R : /\ routes' = [routes EXCEPT ![s] = R]
               /\ \/ skt \in SktIds /\ R = routes[s] \cup {e}
                  \/ R \subseteq routes[s]
  <2>1. CASE routes' = routes
    BY <1>1, <2>1
  <2>2. CASE routes' = RemoveRoute(s, a, b)
    BY <2>2 DEF RemoveRoute
  <2>3. CASE skt \in SktIds /\ routes' = AddRoute(s, a, b, skt)
    <3>1. routes' = routes \/ routes' = [routes EXCEPT ![s] = routes[s] \cup {e}]
      BY <2>3 DEF AddRoute
    <3>2. QED
      BY <1>1, <2>3, <3>1
  <2>4. QED
    BY <2>1, <2>2, <2>3
<1>3. IsFiniteSet(R)
  BY <1>1, <1>2, FS_AddElement, FS_Subset
<1>4. PICK S : S = straight[s]
  OBVIOUS
<1>5. straight' = [straight EXCEPT ![s] = S]
  BY <1>1, <1>4
<1>6. Known \subseteq Known'
  BY DEF Grows
<1>7. skt \in SktIds => e \in [src : Known', des : Known', skt : SktIds]
  BY <1>6
<1>8. routes[s] \subseteq [src : Known', des : Known', skt : SktIds]
  BY <1>1, <1>6
<1>9. S \subseteq Known' \X Known' /\ IsFiniteSet(S)
  BY <1>1, <1>4, <1>6
<1>10. R \subseteq [src : Known', des : Known', skt : SktIds]
  BY <1>2, <1>7, <1>8
<1>11. QED
  BY <1>2, <1>3, <1>5, <1>9, <1>10, BooksOf

\* A pack under another tag, or with another socket.
LEMMA Rewrapped ==
  ASSUME NEW pk \in Packs
  PROVE  /\ Unwrapped(pk) \in Packs
         /\ \A skt \in SktIds : /\ [pk EXCEPT !.skt = skt] \in Packs
                                /\ [pk EXCEPT !.skt = skt].to = pk.to
         /\ \A skt, via \in SktIds : pk.tag \in {"link", "exit"} =>
              Fwd(pk, skt, via) \in Packs /\ Fwd(pk, skt, via).tag \in {"fwd_link", "fwd_exit"}
<1>1. /\ pk \in PackSet /\ pk.aid \in Known /\ pk.to \in Known /\ Truth(pk.aid, pk.how)
      /\ pk.tag \in {"link", "fwd_link"} => /\ <<pk.aid, pk.to>> \in links
                                            /\ <<pk.aid[1], pk.to[1]>> \in MayLink
                                            /\ pk.skt \in SktIds \cup {NoSkt}
  BY DEF Packs
<1>2. Unwrapped(pk) \in Packs
  <2>1. PICK tag : tag = CASE pk.tag = "fwd_link" -> "link" [] pk.tag = "fwd_exit" -> "exit" [] OTHER -> pk.tag
    OBVIOUS
  <2>2. tag \in {"link", "exit", "aid"} /\ (tag \in {"link", "fwd_link"} => pk.tag \in {"link", "fwd_link"})
    BY <1>1, <2>1 DEF PackSet
  <2>3. PICK q : q = [pk EXCEPT !.tag = tag, !.via = NoSkt]
    OBVIOUS
  <2>4. q \in PackSet /\ q.tag = tag /\ q.how = pk.how /\ q.aid = pk.aid /\ q.to = pk.to /\ q.skt = pk.skt
    BY <1>1, <2>2, <2>3 DEF PackSet
  <2>5. q \in Packs
    BY <1>1, <2>2, <2>4 DEF Packs
  <2>6. Unwrapped(pk) = q
    BY <2>1, <2>3 DEF Unwrapped
  <2>7. QED
    BY <2>5, <2>6
<1>3. ASSUME NEW skt \in SktIds
      PROVE  [pk EXCEPT !.skt = skt] \in Packs /\ [pk EXCEPT !.skt = skt].to = pk.to
  <2>1. PICK q : q = [pk EXCEPT !.skt = skt]
    OBVIOUS
  <2>2. q \in PackSet /\ q.tag = pk.tag /\ q.how = pk.how /\ q.aid = pk.aid /\ q.to = pk.to /\ q.skt = skt
        /\ q.via = pk.via
    BY <1>1, <2>1 DEF PackSet
  <2>3. pk.tag = "fwd_link" => pk.via \in SktIds
    BY DEF Packs
  <2>4. q \in Packs
    BY <1>1, <2>2, <2>3 DEF Packs
  <2>5. QED
    BY <2>1, <2>2, <2>4
<1>4. ASSUME NEW skt \in SktIds, NEW via \in SktIds, pk.tag \in {"link", "exit"}
      PROVE  Fwd(pk, skt, via) \in Packs /\ Fwd(pk, skt, via).tag \in {"fwd_link", "fwd_exit"}
  <2>1. PICK tag : tag = IF pk.tag = "link" THEN "fwd_link" ELSE "fwd_exit"
    OBVIOUS
  <2>2. PICK q : q = [pk EXCEPT !.tag = tag, !.skt = skt, !.via = via]
    OBVIOUS
  <2>3. tag \in {"fwd_link", "fwd_exit"} /\ (tag \in {"link", "fwd_link"} => pk.tag = "link")
    BY <1>4, <2>1
  <2>4. q \in PackSet /\ q.tag = tag /\ q.how = pk.how /\ q.aid = pk.aid /\ q.to = pk.to /\ q.skt = skt
        /\ q.via = via
    BY <1>1, <2>2, <2>3 DEF PackSet
  <2>5. q \in Packs
    BY <1>1, <2>3, <2>4 DEF Packs
  <2>6. Fwd(pk, skt, via) = q
    BY <2>1, <2>2 DEF Fwd
  <2>7. QED
    BY <2>3, <2>4, <2>5, <2>6
<1>5. QED
  BY <1>2, <1>3, <1>4

\* Whatever the strand of a socket runs. A link that comes for the aid of an old connection is
\* answered only when a connection has failed.
LEMMA SocketRecvLk ==
  ASSUME LkAssumed, LkInv, NEW s \in Sockets, SocketRecv(s)
  PROVE  LkInv'
<1>1. /\ strand[s] # <<>>
      /\ UNCHANGED <<sid, live, link_list, monitor_list, inbox, gen, conn, registered, broken,
                     aborted, breaks, links, exited, told>>
  BY DEF SocketRecv, actorVars
<1>2. Grows /\ Failed' = Failed
  BY <1>1 DEF Grows, Failed, Known, Aids
<1>3. PICK pk : pk = Head(strand[s])
  OBVIOUS
<1>4. PICK rest : rest = [strand EXCEPT ![s] = Tail(@)]
  OBVIOUS
<1>5. pk \in PacksAt(s) /\ Fits(rest) /\ s \notin Objects
  BY <1>1, <1>2, <1>3, <1>4, TakeOne, LkRoutes
<1>6. /\ pk \in Packs /\ pk.aid \in Known /\ pk.to \in Known
      /\ pk.tag = "fwd_link" => pk.via \in SktIds
      /\ pk.tag = "link" /\ ~Failed => pk.skt \in Sockets \X {1}
  BY <1>5 DEF PacksAt, Packs
<1>7. ObjectsOK' /\ ListsOK' /\ InboxOK' /\ ConnsOK' /\ ToldOK'
  BY <1>1, <1>2, PartsStay
<1>8. CASE CheckSkt(pk.skt)
  <2>1. /\ strand' = rest /\ Note(s, pk)
        /\ net' = NetWith(net, s, Unwrapped(pk)) /\ cache' = CacheWith(s, Unwrapped(pk))
    BY <1>3, <1>4, <1>8 DEF SocketRecv
  <2>2. PostedOK'
    BY <1>5, <2>1, FitsOK
  <2>3. SentOK'
    <3>1. PICK p : p = Unwrapped(pk)
      OBVIOUS
    <3>2. p \in Packs /\ net \in [Sockets -> Seq(Packs)]
      BY <1>6, <3>1, Rewrapped DEF LkInv, SentOK
    <3>3. net' = NetWith(net, s, p) /\ cache' = CacheWith(s, p)
      BY <2>1, <3>1
    <3>4. net' \in [Sockets -> Seq(Packs)] /\ cache' \in [Sockets -> Seq(Packs)]
      BY <3>2, <3>3, GoesOut
    <3>5. QED
      BY <1>2, <3>4, SentStays
  <2>4. BooksOK'
    <3>1. CASE pk.tag \in {"link", "exit"}
      <4>1. /\ UNCHANGED routes
            /\ straight' = AddStraight(s, pk.aid, pk.to) \/ straight' = RemoveStraight(s, pk.aid, pk.to)
        BY <2>1, <3>1 DEF Note
      <4>2. QED
        BY <1>2, <1>6, <4>1, BookStraight
    <3>2. CASE pk.tag = "fwd_link"
      <4>1. UNCHANGED straight /\ routes' = AddRoute(s, pk.aid, pk.to, pk.via)
        BY <2>1, <3>2 DEF Note
      <4>2. QED
        BY <1>2, <1>6, <3>2, <4>1, BookRoutes
    <3>3. CASE pk.tag = "fwd_exit"
      <4>1. UNCHANGED straight /\ routes' = RemoveRoute(s, pk.aid, pk.to)
        BY <2>1, <3>3 DEF Note
      <4>2. QED
        BY <1>2, <1>6, <4>1, BookRoutes
    <3>4. CASE pk.tag \notin {"link", "exit", "fwd_link", "fwd_exit"}
      <4>1. UNCHANGED <<straight, routes>>
        BY <2>1, <3>4 DEF Note
      <4>2. QED
        BY <1>2, <4>1, PartsStay
    <3>5. QED
      BY <3>1, <3>2, <3>3, <3>4
  <2>5. QED
    BY <1>7, <2>2, <2>3, <2>4 DEF LkInv
<1>9. CASE ~CheckSkt(pk.skt)
  <2>1. SocketBounce(s, pk, rest) /\ UNCHANGED <<straight, routes, net, cache>>
    BY <1>3, <1>4, <1>9 DEF SocketRecv
  <2>2. pk.tag = "link" => Failed
    <3>1. SUFFICES ASSUME ~Failed, pk.tag = "link" PROVE FALSE
      OBVIOUS
    <3>2. PICK t \in Sockets : pk.skt = <<t, 1>>
      BY <1>6, <3>1
    <3>3. gen[t] = 1
      BY <3>1 DEF LkInv, ConnsOK
    <3>4. CheckSkt(pk.skt)
      BY <3>2, <3>3 DEF CheckSkt, SktAid
    <3>5. QED
      BY <1>9, <3>4
  <2>3. Fits(strand')
    <3>1. CASE strand' = rest
      BY <1>5, <3>1
    <3>2. CASE pk.tag = "link" /\ strand' = Answered(Ctx[s], rest, pk)
      <4>1. Truth(pk.to, "already")'
        BY <1>2, <2>2, <3>2 DEF Truth
      <4>2. QED
        BY <1>2, <1>5, <1>6, <3>2, <4>1, AnswerLk
    <3>3. QED
      BY <2>1, <3>1, <3>2 DEF SocketBounce
  <2>4. PostedOK'
    BY <2>3, Fixed DEF Fits, PostedOK
  <2>5. QED
    BY <1>2, <1>7, <2>1, <2>4, PartsStay DEF LkInv
<1>10. QED
  BY <1>8, <1>9

\* What only HandleNetMsg leaves alone.
NetStep(s, pk, rest) ==
  /\ s \in Sockets /\ pk \in Packs /\ rest \in [Sockets -> Seq(Packs)]
  /\ UNCHANGED <<sid, live, link_list, monitor_list, inbox, gen, cache, breaks, links, exited, told>>

\* What holds whenever a socket handles a message.
LEMMA NetGrows ==
  ASSUME LkAssumed, LkInv, NEW s, NEW pk, NEW rest, NetStep(s, pk, rest), aborted => aborted'
  PROVE  /\ Grows /\ Known' = Known /\ Packs \subseteq Packs'
         /\ ObjectsOK' /\ ListsOK' /\ InboxOK' /\ ToldOK'
         /\ pk \in Packs /\ pk.aid \in Known /\ pk.to \in Known /\ pk.to[1] \in Objects
         /\ SktAid(s) \in SktIds
         /\ Fits(strand)
<1>1. Grows /\ Known' = Known
  BY DEF NetStep, Grows, Failed, Known, Aids
<1>2. ObjectsOK' /\ ListsOK' /\ InboxOK' /\ ToldOK'
  BY <1>1, PartsStay DEF NetStep
<1>3. pk \in Packs /\ pk.aid \in Known /\ pk.to \in Known
  BY DEF NetStep, Packs
<1>4. pk.to[1] \in Objects
  BY <1>3, AidPairs
<1>5. SktAid(s) \in SktIds
  BY DEF NetStep, SktAid, SktIds, LkInv, ConnsOK
<1>6. QED
  BY <1>1, <1>2, <1>3, <1>4, <1>5, StrandFits, PacksStay

\* A message of a socket that is no router's.
LEMMA FromNetLk ==
  ASSUME LkAssumed, LkInv, NEW s, NEW pk, NEW rest, NetStep(s, pk, rest),
         FromNet(s, pk, rest), UNCHANGED <<aborted, broken, conn, registered>>
  PROVE  LkInv'
<1>1. /\ Grows /\ Packs \subseteq Packs' /\ pk \in Packs /\ pk.aid \in Known /\ pk.to \in Known
      /\ pk.to[1] \in Objects /\ SktAid(s) \in SktIds /\ Fits(strand)
      /\ ObjectsOK' /\ ListsOK' /\ InboxOK' /\ ToldOK'
  BY NetGrows
<1>2. s \in Sockets /\ rest \in [Sockets -> Seq(Packs)] /\ cache \in [Sockets -> Seq(Packs)]
  BY DEF NetStep, LkInv, SentOK
<1>0. net' = rest /\ UNCHANGED cache
  BY DEF FromNet, NetStep
<1>6. SentOK'
  BY <1>0, <1>1, <1>2, SentStays
<1>3. ConnsOK'
  BY <1>1, PartsStay DEF NetStep
<1>4. CASE Check(pk.to)
  <2>1. PICK skt : skt = SktAid(s)
    OBVIOUS
  <2>2. /\ strand' = PostTo(strand, pk.to[1], [pk EXCEPT !.skt = skt])
        /\ \/ straight' = AddStraight(s, pk.to, pk.aid)
           \/ straight' = RemoveStraight(s, pk.to, pk.aid)
           \/ straight' = straight
        /\ net' = rest /\ UNCHANGED routes
    BY <1>4, <2>1 DEF FromNet
  <2>3. PICK p : p = [pk EXCEPT !.skt = skt]
    OBVIOUS
  <2>4. p \in Packs' /\ p.to = pk.to
    BY <1>1, <2>1, <2>3, Rewrapped
  <2>5. p \in PacksAt(pk.to[1])'
    BY <1>1, <2>4 DEF PacksAt
  <2>6. Fits(PostTo(strand, pk.to[1], p))
    BY <1>1, <2>5, PostOne
  <2>7. PostedOK'
    BY <2>2, <2>3, <2>6, FitsOK
  <2>9. BooksOK'
    BY <1>1, <1>2, <2>2, BookStraight
  <2>10. QED
    BY <1>1, <1>3, <1>6, <2>7, <2>9 DEF LkInv
<1>5. CASE ~Check(pk.to)
  <2>1. Truth(pk.to, "already")'
    BY <1>1, <1>5, GoneHasExited DEF Truth, Grows
  <2>2. UNCHANGED <<straight, routes>> /\ (strand' = strand \/ strand' = Answered(Ctx[s], strand, pk))
    BY <1>5 DEF FromNet
  <2>3. Fits(strand')
    BY <1>1, <2>1, <2>2, AnswerLk
  <2>4. PostedOK'
    BY <2>3, Fixed DEF Fits, PostedOK
  <2>5. QED
    BY <1>1, <1>3, <1>6, <2>2, <2>4, PartsStay DEF LkInv
<1>7. QED
  BY <1>4, <1>5

\* A router passes a link on or answers it,
LEMMA RouteLinkLk ==
  ASSUME LkAssumed, LkInv, NEW s \in Routing, NEW pk, NEW rest, NetStep(s, pk, rest),
         RouteLink(s, pk, rest)
  PROVE  LkInv'
<1>0. pk.tag = "link" /\ net' = rest /\ UNCHANGED <<straight, aborted, broken, conn, registered, cache>>
  BY DEF RouteLink, NetStep
<1>1. /\ Grows /\ Packs \subseteq Packs' /\ pk \in Packs /\ pk.aid \in Known /\ pk.to \in Known
      /\ SktAid(s) \in SktIds /\ Fits(strand)
      /\ ObjectsOK' /\ ListsOK' /\ InboxOK' /\ ToldOK'
  BY <1>0, NetGrows
<1>2. s \in Sockets /\ rest \in [Sockets -> Seq(Packs)] /\ cache \in [Sockets -> Seq(Packs)]
  BY DEF NetStep, LkInv, SentOK
<1>3. ConnsOK'
  BY <1>0, <1>1, PartsStay DEF NetStep
<1>4. PICK skt : skt = SelectJointSocket(Ctx[s], Ctx[pk.to[1]])
  OBVIOUS
<1>5. /\ skt = NoSkt => Failed
      /\ skt # NoSkt => skt \in SktIds /\ skt[1] \in Sockets
  <2>1. Route[<<Ctx[s], Ctx[pk.to[1]]>>] \in Routing
    <3>1. PICK p : p = <<pk.aid[1], pk.to[1]>>
      OBVIOUS
    <3>2. p[2] = pk.to[1] /\ p \in MayLink
      BY <1>0, <1>1, <3>1 DEF Packs
    <3>3. QED
      BY <3>2, LkRoutes
  <2>2. QED
    BY <1>4, <2>1, Selected, LkRoutes DEF Found
<1>9. SentOK'
  BY <1>0, <1>1, <1>2, SentStays
<1>6. CASE skt = NoSkt
  <2>1. strand' = Answered(Ctx[s], strand, pk) /\ UNCHANGED routes
    BY <1>4, <1>6 DEF RouteLink
  <2>2. Truth(pk.to, "already")'
    BY <1>1, <1>5, <1>6 DEF Truth, Grows
  <2>3. Fits(strand')
    BY <1>1, <2>1, <2>2, AnswerLk
  <2>4. PostedOK'
    BY <2>3, Fixed DEF Fits, PostedOK
  <2>5. QED
    BY <1>0, <1>1, <1>3, <1>9, <2>1, <2>4, PartsStay DEF LkInv
<1>7. CASE skt # NoSkt
  <2>1. PICK p : p = Fwd(pk, skt, SktAid(s))
    OBVIOUS
  <2>2. /\ strand' = PostTo(strand, skt[1], p)
        /\ routes' = AddRoute(s, pk.to, pk.aid, skt) \/ routes' = routes
    BY <1>4, <1>7, <2>1 DEF RouteLink
  <2>3. p \in Packs' /\ p.tag \in {"fwd_link", "fwd_exit"}
    BY <1>0, <1>1, <1>5, <1>7, <2>1, Rewrapped
  <2>4. skt[1] \notin Objects
    BY <1>5, <1>7, LkRoutes
  <2>5. p \in PacksAt(skt[1])'
    BY <2>3, <2>4 DEF PacksAt
  <2>6. Fits(PostTo(strand, skt[1], p))
    BY <1>1, <2>5, PostOne
  <2>7. PostedOK'
    BY <2>2, <2>6, FitsOK
  <2>8. BooksOK'
    BY <1>0, <1>1, <1>2, <1>5, <1>7, <2>2, BookRoutes
  <2>10. QED
    BY <1>1, <1>3, <1>9, <2>7, <2>8 DEF LkInv
<1>8. QED
  BY <1>6, <1>7

\* passes an answer on, if a socket of its leads there,
LEMMA RouteAlreadyLk ==
  ASSUME LkAssumed, LkInv, NEW s \in Routing, NEW pk, NEW rest, NetStep(s, pk, rest),
         RouteAlready(s, pk, rest)
  PROVE  LkInv'
<1>0. pk.tag = "aid" /\ net' = rest /\ UNCHANGED <<straight, routes, cache, aborted, broken, conn, registered>>
  BY DEF RouteAlready, NetStep
<1>1. /\ Grows /\ Packs \subseteq Packs' /\ pk \in Packs /\ pk.to[1] \in Objects /\ Fits(strand)
      /\ ObjectsOK' /\ ListsOK' /\ InboxOK' /\ ToldOK'
  BY <1>0, NetGrows
<1>2. s \in Sockets /\ rest \in [Sockets -> Seq(Packs)] /\ cache \in [Sockets -> Seq(Packs)]
  BY DEF NetStep, LkInv, SentOK
<1>3. ConnsOK'
  BY <1>0, <1>1, PartsStay DEF NetStep
<1>4. PICK skt : skt = SelectJointSocket(Ctx[s], Ctx[pk.to[1]])
  OBVIOUS
<1>5. strand' = IF skt = NoSkt THEN strand ELSE PostTo(strand, skt[1], [pk EXCEPT !.skt = skt])
  BY <1>4 DEF RouteAlready
<1>6. skt # NoSkt => skt \in SktIds /\ skt[1] \in Sockets /\ skt[1] \notin Objects
  BY <1>4, Selected, LkRoutes DEF Found
<1>8. Fits(strand')
  <2>1. CASE skt = NoSkt
    BY <1>1, <1>5, <2>1
  <2>2. CASE skt # NoSkt
    <3>1. PICK p : p = [pk EXCEPT !.skt = skt]
      OBVIOUS
    <3>2. p \in Packs' /\ p.tag = "aid"
      BY <1>0, <1>1, <1>6, <2>2, <3>1, Rewrapped DEF Packs, PackSet
    <3>3. p \in PacksAt(skt[1])'
      BY <1>6, <2>2, <3>2 DEF PacksAt
    <3>4. Fits(PostTo(strand, skt[1], p))
      BY <1>1, <3>3, PostOne
    <3>5. QED
      BY <1>5, <2>2, <3>1, <3>4
  <2>3. QED
    BY <2>1, <2>2
<1>9. PostedOK'
  BY <1>8, Fixed DEF Fits, PostedOK
<1>10. SentOK'
  BY <1>0, <1>1, <1>2, SentStays
<1>11. QED
  BY <1>0, <1>1, <1>3, <1>9, <1>10, PartsStay DEF LkInv

\* and passes an exit on, or ends in its assertion.
LEMMA RouteExitLk ==
  ASSUME LkAssumed, LkInv, NEW s \in Routing, NEW pk, NEW rest, NetStep(s, pk, rest),
         RouteExit(s, pk, rest)
  PROVE  LkInv'
<1>1. pk.tag = "exit" /\ UNCHANGED <<straight, cache>>
  BY DEF RouteExit, NetStep
<1>2. s \in Sockets /\ rest \in [Sockets -> Seq(Packs)] /\ cache \in [Sockets -> Seq(Packs)]
      /\ net \in [Sockets -> Seq(Packs)]
  BY DEF NetStep, LkInv, SentOK
<1>3. ASSUME NEW r \in RoutesOf(s, pk.to, pk.aid),
             strand' = PostTo(strand, r.skt[1], Fwd(pk, r.skt, SktAid(s))),
             routes' = RemoveRoute(s, pk.to, pk.aid), net' = rest, UNCHANGED <<aborted, broken, conn, registered>>
      PROVE  LkInv'
  <2>1. /\ Grows /\ Packs \subseteq Packs' /\ pk \in Packs /\ pk.aid \in Known /\ pk.to \in Known
        /\ SktAid(s) \in SktIds /\ Fits(strand)
        /\ ObjectsOK' /\ ListsOK' /\ InboxOK' /\ ToldOK'
    BY <1>3, NetGrows
  <2>2. ConnsOK'
    BY <1>3, <2>1, PartsStay DEF NetStep
  <2>3. r.skt \in SktIds /\ r.skt[1] \in Sockets
    BY <1>2, <1>3 DEF RoutesOf, LkInv, BooksOK, SktIds
  <2>4. PICK p : p = Fwd(pk, r.skt, SktAid(s))
    OBVIOUS
  <2>5. p \in Packs' /\ p.tag \in {"fwd_link", "fwd_exit"}
    BY <1>1, <2>1, <2>3, <2>4, Rewrapped
  <2>6. r.skt[1] \notin Objects
    BY <2>3, LkRoutes
  <2>7. p \in PacksAt(r.skt[1])'
    BY <2>5, <2>6 DEF PacksAt
  <2>8. Fits(PostTo(strand, r.skt[1], p))
    BY <2>1, <2>7, PostOne
  <2>9. PostedOK'
    BY <1>3, <2>4, <2>8, FitsOK
  <2>10. BooksOK'
    BY <1>1, <1>2, <1>3, <2>1, BookRoutes
  <2>11. SentOK'
    BY <1>1, <1>2, <1>3, <2>1, SentStays
  <2>12. QED
    BY <2>1, <2>2, <2>9, <2>10, <2>11 DEF LkInv
<1>4. ASSUME aborted' = TRUE,
             conn' = [t \in Sockets |-> conn[t] /\ t \notin Routing],
             registered' = [t \in Sockets |-> registered[t] /\ t \notin Routing],
             broken' = [c \in Connectors |-> broken[c] \/ c \in Routing \/ Peer[c] \in Routing],
             strand' = [x \in DOMAIN strand |-> IF x \in Routing THEN <<>> ELSE strand[x]],
             routes' = [t \in Sockets |-> {}],
             net' = [t \in Sockets |-> IF t \in Routing THEN <<>> ELSE net[t]]
      PROVE  LkInv'
  <2>1. /\ Grows /\ ObjectsOK' /\ ListsOK' /\ InboxOK' /\ ToldOK' /\ Fits(strand) /\ Known' = Known
    BY <1>4, NetGrows
  <2>2. Failed'
    BY <1>4 DEF Failed
  <2>3. ConnsOK'
    <3>1. gen' = gen /\ breaks' = breaks
      BY DEF NetStep
    <3>2. /\ gen \in [Sockets -> Nat \ {0}] /\ conn \in [Sockets -> BOOLEAN]
          /\ registered \in [Sockets -> BOOLEAN]
          /\ broken \in [Connectors -> BOOLEAN] /\ breaks \in Nat
      BY DEF LkInv, ConnsOK
    <3>3. conn' \in [Sockets -> BOOLEAN] /\ registered' \in [Sockets -> BOOLEAN] /\ broken' \in [Connectors -> BOOLEAN]
      BY <1>4, <3>2
    <3>4. QED
      BY <1>4, <2>2, <3>1, <3>2, <3>3, Fixed DEF ConnsOK
  <2>4. PostedOK'
    <3>1. /\ strand = [x \in Objects \cup Sockets |-> strand[x]]
          /\ \A x \in Objects \cup Sockets : strand[x] \in Seq(PacksAt(x)')
      BY <2>1 DEF Fits
    <3>2. DOMAIN strand = Objects \cup Sockets
      BY <3>1, Zenon
    <3>3. strand' = [x \in Objects \cup Sockets |-> IF x \in Routing THEN <<>> ELSE strand[x]]
      BY <1>4, <3>2
    <3>4. \A S : <<>> \in Seq(S)
      OBVIOUS
    <3>5. \A x \in Objects \cup Sockets : strand'[x] = <<>> \/ strand'[x] = strand[x]
      BY <3>3
    <3>6. \A x \in Objects \cup Sockets : strand'[x] \in Seq(PacksAt(x)')
      BY <3>1, <3>4, <3>5
    <3>7. strand' = [x \in Objects \cup Sockets |-> strand'[x]]
      BY <3>3
    <3>8. QED
      BY <3>6, <3>7, Fixed DEF PostedOK
  <2>5. BooksOK'
    <3>1. \A t \in Sockets : /\ straight[t] \subseteq Known \X Known /\ IsFiniteSet(straight[t])
                             /\ straight = [u \in Sockets |-> straight[u]]
      BY DEF LkInv, BooksOK
    <3>2. straight = [u \in Sockets |-> straight[u]] /\ straight' = straight
      BY <1>1 DEF LkInv, BooksOK
    <3>3. \A t \in Sockets : routes'[t] = {}
      BY <1>4
    <3>4. routes' = [t \in Sockets |-> routes'[t]]
      BY <1>4
    <3>5. \A t \in Sockets :
            /\ straight'[t] \subseteq Known' \X Known' /\ IsFiniteSet(straight'[t])
            /\ routes'[t] \subseteq [src : Known', des : Known', skt : SktIds] /\ IsFiniteSet(routes'[t])
      BY <2>1, <3>1, <3>2, <3>3, FS_EmptySet
    <3>6. QED
      BY <3>2, <3>4, <3>5, Fixed DEF BooksOK
  <2>6. SentOK'
    <3>1. <<>> \in Seq(Packs)
      OBVIOUS
    <3>2. net' \in [Sockets -> Seq(Packs)]
      BY <1>2, <1>4, <3>1
    <3>3. QED
      BY <1>1, <1>2, <2>1, <3>2, SentStays
  <2>7. QED
    BY <2>1, <2>3, <2>4, <2>5, <2>6 DEF LkInv
<1>5. QED
  BY <1>3, <1>4 DEF RouteExit

\* Whatever a socket handles.
LEMMA HandleNetMsgLk ==
  ASSUME LkAssumed, LkInv, NEW s \in Sockets, HandleNetMsg(s)
  PROVE  LkInv'
<1>1. PICK pk : pk = Head(net[s])
  OBVIOUS
<1>2. PICK rest : rest = [net EXCEPT ![s] = Tail(@)]
  OBVIOUS
<1>3. net \in [Sockets -> Seq(Packs)] /\ net[s] # <<>>
  BY DEF LkInv, SentOK, HandleNetMsg
<1>4. net[s] \in Seq(Packs)
  BY <1>3
<1>5. pk \in Packs /\ Tail(net[s]) \in Seq(Packs)
  BY <1>1, <1>3, <1>4
<1>6. rest \in [Sockets -> Seq(Packs)]
  BY <1>2, <1>3, <1>5
<1>7. NetStep(s, pk, rest)
  BY <1>5, <1>6 DEF NetStep, HandleNetMsg, actorVars, historyVars
<1>8. \/ s \in Routing /\ (RouteLink(s, pk, rest) \/ RouteExit(s, pk, rest) \/ RouteAlready(s, pk, rest))
      \/ FromNet(s, pk, rest) /\ UNCHANGED <<aborted, broken, conn, registered>>
  BY <1>1, <1>2 DEF HandleNetMsg
<1>9. QED
  BY <1>7, <1>8, RouteLinkLk, RouteExitLk, RouteAlreadyLk, FromNetLk

\* What a socket tells when its connection has failed.
LEMMA TellSent ==
  ASSUME LkAssumed, LkInv, Grows, Failed, NEW s \in Sockets
  PROVE  /\ IsFiniteSet(Tell(s))
         /\ \A d \in Tell(s) : d.at \in Objects \cup Sockets => d.pk \in PacksAt(d.at)'
<1>1. PICK via : via = SktAid(s)
  OBVIOUS
<1>2. PICK S : S = straight[s]
  OBVIOUS
<1>3. PICK R : R = routes[s]
  OBVIOUS
<1>4. /\ S \subseteq Known \X Known /\ IsFiniteSet(S)
      /\ R \subseteq [src : Known, des : Known, skt : SktIds] /\ IsFiniteSet(R)
  BY <1>2, <1>3 DEF LkInv, BooksOK
<1>5. via \in SktIds /\ via[1] = s
  BY <1>1 DEF SktAid, SktIds, LkInv, ConnsOK
<1> DEFINE f == [l \in S |-> [at |-> l[1][1], pk |-> Exit("neterr", l[2], l[1], l[1])]]
           g == [r \in R |-> [at |-> r.skt[1], pk |-> Fwd(Exit("neterr", r.des, r.src, NoSkt), r.skt, via)]]
<1>6. Tell(s) = {f[l] : l \in S} \cup {g[r] : r \in R}
  <2>1. Tell(s) = {[at |-> l[1][1], pk |-> Exit("neterr", l[2], l[1], l[1])] : l \in S}
                     \cup {[at |-> r.skt[1], pk |-> Fwd(Exit("neterr", r.des, r.src, NoSkt), r.skt, via)] : r \in R}
    BY <1>1, <1>2, <1>3 DEF Tell
  <2>2. QED
    BY <2>1
<1>7. \A x : Truth(x, "neterr") /\ Truth(x, "neterr")'
  BY DEF Truth, Grows
<1>8. ASSUME NEW l \in S PROVE f[l].pk \in PacksAt(f[l].at)'
  <2>1. f[l].at = l[1][1] /\ f[l].pk = Pack("exit", "neterr", l[2], l[1], l[1])
    BY DEF Exit
  <2> HIDE DEF f
  <2>2. l[1] \in Known' /\ l[2] \in Known'
    BY <1>4 DEF Grows
  <2>3. l[1] \in Objects \X Nat
    BY <1>4, AidPairs
  <2>4. "exit" \in {"exit", "aid"} /\ "neterr" \in Hows
    BY DEF Hows
  <2>5. PICK x : x = l[1][1]
    OBVIOUS
  <2>6. Pack("exit", "neterr", l[2], l[1], l[1]) \in PacksAt(x)'
    BY <1>7, <2>2, <2>3, <2>4, <2>5, NewsPack
  <2>7. QED
    BY <2>1, <2>5, <2>6
<1>9. ASSUME NEW r \in R PROVE g[r].pk \in PacksAt(g[r].at)'
  <2>1. g[r].at = r.skt[1] /\ g[r].pk = Fwd(Exit("neterr", r.des, r.src, NoSkt), r.skt, via)
    OBVIOUS
  <2> HIDE DEF g
  <2>2. r.src \in Known /\ r.des \in Known /\ r.skt \in SktIds /\ r.skt[1] \in Sockets
    BY <1>4 DEF SktIds
  <2>3. PICK p : p = Exit("neterr", r.des, r.src, NoSkt)
    OBVIOUS
  <2>4. p \in PackSet /\ p.tag = "exit" /\ p.how = "neterr" /\ p.aid = r.des /\ p.to = r.src
    <3>1. "exit" \in {"link", "exit", "aid"} /\ "neterr" \in Hows
      BY DEF Hows
    <3>2. r.src \in Aids /\ r.des \in Aids
      BY <2>2, AidPairs
    <3>3. p = Pack("exit", "neterr", r.des, r.src, NoSkt)
      BY <2>3 DEF Exit
    <3>4. QED
      BY <3>1, <3>2, <3>3, PackType
  <2>5. p \in Packs
    BY <1>7, <2>2, <2>4 DEF Packs
  <2>6. PICK q : q = Fwd(p, r.skt, via)
    OBVIOUS
  <2>7. q \in Packs /\ q.tag \in {"fwd_link", "fwd_exit"}
    BY <1>5, <2>2, <2>4, <2>5, <2>6, Rewrapped
  <2>8. q \in Packs'
    BY <2>7, PacksStay
  <2>9. PICK x : x = r.skt[1]
    OBVIOUS
  <2>10. x \notin Objects
    BY <2>2, <2>9, LkRoutes
  <2>11. q \in PacksAt(x)'
    BY <2>7, <2>8, <2>10 DEF PacksAt
  <2>12. QED
    BY <2>1, <2>3, <2>6, <2>9, <2>11
<1> HIDE DEF f, g
<1>10. IsFiniteSet({f[l] : l \in S}) /\ IsFiniteSet({g[r] : r \in R})
  BY <1>4, FiniteImage
<1>11. IsFiniteSet(Tell(s))
  BY <1>6, <1>10, FS_Union
<1>12. QED
  BY <1>6, <1>8, <1>9, <1>11

\* A connection has failed: those who are linked through it are told.
LEMMA OnNeterrLk ==
  ASSUME LkAssumed, LkInv, Grows, Failed, NEW s \in Sockets, OnNeterr(s)
  PROVE  PostedOK' /\ BooksOK' /\ cache' \in [Sockets -> Seq(Packs)]
<1>1. /\ strand' = Posted(strand, Tell(s))
      /\ straight' = [straight EXCEPT ![s] = {}] /\ routes' = [routes EXCEPT ![s] = {}]
      /\ cache' = [cache EXCEPT ![s] = <<>>]
  BY DEF OnNeterr
<1>2. PICK out : out = Tell(s)
  OBVIOUS
<1>3. /\ IsFiniteSet(out)
      /\ \A d \in out : d.at \in Objects \cup Sockets => d.pk \in PacksAt(d.at)'
  BY <1>2, TellSent
<1>4. Fits(Posted(strand, out))
  BY <1>3, StrandFits, PostMany
<1>5. PostedOK'
  BY <1>1, <1>2, <1>4, FitsOK
<1>6. BooksOK'
  <2>1. IsFiniteSet({})
    BY FS_EmptySet
  <2>2. {} \subseteq Known' \X Known' /\ {} \subseteq [src : Known', des : Known', skt : SktIds]
    OBVIOUS
  <2>3. QED
    BY <1>1, <2>1, <2>2, BooksOf
<1>7. cache' \in [Sockets -> Seq(Packs)]
  <2>1. <<>> \in Seq(Packs)
    OBVIOUS
  <2>2. cache \in [Sockets -> Seq(Packs)]
    BY DEF LkInv, SentOK
  <2>3. QED
    BY <1>1, <2>1, <2>2
<1>8. QED
  BY <1>5, <1>6, <1>7

\* A socket is registered when it has read msg_login.
LEMMA LoginLk ==
  ASSUME LkAssumed, LkInv, NEW s \in Sockets, Login(s)
  PROVE  LkInv'
<1>1. /\ registered' = [registered EXCEPT ![s] = TRUE]
      /\ UNCHANGED <<sid, live, link_list, monitor_list, inbox, strand, straight, routes, gen, conn, cache, net,
                     broken, aborted, breaks, links, exited, told>>
  BY DEF Login, actorVars, netVars, historyVars
<1>2. Grows /\ Failed' = Failed
  BY <1>1 DEF Grows, Failed, Known, Aids
<1>3. ConnsOK'
  <2>1. registered \in [Sockets -> BOOLEAN]
    BY DEF LkInv, ConnsOK
  <2>2. registered' \in [Sockets -> BOOLEAN] /\ \A t \in Sockets : registered[t] => registered'[t]
    BY <1>1, <2>1
  <2>3. QED
    BY <1>1, <1>2, <2>2, Fixed DEF LkInv, ConnsOK
<1>4. QED
  BY <1>1, <1>2, <1>3, PartsStay DEF LkInv

\* recv fails,
LEMMA RecvFailsLk ==
  ASSUME LkAssumed, LkInv, NEW s \in Sockets, RecvFails(s)
  PROVE  LkInv'
<1>1. /\ conn[s] /\ broken[Wire(s)] /\ OnNeterr(s)
      /\ conn' = [conn EXCEPT ![s] = FALSE] /\ net' = [net EXCEPT ![s] = <<>>]
      /\ registered' = IF s \in Acceptors THEN [registered EXCEPT ![s] = FALSE] ELSE registered
      /\ gen' = IF s \in Acceptors THEN [gen EXCEPT ![s] = gen[s] + 1] ELSE gen
      /\ UNCHANGED <<sid, live, link_list, monitor_list, inbox, broken, aborted, breaks, links, exited, told>>
  BY DEF RecvFails, actorVars, historyVars
<1>2. Failed
  <2>1. Wire(s) \in Connectors
    BY LkRoutes
  <2>2. QED
    BY <1>1, <2>1 DEF LkInv, ConnsOK
<1>3. Grows /\ Failed'
  BY <1>1, <1>2 DEF Grows, Failed, Known, Aids
<1>4. PostedOK' /\ BooksOK' /\ cache' \in [Sockets -> Seq(Packs)]
  BY <1>1, <1>2, <1>3, OnNeterrLk
<1>5. SentOK'
  <2>1. <<>> \in Seq(Packs)
    OBVIOUS
  <2>2. net \in [Sockets -> Seq(Packs)]
    BY DEF LkInv, SentOK
  <2>3. net' \in [Sockets -> Seq(Packs)]
    BY <1>1, <2>1, <2>2
  <2>4. QED
    BY <1>3, <1>4, <2>3, SentStays
<1>6. ConnsOK'
  <2>1. /\ gen \in [Sockets -> Nat \ {0}] /\ conn \in [Sockets -> BOOLEAN]
        /\ registered \in [Sockets -> BOOLEAN] /\ broken \in [Connectors -> BOOLEAN] /\ breaks \in Nat /\ aborted \in BOOLEAN
    BY DEF LkInv, ConnsOK
  <2>2. gen[s] + 1 \in Nat \ {0}
    BY <2>1
  <2>3. gen' \in [Sockets -> Nat \ {0}] /\ conn' \in [Sockets -> BOOLEAN] /\ registered' \in [Sockets -> BOOLEAN]
    BY <1>1, <2>1, <2>2
  <2>4. QED
    BY <1>1, <1>3, <2>1, <2>3, Fixed DEF ConnsOK
<1>7. QED
  BY <1>1, <1>3, <1>4, <1>5, <1>6, PartsStay DEF LkInv

\* nobody reconnects,
LEMMA GiveUpLk ==
  ASSUME LkAssumed, LkInv, NEW c \in Connectors, GiveUp(c)
  PROVE  LkInv'
<1>1. /\ ~conn[c] /\ OnNeterr(c) /\ c \in Sockets
      /\ UNCHANGED <<sid, live, link_list, monitor_list, inbox, gen, conn, registered, net, broken, aborted, breaks,
                     links, exited, told>>
  BY DEF GiveUp, actorVars, netVars, historyVars, Sockets
<1>2. Failed
  BY <1>1 DEF LkInv, ConnsOK
<1>3. Grows
  BY <1>1, <1>2 DEF Grows, Failed, Known, Aids
<1>4. PostedOK' /\ BooksOK' /\ cache' \in [Sockets -> Seq(Packs)]
  BY <1>1, <1>2, <1>3, OnNeterrLk
<1>5. SentOK'
  BY <1>1, <1>3, <1>4, SentStays DEF LkInv, SentOK
<1>6. QED
  BY <1>1, <1>3, <1>4, <1>5, PartsStay DEF LkInv

\* or somebody does.
LEMMA ReconnectLk ==
  ASSUME LkAssumed, LkInv, NEW c \in Connectors, Reconnect(c)
  PROVE  LkInv'
<1>1. /\ ~conn[c] /\ c \in Sockets
      /\ conn' = [conn EXCEPT ![c] = TRUE, ![Peer[c]] = TRUE]
      /\ broken' = [broken EXCEPT ![c] = FALSE]
      /\ net' = [net EXCEPT ![Peer[c]] = cache[c]] /\ cache' = [cache EXCEPT ![c] = <<>>]
      /\ UNCHANGED <<sid, live, link_list, monitor_list, inbox, strand, straight, routes, gen, registered, aborted, breaks,
                     links, exited, told>>
  BY DEF Reconnect, actorVars, historyVars, Sockets
<1>2. Failed
  BY <1>1 DEF LkInv, ConnsOK
<1>3. Grows /\ Failed'
  BY <1>1, <1>2 DEF Grows, Failed, Known, Aids
<1>4. SentOK'
  <2>1. <<>> \in Seq(Packs)
    OBVIOUS
  <2>2. net \in [Sockets -> Seq(Packs)] /\ cache \in [Sockets -> Seq(Packs)]
    BY DEF LkInv, SentOK
  <2>3. cache[c] \in Seq(Packs)
    BY <1>1, <2>2
  <2>4. net' \in [Sockets -> Seq(Packs)] /\ cache' \in [Sockets -> Seq(Packs)]
    BY <1>1, <2>1, <2>2, <2>3
  <2>5. QED
    BY <1>3, <2>4, SentStays
<1>5. ConnsOK'
  <2>1. /\ gen \in [Sockets -> Nat \ {0}] /\ conn \in [Sockets -> BOOLEAN]
        /\ registered \in [Sockets -> BOOLEAN] /\ broken \in [Connectors -> BOOLEAN] /\ breaks \in Nat /\ aborted \in BOOLEAN
    BY DEF LkInv, ConnsOK
  <2>2. conn' \in [Sockets -> BOOLEAN] /\ broken' \in [Connectors -> BOOLEAN]
    BY <1>1, <2>1
  <2>3. QED
    BY <1>1, <1>3, <2>1, <2>2, Fixed DEF ConnsOK
<1>6. QED
  BY <1>1, <1>3, <1>4, <1>5, PartsStay DEF LkInv

\* Every step keeps the invariant.
LEMMA LkStep ==
  ASSUME LkAssumed, LkInv, [Next]_vars
  PROVE  LkInv'
<1>1. CASE UNCHANGED vars
  <2>1. UNCHANGED <<sid, live, link_list, monitor_list, inbox, strand, straight, routes, gen, conn, registered, cache, net, broken,
                    aborted, breaks, links, exited, told>>
    BY <1>1 DEF vars, actorVars, socketVars, netVars, historyVars
  <2>2. Grows
    BY <2>1 DEF Grows, Failed, Known, Aids
  <2>3. QED
    BY <2>1, <2>2, PartsStay DEF LkInv
<1>2. ASSUME NEW o \in Objects, UserCode(o) PROVE LkInv'
  BY <1>2, LinkToLk, ExitActorLk, SpawnLk DEF UserCode
<1>3. ASSUME NEW o \in Objects, RecvExit(o) \/ HandleRecv(o) PROVE LkInv'
  BY <1>3, RecvExitLk, HandleRecvLk
<1>4. ASSUME NEW s \in Sockets, SocketRecv(s) \/ HandleNetMsg(s) \/ Login(s) \/ RecvFails(s) PROVE LkInv'
  BY <1>4, SocketRecvLk, HandleNetMsgLk, LoginLk, RecvFailsLk
<1>5. ASSUME NEW c \in Connectors, Break(c) \/ GiveUp(c) \/ Reconnect(c) PROVE LkInv'
  BY <1>5, BreakLk, GiveUpLk, ReconnectLk
<1>6. QED
  BY <1>1, <1>2, <1>3, <1>4, <1>5 DEF Next

\* On every run of actors that link, over any sockets and any router: what an actor is told
\* of another is true, unless a connection has failed, and no actor keeps a link or a
\* monitor of the actor that was in its object before (basic_actor.cpp, socket.cpp).
THEOREM LinksAreOwnAndTruthful ==
  Spec => [](OwnLinksOnly /\ ToldTheTruth)
<1>1. LkAssumed
  BY LinksAssumption DEF LkAssumed
<1>2. Init => LkInv
  BY <1>1, LkInit
<1>3. LkInv /\ [Next]_vars => LkInv'
  BY <1>1, LkStep
<1>4. LkInv => OwnLinksOnly /\ ToldTheTruth
  <2>1. LkInv => OwnLinksOnly
    BY DEF LkInv, ListsOK, Linked, OwnLinksOnly
  <2>2. LkInv => ToldTheTruth
    BY DEF LkInv, ToldOK, Truth, Failed, ToldTheTruth
  <2>3. QED
    BY <2>1, <2>2
<1>5. QED
  BY <1>2, <1>3, <1>4, PTL DEF Spec

-----------------------------------------------------------------------------
(* The records a router finds. *)

\* The ends of the record that an exit or a link is about, at the socket it comes to.
Ends(pk) == <<pk.to, pk.aid>>
IsExit(pk) == pk.tag = "exit"

\* Among the first n packs of q there is the link that makes the record p.
Asked(q, n, p) ==
  \E j \in 1..n : q[j].tag = "link" /\ q[j].how = "linked" /\ Ends(q[j]) = p

\* A router's socket has the records R; the packs in N come to it, and those in S after
\* them; who is in X has exited, and who keeps a link of Y will send an exit when it
\* exits. For each exit that comes there is a record, or one is made before it comes, or
\* whom it is for has exited; and none comes twice.
Way(N, S, R, X, Y) ==
  /\ \A i \in 1..Len(N) : IsExit(N[i]) =>
       Ends(N[i]) \in R \/ N[i].to \in X \/ Asked(N, i - 1, Ends(N[i]))
  /\ \A i \in 1..Len(S) : IsExit(S[i]) =>
       \/ Ends(S[i]) \in R \/ S[i].to \in X
       \/ Asked(N, Len(N), Ends(S[i])) \/ Asked(S, i - 1, Ends(S[i]))
  /\ \A p \in Y : p \in R \/ p[1] \in X \/ Asked(N, Len(N), p) \/ Asked(S, Len(S), p)
  /\ \A i, j \in 1..Len(N) : i < j /\ IsExit(N[i]) /\ IsExit(N[j]) => Ends(N[i]) # Ends(N[j])
  /\ \A i, j \in 1..Len(S) : i < j /\ IsExit(S[i]) /\ IsExit(S[j]) => Ends(S[i]) # Ends(S[j])
  /\ \A i \in 1..Len(N), j \in 1..Len(S) : IsExit(N[i]) /\ IsExit(S[j]) => Ends(N[i]) # Ends(S[j])

\* The records of a socket, and the links that are kept by the actors behind it.
Records(s) == {<<r.src, r.des>> : r \in routes[s]}
Kept(s) ==
  {p \in Aids \X Aids :
     /\ \E l \in link_list[p[2][1]] : l.aid = p[1] /\ l.skt = <<s, 1>>
     /\ p[2] = Aid(p[2][1])}

WaysOK == \A s \in Routing : Way(net[s], strand[Peer[s]], Records(s), exited, Kept(Peer[s]))

\* The link that has passed a router's socket has its record there.
Recorded(pk, s) ==
  pk.tag = "link" => <<pk.aid, pk.to>> \in Records(s) \/ pk.aid \in exited \/ pk.to \in exited

\* An exit tells of one who has exited, and of a link.
Truthful(pk) == pk.tag \in {"exit", "fwd_exit"} => pk.aid \in exited /\ Linked(pk.aid, pk.to)

\* What may be posted to an actor or a socket, and what may come to a socket.
PlacedAt(x) ==
  {pk \in PackSet :
     /\ Truthful(pk)
     /\ x \in Sockets => pk.skt \in Sockets \X {1}
     /\ x \in Objects => /\ pk.skt = NoSkt \/ pk.skt \in Sockets \X {1}
                         /\ \A s \in Routing : pk.skt = <<Peer[s], 1>> => Recorded(pk, s)
     /\ x \in Routing => pk.tag # "link"
     /\ pk.tag \in {"fwd_link", "fwd_exit"} => x \in Routing /\ pk.via \in Routing \X {1}}
PassingAt(s) ==
  {pk \in PackSet :
     /\ Truthful(pk) /\ pk.tag \in {"link", "exit", "aid"}
     /\ \A t \in Routing : s = Peer[t] => Recorded(pk, t)}

PlacedOK == \A x \in Objects \cup Sockets : strand[x] \in Seq(PlacedAt(x))
PassingOK == \A s \in Sockets : cache[s] = <<>> /\ net[s] \in Seq(PassingAt(s))
RecordsOK == \A s \in Sockets : \A r \in routes[s] : s \in Routing /\ r.skt \in Routing \X {1}
KeptOK ==
  /\ \A o \in Objects : \A l \in link_list[o] :
       /\ l.skt = NoSkt \/ l.skt \in Sockets \X {1}
       /\ \A k \in link_list[o] : l.aid = k.aid => l = k
  /\ \A a \in exited : a \in Aids /\ a[2] < sid[a[1]]

WayInv == WaysOK /\ PlacedOK /\ PassingOK /\ RecordsOK /\ KeptOK
RouterInv == RouterKnowsLinks /\ (~Failed => WayInv)

\* How a link is found when the sequence grows at its end or loses its first pack.
LEMMA AskedStays ==
  ASSUME NEW Q, NEW q \in Seq(Q), NEW p
  PROVE  /\ \A n, m \in 0..Len(q) : n <= m /\ Asked(q, n, p) => Asked(q, m, p)
         /\ \A u : \A n \in 0..Len(q) : Asked(q, n, p) => Asked(Append(q, u), n, p)
         /\ \A n \in 1..Len(q) : Asked(q, n, p) => Asked(q, 1, p) \/ Asked(Tail(q), n - 1, p)
<1>1. \A n, m \in 0..Len(q) : n <= m /\ Asked(q, n, p) => Asked(q, m, p)
  BY DEF Asked
<1>2. \A u : \A n \in 0..Len(q) : Asked(q, n, p) => Asked(Append(q, u), n, p)
  <2>1. \A u : \A j \in 1..Len(q) : Append(q, u)[j] = q[j]
    OBVIOUS
  <2>2. QED
    BY <2>1 DEF Asked
<1>3. ASSUME NEW n \in 1..Len(q), Asked(q, n, p)
      PROVE  Asked(q, 1, p) \/ Asked(Tail(q), n - 1, p)
  <2>1. PICK j \in 1..n : q[j].tag = "link" /\ q[j].how = "linked" /\ Ends(q[j]) = p
    BY <1>3 DEF Asked
  <2>2. CASE j = 1
    BY <2>1, <2>2 DEF Asked
  <2>3. CASE j # 1
    <3>1. j - 1 \in 1..n - 1 /\ Tail(q)[j - 1] = q[j]
      BY <2>3
    <3>2. QED
      BY <2>1, <3>1 DEF Asked
  <2>4. QED
    BY <2>2, <2>3
<1>4. QED
  BY <1>1, <1>2, <1>3

\* More records are made, more actors exit, and a link more is kept only when there is its
\* record; a record may go when whom its exit is for has exited.
LEMMA WayGrows ==
  ASSUME NEW N, NEW S, NEW R, NEW X, NEW Y, Way(N, S, R, X, Y),
         NEW R2, NEW X2, NEW Y2, X \subseteq X2,
         \A p \in R : p \in R2 \/ p[1] \in X2,
         \A p \in Y2 : p \in Y \/ p \in R2 \/ p[1] \in X2
  PROVE  Way(N, S, R2, X2, Y2)
<1>1. \A pk : Ends(pk)[1] = pk.to
  BY DEF Ends
<1>2. \A pk : Ends(pk) \in R \/ pk.to \in X => Ends(pk) \in R2 \/ pk.to \in X2
  BY <1>1
<1>3. \A p : p \in R \/ p[1] \in X => p \in R2 \/ p[1] \in X2
  OBVIOUS
<1>4. \A i \in 1..Len(N) : IsExit(N[i]) =>
        Ends(N[i]) \in R2 \/ N[i].to \in X2 \/ Asked(N, i - 1, Ends(N[i]))
  BY <1>2 DEF Way
<1>5. \A i \in 1..Len(S) : IsExit(S[i]) =>
        \/ Ends(S[i]) \in R2 \/ S[i].to \in X2
        \/ Asked(N, Len(N), Ends(S[i])) \/ Asked(S, i - 1, Ends(S[i]))
  BY <1>2 DEF Way
<1>6. \A p \in Y2 : p \in R2 \/ p[1] \in X2 \/ Asked(N, Len(N), p) \/ Asked(S, Len(S), p)
  BY <1>3 DEF Way
<1>7. QED
  BY <1>4, <1>5, <1>6 DEF Way

\* The socket at the other end sends what was posted first.
LEMMA WayPass ==
  ASSUME NEW Q, NEW N \in Seq(Q), NEW S \in Seq(Q), NEW R, NEW X, NEW Y, Way(N, S, R, X, Y),
         S # <<>>, NEW u, u.tag = Head(S).tag, u.how = Head(S).how, u.to = Head(S).to, u.aid = Head(S).aid
  PROVE  Way(Append(N, u), Tail(S), R, X, Y)
<1> DEFINE N2 == Append(N, u)
           S2 == Tail(S)
<1>1. /\ Len(S) \in Nat \ {0} /\ Len(S2) = Len(S) - 1 /\ \A i \in 1..Len(S2) : S2[i] = S[i + 1]
      /\ Len(N) \in Nat /\ Len(N2) = Len(N) + 1 /\ N2[Len(N) + 1] = u
      /\ \A i \in 1..Len(N) : N2[i] = N[i]
      /\ Head(S) = S[1]
  OBVIOUS
<1>2. Ends(u) = Ends(S[1]) /\ (IsExit(u) <=> IsExit(S[1])) /\ u.to = S[1].to
  BY <1>1 DEF Ends, IsExit
<1>3. \A p : \A n \in 0..Len(N) : Asked(N, n, p) => Asked(N2, n, p)
  BY AskedStays
<1>4. \A p : Asked(N2, Len(N), p) => Asked(N2, Len(N2), p)
  BY <1>1 DEF Asked
<1>5. \A p : Asked(S, 1, p) => Asked(N2, Len(N2), p)
  <2>1. ASSUME NEW p, Asked(S, 1, p) PROVE Asked(N2, Len(N2), p)
    <3>1. S[1].tag = "link" /\ S[1].how = "linked" /\ Ends(S[1]) = p
      BY <2>1 DEF Asked
    <3>2. u.tag = "link" /\ u.how = "linked" /\ Ends(u) = p
      BY <1>1, <1>2, <3>1
    <3>3. QED
      BY <1>1, <3>2 DEF Asked
  <2>2. QED
    BY <2>1
<1>6. \A p : \A n \in 1..Len(S) : Asked(S, n, p) => Asked(N2, Len(N2), p) \/ Asked(S2, n - 1, p)
  BY <1>5, AskedStays
<1>7. \A p : \A i \in {0} : ~Asked(S, i, p)
  BY DEF Asked
<1> HIDE DEF N2, S2
<1>8. ASSUME NEW i \in 1..Len(N2), IsExit(N2[i])
      PROVE  Ends(N2[i]) \in R \/ N2[i].to \in X \/ Asked(N2, i - 1, Ends(N2[i]))
  <2>1. CASE i \in 1..Len(N)
    <3>1. N2[i] = N[i] /\ i - 1 \in 0..Len(N)
      BY <1>1, <2>1
    <3>2. Ends(N[i]) \in R \/ N[i].to \in X \/ Asked(N, i - 1, Ends(N[i]))
      BY <1>8, <2>1, <3>1 DEF Way
    <3>3. QED
      BY <1>3, <3>1, <3>2
  <2>2. CASE i = Len(N) + 1
    <3>1. N2[i] = u /\ IsExit(S[1]) /\ 1 \in 1..Len(S) /\ i - 1 = Len(N)
      BY <1>1, <1>2, <1>8, <2>2
    <3>2. Ends(S[1]) \in R \/ S[1].to \in X \/ Asked(N, Len(N), Ends(S[1])) \/ Asked(S, 1 - 1, Ends(S[1]))
      BY <3>1 DEF Way
    <3>3. ~Asked(S, 1 - 1, Ends(S[1]))
      BY <1>7
    <3>4. Len(N) \in 0..Len(N)
      BY <1>1
    <3>5. QED
      BY <1>2, <1>3, <3>1, <3>2, <3>3, <3>4
  <2>3. QED
    BY <1>1, <2>1, <2>2
<1>9. ASSUME NEW i \in 1..Len(S2), IsExit(S2[i])
      PROVE  \/ Ends(S2[i]) \in R \/ S2[i].to \in X
             \/ Asked(N2, Len(N2), Ends(S2[i])) \/ Asked(S2, i - 1, Ends(S2[i]))
  <2>1. S2[i] = S[i + 1] /\ i + 1 \in 1..Len(S) /\ (i + 1) - 1 = i /\ i \in 1..Len(S) /\ Len(N) \in 0..Len(N)
    BY <1>1
  <2>2. \/ Ends(S[i + 1]) \in R \/ S[i + 1].to \in X
        \/ Asked(N, Len(N), Ends(S[i + 1])) \/ Asked(S, i, Ends(S[i + 1]))
    BY <1>9, <2>1 DEF Way
  <2>3. QED
    BY <1>3, <1>4, <1>6, <2>1, <2>2
<1>10. \A p \in Y : p \in R \/ p[1] \in X \/ Asked(N2, Len(N2), p) \/ Asked(S2, Len(S2), p)
  <2>1. Len(S) \in 1..Len(S) /\ Len(N) \in 0..Len(N) /\ Len(S2) = Len(S) - 1
    BY <1>1
  <2>2. QED
    BY <1>3, <1>4, <1>6, <2>1 DEF Way
<1>11. ASSUME NEW i \in 1..Len(N2), NEW j \in 1..Len(N2), i < j, IsExit(N2[i]), IsExit(N2[j])
       PROVE  Ends(N2[i]) # Ends(N2[j])
  <2>1. i \in 1..Len(N) /\ N2[i] = N[i]
    BY <1>1, <1>11
  <2>2. CASE j \in 1..Len(N)
    BY <1>1, <1>11, <2>1, <2>2 DEF Way
  <2>3. CASE j = Len(N) + 1
    <3>1. N2[j] = u /\ IsExit(S[1]) /\ 1 \in 1..Len(S)
      BY <1>1, <1>2, <1>11, <2>3
    <3>2. Ends(N[i]) # Ends(S[1])
      BY <1>11, <2>1, <3>1 DEF Way
    <3>3. QED
      BY <1>2, <2>1, <3>1, <3>2
  <2>4. QED
    BY <1>1, <2>2, <2>3
<1>12. ASSUME NEW i \in 1..Len(S2), NEW j \in 1..Len(S2), i < j, IsExit(S2[i]), IsExit(S2[j])
       PROVE  Ends(S2[i]) # Ends(S2[j])
  <2>1. S2[i] = S[i + 1] /\ S2[j] = S[j + 1] /\ i + 1 \in 1..Len(S) /\ j + 1 \in 1..Len(S) /\ i + 1 < j + 1
    BY <1>1, <1>12
  <2>2. QED
    BY <1>12, <2>1 DEF Way
<1>13. ASSUME NEW i \in 1..Len(N2), NEW j \in 1..Len(S2), IsExit(N2[i]), IsExit(S2[j])
       PROVE  Ends(N2[i]) # Ends(S2[j])
  <2>1. S2[j] = S[j + 1] /\ j + 1 \in 1..Len(S) /\ 1 \in 1..Len(S) /\ 1 < j + 1
    BY <1>1
  <2>2. CASE i \in 1..Len(N)
    BY <1>1, <1>13, <2>1, <2>2 DEF Way
  <2>3. CASE i = Len(N) + 1
    <3>1. N2[i] = u /\ IsExit(S[1])
      BY <1>1, <1>2, <1>13, <2>3
    <3>2. Ends(S[1]) # Ends(S[j + 1])
      BY <1>13, <2>1, <3>1 DEF Way
    <3>3. QED
      BY <1>2, <2>1, <3>1, <3>2
  <2>4. QED
    BY <1>1, <2>2, <2>3
<1>14. Way(N2, S2, R, X, Y)
  BY <1>8, <1>9, <1>10, <1>11, <1>12, <1>13 DEF Way
<1>15. QED
  BY <1>14 DEF N2, S2

\* A link or an answer is posted to go there; and a link made with it is kept.
LEMMA WayPost ==
  ASSUME NEW N, NEW Q, NEW S \in Seq(Q), NEW R, NEW X, NEW Y, Way(N, S, R, X, Y),
         NEW u, ~IsExit(u), NEW Y2,
         \A p \in Y2 : p \in Y \/ (u.tag = "link" /\ u.how = "linked" /\ Ends(u) = p)
  PROVE  Way(N, Append(S, u), R, X, Y2)
<1> DEFINE S2 == Append(S, u)
<1>1. /\ Len(S) \in Nat /\ Len(S2) = Len(S) + 1 /\ S2[Len(S) + 1] = u
      /\ \A i \in 1..Len(S) : S2[i] = S[i]
  OBVIOUS
<1>2. \A p : \A n \in 0..Len(S) : Asked(S, n, p) => Asked(S2, n, p)
  BY AskedStays
<1>3. \A p : Asked(S, Len(S), p) => Asked(S2, Len(S2), p)
  BY <1>1 DEF Asked
<1>4. \A p : u.tag = "link" /\ u.how = "linked" /\ Ends(u) = p => Asked(S2, Len(S2), p)
  BY <1>1 DEF Asked
<1> HIDE DEF S2
<1>5. \A i \in 1..Len(S2) : IsExit(S2[i]) => i \in 1..Len(S) /\ S2[i] = S[i]
  BY <1>1
<1>6. \A i \in 1..Len(S2) : IsExit(S2[i]) =>
        \/ Ends(S2[i]) \in R \/ S2[i].to \in X
        \/ Asked(N, Len(N), Ends(S2[i])) \/ Asked(S2, i - 1, Ends(S2[i]))
  <2>1. ASSUME NEW i \in 1..Len(S2), IsExit(S2[i])
        PROVE  \/ Ends(S2[i]) \in R \/ S2[i].to \in X
               \/ Asked(N, Len(N), Ends(S2[i])) \/ Asked(S2, i - 1, Ends(S2[i]))
    <3>1. i \in 1..Len(S) /\ S2[i] = S[i] /\ i - 1 \in 0..Len(S)
      BY <1>1, <1>5, <2>1
    <3>2. QED
      BY <1>2, <2>1, <3>1 DEF Way
  <2>2. QED
    BY <2>1
<1>7. \A p \in Y2 : p \in R \/ p[1] \in X \/ Asked(N, Len(N), p) \/ Asked(S2, Len(S2), p)
  BY <1>3, <1>4 DEF Way
<1>8. \A i, j \in 1..Len(S2) : i < j /\ IsExit(S2[i]) /\ IsExit(S2[j]) => Ends(S2[i]) # Ends(S2[j])
  BY <1>5 DEF Way
<1>9. \A i \in 1..Len(N), j \in 1..Len(S2) : IsExit(N[i]) /\ IsExit(S2[j]) => Ends(N[i]) # Ends(S2[j])
  BY <1>5 DEF Way
<1>10. Way(N, S2, R, X, Y2)
  BY <1>6, <1>7, <1>8, <1>9 DEF Way
<1>11. QED
  BY <1>10 DEF S2

\* An actor exits, and its exits go along the links it kept.
LEMMA WayExits ==
  ASSUME NEW N, NEW Q, NEW S \in Seq(Q), NEW R, NEW X, NEW Y, Way(N, S, R, X, Y),
         NEW q \in Seq(Q),
         \A i \in 1..Len(q) : IsExit(q[i]) /\ Ends(q[i]) \in Y /\ Ends(q[i])[1] = q[i].to,
         \A i, j \in 1..Len(q) : i < j => Ends(q[i]) # Ends(q[j]),
         \A i \in 1..Len(N), j \in 1..Len(q) : IsExit(N[i]) => Ends(N[i]) # Ends(q[j]),
         \A i \in 1..Len(S), j \in 1..Len(q) : IsExit(S[i]) => Ends(S[i]) # Ends(q[j])
  PROVE  Way(N, S \o q, R, X, Y)
<1> DEFINE S2 == S \o q
<1>1. /\ Len(S) \in Nat /\ Len(q) \in Nat /\ Len(S2) = Len(S) + Len(q)
      /\ \A i \in 1..Len(S) : S2[i] = S[i]
      /\ \A i \in 1..Len(S2) : i > Len(S) => S2[i] = q[i - Len(S)] /\ i - Len(S) \in 1..Len(q)
  OBVIOUS
<1> HIDE DEF S2
<1>2. \A p : \A n \in 0..Len(S) : Asked(S, n, p) => Asked(S2, n, p)
  BY <1>1 DEF Asked
<1>3. \A p : \A n \in Len(S)..Len(S2) : Asked(S, Len(S), p) => Asked(S2, n, p)
  BY <1>1 DEF Asked
<1>4. ASSUME NEW i \in 1..Len(S2), IsExit(S2[i])
      PROVE  \/ Ends(S2[i]) \in R \/ S2[i].to \in X
             \/ Asked(N, Len(N), Ends(S2[i])) \/ Asked(S2, i - 1, Ends(S2[i]))
  <2>1. CASE i \in 1..Len(S)
    <3>1. S2[i] = S[i] /\ i - 1 \in 0..Len(S)
      BY <1>1, <2>1
    <3>2. QED
      BY <1>2, <1>4, <2>1, <3>1 DEF Way
  <2>2. CASE i > Len(S)
    <3>1. S2[i] = q[i - Len(S)] /\ i - Len(S) \in 1..Len(q) /\ i - 1 \in Len(S)..Len(S2)
      BY <1>1, <2>2
    <3>2. Ends(S2[i]) \in Y /\ Ends(S2[i])[1] = S2[i].to
      BY <3>1
    <3>3. \/ Ends(S2[i]) \in R \/ Ends(S2[i])[1] \in X
          \/ Asked(N, Len(N), Ends(S2[i])) \/ Asked(S, Len(S), Ends(S2[i]))
      BY <3>2 DEF Way
    <3>4. QED
      BY <1>3, <3>1, <3>2, <3>3
  <2>3. QED
    BY <1>1, <2>1, <2>2
<1>5. \A p \in Y : p \in R \/ p[1] \in X \/ Asked(N, Len(N), p) \/ Asked(S2, Len(S2), p)
  <2>1. Len(S2) \in Len(S)..Len(S2)
    BY <1>1
  <2>2. QED
    BY <1>3, <2>1 DEF Way
<1>6. ASSUME NEW i \in 1..Len(S2), NEW j \in 1..Len(S2), i < j, IsExit(S2[i]), IsExit(S2[j])
      PROVE  Ends(S2[i]) # Ends(S2[j])
  <2>1. CASE j \in 1..Len(S)
    <3>1. i \in 1..Len(S) /\ S2[i] = S[i] /\ S2[j] = S[j]
      BY <1>1, <1>6, <2>1
    <3>2. QED
      BY <1>6, <2>1, <3>1 DEF Way
  <2>2. CASE j > Len(S) /\ i \in 1..Len(S)
    <3>1. S2[i] = S[i] /\ S2[j] = q[j - Len(S)] /\ j - Len(S) \in 1..Len(q)
      BY <1>1, <2>2
    <3>2. QED
      BY <1>6, <2>2, <3>1
  <2>3. CASE i > Len(S)
    <3>1. /\ S2[i] = q[i - Len(S)] /\ i - Len(S) \in 1..Len(q)
          /\ S2[j] = q[j - Len(S)] /\ j - Len(S) \in 1..Len(q)
          /\ i - Len(S) < j - Len(S)
      BY <1>1, <1>6, <2>3
    <3>2. QED
      BY <3>1
  <2>4. QED
    BY <1>1, <2>1, <2>2, <2>3
<1>7. ASSUME NEW i \in 1..Len(N), NEW j \in 1..Len(S2), IsExit(N[i]), IsExit(S2[j])
      PROVE  Ends(N[i]) # Ends(S2[j])
  <2>1. CASE j \in 1..Len(S)
    BY <1>1, <1>7, <2>1 DEF Way
  <2>2. CASE j > Len(S)
    BY <1>1, <1>7, <2>2
  <2>3. QED
    BY <1>1, <2>1, <2>2
<1>8. \A i \in 1..Len(N) : IsExit(N[i]) =>
        Ends(N[i]) \in R \/ N[i].to \in X \/ Asked(N, i - 1, Ends(N[i]))
  BY DEF Way
<1>9. \A i, j \in 1..Len(N) : i < j /\ IsExit(N[i]) /\ IsExit(N[j]) => Ends(N[i]) # Ends(N[j])
  BY DEF Way
<1>10. Way(N, S2, R, X, Y)
  BY <1>4, <1>5, <1>6, <1>7, <1>8, <1>9 DEF Way
<1>11. QED
  BY <1>10 DEF S2

\* The router's socket reads what came first: a link, whose record it makes, or an exit,
\* whose record it removes. Whoever sent the exit keeps no link any more.
LEMMA WayRead ==
  ASSUME NEW Q, NEW N \in Seq(Q), NEW S, NEW R, NEW X, NEW Y, Way(N, S, R, X, Y), N # <<>>,
         NEW R2, R \subseteq R2 \cup {Ends(N[1])},
         IsExit(N[1]) => Ends(N[1]) \notin Y,
         ~IsExit(N[1]) => R \subseteq R2,
         N[1].tag = "link" /\ N[1].how = "linked" => Ends(N[1]) \in R2
  PROVE  Way(Tail(N), S, R2, X, Y)
<1> DEFINE N2 == Tail(N)
           e == Ends(N[1])
<1>1. /\ Len(N) \in Nat \ {0} /\ Len(N2) = Len(N) - 1 /\ \A i \in 1..Len(N2) : N2[i] = N[i + 1]
      /\ 1 \in 1..Len(N) /\ Len(N) \in 1..Len(N)
  OBVIOUS
<1>2. \A p : Asked(N, 1, p) => N[1].tag = "link" /\ N[1].how = "linked" /\ e = p
  BY DEF Asked
<1>3. \A p : Asked(N, 1, p) => p \in R2
  BY <1>2
<1>4. \A p : \A n \in 1..Len(N) : Asked(N, n, p) => p \in R2 \/ Asked(N2, n - 1, p)
  BY <1>3, AskedStays
<1>5. \A p \in R : p \in R2 \/ (IsExit(N[1]) /\ p = e)
  OBVIOUS
<1>6. IsExit(N[1]) =>
        /\ \A i \in 1..Len(N2) : IsExit(N2[i]) => Ends(N2[i]) # e
        /\ \A i \in 1..Len(S) : IsExit(S[i]) => Ends(S[i]) # e
        /\ e \notin Y
  <2>1. ASSUME IsExit(N[1]), NEW i \in 1..Len(N2), IsExit(N2[i]) PROVE Ends(N2[i]) # e
    <3>1. N2[i] = N[i + 1] /\ i + 1 \in 1..Len(N) /\ 1 < i + 1
      BY <1>1
    <3>2. QED
      BY <1>1, <2>1, <3>1 DEF Way
  <2>2. ASSUME IsExit(N[1]), NEW i \in 1..Len(S), IsExit(S[i]) PROVE Ends(S[i]) # e
    BY <1>1, <2>2 DEF Way
  <2>3. QED
    BY <2>1, <2>2
<1> HIDE DEF N2, e
<1>7. ASSUME NEW i \in 1..Len(N2), IsExit(N2[i])
      PROVE  Ends(N2[i]) \in R2 \/ N2[i].to \in X \/ Asked(N2, i - 1, Ends(N2[i]))
  <2>1. N2[i] = N[i + 1] /\ i + 1 \in 1..Len(N) /\ (i + 1) - 1 = i /\ i \in 1..Len(N)
    BY <1>1
  <2>2. Ends(N2[i]) \in R \/ N2[i].to \in X \/ Asked(N, i, Ends(N2[i]))
    BY <1>7, <2>1 DEF Way
  <2>3. Ends(N2[i]) \in R => Ends(N2[i]) \in R2
    BY <1>5, <1>6, <1>7
  <2>4. QED
    BY <1>4, <2>1, <2>2, <2>3
<1>8. ASSUME NEW i \in 1..Len(S), IsExit(S[i])
      PROVE  \/ Ends(S[i]) \in R2 \/ S[i].to \in X
             \/ Asked(N2, Len(N2), Ends(S[i])) \/ Asked(S, i - 1, Ends(S[i]))
  <2>1. \/ Ends(S[i]) \in R \/ S[i].to \in X
        \/ Asked(N, Len(N), Ends(S[i])) \/ Asked(S, i - 1, Ends(S[i]))
    BY <1>8 DEF Way
  <2>2. Ends(S[i]) \in R => Ends(S[i]) \in R2
    BY <1>5, <1>6, <1>8
  <2>3. QED
    BY <1>1, <1>4, <2>1, <2>2
<1>9. ASSUME NEW p \in Y
      PROVE  p \in R2 \/ p[1] \in X \/ Asked(N2, Len(N2), p) \/ Asked(S, Len(S), p)
  <2>1. p \in R \/ p[1] \in X \/ Asked(N, Len(N), p) \/ Asked(S, Len(S), p)
    BY DEF Way
  <2>2. p \in R => p \in R2
    BY <1>5, <1>6
  <2>3. QED
    BY <1>1, <1>4, <2>1, <2>2
<1>10. ASSUME NEW i \in 1..Len(N2), NEW j \in 1..Len(N2), i < j, IsExit(N2[i]), IsExit(N2[j])
       PROVE  Ends(N2[i]) # Ends(N2[j])
  <2>1. /\ N2[i] = N[i + 1] /\ N2[j] = N[j + 1]
        /\ i + 1 \in 1..Len(N) /\ j + 1 \in 1..Len(N) /\ i + 1 < j + 1
    BY <1>1, <1>10
  <2>2. QED
    BY <1>10, <2>1 DEF Way
<1>11. ASSUME NEW i \in 1..Len(N2), NEW j \in 1..Len(S), IsExit(N2[i]), IsExit(S[j])
       PROVE  Ends(N2[i]) # Ends(S[j])
  <2>1. N2[i] = N[i + 1] /\ i + 1 \in 1..Len(N)
    BY <1>1
  <2>2. QED
    BY <1>11, <2>1 DEF Way
<1>12. \A i, j \in 1..Len(S) : i < j /\ IsExit(S[i]) /\ IsExit(S[j]) => Ends(S[i]) # Ends(S[j])
  BY DEF Way
<1>13. Way(N2, S, R2, X, Y)
  BY <1>7, <1>8, <1>9, <1>10, <1>11, <1>12 DEF Way
<1>14. QED
  BY <1>13 DEF N2

\* No step takes a record away but when one of its ends has exited.
Lasts ==
  /\ Grows
  /\ \A s \in Routing : \A p \in Records(s) : p \in Records(s)' \/ p[1] \in exited \/ p[2] \in exited

\* So what was right in its place is still so.
LEMMA PlacesStay ==
  ASSUME Lasts
  PROVE  /\ \A pk : Truthful(pk) => Truthful(pk)'
         /\ \A pk : \A s \in Routing : Recorded(pk, s) => Recorded(pk, s)'
         /\ \A x : \A q \in Seq(PlacedAt(x)) : q \in Seq(PlacedAt(x)')
         /\ \A s : \A q \in Seq(PassingAt(s)) : q \in Seq(PassingAt(s)')
<1>1. exited \subseteq exited' /\ links \subseteq links'
  BY DEF Lasts, Grows
<1>2. \A pk : Truthful(pk) => Truthful(pk)'
  BY <1>1 DEF Truthful, Linked
<1>3. ASSUME NEW pk, NEW s \in Routing, Recorded(pk, s) PROVE Recorded(pk, s)'
  <2>1. PICK p : p = <<pk.aid, pk.to>>
    OBVIOUS
  <2>2. p[1] = pk.aid /\ p[2] = pk.to
    BY <2>1
  <2>3. pk.tag = "link" => p \in Records(s) \/ p[1] \in exited \/ p[2] \in exited
    BY <1>3, <2>1, <2>2 DEF Recorded
  <2>4. pk.tag = "link" => p \in Records(s)' \/ p[1] \in exited' \/ p[2] \in exited'
    BY <1>1, <2>3 DEF Lasts
  <2>5. QED
    BY <2>1, <2>2, <2>4 DEF Recorded
<1>4. \A x : PlacedAt(x) \subseteq PlacedAt(x)'
  BY <1>2, <1>3, Fixed DEF PlacedAt
<1>5. \A s : PassingAt(s) \subseteq PassingAt(s)'
  BY <1>2, <1>3, Fixed DEF PassingAt
<1>6. \A S, T : S \subseteq T => \A q \in Seq(S) : q \in Seq(T)
  OBVIOUS
<1>7. QED
  BY <1>2, <1>3, <1>4, <1>5, <1>6

\* The strands that what may be posted is posted on, after a step.
Sorted(str) ==
  /\ str = [x \in Objects \cup Sockets |-> str[x]]
  /\ \A x \in Objects \cup Sockets : str[x] \in Seq(PlacedAt(x)')

LEMMA SortedNow ==
  ASSUME LkInv, WayInv, Lasts
  PROVE  Sorted(strand)
<1>1. strand = [x \in Objects \cup Sockets |-> strand[x]]
  BY DEF LkInv, PostedOK
<1>2. \A x \in Objects \cup Sockets : strand[x] \in Seq(PlacedAt(x))
  BY DEF WayInv, PlacedOK
<1>3. QED
  BY <1>1, <1>2, PlacesStay DEF Sorted

LEMMA SortedOne ==
  ASSUME NEW str, Sorted(str), NEW y, NEW pk, y \in Objects \cup Sockets => pk \in PlacedAt(y)'
  PROVE  Sorted(PostTo(str, y, pk))
<1> DEFINE D == Objects \cup Sockets
           P == [x \in D |-> PlacedAt(x)']
<1>1. str = [x \in D |-> str[x]] /\ \A x \in D : str[x] \in Seq(P[x])
  BY DEF Sorted
<1>2. y \in D => pk \in P[y]
  OBVIOUS
<1>3. \A x \in D : P[x] = PlacedAt(x)'
  OBVIOUS
<1> HIDE DEF P, D
<1> DEFINE q == PostTo(str, y, pk)
<1>4. q = [x \in D |-> q[x]] /\ \A x \in D : q[x] \in Seq(P[x])
  BY <1>1, <1>2, PostedTo
<1> HIDE DEF q
<1>5. Sorted(q)
  BY <1>3, <1>4 DEF Sorted, D
<1>6. QED
  BY <1>5 DEF q

LEMMA SortedMany ==
  ASSUME NEW str, Sorted(str), NEW out, IsFiniteSet(out),
         \A d \in out : d.at \in Objects \cup Sockets => d.pk \in PlacedAt(d.at)'
  PROVE  Sorted(Posted(str, out))
<1> DEFINE D == Objects \cup Sockets
           P == [x \in D |-> PlacedAt(x)']
<1>1. str = [x \in D |-> str[x]] /\ \A x \in D : str[x] \in Seq(P[x])
  BY DEF Sorted
<1>2. \A d \in out : d.at \in D => d.pk \in P[d.at]
  OBVIOUS
<1>3. \A x \in D : P[x] = PlacedAt(x)'
  OBVIOUS
<1> HIDE DEF P, D
<1> DEFINE q == Posted(str, out)
<1>4. q = [x \in D |-> q[x]] /\ \A x \in D : q[x] \in Seq(P[x])
  BY <1>1, <1>2, PostedAll
<1> HIDE DEF q
<1>5. Sorted(q)
  BY <1>3, <1>4 DEF Sorted, D
<1>6. QED
  BY <1>5 DEF q

LEMMA SortedRest ==
  ASSUME LkInv, WayInv, Lasts, NEW y \in Objects \cup Sockets, strand[y] # <<>>
  PROVE  /\ Sorted([strand EXCEPT ![y] = Tail(@)])
         /\ Head(strand[y]) \in PlacedAt(y)
         /\ [strand EXCEPT ![y] = Tail(@)][y] = Tail(strand[y])
         /\ \A x \in Objects \cup Sockets : x # y => [strand EXCEPT ![y] = Tail(@)][x] = strand[x]
<1>1. strand[y] \in Seq(PlacedAt(y))
  BY DEF WayInv, PlacedOK
<1>2. Head(strand[y]) \in PlacedAt(y)
  BY <1>1
<1>3. Sorted(strand)
  BY SortedNow
<1>4. strand[y] \in Seq(PlacedAt(y)')
  BY <1>3 DEF Sorted
<1>5. Tail(strand[y]) \in Seq(PlacedAt(y)')
  BY <1>4
<1>6. QED
  BY <1>2, <1>3, <1>5 DEF Sorted

LEMMA SortedOK ==
  ASSUME NEW str, Sorted(str), strand' = str
  PROVE  PlacedOK'
BY Fixed DEF Sorted, PlacedOK

\* What is posted to one strand.
LEMMA PostedThere ==
  ASSUME NEW str, str = [x \in Objects \cup Sockets |-> str[x]], NEW y, NEW pk
  PROVE  \A x \in Objects \cup Sockets :
           PostTo(str, y, pk)[x] = IF x = y THEN Append(str[x], pk) ELSE str[x]
<1>1. PICK D : D = Objects \cup Sockets
  OBVIOUS
<1>2. str = [x \in D |-> str[x]]
  BY <1>1
<1>3. ASSUME NEW x \in D
      PROVE  PostTo(str, y, pk)[x] = IF x = y THEN Append(str[x], pk) ELSE str[x]
  BY <1>2 DEF PostTo
<1>4. QED
  BY <1>1, <1>3

\* The parts that a step does not touch.
LEMMA RouterPartsStay ==
  ASSUME WayInv, Lasts
  PROVE  /\ UNCHANGED <<net, cache>> => PassingOK'
         /\ UNCHANGED routes => RecordsOK'
         /\ UNCHANGED <<sid, link_list, exited>> => KeptOK'
         /\ UNCHANGED <<sid, link_list>> => \A s : Kept(s)' = Kept(s)
<1>1. UNCHANGED <<net, cache>> => PassingOK'
  BY PlacesStay, Fixed DEF WayInv, PassingOK
<1>2. UNCHANGED routes => RecordsOK'
  BY Fixed DEF WayInv, RecordsOK
<1>3. UNCHANGED <<sid, link_list, exited>> => KeptOK'
  BY Fixed DEF WayInv, KeptOK
<1>4. UNCHANGED <<sid, link_list>> => \A s : Kept(s)' = Kept(s)
  BY Fixed DEF Kept, Aid
<1>5. QED
  BY <1>1, <1>2, <1>3, <1>4

\* Nothing comes to a router's socket that had not, and no link is kept without its record.
LEMMA WaysStay ==
  ASSUME WayInv, Lasts, NEW s \in Routing, net'[s] = net[s], strand'[Peer[s]] = strand[Peer[s]],
         \A p \in Records(s) : p \in Records(s)' \/ p[1] \in exited',
         \A p \in Kept(Peer[s])' : p \in Kept(Peer[s]) \/ p \in Records(s)' \/ p[1] \in exited'
  PROVE  Way(net[s], strand[Peer[s]], Records(s), exited, Kept(Peer[s]))'
<1>1. Way(net[s], strand[Peer[s]], Records(s), exited, Kept(Peer[s]))
  BY DEF WayInv, WaysOK
<1>2. exited \subseteq exited'
  BY DEF Lasts, Grows
<1>3. PICK R2, X2, Y2 : R2 = Records(s)' /\ X2 = exited' /\ Y2 = Kept(Peer[s])'
  OBVIOUS
<1>4. Way(net[s], strand[Peer[s]], R2, X2, Y2)
  BY <1>1, <1>2, <1>3, WayGrows
<1>5. Way(net'[s], strand'[Peer[s]], Records(s)', exited', Kept(Peer[s])')
  BY <1>3, <1>4
<1>6. QED
  BY <1>5

\* Without a failure every socket is connected and has its first aid.
LEMMA Smooth ==
  ASSUME LkAssumed, LkInv, WayInv, ~Failed
  PROVE  /\ \A s \in Sockets : conn[s] /\ SktAid(s) = <<s, 1>>
         /\ \A s \in Sockets : \A n \in [Sockets -> Seq(Packs)] : \A pk \in Packs :
              NetWith(n, s, pk) = [n EXCEPT ![Peer[s]] = Append(n[Peer[s]], pk)]
         /\ \A s \in Sockets : \A pk : CacheWith(s, pk) = cache
<1>1. /\ \A s \in Sockets : conn[s] /\ gen[s] = 1
      /\ \A c \in Connectors : ~broken[c]
  BY DEF LkInv, ConnsOK
<1>2. \A s \in Sockets : cache[s] = <<>>
  BY DEF WayInv, PassingOK
<1>3. \A s \in Sockets : SktAid(s) = <<s, 1>>
  BY <1>1 DEF SktAid
<1>5. ASSUME NEW s \in Sockets, NEW n \in [Sockets -> Seq(Packs)], NEW pk \in Packs
      PROVE  NetWith(n, s, pk) = [n EXCEPT ![Peer[s]] = Append(n[Peer[s]], pk)]
  <2>1. conn[s] /\ ~broken[Wire(s)] /\ Peer[s] \in Sockets
    BY <1>1, LkRoutes
  <2>2. cache[s] = <<>> /\ n[Peer[s]] \in Seq(Packs)
    BY <1>2, <2>1
  <2>3. Append(cache[s], pk) = <<pk>>
    BY <2>2
  <2>4. n[Peer[s]] \o <<pk>> = Append(n[Peer[s]], pk)
    BY <2>2, AppendIsConcat
  <2>5. NetWith(n, s, pk) = [n EXCEPT ![Peer[s]] = n[Peer[s]] \o Append(cache[s], pk)]
    BY <2>1 DEF NetWith
  <2>6. QED
    BY <2>3, <2>4, <2>5
<1>6. ASSUME NEW s \in Sockets, NEW pk
      PROVE  CacheWith(s, pk) = cache
  <2>1. cache \in [Sockets -> Seq(Packs)] /\ cache[s] = <<>> /\ conn[s]
    BY <1>1, <1>2 DEF LkInv, SentOK
  <2>2. CacheWith(s, pk) = [cache EXCEPT ![s] = <<>>]
    BY <2>1 DEF CacheWith
  <2>3. QED
    BY <2>1, <2>2
<1>7. QED
  BY <1>1, <1>3, <1>5, <1>6

\* A record made and one removed.
LEMMA RecordsKept ==
  ASSUME LkInv, NEW s \in Sockets, NEW a, NEW b, NEW skt, NEW p, p = <<a, b>>
  PROVE  /\ RoutesOf(s, a, b) = {} <=> p \notin Records(s)
         /\ routes' = AddRoute(s, a, b, skt) =>
              /\ Records(s)' = Records(s) \cup {p}
              /\ \A t \in Sockets : t # s => routes'[t] = routes[t]
              /\ \A r \in routes'[s] : r \in routes[s] \/ r.skt = skt
         /\ routes' = RemoveRoute(s, a, b) =>
              /\ Records(s)' = Records(s) \ {p}
              /\ \A t \in Sockets : t # s => routes'[t] = routes[t]
              /\ routes'[s] \subseteq routes[s]
<1>1. routes = [t \in Sockets |-> routes[t]]
  BY DEF LkInv, BooksOK
<1>2. \A x, y : <<x, y>> = p <=> x = a /\ y = b
  OBVIOUS
<1>3. RoutesOf(s, a, b) = {} <=> p \notin Records(s)
  BY <1>2 DEF RoutesOf, Records
<1>4. ASSUME routes' = AddRoute(s, a, b, skt)
      PROVE  /\ Records(s)' = Records(s) \cup {p}
             /\ \A t \in Sockets : t # s => routes'[t] = routes[t]
             /\ \A r \in routes'[s] : r \in routes[s] \/ r.skt = skt
  <2>1. CASE RoutesOf(s, a, b) # {}
    <3>1. routes' = routes /\ p \in Records(s)
      BY <1>3, <1>4, <2>1 DEF AddRoute
    <3>2. Records(s)' = Records(s)
      BY <3>1 DEF Records
    <3>3. QED
      BY <3>1, <3>2
  <2>2. CASE RoutesOf(s, a, b) = {}
    <3>1. PICK e : e = [src |-> a, des |-> b, skt |-> skt]
      OBVIOUS
    <3>2. e.src = a /\ e.des = b /\ e.skt = skt
      BY <3>1
    <3>3. routes' = [routes EXCEPT ![s] = routes[s] \cup {e}]
      BY <1>4, <2>2, <3>1 DEF AddRoute
    <3>4. routes'[s] = routes[s] \cup {e} /\ \A t \in Sockets : t # s => routes'[t] = routes[t]
      BY <1>1, <3>3
    <3>5. Records(s)' = Records(s) \cup {p}
      BY <3>2, <3>4 DEF Records
    <3>6. QED
      BY <3>2, <3>4, <3>5
  <2>3. QED
    BY <2>1, <2>2
<1>5. ASSUME routes' = RemoveRoute(s, a, b)
      PROVE  /\ Records(s)' = Records(s) \ {p}
             /\ \A t \in Sockets : t # s => routes'[t] = routes[t]
             /\ routes'[s] \subseteq routes[s]
  <2>1. routes' = [routes EXCEPT ![s] = routes[s] \ RoutesOf(s, a, b)]
    BY <1>5 DEF RemoveRoute
  <2>2. /\ routes'[s] = routes[s] \ RoutesOf(s, a, b)
        /\ \A t \in Sockets : t # s => routes'[t] = routes[t]
    BY <1>1, <2>1
  <2>3. \A r \in routes[s] : r \in routes'[s] <=> <<r.src, r.des>> # p
    BY <1>2, <2>2 DEF RoutesOf
  <2>4. Records(s)' = Records(s) \ {p}
    <3>1. Records(s)' = {<<r.src, r.des>> : r \in routes'[s]} /\ routes'[s] \subseteq routes[s]
      BY <2>2 DEF Records
    <3>2. QED
      BY <2>3, <3>1 DEF Records
  <2>5. QED
    BY <2>2, <2>4
<1>6. QED
  BY <1>3, <1>4, <1>5

\* The fields of a pack that is unwrapped, handed to another socket, or wrapped for one.
LEMMA Bare ==
  ASSUME NEW pk \in PackSet, NEW u, u = Unwrapped(pk)
  PROVE  /\ u \in PackSet /\ u.how = pk.how /\ u.aid = pk.aid /\ u.to = pk.to /\ u.skt = pk.skt
         /\ u.tag \in {"link", "exit", "aid"}
         /\ u.tag = "link" <=> pk.tag \in {"link", "fwd_link"}
         /\ u.tag = "exit" <=> pk.tag \in {"exit", "fwd_exit"}
<1>1. PICK tag : tag = CASE pk.tag = "fwd_link" -> "link" [] pk.tag = "fwd_exit" -> "exit" [] OTHER -> pk.tag
  OBVIOUS
<1>2. /\ tag \in {"link", "exit", "aid"}
      /\ tag = "link" <=> pk.tag \in {"link", "fwd_link"}
      /\ tag = "exit" <=> pk.tag \in {"exit", "fwd_exit"}
  BY <1>1 DEF PackSet
<1>3. u = [pk EXCEPT !.tag = tag, !.via = NoSkt]
  BY <1>1 DEF Unwrapped
<1>4. u \in PackSet /\ u.tag = tag /\ u.how = pk.how /\ u.aid = pk.aid /\ u.to = pk.to /\ u.skt = pk.skt
  BY <1>2, <1>3 DEF PackSet
<1>5. QED
  BY <1>2, <1>4

LEMMA Handed ==
  ASSUME NEW pk \in PackSet, NEW skt \in SktIds, NEW u, u = [pk EXCEPT !.skt = skt]
  PROVE  /\ u \in PackSet /\ u.tag = pk.tag /\ u.how = pk.how /\ u.aid = pk.aid /\ u.to = pk.to
         /\ u.skt = skt
BY DEF PackSet

LEMMA Wrapped ==
  ASSUME NEW pk \in PackSet, NEW skt \in SktIds, NEW via \in SktIds, NEW u, u = Fwd(pk, skt, via)
  PROVE  /\ u \in PackSet /\ u.how = pk.how /\ u.aid = pk.aid /\ u.to = pk.to
         /\ u.skt = skt /\ u.via = via
         /\ u.tag = IF pk.tag = "link" THEN "fwd_link" ELSE "fwd_exit"
<1>1. PICK tag : tag = IF pk.tag = "link" THEN "fwd_link" ELSE "fwd_exit"
  OBVIOUS
<1>2. tag \in {"fwd_link", "fwd_exit"}
  BY <1>1
<1>3. u = [pk EXCEPT !.tag = tag, !.skt = skt, !.via = via]
  BY <1>1 DEF Fwd
<1>4. /\ u \in PackSet /\ u.tag = tag /\ u.how = pk.how /\ u.aid = pk.aid /\ u.to = pk.to
      /\ u.skt = skt /\ u.via = via
  BY <1>2, <1>3 DEF PackSet
<1>5. QED
  BY <1>1, <1>4

\* What the assumptions say of a router's sockets.
LEMMA OneWay ==
  ASSUME LkAssumed
  PROVE  /\ Objects \cap Sockets = {} /\ Objects \cap Routing = {}
         /\ \A s \in Routing : /\ s \in Sockets /\ Peer[s] \in Sockets /\ Peer[s] \notin Routing
                               /\ Peer[s] \notin Objects /\ Peer[Peer[s]] = s
         /\ \A s \in Sockets : Peer[s] \in Sockets /\ Peer[Peer[s]] = s
         /\ \A s \in Sockets : <<s, 1>> # NoSkt /\ <<s, 1>> \in SktIds
<1>1. /\ Routing \subseteq Sockets /\ Objects \cap Sockets = {} /\ Peer \in [Sockets -> Sockets]
      /\ \A s \in Sockets : Peer[Peer[s]] = s
  BY LkRoutes DEF LkAssumed, LinksAssumption
<1>2. \A s \in Sockets : <<s, 1>> # NoSkt /\ <<s, 1>> \in SktIds
  BY DEF NoSkt, SktIds
<1>3. ASSUME NEW s \in Routing PROVE Peer[s] \notin Routing
  <2>1. s \in Acceptors /\ Peer[s] \in Sockets /\ Peer[Peer[s]] = s
    BY <1>1 DEF LkAssumed, LinksAssumption
  <2>2. Peer[s] \in Connectors
    BY <2>1 DEF LkAssumed, LinksAssumption
  <2>3. QED
    BY <2>2 DEF LkAssumed, LinksAssumption
<1>4. QED
  BY <1>1, <1>2, <1>3

\* An actor that is there has not exited.
LEMMA NotExited ==
  ASSUME LkAssumed, LkInv, WayInv, NEW o \in Objects
  PROVE  Aid(o) \notin exited
<1>1. SUFFICES ASSUME Aid(o) \in exited PROVE FALSE
  OBVIOUS
<1>2. Aid(o)[1] = o /\ Aid(o)[2] = sid[o]
  BY DEF Aid
<1>3. Aid(o)[2] < sid[Aid(o)[1]]
  BY <1>1 DEF WayInv, KeptOK
<1>4. sid[o] \in 1..4
  BY DEF LkInv, ObjectsOK
<1>5. QED
  BY <1>2, <1>3, <1>4

\* The lists when an actor takes one more link into its own, or none.
LEMMA LinkKept ==
  ASSUME LkAssumed, LkInv, WayInv, NEW o \in Objects, NEW how \in Hows, NEW a, NEW skt,
         \/ UNCHANGED link_list
         \/ how = "linked" /\ link_list' = [link_list EXCEPT ![o] = AddLink(link_list[o], a, skt)],
         UNCHANGED <<sid, exited>>, skt = NoSkt \/ skt \in Sockets \X {1}
  PROVE  /\ KeptOK'
         /\ \A s : \A p \in Kept(s)' : p \in Kept(s) \/ (how = "linked" /\ skt = <<s, 1>> /\ p = <<a, Aid(o)>>)
<1>1. PICK e : e = [aid |-> a, skt |-> skt]
  OBVIOUS
<1>2. e.aid = a /\ e.skt = skt
  BY <1>1
<1>3. ASSUME NEW x \in Objects
      PROVE  \/ link_list'[x] = link_list[x]
             \/ /\ how = "linked" /\ x = o /\ link_list'[o] = link_list[o] \cup {e}
                /\ \A l \in link_list[o] : l.aid # a
  <2>1. link_list = [y \in Objects |-> link_list[y]]
    BY DEF LkInv, ListsOK
  <2>2. CASE UNCHANGED link_list
    BY <2>2
  <2>3. CASE how = "linked" /\ link_list' = [link_list EXCEPT ![o] = AddLink(link_list[o], a, skt)]
    <3>1. link_list'[x] = IF x = o THEN AddLink(link_list[o], a, skt) ELSE link_list[x]
      BY <2>1, <2>3
    <3>2. QED
      BY <1>1, <2>3, <3>1 DEF AddLink
  <2>4. QED
    BY <2>2, <2>3
<1>4. KeptOK'
  <2>1. ASSUME NEW x \in Objects, NEW l \in link_list'[x]
        PROVE  /\ l.skt = NoSkt \/ l.skt \in Sockets \X {1}
               /\ \A k \in link_list'[x] : l.aid = k.aid => l = k
    <3>1. \A m \in link_list[x] : /\ m.skt = NoSkt \/ m.skt \in Sockets \X {1}
                                  /\ \A k \in link_list[x] : m.aid = k.aid => m = k
      BY DEF WayInv, KeptOK
    <3>2. CASE link_list'[x] = link_list[x]
      BY <2>1, <3>1, <3>2
    <3>3. CASE /\ x = o /\ link_list'[o] = link_list[o] \cup {e}
               /\ \A m \in link_list[o] : m.aid # a
      BY <1>2, <2>1, <3>1, <3>3
    <3>4. QED
      BY <1>3, <3>2, <3>3
  <2>2. \A b \in exited' : b \in Aids /\ b[2] < sid'[b[1]]
    BY DEF WayInv, KeptOK
  <2>3. QED
    BY <2>1, <2>2, Fixed DEF KeptOK
<1>5. ASSUME NEW s, NEW p \in Kept(s)'
      PROVE  p \in Kept(s) \/ (how = "linked" /\ skt = <<s, 1>> /\ p = <<a, Aid(o)>>)
  <2>1. PICK x : x = p[2][1]
    OBVIOUS
  <2>2. p \in Aids \X Aids /\ p[2] = Aid(x)'
    BY <2>1, Fixed DEF Kept
  <2>3. PICK l \in link_list'[x] : l.aid = p[1] /\ l.skt = <<s, 1>>
    BY <2>1 DEF Kept
  <2>4. x \in Objects /\ Aid(x)' = Aid(x) /\ p = <<p[1], p[2]>>
    <3>1. p = <<p[1], p[2]>> /\ p[2] \in Aids
      BY <2>2
    <3>2. x \in Objects
      BY <2>1, <3>1, AidPairs
    <3>3. QED
      BY <3>1, <3>2 DEF Aid
  <2>5. CASE l \in link_list[x]
    BY <2>1, <2>2, <2>3, <2>4, <2>5 DEF Kept
  <2>6. CASE how = "linked" /\ x = o /\ l = e
    BY <1>2, <2>2, <2>3, <2>4, <2>6
  <2>7. QED
    BY <1>3, <2>3, <2>4, <2>5, <2>6
<1>6. QED
  BY <1>4, <1>5

\* A new actor keeps no links.
LEMMA SpawnRt ==
  ASSUME LkAssumed, LkInv, WayInv, NEW o \in Objects, Spawn(o)
  PROVE  WayInv'
<1>1. /\ sid[o] = 2 /\ sid' = [sid EXCEPT ![o] = 3]
      /\ UNCHANGED <<link_list, strand, routes, cache, net, aborted, breaks, links, exited>>
  BY DEF Spawn, socketVars, netVars, historyVars
<1>2. sid \in [Objects -> 1..4] /\ ~live[o]
  BY <1>1 DEF LkInv, ObjectsOK
<1>3. sid'[o] = 3 /\ \A x \in Objects : x # o => sid'[x] = sid[x]
  BY <1>1, <1>2
<1>4. \A a \in Aids : a[1] \in Objects /\ a[2] \in {1, 3}
  BY AidPairs
<1>5. Grows
  BY <1>1, <1>2, <1>3, <1>4 DEF Grows, Failed, Known, Aids
<1>6. Lasts
  BY <1>1, <1>5 DEF Lasts, Records
<1>7. PlacedOK'
  BY <1>1, <1>6, SortedNow, SortedOK
<1>8. PassingOK' /\ RecordsOK'
  BY <1>1, <1>6, RouterPartsStay
<1>9. KeptOK'
  <2>1. \A a \in exited' : a \in Aids /\ a[2] < sid'[a[1]]
    <3>1. ASSUME NEW a \in exited PROVE a \in Aids /\ a[2] < sid'[a[1]]
      <4>1. a \in Aids /\ a[2] < sid[a[1]]
        BY DEF WayInv, KeptOK
      <4>2. a[1] \in Objects /\ a[2] \in {1, 3} /\ sid[a[1]] \in 1..4
        BY <1>2, <1>4, <4>1
      <4>3. sid'[a[1]] = sid[a[1]] \/ (sid[a[1]] = 2 /\ sid'[a[1]] = 3)
        BY <1>1, <1>3, <4>2
      <4>4. QED
        BY <4>1, <4>2, <4>3
    <3>2. QED
      BY <1>1, <3>1
  <2>2. QED
    BY <1>1, <2>1, Fixed DEF WayInv, KeptOK
<1>10. ASSUME NEW s, NEW p \in Kept(s)' PROVE p \in Kept(s)
  <2>1. PICK x : x = p[2][1]
    OBVIOUS
  <2>2. p \in Aids \X Aids /\ p[2] = Aid(x)'
    BY <2>1, Fixed DEF Kept
  <2>3. PICK l \in link_list[x] : l.aid = p[1] /\ l.skt = <<s, 1>>
    BY <1>1, <2>1 DEF Kept
  <2>4. x \in Objects
    BY <2>1, <2>2, <1>4
  <2>5. live[x]
    BY <2>3, <2>4 DEF LkInv, ListsOK
  <2>6. Aid(x)' = Aid(x)
    BY <1>2, <1>3, <2>4, <2>5 DEF Aid
  <2>7. QED
    BY <2>1, <2>2, <2>3, <2>6 DEF Kept
<1>11. WaysOK'
  <2>1. ASSUME NEW s \in Routing
        PROVE  Way(net[s], strand[Peer[s]], Records(s), exited, Kept(Peer[s]))'
    <3>1. Records(s)' = Records(s)
      BY <1>1 DEF Records
    <3>2. QED
      BY <1>1, <1>6, <1>10, <3>1, WaysStay
  <2>2. QED
    BY <2>1 DEF WaysOK
<1>12. QED
  BY <1>7, <1>8, <1>9, <1>11 DEF WayInv

\* The link an actor asks for is posted before its exit is.
LEMMA LinkToRt ==
  ASSUME LkAssumed, LkInv, WayInv, ~Failed,
         NEW o \in Objects, NEW type \in {"linked", "monitored"}, NEW a \in Known, LinkTo(o, type, a)
  PROVE  WayInv'
<1> DEFINE local == Ctx[a[1]] = Ctx[o]
<1>a. PICK me : me = Aid(o)
  OBVIOUS
<1>b. PICK skt : skt = IF local THEN NoSkt ELSE SelectSocket(Ctx[o], Ctx[a[1]])
  OBVIOUS
<1>c. PICK pk : pk = Link(type, me, a, skt)
  OBVIOUS
<1>d. PICK x : x = IF local THEN a[1] ELSE skt[1]
  OBVIOUS
<1>1. /\ live[o] /\ <<o, a[1]>> \in MayLink /\ links' = links \cup {<<me, a>>}
      /\ UNCHANGED <<sid, routes, cache, net, aborted, breaks, exited>>
  BY <1>a DEF LinkTo, socketVars, netVars
<1>2. Grows
  BY <1>1 DEF Grows, Failed, Known, Aids
<1>3. Lasts
  BY <1>1, <1>2 DEF Lasts, Records
<1>4. PassingOK' /\ RecordsOK'
  BY <1>1, <1>3, RouterPartsStay
<1>5. me \in Aids /\ a \in Aids /\ a[1] \in Objects
  BY <1>1, <1>a, MyAid, AidPairs
<1>6. ~local => skt = <<skt[1], 1>> /\ skt[1] \in Sockets /\ skt[1] \notin Routing
  <2>1. SUFFICES ASSUME ~local
                 PROVE  skt = <<skt[1], 1>> /\ skt[1] \in Sockets /\ skt[1] \notin Routing
    OBVIOUS
  <2>2. PICK p : p = <<o, a[1]>>
    OBVIOUS
  <2>3. p \in MayLink /\ p[1] = o /\ p[2] = a[1]
    BY <1>1, <2>2
  <2>4. PICK r : r = Route[<<Ctx[o], Ctx[a[1]]>>]
    OBVIOUS
  <2>5. r \in Sockets /\ r \notin Routing
    <3>1. Ctx[p[1]] # Ctx[p[2]] /\ r = Route[<<Ctx[p[1]], Ctx[p[2]]>>]
      BY <2>1, <2>3, <2>4
    <3>2. QED
      BY <2>3, <3>1, LkRoutes
  <2>6. SelectSocket(Ctx[o], Ctx[a[1]]) = <<r, 1>>
    BY <2>4, <2>5, Selected DEF Found
  <2>7. skt = <<r, 1>>
    BY <1>b, <2>1, <2>6
  <2>8. QED
    BY <2>5, <2>7
<1>7. local => skt = NoSkt
  BY <1>b
<1>8. skt = NoSkt \/ skt \in Sockets \X {1}
  BY <1>6, <1>7
<1>9. Keep(o, type, a, skt) /\ strand' = PostTo(strand, x, pk)
  <2>1. ~(~local /\ skt = NoSkt)
    BY <1>6, OneWay
  <2>2. QED
    BY <2>1, <1>a, <1>b, <1>c, <1>d DEF LinkTo
<1>10. \/ x \in Objects /\ skt = NoSkt
       \/ x \in Sockets /\ x \notin Routing /\ skt = <<x, 1>>
  BY <1>5, <1>6, <1>7, <1>d
<1> HIDE DEF local
<1>11. pk \in PackSet /\ pk.tag = "link" /\ pk.how = type /\ pk.aid = me /\ pk.to = a /\ pk.skt = skt
  <2>1. type \in Hows /\ "link" \in {"link", "exit", "aid"} /\ skt \in SktIds \cup (Objects \X Nat) \cup {NoSkt}
    BY <1>10, OneWay DEF Hows
  <2>2. QED
    BY <1>5, <1>c, <2>1, PackType DEF Link
<1>12. pk \in PlacedAt(x)'
  <2>1. Truthful(pk)'
    BY <1>11 DEF Truthful
  <2>2. x \in Sockets => x \notin Routing /\ pk.skt \in Sockets \X {1}
    BY <1>10, <1>11, OneWay
  <2>3. x \in Objects => pk.skt = NoSkt /\ x \notin Routing
    BY <1>10, <1>11, OneWay
  <2>4. \A s \in Routing : NoSkt # <<Peer[s], 1>>
    BY OneWay
  <2>5. x \in Objects => \A s \in Routing : pk.skt = <<Peer[s], 1>> => Recorded(pk, s)'
    BY <2>3, <2>4
  <2>6. x \notin Routing
    BY <1>10, OneWay
  <2>7. QED
    BY <1>11, <2>1, <2>2, <2>3, <2>5, <2>6, Fixed DEF PlacedAt
<1>13. PlacedOK'
  BY <1>3, <1>9, <1>12, SortedNow, SortedOne, SortedOK
<1>14. /\ KeptOK'
       /\ \A s : \A p \in Kept(s)' : p \in Kept(s) \/ (type = "linked" /\ skt = <<s, 1>> /\ p = <<a, me>>)
  <2>1. \/ UNCHANGED link_list
        \/ type = "linked" /\ link_list' = [link_list EXCEPT ![o] = AddLink(link_list[o], a, skt)]
    BY <1>9 DEF Keep
  <2>2. type \in Hows
    BY DEF Hows
  <2>3. QED
    BY <1>1, <1>8, <1>a, <2>1, <2>2, LinkKept
<1>15. WaysOK'
  <2>1. ASSUME NEW s \in Routing
        PROVE  Way(net[s], strand[Peer[s]], Records(s), exited, Kept(Peer[s]))'
    <3>1. Records(s)' = Records(s) /\ Peer[s] \in Sockets
      BY <1>1, OneWay DEF Records
    <3>2. strand = [y \in Objects \cup Sockets |-> strand[y]]
      BY DEF LkInv, PostedOK
    <3>3. strand'[Peer[s]] = IF x = Peer[s] THEN Append(strand[x], pk) ELSE strand[Peer[s]]
      BY <1>9, <3>1, <3>2, PostedThere
    <3>4. CASE x = Peer[s]
      <4>1. Way(net[s], strand[x], Records(s), exited, Kept(x))
        BY <3>4 DEF WayInv, WaysOK
      <4>2. PICK Y2 : Y2 = Kept(x)'
        OBVIOUS
      <4>3. ~IsExit(pk) /\ Ends(pk) = <<a, me>>
        BY <1>11 DEF IsExit, Ends
      <4>4. \A p \in Y2 : p \in Kept(x) \/ (pk.tag = "link" /\ pk.how = "linked" /\ Ends(pk) = p)
        BY <1>11, <1>14, <4>2, <4>3
      <4>5. strand[x] \in Seq(PackSet)
        <5>1. strand[x] \in Seq(PlacedAt(x)) /\ PlacedAt(x) \subseteq PackSet
          BY <3>1, <3>4 DEF WayInv, PlacedOK, PlacedAt
        <5>2. QED
          BY <5>1
      <4>6. Way(net[s], Append(strand[x], pk), Records(s), exited, Y2)
        BY <4>1, <4>3, <4>4, <4>5, WayPost
      <4>7. QED
        BY <1>1, <3>1, <3>3, <3>4, <4>2, <4>6
    <3>5. CASE x # Peer[s]
      <4>1. skt # <<Peer[s], 1>>
        BY <1>10, <3>5, OneWay
      <4>2. \A p \in Kept(Peer[s])' : p \in Kept(Peer[s])
        BY <1>14, <4>1
      <4>3. QED
        BY <1>1, <1>3, <3>1, <3>3, <3>5, <4>2, WaysStay
    <3>6. QED
      BY <3>4, <3>5
  <2>2. QED
    BY <2>1 DEF WaysOK
<1>16. QED
  BY <1>4, <1>13, <1>14, <1>15 DEF WayInv

\* The sequence r is s and, after it, what is posted to x of out: each of them once.
JoinedAs(q, f, r, s, out, x) ==
  /\ q \in Seq({d.pk : d \in out}) /\ r = s \o q
  /\ \A i \in 1..Len(q) : f[i] \in out /\ f[i].at = x /\ q[i] = f[i].pk
  /\ \A i, j \in 1..Len(q) : f[i] = f[j] => i = j
Joined(r, s, out, x) == \E q, f : JoinedAs(q, f, r, s, out, x)

LEMMA ManyThere ==
  ASSUME NEW str, str = [x \in Objects \cup Sockets |-> str[x]], NEW out, IsFiniteSet(out),
         NEW x \in Objects \cup Sockets
  PROVE  Joined(Posted(str, out)[x], str[x], out, x)
<1> DEFINE D == Objects \cup Sockets
           T == {d \in out : d.at = x}
           n == Cardinality(T)
           f == SetToSeq(T)
           q == [i \in 1..n |-> f[i].pk]
<1>1. DOMAIN str = D
  BY Zenon
<1>2. Posted(str, out)[x] = str[x] \o q
  BY <1>1 DEF Posted
<1>3. IsFiniteSet(T)
  BY FS_Subset
<1>4. n \in Nat /\ (\A i \in 1..n : f[i] \in T) /\ \A i, j \in 1..n : f[i] = f[j] => i = j
  BY <1>3, InSomeOrder
<1>5. \A d \in T : d \in out /\ d.at = x /\ d.pk \in {e.pk : e \in out}
  OBVIOUS
<1> HIDE DEF T, n, f
<1>6. q \in Seq({e.pk : e \in out}) /\ Len(q) = n /\ \A i \in 1..n : q[i] = f[i].pk
  BY <1>4, <1>5
<1> HIDE DEF q
<1>7. /\ Posted(str, out)[x] = str[x] \o q
      /\ \A i \in 1..Len(q) : f[i] \in out /\ f[i].at = x /\ q[i] = f[i].pk
      /\ \A i, j \in 1..Len(q) : f[i] = f[j] => i = j
  BY <1>2, <1>4, <1>5, <1>6
<1>8. JoinedAs(q, f, Posted(str, out)[x], str[x], out, x)
  BY <1>6, <1>7 DEF JoinedAs
<1>9. QED
  BY <1>8 DEF Joined

\* The exits of an actor: one for each link it keeps.
LEMMA ExitsOf ==
  ASSUME LkAssumed, LkInv, WayInv, NEW o \in Objects, live[o], NEW d \in SendExit(o)
  PROVE  /\ d.pk \in PackSet /\ d.pk.tag = "exit" /\ d.pk.aid = Aid(o) /\ Linked(Aid(o), d.pk.to)
         /\ \/ d.at \in Objects /\ d.pk.skt = NoSkt
            \/ d.at \in Sockets /\ d.pk.skt = <<d.at, 1>>
         /\ [aid |-> d.pk.to, skt |-> d.pk.skt] \in link_list[o] /\ d.pk.to \in Aids
         /\ d = [at |-> d.at, pk |-> Exit("exited", Aid(o), d.pk.to, d.pk.skt)]
         /\ d.at = IF d.pk.skt = NoSkt THEN d.pk.to[1] ELSE d.pk.skt[1]
<1>1. PICK me : me = Aid(o)
  OBVIOUS
<1>2. PICK l \in link_list[o] :
        d = [at |-> IF l.skt = NoSkt THEN l.aid[1] ELSE l.skt[1], pk |-> Exit("exited", me, l.aid, l.skt)]
  BY <1>1 DEF SendExit
<1>3. /\ l \in [aid : Known, skt : SktIds \cup {NoSkt}]
      /\ l.skt = NoSkt \/ l.skt \in Sockets \X {1}
      /\ Linked(me, l.aid)
  BY <1>1 DEF LkInv, ListsOK, WayInv, KeptOK
<1>4. me \in Aids /\ l.aid \in Aids /\ l.aid[1] \in Objects /\ l.skt \in SktIds \cup {NoSkt}
  BY <1>1, <1>3, MyAid, AidPairs
<1>5. PICK e : e = Exit("exited", me, l.aid, l.skt)
  OBVIOUS
<1>6. e \in PackSet /\ e.tag = "exit" /\ e.aid = me /\ e.to = l.aid /\ e.skt = l.skt
  <2>1. "exit" \in {"link", "exit", "aid"} /\ "exited" \in Hows
    BY DEF Hows
  <2>2. QED
    BY <1>4, <1>5, <2>1, PackType DEF Exit
<1>7. d = [at |-> IF l.skt = NoSkt THEN l.aid[1] ELSE l.skt[1], pk |-> e]
  BY <1>2, <1>5
<1>8. d.pk = e /\ d.at = IF l.skt = NoSkt THEN l.aid[1] ELSE l.skt[1]
  BY <1>7
<1>9. \/ d.at \in Objects /\ l.skt = NoSkt
      \/ d.at \in Sockets /\ l.skt = <<d.at, 1>>
  BY <1>3, <1>4, <1>8, OneWay
<1>10. l = [aid |-> l.aid, skt |-> l.skt]
  BY <1>3
<1>11. d = [at |-> d.at, pk |-> e]
  BY <1>7, <1>8
<1>12. QED
  BY <1>1, <1>3, <1>4, <1>5, <1>6, <1>8, <1>9, <1>10, <1>11

\* The exits an actor sends go after the links it asked for, and no exit of its was sent
\* before.
LEMMA FreeRt ==
  ASSUME LkAssumed, LkInv, WayInv, NEW o \in Objects, live[o], Free(o)
  PROVE  WayInv'
<1>1. PICK me : me = Aid(o)
  OBVIOUS
<1>2. /\ sid' = [sid EXCEPT ![o] = sid[o] + 1]
      /\ strand' = Posted(strand, SendExit(o))
      /\ link_list' = [link_list EXCEPT ![o] = {}] /\ exited' = exited \cup {me}
      /\ UNCHANGED <<routes, cache, net, links>>
  BY <1>1 DEF Free, ClearList, socketVars, netVars
<1>3. Grows
  BY FreeLk
<1>4. Lasts
  BY <1>2, <1>3 DEF Lasts, Records
<1>5. PassingOK' /\ RecordsOK'
  BY <1>2, <1>4, RouterPartsStay
<1>6. sid \in [Objects -> 1..4] /\ link_list = [x \in Objects |-> link_list[x]]
  BY DEF LkInv, ObjectsOK, ListsOK
<1>7. /\ sid'[o] = sid[o] + 1 /\ link_list'[o] = {}
      /\ \A x \in Objects : x # o => sid'[x] = sid[x] /\ link_list'[x] = link_list[x]
  BY <1>2, <1>6
<1>8. me = <<o, sid[o]>> /\ me \in Aids
  BY <1>1, MyAid, AidPairs
<1>9. KeptOK'
  <2>1. ASSUME NEW x \in Objects, NEW l \in link_list'[x]
        PROVE  /\ l.skt = NoSkt \/ l.skt \in Sockets \X {1}
               /\ \A k \in link_list'[x] : l.aid = k.aid => l = k
    <3>1. x # o /\ link_list'[x] = link_list[x]
      BY <1>7, <2>1
    <3>2. QED
      BY <2>1, <3>1 DEF WayInv, KeptOK
  <2>2. ASSUME NEW a \in exited'
        PROVE  a \in Aids /\ a[2] < sid'[a[1]]
    <3>1. CASE a \in exited
      <4>1. a \in Aids /\ a[2] < sid[a[1]]
        BY <3>1 DEF WayInv, KeptOK
      <4>2. a[1] \in Objects /\ a[2] \in {1, 3} /\ sid[a[1]] \in 1..4
        BY <1>6, <4>1, AidPairs
      <4>3. sid'[a[1]] = sid[a[1]] \/ sid'[a[1]] = sid[a[1]] + 1
        BY <1>7, <4>2
      <4>4. QED
        BY <4>1, <4>2, <4>3
    <3>2. CASE a = me
      <4>1. sid[o] \in 1..4
        BY <1>6
      <4>2. QED
        BY <1>7, <1>8, <3>2, <4>1
    <3>3. QED
      BY <1>2, <3>1, <3>2
  <2>3. QED
    BY <2>1, <2>2, Fixed DEF KeptOK
<1>10. ASSUME NEW s, NEW p \in Kept(s)' PROVE p \in Kept(s)
  <2>1. PICK x : x = p[2][1]
    OBVIOUS
  <2>2. p \in Aids \X Aids /\ p[2] = Aid(x)'
    BY <2>1, Fixed DEF Kept
  <2>3. PICK l \in link_list'[x] : l.aid = p[1] /\ l.skt = <<s, 1>>
    BY <2>1 DEF Kept
  <2>4. x \in Objects
    <3>1. p[2] \in Aids
      BY <2>2
    <3>2. QED
      BY <2>1, <3>1, AidPairs
  <2>5. x # o
    BY <1>7, <2>3
  <2>6. Aid(x)' = Aid(x) /\ link_list'[x] = link_list[x]
    BY <1>7, <2>4, <2>5 DEF Aid
  <2>7. QED
    BY <2>1, <2>2, <2>3, <2>6 DEF Kept
<1>11. IsFiniteSet(SendExit(o))
  <2>1. Aid(o) \in exited'
    BY <1>1, <1>2
  <2>2. QED
    BY <1>3, <2>1, ExitsSent
<1>12. ASSUME NEW d \in SendExit(o), d.at \in Objects \cup Sockets
       PROVE  d.pk \in PlacedAt(d.at)'
  <2>1. /\ d.pk \in PackSet /\ d.pk.tag = "exit" /\ d.pk.aid = me /\ Linked(me, d.pk.to)
        /\ \/ d.at \in Objects /\ d.pk.skt = NoSkt
           \/ d.at \in Sockets /\ d.pk.skt = <<d.at, 1>>
    BY <1>1, ExitsOf
  <2>2. Truthful(d.pk)'
    BY <1>2, <2>1 DEF Truthful, Linked
  <2>3. \A s \in Routing : Recorded(d.pk, s)'
    BY <2>1 DEF Recorded
  <2>4. d.at \in Sockets => d.pk.skt \in Sockets \X {1}
    <3>1. PICK y, k : y = d.at /\ k = d.pk.skt
      OBVIOUS
    <3>2. y \in Objects \/ (y \in Sockets /\ k = <<y, 1>>)
      BY <2>1, <3>1
    <3>3. y \in Sockets => k \in Sockets \X {1}
      BY <3>2, OneWay
    <3>4. QED
      BY <3>1, <3>3
  <2>5. d.at \in Objects => d.pk.skt = NoSkt
    BY <2>1, OneWay
  <2>6. QED
    BY <2>1, <2>2, <2>3, <2>4, <2>5, Fixed DEF PlacedAt
<1>13. PlacedOK'
  <2>1. Sorted(strand)
    BY <1>4, SortedNow
  <2>2. Sorted(Posted(strand, SendExit(o)))
    BY <1>11, <1>12, <2>1, SortedMany
  <2>3. QED
    BY <1>2, <2>2, SortedOK
<1>14. ASSUME NEW s \in Routing
       PROVE  Way(net[s], strand[Peer[s]], Records(s), exited, Kept(Peer[s]))'
  <2>1. PICK x \in Sockets : x = Peer[s] /\ x \in Objects \cup Sockets
    BY OneWay
  <2>2. PICK N, S, R, X, Y : N = net[s] /\ S = strand[x] /\ R = Records(s) /\ X = exited /\ Y = Kept(x)
    OBVIOUS
  <2>3. Way(N, S, R, X, Y)
    BY <2>1, <2>2 DEF WayInv, WaysOK
  <2>4. N \in Seq(PassingAt(s)) /\ S \in Seq(PlacedAt(x)) /\ S \in Seq(PackSet)
    <3>1. s \in Sockets
      BY OneWay
    <3>2. N \in Seq(PassingAt(s)) /\ S \in Seq(PlacedAt(x)) /\ PlacedAt(x) \subseteq PackSet
      BY <2>1, <2>2, <3>1 DEF WayInv, PassingOK, PlacedOK, PlacedAt
    <3>3. QED
      BY <3>2
  <2>a. PICK out : out = SendExit(o)
    OBVIOUS
  <2>b. PICK q, f : JoinedAs(q, f, Posted(strand, out)[x], strand[x], out, x)
    <3>1. strand = [y \in Objects \cup Sockets |-> strand[y]]
      BY DEF LkInv, PostedOK
    <3>2. Joined(Posted(strand, out)[x], strand[x], out, x)
      BY <1>11, <2>1, <2>a, <3>1, ManyThere
    <3>3. QED
      BY <3>2 DEF Joined
  <2>5. /\ Posted(strand, SendExit(o))[x] = strand[x] \o q
        /\ \A i \in 1..Len(q) : f[i] \in SendExit(o) /\ f[i].at = x /\ q[i] = f[i].pk
        /\ \A i, j \in 1..Len(q) : f[i] = f[j] => i = j
    BY <2>a, <2>b DEF JoinedAs
  <2>c. q \in Seq(PackSet)
    <3>1. \A d \in SendExit(o) : d.pk \in PackSet
      BY ExitsOf
    <3>2. {d.pk : d \in out} \subseteq PackSet
      BY <2>a, <3>1
    <3>3. q \in Seq({d.pk : d \in out})
      BY <2>b DEF JoinedAs
    <3>4. QED
      BY <3>2, <3>3
  <2>6. ASSUME NEW i \in 1..Len(q)
        PROVE  /\ q[i] = f[i].pk /\ f[i] \in SendExit(o) /\ f[i].at = x /\ q[i].tag = "exit" /\ q[i].aid = me
               /\ q[i].skt = <<x, 1>> /\ q[i].to \in Aids
               /\ [aid |-> q[i].to, skt |-> <<x, 1>>] \in link_list[o]
               /\ f[i] = [at |-> x, pk |-> Exit("exited", me, q[i].to, <<x, 1>>)]
    <3>1. PICK d : d = f[i]
      OBVIOUS
    <3>2. d \in SendExit(o) /\ d.at = x /\ q[i] = d.pk
      BY <2>5, <2>6, <3>1
    <3>3. x \notin Objects
      BY <2>1, OneWay
    <3>4. /\ d.pk.tag = "exit" /\ d.pk.aid = me
          /\ \/ d.at \in Objects /\ d.pk.skt = NoSkt
             \/ d.at \in Sockets /\ d.pk.skt = <<d.at, 1>>
          /\ [aid |-> d.pk.to, skt |-> d.pk.skt] \in link_list[o] /\ d.pk.to \in Aids
          /\ d = [at |-> d.at, pk |-> Exit("exited", me, d.pk.to, d.pk.skt)]
      BY <1>1, <3>2, ExitsOf
    <3>5. d.pk.skt = <<x, 1>>
      BY <3>2, <3>3, <3>4
    <3>6. QED
      BY <3>1, <3>2, <3>4, <3>5
  <2>7. ASSUME NEW i \in 1..Len(q)
        PROVE  IsExit(q[i]) /\ Ends(q[i]) = <<q[i].to, me>> /\ Ends(q[i]) \in Y /\ Ends(q[i])[1] = q[i].to
    <3>1. PICK p : p = <<q[i].to, me>>
      OBVIOUS
    <3>2. p[1] = q[i].to /\ p[2] = me /\ p[2][1] = o /\ p \in Aids \X Aids
      BY <1>8, <2>6, <3>1
    <3>3. PICK l \in link_list[o] : l.aid = p[1] /\ l.skt = <<x, 1>>
      BY <2>6, <3>2
    <3>4. p \in Kept(x)
      BY <1>1, <3>2, <3>3 DEF Kept
    <3>5. QED
      BY <2>2, <2>6, <3>1, <3>2, <3>4 DEF IsExit, Ends
  <2>8. ASSUME NEW i \in 1..Len(q), NEW j \in 1..Len(q), i < j
        PROVE  Ends(q[i]) # Ends(q[j])
    <3>1. SUFFICES ASSUME Ends(q[i]) = Ends(q[j]) PROVE FALSE
      OBVIOUS
    <3>2. q[i].to = q[j].to
      BY <2>7, <3>1
    <3>3. f[i] = f[j]
      <4>1. /\ f[i] = [at |-> x, pk |-> Exit("exited", me, q[i].to, <<x, 1>>)]
            /\ f[j] = [at |-> x, pk |-> Exit("exited", me, q[j].to, <<x, 1>>)]
        BY <2>6
      <4>2. QED
        BY <3>2, <4>1, Zenon
    <3>4. QED
      BY <2>5, <2>8, <3>3
  <2>9. ASSUME NEW pk, Truthful(pk), IsExit(pk), NEW j \in 1..Len(q)
        PROVE  Ends(pk) # Ends(q[j])
    <3>1. pk.aid \in exited
      BY <2>9 DEF Truthful, IsExit
    <3>2. pk.aid # me
      BY <1>1, <3>1, NotExited
    <3>3. QED
      BY <2>7, <3>2 DEF Ends
  <2>10. \A i \in 1..Len(N), j \in 1..Len(q) : IsExit(N[i]) => Ends(N[i]) # Ends(q[j])
    <3>1. \A i \in 1..Len(N) : Truthful(N[i])
      BY <2>4 DEF PassingAt
    <3>2. QED
      BY <2>9, <3>1
  <2>11. \A i \in 1..Len(S), j \in 1..Len(q) : IsExit(S[i]) => Ends(S[i]) # Ends(q[j])
    <3>1. \A i \in 1..Len(S) : Truthful(S[i])
      BY <2>4 DEF PlacedAt
    <3>2. QED
      BY <2>9, <3>1
  <2>12. Way(N, S \o q, R, X, Y)
    <3>1. \A i \in 1..Len(q) : IsExit(q[i]) /\ Ends(q[i]) \in Y /\ Ends(q[i])[1] = q[i].to
      BY <2>7
    <3>2. QED
      BY <2>3, <2>4, <2>c, <2>8, <2>10, <2>11, <3>1, WayExits
  <2>13. PICK X2, Y2 : X2 = exited' /\ Y2 = Kept(x)'
    OBVIOUS
  <2>14. Way(N, S \o q, R, X2, Y2)
    <3>1. X \subseteq X2 /\ Y2 \subseteq Y
      BY <1>2, <1>10, <2>2, <2>13
    <3>2. QED
      BY <2>12, <3>1, WayGrows
  <2>15. Records(s)' = Records(s)
    BY <1>2 DEF Records
  <2>16. strand'[x] = S \o q /\ net'[s] = N
    BY <1>2, <2>2, <2>5
  <2>17. QED
    BY <2>1, <2>2, <2>13, <2>14, <2>15, <2>16
<1>15. WaysOK'
  BY <1>14 DEF WaysOK
<1>16. QED
  BY <1>5, <1>9, <1>13, <1>15 DEF WayInv

LEMMA ExitActorRt ==
  ASSUME LkAssumed, LkInv, WayInv, NEW o \in Objects, ExitActor(o)
  PROVE  WayInv'
BY FreeRt DEF ExitActor

\* An exit is read: nothing is posted, or the actor exits.
LEMMA RecvExitRt ==
  ASSUME LkAssumed, LkInv, WayInv, NEW o \in Objects, RecvExit(o)
  PROVE  WayInv'
<1>1. CASE o \in Trapping
  <2>1. UNCHANGED <<sid, link_list, strand, routes, cache, net, aborted, breaks, links, exited>>
    BY <1>1 DEF RecvExit, socketVars, netVars
  <2>2. Grows
    BY <2>1 DEF Grows, Failed, Known, Aids
  <2>3. Lasts
    BY <2>1, <2>2 DEF Lasts, Records
  <2>4. PlacedOK'
    BY <2>1, <2>3, SortedNow, SortedOK
  <2>5. PassingOK' /\ RecordsOK' /\ KeptOK' /\ \A s : Kept(s)' = Kept(s)
    BY <2>1, <2>3, RouterPartsStay
  <2>6. WaysOK'
    <3>1. ASSUME NEW s \in Routing
          PROVE  Way(net[s], strand[Peer[s]], Records(s), exited, Kept(Peer[s]))'
      <4>1. Records(s)' = Records(s)
        BY <2>1 DEF Records
      <4>2. QED
        BY <2>1, <2>3, <2>5, <4>1, WaysStay
    <3>2. QED
      BY <3>1 DEF WaysOK
  <2>7. QED
    BY <2>4, <2>5, <2>6 DEF WayInv
<1>2. CASE o \notin Trapping
  <2>1. live[o] /\ Free(o)
    BY <1>2 DEF RecvExit
  <2>2. QED
    BY <2>1, FreeRt
<1>3. QED
  BY <1>1, <1>2

\* A link arrives whose record is there, if the one that asked for it is.
LEMMA ArrivesRt ==
  ASSUME LkAssumed, LkInv, WayInv, Lasts, NEW o \in Objects,
         NEW pk \in PlacedAt(o), Check(pk.to), pk.to[1] = o,
         NEW rest, Sorted(rest), \A x \in Objects \cup Sockets : x # o => rest[x] = strand[x],
         Arrives(o, pk, rest), UNCHANGED <<sid, routes, cache, net, exited>>
  PROVE  WayInv'
<1>1. PICK me : me = Aid(o)
  OBVIOUS
<1>2. pk.to = me
  BY <1>1 DEF Check
<1>3. strand' = rest /\ PlacedOK'
  BY SortedOK DEF Arrives
<1>4. PassingOK' /\ RecordsOK'
  BY RouterPartsStay
<1>5. ASSUME NEW s \in Routing,
             \A p \in Kept(Peer[s])' : p \in Kept(Peer[s]) \/ p \in Records(s) \/ p[1] \in exited
      PROVE  Way(net[s], strand[Peer[s]], Records(s), exited, Kept(Peer[s]))'
  <2>1. Records(s)' = Records(s)
    BY DEF Records
  <2>2. strand'[Peer[s]] = strand[Peer[s]]
    BY <1>3, OneWay
  <2>3. QED
    BY <1>5, <2>1, <2>2, WaysStay
<1>6. CASE pk.tag = "link"
  <2>1. PICK a, skt : a = pk.aid /\ skt = pk.skt
    OBVIOUS
  <2>2. link_list' = [link_list EXCEPT ![o] = AddLink(link_list[o], a, skt)]
    BY <1>6, <2>1 DEF Arrives
  <2>3. skt = NoSkt \/ skt \in Sockets \X {1}
    BY <2>1 DEF PlacedAt
  <2>8. PICK how \in Hows : how = "linked"
    BY DEF Hows
  <2>9. /\ \/ UNCHANGED link_list
           \/ how = "linked" /\ link_list' = [link_list EXCEPT ![o] = AddLink(link_list[o], a, skt)]
        /\ UNCHANGED <<sid, exited>> /\ (skt = NoSkt \/ skt \in Sockets \X {1})
    BY <2>2, <2>3, <2>8
  <2>4. /\ KeptOK'
        /\ \A s : \A p \in Kept(s)' :
             p \in Kept(s) \/ (how = "linked" /\ skt = <<s, 1>> /\ p = <<a, me>>)
    <3>1. /\ KeptOK'
          /\ \A s : \A p \in Kept(s)' :
               p \in Kept(s) \/ (how = "linked" /\ skt = <<s, 1>> /\ p = <<a, Aid(o)>>)
      BY <2>9, LinkKept
    <3>2. QED
      BY <1>1, <3>1
  <2>5. ASSUME NEW s \in Routing, NEW p \in Kept(Peer[s])'
        PROVE  p \in Kept(Peer[s]) \/ p \in Records(s) \/ p[1] \in exited
    <3>1. CASE p \in Kept(Peer[s])
      BY <3>1
    <3>2. CASE skt = <<Peer[s], 1>> /\ p = <<a, me>>
      <4>1. Recorded(pk, s)
        BY <2>1, <3>2 DEF PlacedAt
      <4>2. <<a, me>> \in Records(s) \/ a \in exited \/ me \in exited
        BY <1>2, <1>6, <2>1, <4>1 DEF Recorded
      <4>3. me \notin exited
        BY <1>1, NotExited
      <4>4. QED
        BY <3>2, <4>2, <4>3
    <3>3. QED
      BY <1>1, <2>4, <3>1, <3>2
  <2>6. WaysOK'
    BY <1>5, <2>5 DEF WaysOK
  <2>7. QED
    BY <1>3, <1>4, <2>4, <2>6 DEF WayInv
<1>7. CASE pk.tag # "link"
  <2>1. \A x \in Objects : link_list'[x] \subseteq link_list[x]
    <3>1. \/ UNCHANGED link_list
          \/ link_list' = [link_list EXCEPT ![o] = {l \in link_list[o] : l.aid # pk.aid}]
      BY <1>7 DEF Arrives
    <3>2. link_list = [x \in Objects |-> link_list[x]]
      BY DEF LkInv, ListsOK
    <3>3. QED
      BY <3>1, <3>2
  <2>2. KeptOK'
    BY <2>1, Fixed DEF WayInv, KeptOK
  <2>3. ASSUME NEW s, NEW p \in Kept(s)' PROVE p \in Kept(s)
    <3>1. PICK x : x = p[2][1]
      OBVIOUS
    <3>2. p \in Aids \X Aids /\ p[2] = Aid(x)'
      BY <3>1, Fixed DEF Kept
    <3>3. PICK l \in link_list'[x] : l.aid = p[1] /\ l.skt = <<s, 1>>
      BY <3>1 DEF Kept
    <3>4. x \in Objects
      <4>1. p[2] \in Aids
        BY <3>2
      <4>2. QED
        BY <3>1, <4>1, AidPairs
    <3>5. Aid(x)' = Aid(x) /\ l \in link_list[x]
      BY <2>1, <3>3, <3>4 DEF Aid
    <3>6. QED
      BY <3>1, <3>2, <3>3, <3>5 DEF Kept
  <2>4. WaysOK'
    BY <1>5, <2>3 DEF WaysOK
  <2>5. QED
    BY <1>3, <1>4, <2>2, <2>4 DEF WayInv
<1>8. QED
  BY <1>6, <1>7

\* An answer that is posted disturbs nothing.
LEMMA AnswerPlaced ==
  ASSUME LkAssumed, NEW pk \in PackSet, pk.tag = "aid", NEW x,
         x \in Sockets => pk.skt \in Sockets \X {1},
         x \in Objects => pk.skt = NoSkt \/ pk.skt \in Sockets \X {1}
  PROVE  pk \in PlacedAt(x)'
<1>1. Truthful(pk)' /\ \A s \in Routing : Recorded(pk, s)'
  BY DEF Truthful, Recorded
<1>2. QED
  BY <1>1, Fixed DEF PlacedAt

LEMMA AnswerPosted ==
  ASSUME LkAssumed, LkInv, WayInv, Lasts, NEW str, Sorted(str),
         NEW pk \in PackSet, pk.tag = "aid", NEW x,
         x \in Sockets => pk.skt \in Sockets \X {1},
         x \in Objects => pk.skt = NoSkt \/ pk.skt \in Sockets \X {1},
         NEW s \in Routing, str[Peer[s]] = strand[Peer[s]],
         NEW N, NEW R, NEW X, NEW Y, Way(N, strand[Peer[s]], R, X, Y)
  PROVE  /\ Sorted(PostTo(str, x, pk))
         /\ Way(N, PostTo(str, x, pk)[Peer[s]], R, X, Y)
<1>1. Sorted(PostTo(str, x, pk))
  <2>1. pk \in PlacedAt(x)'
    BY AnswerPlaced
  <2>2. QED
    BY <2>1, SortedOne
<1>2. PICK y \in Objects \cup Sockets : y = Peer[s]
  BY OneWay
<1>3. str = [z \in Objects \cup Sockets |-> str[z]]
  BY DEF Sorted
<1>4. PostTo(str, x, pk)[y] = IF y = x THEN Append(str[y], pk) ELSE str[y]
  BY <1>3, PostedThere
<1>5. PICK S : S = strand[y]
  OBVIOUS
<1>6. S \in Seq(PackSet)
  <2>1. S \in Seq(PlacedAt(y)) /\ PlacedAt(y) \subseteq PackSet
    BY <1>5 DEF WayInv, PlacedOK, PlacedAt
  <2>2. QED
    BY <2>1
<1>7. Way(N, S, R, X, Y)
  BY <1>2, <1>5
<1>8. ~IsExit(pk)
  BY DEF IsExit
<1>9. Way(N, Append(S, pk), R, X, Y)
  BY <1>6, <1>7, <1>8, WayPost
<1>10. QED
  BY <1>1, <1>2, <1>4, <1>5, <1>7, <1>9

\* Wherever send_already_exited posts its answer.
LEMMA AnswerRt ==
  ASSUME LkAssumed, LkInv, WayInv, Lasts, ~Failed, NEW c, NEW str, Sorted(str),
         NEW pk, pk.aid \in Aids, pk.to \in Aids, NEW new, new = Answered(c, str, pk)
  PROVE  /\ Sorted(new)
         /\ \A s \in Routing : \A N, R, X, Y :
              str[Peer[s]] = strand[Peer[s]] /\ Way(N, strand[Peer[s]], R, X, Y) => Way(N, new[Peer[s]], R, X, Y)
<1>1. CASE new = str
  BY <1>1
<1>2. ASSUME NEW x, NEW k, AnswerTo(x, k, pk), new = PostTo(str, x, Already(pk.to, pk.aid, k))
      PROVE  /\ Sorted(new)
             /\ \A s \in Routing : \A N, R, X, Y :
                  str[Peer[s]] = strand[Peer[s]] /\ Way(N, strand[Peer[s]], R, X, Y) => Way(N, new[Peer[s]], R, X, Y)
  <2>1. PICK a : a = Already(pk.to, pk.aid, k)
    OBVIOUS
  <2>2. pk.aid[1] \in Objects /\ pk.aid[1] \notin Sockets
    BY AidPairs, OneWay
  <2>3. k \in SktIds \cup (Objects \X Nat) \cup {NoSkt}
    BY <1>2 DEF AnswerTo
  <2>4. a \in PackSet /\ a.tag = "aid" /\ a.skt = k
    <3>1. "aid" \in {"link", "exit", "aid"} /\ "already" \in Hows
      BY DEF Hows
    <3>2. QED
      BY <2>1, <2>3, <3>1, PackType DEF Already
  <2>5. /\ x \in Sockets => a.skt \in Sockets \X {1}
        /\ x \in Objects => a.skt = NoSkt \/ a.skt \in Sockets \X {1}
    BY <1>2, <2>2, <2>4 DEF AnswerTo
  <2>6. new = PostTo(str, x, a)
    BY <1>2, <2>1
  <2>7. a \in PlacedAt(x)'
    BY <2>4, <2>5, AnswerPlaced
  <2>8. Sorted(new)
    BY <2>6, <2>7, SortedOne
  <2>9. ASSUME NEW s \in Routing, NEW N, NEW R, NEW X, NEW Y,
               str[Peer[s]] = strand[Peer[s]], Way(N, strand[Peer[s]], R, X, Y)
        PROVE  Way(N, new[Peer[s]], R, X, Y)
    BY <2>4, <2>5, <2>6, <2>9, AnswerPosted
  <2>10. QED
    BY <2>8, <2>9
<1>3. QED
  BY <1>1, <1>2, AnswersTo

\* A pack for an actor that has exited: at most an answer is posted.
LEMMA BounceRt ==
  ASSUME LkAssumed, LkInv, WayInv, Lasts, ~Failed, NEW o \in Objects,
         NEW pk \in Packs, pk.to[1] = o,
         NEW rest, Sorted(rest), \A x \in Objects \cup Sockets : x # o => rest[x] = strand[x],
         Bounce(o, pk, rest), UNCHANGED <<sid, routes, cache, net, exited>>
  PROVE  WayInv'
<1>1. /\ pk.aid \in Aids /\ pk.to \in Aids /\ pk.aid[1] \in Objects
      /\ pk.tag = "link" => <<pk.aid[1], o>> \in MayLink
  BY AidPairs DEF Packs, PackSet
<1>2. UNCHANGED link_list
  BY DEF Bounce
<1>3. PassingOK' /\ RecordsOK' /\ KeptOK' /\ \A s : Kept(s)' = Kept(s)
  BY <1>2, RouterPartsStay
<1>4. strand' = rest \/ strand' = Answered(Ctx[o], rest, pk)
  BY DEF Bounce
<1>5. /\ Sorted(strand')
      /\ \A s \in Routing : \A N, R, X, Y :
           rest[Peer[s]] = strand[Peer[s]] /\ Way(N, strand[Peer[s]], R, X, Y) => Way(N, strand'[Peer[s]], R, X, Y)
  <2>1. CASE strand' = rest
    BY <2>1
  <2>2. CASE strand' = Answered(Ctx[o], rest, pk)
    BY <1>1, <2>2, AnswerRt
  <2>3. QED
    BY <1>4, <2>1, <2>2
<1>6. ASSUME NEW s \in Routing
      PROVE  Way(net[s], strand'[Peer[s]], Records(s), exited, Kept(Peer[s]))
  <2>1. Way(net[s], strand[Peer[s]], Records(s), exited, Kept(Peer[s]))
    BY DEF WayInv, WaysOK
  <2>2. rest[Peer[s]] = strand[Peer[s]]
    BY OneWay
  <2>3. QED
    BY <1>5, <2>1, <2>2
<1>7. WaysOK'
  <2>1. ASSUME NEW s \in Routing
        PROVE  Way(net[s], strand[Peer[s]], Records(s), exited, Kept(Peer[s]))'
    <3>1. Records(s)' = Records(s) /\ Kept(Peer[s])' = Kept(Peer[s])
      BY <1>3 DEF Records
    <3>2. QED
      BY <1>6, <3>1
  <2>2. QED
    BY <2>1 DEF WaysOK
<1>8. PlacedOK'
  BY <1>5, Fixed DEF Sorted, PlacedOK
<1>9. QED
  BY <1>3, <1>7, <1>8 DEF WayInv

LEMMA HandleRecvRt ==
  ASSUME LkAssumed, LkInv, WayInv, ~Failed, NEW o \in Objects, HandleRecv(o)
  PROVE  WayInv'
<1>1. /\ strand[o] # <<>>
      /\ UNCHANGED <<sid, routes, cache, net, aborted, breaks, links, exited>>
  BY DEF HandleRecv, socketVars, netVars
<1>2. Grows
  BY <1>1 DEF Grows, Failed, Known, Aids
<1>3. Lasts
  BY <1>1, <1>2 DEF Lasts, Records
<1>4. PICK pk : pk = Head(strand[o])
  OBVIOUS
<1>5. PICK rest : rest = [strand EXCEPT ![o] = Tail(@)]
  OBVIOUS
<1>6. /\ pk \in PlacedAt(o) /\ Sorted(rest)
      /\ \A x \in Objects \cup Sockets : x # o => rest[x] = strand[x]
  BY <1>1, <1>3, <1>4, <1>5, SortedRest
<1>7. pk \in Packs /\ pk.to[1] = o
  <2>1. pk \in PacksAt(o)
    BY <1>1, <1>2, <1>4, TakeOne
  <2>2. QED
    BY <2>1 DEF PacksAt
<1>8. IF Check(pk.to) THEN Arrives(o, pk, rest) ELSE Bounce(o, pk, rest)
  BY <1>4, <1>5 DEF HandleRecv
<1>9. QED
  BY <1>1, <1>3, <1>6, <1>7, <1>8, ArrivesRt, BounceRt

\* What a socket's strand runs: the records are kept, and a link passes a router's socket
\* only with its record there.
LEMMA NoteRt ==
  ASSUME LkAssumed, LkInv, NEW s \in Sockets, NEW pk \in PlacedAt(s), Note(s, pk)
  PROVE  /\ \A t \in Sockets : t # s => routes'[t] = routes[t]
         /\ \A p \in Records(s) : p \in Records(s)' \/ p[1] \in exited
         /\ \A r \in routes'[s] : r \in routes[s] \/ (s \in Routing /\ r.skt \in Routing \X {1})
         /\ s \in Routing /\ pk.tag \in {"link", "fwd_link"} => <<pk.aid, pk.to>> \in Records(s)'
<1>1. /\ pk.tag \in {"fwd_link", "fwd_exit"} => s \in Routing /\ pk.via \in Routing \X {1}
      /\ s \in Routing => pk.tag # "link"
      /\ pk.tag = "fwd_exit" => pk.aid \in exited
  BY DEF PlacedAt, Truthful
<1>2. PICK p : p = <<pk.aid, pk.to>>
  OBVIOUS
<1>3. CASE pk.tag = "fwd_link"
  <2>1. routes' = AddRoute(s, pk.aid, pk.to, pk.via)
    BY <1>3 DEF Note
  <2>2. /\ Records(s)' = Records(s) \cup {p}
        /\ \A t \in Sockets : t # s => routes'[t] = routes[t]
        /\ \A r \in routes'[s] : r \in routes[s] \/ r.skt = pk.via
    BY <1>2, <2>1, RecordsKept
  <2>3. QED
    BY <1>1, <1>2, <1>3, <2>2
<1>4. CASE pk.tag = "fwd_exit"
  <2>1. routes' = RemoveRoute(s, pk.aid, pk.to)
    BY <1>4 DEF Note
  <2>2. /\ Records(s)' = Records(s) \ {p}
        /\ \A t \in Sockets : t # s => routes'[t] = routes[t]
        /\ routes'[s] \subseteq routes[s]
    BY <1>2, <2>1, RecordsKept
  <2>3. p[1] \in exited
    BY <1>1, <1>2, <1>4
  <2>4. QED
    BY <1>4, <2>2, <2>3
<1>5. CASE pk.tag \notin {"fwd_link", "fwd_exit"}
  <2>1. routes' = routes
    BY <1>5 DEF Note
  <2>2. Records(s)' = Records(s)
    BY <2>1 DEF Records
  <2>3. QED
    BY <1>1, <1>5, <2>1, <2>2
<1>6. QED
  BY <1>3, <1>4, <1>5

\* What a step of routes may do: other sockets keep theirs, and s loses a record only of one
\* who has exited.
LEMMA LastsIf ==
  ASSUME LkAssumed, Grows, NEW s \in Sockets,
         \A t \in Sockets : t # s => routes'[t] = routes[t],
         \A p \in Records(s) : p \in Records(s)' \/ p[1] \in exited
  PROVE  /\ Lasts
         /\ \A t \in Routing : \A p \in Records(t) : p \in Records(t)' \/ p[1] \in exited'
<1>1. ASSUME NEW t \in Routing, NEW p \in Records(t)
      PROVE  p \in Records(t)' \/ p[1] \in exited
  <2>1. CASE t = s
    BY <2>1
  <2>2. CASE t # s
    <3>1. routes'[t] = routes[t]
      BY <2>2, OneWay
    <3>2. QED
      BY <3>1 DEF Records
  <2>3. QED
    BY <2>1, <2>2
<1>2. exited \subseteq exited'
  BY DEF Grows
<1>3. QED
  BY <1>1, <1>2 DEF Lasts

\* A socket sends one pack more: it is right at the other end.
LEMMA PassingOne ==
  ASSUME LkAssumed, LkInv, WayInv, Lasts, NEW n,
         \A x \in Sockets : n[x] \in Seq(PassingAt(x)) /\ x \in DOMAIN n,
         NEW y \in Sockets, NEW u \in PassingAt(y)',
         net' = [n EXCEPT ![y] = Append(n[y], u)], UNCHANGED cache
  PROVE  PassingOK'
<1>1. \A x \in Sockets : cache'[x] = <<>>
  BY DEF WayInv, PassingOK
<1>2. \A x \in Sockets : n[x] \in Seq(PassingAt(x)')
  BY PlacesStay
<1>3. Append(n[y], u) \in Seq(PassingAt(y)')
  BY <1>2
<1>4. \A x \in Sockets : net'[x] = IF x = y THEN Append(n[y], u) ELSE n[x]
  OBVIOUS
<1>5. \A x \in Sockets : net'[x] \in Seq(PassingAt(x)')
  BY <1>2, <1>3, <1>4
<1>6. QED
  BY <1>1, <1>5, Fixed DEF PassingOK

LEMMA SocketRecvRt ==
  ASSUME LkAssumed, LkInv, WayInv, ~Failed, NEW s \in Sockets, SocketRecv(s)
  PROVE  WayInv'
<1>1. /\ strand[s] # <<>>
      /\ UNCHANGED <<sid, link_list, aborted, breaks, links, exited>>
  BY DEF SocketRecv, actorVars
<1>2. Grows
  BY <1>1 DEF Grows, Failed, Known, Aids
<1>3. PICK pk : pk = Head(strand[s])
  OBVIOUS
<1>4. PICK u : u = Unwrapped(pk)
  OBVIOUS
<1>5. pk \in PlacedAt(s) /\ pk \in Packs /\ pk \in PackSet
  <2>1. strand[s] \in Seq(PlacedAt(s))
    BY DEF WayInv, PlacedOK
  <2>2. pk \in PlacedAt(s)
    BY <1>1, <1>3, <2>1
  <2>3. pk \in PacksAt(s)
    BY <1>1, <1>2, <1>3, TakeOne
  <2>4. QED
    BY <2>2, <2>3 DEF PacksAt, PlacedAt
<1>6. /\ u \in Packs /\ u \in PackSet /\ u.how = pk.how /\ u.aid = pk.aid /\ u.to = pk.to
      /\ u.tag \in {"link", "exit", "aid"}
      /\ u.tag = "link" <=> pk.tag \in {"link", "fwd_link"}
      /\ u.tag = "exit" <=> pk.tag \in {"exit", "fwd_exit"}
  BY <1>4, <1>5, Bare, Rewrapped
<1>7. CheckSkt(pk.skt)
  <2>1. PICK x \in Sockets : pk.skt = <<x, 1>>
    BY <1>5 DEF PlacedAt
  <2>2. SktAid(x) = <<x, 1>>
    BY Smooth
  <2>3. QED
    BY <2>1, <2>2 DEF CheckSkt
<1>8. /\ strand' = [strand EXCEPT ![s] = Tail(@)] /\ Note(s, pk)
      /\ net' = NetWith(net, s, u) /\ cache' = CacheWith(s, u)
  BY <1>3, <1>4, <1>7 DEF SocketRecv
<1>9. net' = [net EXCEPT ![Peer[s]] = Append(net[Peer[s]], u)] /\ UNCHANGED cache
  <2>1. net \in [Sockets -> Seq(Packs)]
    BY DEF LkInv, SentOK
  <2>2. QED
    BY <1>6, <1>8, <2>1, Smooth
<1>10. /\ \A t \in Sockets : t # s => routes'[t] = routes[t]
       /\ \A p \in Records(s) : p \in Records(s)' \/ p[1] \in exited
       /\ \A r \in routes'[s] : r \in routes[s] \/ (s \in Routing /\ r.skt \in Routing \X {1})
       /\ s \in Routing /\ pk.tag \in {"link", "fwd_link"} => <<pk.aid, pk.to>> \in Records(s)'
  BY <1>5, <1>8, NoteRt
<1>11. /\ Lasts
       /\ \A t \in Routing : \A p \in Records(t) : p \in Records(t)' \/ p[1] \in exited'
  BY <1>2, <1>10, LastsIf
<1>12. PlacedOK' /\ strand'[s] = Tail(strand[s])
       /\ \A x \in Objects \cup Sockets : x # s => strand'[x] = strand[x]
  BY <1>1, <1>8, <1>11, SortedRest, SortedOK
<1>13. PICK y \in Sockets : y = Peer[s] /\ Peer[y] = s
  BY OneWay
<1>14. PassingOK'
  <2>1. Truthful(u)'
    <3>1. Truthful(pk)'
      BY <1>5, <1>11, PlacesStay DEF PlacedAt
    <3>2. QED
      BY <1>6, <3>1 DEF Truthful
  <2>2. ASSUME NEW t \in Routing, y = Peer[t]
        PROVE  Recorded(u, t)'
    <3>1. t = s
      BY <1>13, <2>2, OneWay
    <3>2. QED
      BY <1>6, <1>10, <3>1 DEF Recorded
  <2>3. u \in PassingAt(y)'
    BY <1>6, <2>1, <2>2, Fixed DEF PassingAt
  <2>4. \A x \in Sockets : net[x] \in Seq(PassingAt(x)) /\ x \in DOMAIN net
    BY DEF WayInv, PassingOK, LkInv, SentOK
  <2>5. QED
    BY <1>9, <1>11, <1>13, <2>3, <2>4, PassingOne
<1>15. RecordsOK'
  <2>1. ASSUME NEW t \in Sockets, NEW r \in routes'[t]
        PROVE  t \in Routing /\ r.skt \in Routing \X {1}
    <3>1. r \in routes[t] \/ (t \in Routing /\ r.skt \in Routing \X {1})
      BY <1>10, <2>1
    <3>2. QED
      BY <3>1 DEF WayInv, RecordsOK
  <2>2. QED
    BY <2>1, Fixed DEF RecordsOK
<1>16. KeptOK' /\ \A t : Kept(t)' = Kept(t)
  BY <1>1, <1>11, RouterPartsStay
<1>17. ASSUME NEW t \in Routing
       PROVE  Way(net[t], strand[Peer[t]], Records(t), exited, Kept(Peer[t]))'
  <2>1. CASE Peer[t] = s
    <3>1. s \notin Routing /\ t # s /\ t = y /\ t \in Sockets
      BY <1>13, <2>1, OneWay
    <3>2. u.tag = pk.tag
      BY <1>5, <1>6, <3>1 DEF PlacedAt, PackSet
    <3>3. net'[t] = Append(net[t], u) /\ strand'[Peer[t]] = Tail(strand[Peer[t]])
      <4>1. t \in DOMAIN net
        BY <3>1 DEF LkInv, SentOK
      <4>2. QED
        BY <1>9, <1>12, <1>13, <2>1, <3>1, <4>1
    <3>4. PICK N, S, R, Y : N = net[t] /\ S = strand[Peer[t]] /\ R = Records(t) /\ Y = Kept(Peer[t])
      OBVIOUS
    <3>5. Way(N, S, R, exited, Y)
      BY <3>4 DEF WayInv, WaysOK
    <3>6. N \in Seq(PackSet) /\ S \in Seq(PackSet)
      <4>1. net[t] \in Seq(PassingAt(t)) /\ PassingAt(t) \subseteq PackSet
        BY <3>1 DEF WayInv, PassingOK, PassingAt
      <4>2. strand[s] \in Seq(PlacedAt(s)) /\ PlacedAt(s) \subseteq PackSet
        BY DEF WayInv, PlacedOK, PlacedAt
      <4>3. QED
        BY <2>1, <3>4, <4>1, <4>2
    <3>7. S # <<>> /\ u.tag = Head(S).tag /\ u.how = Head(S).how /\ u.to = Head(S).to /\ u.aid = Head(S).aid
      BY <1>1, <1>3, <1>6, <2>1, <3>2, <3>4
    <3>8. Way(Append(N, u), Tail(S), R, exited, Y)
      BY <3>5, <3>6, <3>7, WayPass
    <3>9. Records(t)' = R /\ exited' = exited /\ Kept(Peer[t])' = Y
      <4>1. routes'[t] = routes[t]
        BY <1>10, <3>1
      <4>2. QED
        BY <1>1, <1>16, <3>4, <4>1 DEF Records
    <3>10. QED
      BY <3>3, <3>4, <3>8, <3>9
  <2>2. CASE Peer[t] # s
    <3>1. Peer[t] \in Sockets /\ t \in Sockets /\ t # Peer[s]
      BY <2>2, OneWay
    <3>2. strand'[Peer[t]] = strand[Peer[t]]
      BY <1>12, <2>2, <3>1
    <3>3. net'[t] = net[t]
      <4>1. t \in DOMAIN net
        BY <3>1 DEF LkInv, SentOK
      <4>2. QED
        BY <1>9, <3>1, <4>1
    <3>4. \A p \in Kept(Peer[t])' : p \in Kept(Peer[t])
      BY <1>16
    <3>5. QED
      BY <1>11, <3>2, <3>3, <3>4, WaysStay
  <2>3. QED
    BY <2>1, <2>2
<1>18. WaysOK'
  BY <1>17 DEF WaysOK
<1>19. QED
  BY <1>12, <1>14, <1>15, <1>16, <1>18 DEF WayInv

-----------------------------------------------------------------------------
\* What a socket that handles a message has taken.
Taken(s, pk, rest) ==
  /\ NetStep(s, pk, rest) /\ net[s] # <<>>
  /\ pk = Head(net[s]) /\ rest = [net EXCEPT ![s] = Tail(net[s])]

LEMMA TakenRt ==
  ASSUME LkAssumed, LkInv, WayInv, NEW s, NEW pk, NEW rest, Taken(s, pk, rest)
  PROVE  /\ s \in Sockets /\ pk \in PassingAt(s) /\ pk \in PackSet /\ pk \in Packs
         /\ pk.tag \in {"link", "exit", "aid"} /\ Truthful(pk)
         /\ pk.aid \in Aids /\ pk.to \in Aids /\ pk.to[1] \in Objects
         /\ \A x \in Sockets : rest[x] \in Seq(PassingAt(x)) /\ x \in DOMAIN rest
         /\ rest[s] = Tail(net[s]) /\ \A x \in Sockets : x # s => rest[x] = net[x]
<1>1. s \in Sockets /\ pk \in Packs /\ net[s] # <<>> /\ pk = Head(net[s]) /\ rest = [net EXCEPT ![s] = Tail(net[s])]
  BY DEF Taken, NetStep
<1>2. \A x \in Sockets : net[x] \in Seq(PassingAt(x)) /\ x \in DOMAIN net
  BY DEF WayInv, PassingOK, LkInv, SentOK
<1>3. net[s] \in Seq(PassingAt(s))
  BY <1>1, <1>2
<1>4. pk \in PassingAt(s) /\ Tail(net[s]) \in Seq(PassingAt(s))
  BY <1>1, <1>3
<1>5. rest[s] = Tail(net[s]) /\ \A x \in Sockets : x # s => rest[x] = net[x]
  BY <1>1, <1>2
<1>6. \A x \in Sockets : x \in DOMAIN rest
  BY <1>1, <1>2
<1>7. \A x \in Sockets : rest[x] \in Seq(PassingAt(x)) /\ x \in DOMAIN rest
  BY <1>2, <1>4, <1>5, <1>6
<1>8. pk \in PackSet /\ pk.tag \in {"link", "exit", "aid"} /\ Truthful(pk)
  BY <1>4 DEF PassingAt
<1>9. pk.aid \in Aids /\ pk.to \in Aids
  BY <1>8 DEF PackSet
<1>10. pk.to[1] \in Objects
  BY <1>9, AidPairs
<1>11. QED
  BY <1>1, <1>4, <1>5, <1>7, <1>8, <1>9, <1>10

\* What is left to come to the sockets is right.
LEMMA RestPasses ==
  ASSUME LkAssumed, LkInv, WayInv, Lasts, NEW s, NEW pk, NEW rest, Taken(s, pk, rest),
         net' = rest, UNCHANGED cache
  PROVE  PassingOK'
<1>1. \A x \in Sockets : rest[x] \in Seq(PassingAt(x))
  BY TakenRt
<1>2. \A x \in Sockets : net'[x] \in Seq(PassingAt(x)')
  BY <1>1, PlacesStay
<1>3. \A x \in Sockets : cache'[x] = <<>>
  BY DEF WayInv, PassingOK
<1>4. QED
  BY <1>2, <1>3, Fixed DEF PassingOK

\* The router's socket that has read the message of the record p.
LEMMA ReadRt ==
  ASSUME LkAssumed, LkInv, WayInv, NEW s \in Routing, NEW pk, NEW rest, Taken(s, pk, rest),
         NEW R2, Records(s) \subseteq R2 \cup {Ends(pk)},
         ~IsExit(pk) => Records(s) \subseteq R2,
         pk.tag = "link" /\ pk.how = "linked" => Ends(pk) \in R2
  PROVE  Way(rest[s], strand[Peer[s]], R2, exited, Kept(Peer[s]))
<1>1. PICK N, S, R, Y : N = net[s] /\ S = strand[Peer[s]] /\ R = Records(s) /\ Y = Kept(Peer[s])
  OBVIOUS
<1>2. Way(N, S, R, exited, Y)
  BY <1>1 DEF WayInv, WaysOK
<1>3. s \in Sockets /\ rest[s] = Tail(N) /\ Truthful(pk) /\ pk \in PackSet
  BY <1>1, TakenRt
<1>4. N \in Seq(PackSet)
  <2>1. net[s] \in Seq(PassingAt(s)) /\ PassingAt(s) \subseteq PackSet
    BY <1>3 DEF WayInv, PassingOK, PassingAt
  <2>2. QED
    BY <1>1, <2>1
<1>5. N # <<>> /\ N[1] = pk
  <2>1. N # <<>> /\ pk = Head(N)
    BY <1>1 DEF Taken
  <2>2. QED
    BY <1>4, <2>1
<1>6. IsExit(pk) => Ends(pk) \notin Y
  <2>1. SUFFICES ASSUME IsExit(pk), Ends(pk) \in Y
                 PROVE  FALSE
    OBVIOUS
  <2>2. pk.aid \in exited
    BY <1>3, <2>1 DEF IsExit, Truthful
  <2>3. pk.aid[2] < sid[pk.aid[1]] /\ pk.aid \in Aids
    BY <2>2 DEF WayInv, KeptOK
  <2>4. PICK p : p = Ends(pk)
    OBVIOUS
  <2>5. p[2] = Aid(p[2][1]) /\ p[2] = pk.aid
    BY <1>1, <2>1, <2>4 DEF Kept, Ends
  <2>6. pk.aid[2] = sid[pk.aid[1]]
    BY <2>5 DEF Aid
  <2>7. sid[pk.aid[1]] \in Nat
    <3>1. pk.aid[1] \in Objects
      BY <2>3, AidPairs
    <3>2. QED
      BY <3>1 DEF LkInv, ObjectsOK
  <2>8. QED
    BY <2>3, <2>6, <2>7
<1>7. /\ R \subseteq R2 \cup {Ends(N[1])}
      /\ IsExit(N[1]) => Ends(N[1]) \notin Y
      /\ ~IsExit(N[1]) => R \subseteq R2
      /\ N[1].tag = "link" /\ N[1].how = "linked" => Ends(N[1]) \in R2
  BY <1>1, <1>5, <1>6
<1>8. Way(Tail(N), S, R2, exited, Y)
  BY <1>2, <1>4, <1>5, <1>7, WayRead
<1>9. QED
  BY <1>1, <1>3, <1>8

\* A socket that is no router's hands the pack to its actor, or answers.
LEMMA FromNetRt ==
  ASSUME LkAssumed, LkInv, WayInv, ~Failed, NEW s, NEW pk, NEW rest, Taken(s, pk, rest),
         s \notin Routing, FromNet(s, pk, rest), UNCHANGED aborted
  PROVE  WayInv'
<1>1. net' = rest /\ UNCHANGED <<sid, link_list, links, exited, routes, cache>>
  BY DEF Taken, NetStep, FromNet
<1>2. /\ s \in Sockets /\ pk \in PassingAt(s) /\ pk \in PackSet /\ pk \in Packs
      /\ pk.tag \in {"link", "exit", "aid"} /\ Truthful(pk)
      /\ pk.aid \in Aids /\ pk.to \in Aids /\ pk.to[1] \in Objects
      /\ \A x \in Sockets : rest[x] \in Seq(PassingAt(x)) /\ x \in DOMAIN rest
      /\ rest[s] = Tail(net[s]) /\ \A x \in Sockets : x # s => rest[x] = net[x]
  BY TakenRt
<1>3. Grows
  BY NetGrows DEF Taken
<1>4. Lasts
  BY <1>1, <1>3 DEF Lasts, Records
<1>5. RecordsOK' /\ KeptOK' /\ \A t : Kept(t)' = Kept(t)
  BY <1>1, <1>4, RouterPartsStay
<1>6. SktAid(s) = <<s, 1>> /\ <<s, 1>> \in SktIds
  BY <1>2, Smooth, OneWay
<1>7. PassingOK'
  BY <1>1, <1>4, RestPasses
<1>10. ASSUME NEW t \in Routing, Way(net[t], strand'[Peer[t]], Records(t), exited, Kept(Peer[t]))
       PROVE  Way(net[t], strand[Peer[t]], Records(t), exited, Kept(Peer[t]))'
  <2>1. net'[t] = net[t] /\ Records(t)' = Records(t) /\ Kept(Peer[t])' = Kept(Peer[t]) /\ exited' = exited
    BY <1>1, <1>2, <1>5, OneWay DEF Records
  <2>2. QED
    BY <1>10, <2>1
<1>11. \A t \in Routing : Way(net[t], strand[Peer[t]], Records(t), exited, Kept(Peer[t]))
  BY DEF WayInv, WaysOK
<1>8. CASE Check(pk.to)
  <2>1. PICK q, o : q = [pk EXCEPT !.skt = <<s, 1>>] /\ o = pk.to[1]
    OBVIOUS
  <2>2. strand' = PostTo(strand, o, q)
    BY <1>6, <1>8, <2>1 DEF FromNet
  <2>3. /\ q \in PackSet /\ q.tag = pk.tag /\ q.how = pk.how /\ q.aid = pk.aid /\ q.to = pk.to
        /\ q.skt = <<s, 1>>
    <3>1. PICK skt \in SktIds : skt = <<s, 1>>
      BY <1>6
    <3>2. q = [pk EXCEPT !.skt = skt]
      BY <2>1, <3>1
    <3>3. /\ q \in PackSet /\ q.tag = pk.tag /\ q.how = pk.how /\ q.aid = pk.aid /\ q.to = pk.to
          /\ q.skt = skt
      BY <1>2, <3>2, Handed
    <3>4. QED
      BY <3>1, <3>3
  <2>4. o \in Objects /\ o \notin Sockets /\ o \notin Routing
    BY <1>2, <2>1, OneWay
  <2>5. q \in PlacedAt(o)'
    <3>1. Truthful(q)'
      <4>1. Truthful(pk)'
        BY <1>2, <1>4, PlacesStay
      <4>2. QED
        BY <2>3, <4>1 DEF Truthful
    <3>2. ASSUME NEW t \in Routing, q.skt = <<Peer[t], 1>>
          PROVE  Recorded(q, t)'
      <4>1. s = Peer[t]
        BY <2>3, <3>2
      <4>2. Recorded(pk, t)
        BY <1>2, <4>1 DEF PassingAt
      <4>3. Recorded(pk, t)'
        BY <1>4, <4>2, PlacesStay
      <4>4. QED
        BY <2>3, <4>3 DEF Recorded
    <3>3. q.skt \in Sockets \X {1}
      BY <1>2, <2>3
    <3>4. q.tag \in {"link", "exit", "aid"}
      BY <1>2, <2>3
    <3>5. QED
      BY <2>3, <2>4, <3>1, <3>2, <3>3, <3>4, Fixed DEF PlacedAt
  <2>6. PlacedOK'
    BY <1>4, <2>2, <2>5, SortedNow, SortedOne, SortedOK
  <2>8. WaysOK'
    <3>1. ASSUME NEW t \in Routing
          PROVE  Way(net[t], strand[Peer[t]], Records(t), exited, Kept(Peer[t]))'
      <4>2. strand = [x \in Objects \cup Sockets |-> strand[x]]
        BY DEF LkInv, PostedOK
      <4>3. Peer[t] \in Objects \cup Sockets /\ Peer[t] # o
        BY <2>4, OneWay
      <4>4. strand'[Peer[t]] = strand[Peer[t]]
        BY <2>2, <4>2, <4>3, PostedThere
      <4>5. QED
        BY <1>10, <1>11, <4>4
    <3>2. QED
      BY <3>1 DEF WaysOK
  <2>9. QED
    BY <1>5, <1>7, <2>6, <2>8 DEF WayInv
<1>9. CASE ~Check(pk.to)
  <2>1. strand' = strand \/ strand' = Answered(Ctx[s], strand, pk)
    BY <1>9 DEF FromNet
  <2>2. Sorted(strand)
    BY <1>4, SortedNow
  <2>3. /\ Sorted(strand')
        /\ \A t \in Routing : \A N, R, X, Y :
             strand[Peer[t]] = strand[Peer[t]] /\ Way(N, strand[Peer[t]], R, X, Y) => Way(N, strand'[Peer[t]], R, X, Y)
    <3>1. CASE strand' = strand
      BY <2>2, <3>1
    <3>2. CASE strand' = Answered(Ctx[s], strand, pk)
      BY <1>2, <1>4, <2>2, <3>2, AnswerRt
    <3>3. QED
      BY <2>1, <3>1, <3>2
  <2>4. PlacedOK'
    BY <2>3, SortedOK
  <2>5. WaysOK'
    BY <1>10, <1>11, <2>3 DEF WaysOK
  <2>6. QED
    BY <1>5, <1>7, <2>4, <2>5 DEF WayInv
<1>12. QED
  BY <1>8, <1>9

\* A router passes a link on with its record made,
LEMMA RouteLinkRt ==
  ASSUME LkAssumed, LkInv, WayInv, ~Failed, NEW s \in Routing, NEW pk, NEW rest,
         Taken(s, pk, rest), RouteLink(s, pk, rest)
  PROVE  WayInv' /\ UNCHANGED aborted
<1>1. /\ pk.tag = "link"
      /\ UNCHANGED <<sid, link_list, links, exited, aborted>>
  BY DEF Taken, NetStep, RouteLink
<1>2. /\ s \in Sockets /\ pk \in PackSet /\ pk \in Packs
      /\ \A x \in Sockets : rest[x] \in Seq(PassingAt(x)) /\ x \in DOMAIN rest
      /\ rest[s] = Tail(net[s]) /\ \A x \in Sockets : x # s => rest[x] = net[x]
  BY TakenRt
<1>3. Grows
  BY <1>1, NetGrows DEF Taken
<1>4. PICK x : x = Route[<<Ctx[s], Ctx[pk.to[1]]>>]
  OBVIOUS
<1>5. x \in Routing /\ x \in Sockets
  <2>1. PICK p : p = <<pk.aid[1], pk.to[1]>>
    OBVIOUS
  <2>2. p[2] = pk.to[1] /\ p \in MayLink
    BY <1>1, <1>2, <2>1 DEF Packs
  <2>3. x \in Routing
    BY <1>4, <2>2, LkRoutes
  <2>4. QED
    BY <2>3, OneWay
<1>6. PICK skt \in SktIds : skt = <<x, 1>>
  BY <1>5, OneWay
<1>7. PICK via \in SktIds : via = <<s, 1>>
  BY <1>2, OneWay
<1>8. /\ SelectJointSocket(Ctx[s], Ctx[pk.to[1]]) = skt /\ skt # NoSkt /\ SktAid(s) = via
      /\ skt[1] = x /\ skt \in Routing \X {1} /\ via \in Routing \X {1} /\ skt \in Sockets \X {1}
  <2>1. SelectJointSocket(Ctx[s], Ctx[pk.to[1]]) = <<x, 1>>
    BY <1>4, <1>5, Selected DEF Found
  <2>2. QED
    BY <1>2, <1>5, <1>6, <1>7, <2>1, Smooth, OneWay
<1>9. PICK q : q = Fwd(pk, skt, via)
  OBVIOUS
<1>10. /\ strand' = PostTo(strand, x, q)
       /\ routes' = IF pk.how = "linked" THEN AddRoute(s, pk.to, pk.aid, skt) ELSE routes
       /\ net' = rest /\ UNCHANGED cache
  BY <1>8, <1>9 DEF RouteLink, Taken, NetStep
<1>11. q \in PackSet /\ q.skt = skt /\ q.via = via /\ q.tag = "fwd_link"
  BY <1>1, <1>2, <1>9, Wrapped
<1>12. q \in PlacedAt(x)'
  <2>1. Truthful(q)'
    BY <1>11 DEF Truthful
  <2>2. x \notin Objects
    BY <1>5, OneWay
  <2>3. QED
    BY <1>5, <1>8, <1>11, <2>1, <2>2, Fixed DEF PlacedAt
<1>13. PICK p : p = Ends(pk)
  OBVIOUS
<1>14. /\ \A t \in Sockets : t # s => routes'[t] = routes[t]
       /\ Records(s) \subseteq Records(s)'
       /\ pk.how = "linked" => p \in Records(s)'
       /\ \A r \in routes'[s] : r \in routes[s] \/ r.skt = skt
  <2>1. CASE pk.how = "linked"
    <3>1. p = <<pk.to, pk.aid>> /\ routes' = AddRoute(s, pk.to, pk.aid, skt)
      BY <1>10, <1>13, <2>1 DEF Ends
    <3>2. /\ Records(s)' = Records(s) \cup {p}
          /\ \A t \in Sockets : t # s => routes'[t] = routes[t]
          /\ \A r \in routes'[s] : r \in routes[s] \/ r.skt = skt
      BY <1>2, <3>1, RecordsKept
    <3>3. QED
      BY <3>2
  <2>2. CASE pk.how # "linked"
    BY <1>10, <2>2 DEF Records
  <2>3. QED
    BY <2>1, <2>2
<1>15. /\ Lasts
       /\ \A t \in Routing : \A d \in Records(t) : d \in Records(t)' \/ d[1] \in exited'
  BY <1>2, <1>3, <1>14, LastsIf
<1>16. PlacedOK'
  BY <1>10, <1>12, <1>15, SortedNow, SortedOne, SortedOK
<1>17. PassingOK'
  BY <1>10, <1>15, RestPasses
<1>18. RecordsOK'
  <2>1. ASSUME NEW t \in Sockets, NEW r \in routes'[t]
        PROVE  t \in Routing /\ r.skt \in Routing \X {1}
    <3>1. r \in routes[t] \/ (t \in Routing /\ r.skt \in Routing \X {1})
      BY <1>8, <1>14, <2>1
    <3>2. QED
      BY <3>1 DEF WayInv, RecordsOK
  <2>2. QED
    BY <2>1, Fixed DEF RecordsOK
<1>19. KeptOK' /\ \A t : Kept(t)' = Kept(t)
  BY <1>1, <1>15, RouterPartsStay
<1>20. ASSUME NEW t \in Routing
       PROVE  Way(net[t], strand[Peer[t]], Records(t), exited, Kept(Peer[t]))'
  <2>1. strand'[Peer[t]] = strand[Peer[t]]
    <3>1. strand = [z \in Objects \cup Sockets |-> strand[z]]
      BY DEF LkInv, PostedOK
    <3>2. Peer[t] \in Objects \cup Sockets /\ Peer[t] # x
      BY <1>5, OneWay
    <3>3. QED
      BY <1>10, <3>1, <3>2, PostedThere
  <2>2. \A d \in Kept(Peer[t])' : d \in Kept(Peer[t])
    BY <1>19
  <2>3. CASE t = s
    <3>1. PICK R2 : R2 = Records(s)'
      OBVIOUS
    <3>2. ~IsExit(pk)
      BY <1>1 DEF IsExit
    <3>3. /\ Records(s) \subseteq R2
          /\ pk.how = "linked" => Ends(pk) \in R2
      BY <1>13, <1>14, <3>1
    <3>4. Way(rest[s], strand[Peer[s]], R2, exited, Kept(Peer[s]))
      BY <3>2, <3>3, ReadRt
    <3>5. net'[t] = rest[s] /\ Kept(Peer[t])' = Kept(Peer[s]) /\ exited' = exited
      BY <1>1, <1>10, <1>19, <2>3
    <3>6. QED
      BY <2>1, <2>3, <3>1, <3>4, <3>5
  <2>4. CASE t # s
    <3>1. net'[t] = net[t]
      BY <1>2, <1>10, <2>4, OneWay
    <3>2. QED
      BY <1>15, <2>1, <2>2, <3>1, WaysStay
  <2>5. QED
    BY <2>3, <2>4
<1>21. WaysOK'
  BY <1>20 DEF WaysOK
<1>22. QED
  BY <1>1, <1>16, <1>17, <1>18, <1>19, <1>21 DEF WayInv

\* passes an answer on, if a socket of its leads there,
LEMMA RouteAlreadyRt ==
  ASSUME LkAssumed, LkInv, WayInv, ~Failed, NEW s \in Routing, NEW pk, NEW rest,
         Taken(s, pk, rest), RouteAlready(s, pk, rest)
  PROVE  WayInv' /\ UNCHANGED aborted
<1>1. /\ pk.tag = "aid" /\ net' = rest
      /\ UNCHANGED <<sid, link_list, links, exited, aborted, routes, cache>>
  BY DEF Taken, NetStep, RouteAlready
<1>2. /\ s \in Sockets /\ pk \in PackSet /\ pk \in Packs /\ pk.to[1] \in Objects
      /\ \A x \in Sockets : rest[x] \in Seq(PassingAt(x)) /\ x \in DOMAIN rest
      /\ rest[s] = Tail(net[s]) /\ \A x \in Sockets : x # s => rest[x] = net[x]
  BY TakenRt
<1>3. Grows
  BY <1>1, NetGrows DEF Taken
<1>4. Lasts
  BY <1>1, <1>3 DEF Lasts, Records
<1>5. RecordsOK' /\ KeptOK' /\ \A t : Kept(t)' = Kept(t)
  BY <1>1, <1>4, RouterPartsStay
<1>6. PassingOK'
  BY <1>1, <1>4, RestPasses
<1>8. PICK skt : skt = SelectJointSocket(Ctx[s], Ctx[pk.to[1]])
  OBVIOUS
<1>9. strand' = IF skt = NoSkt THEN strand ELSE PostTo(strand, skt[1], [pk EXCEPT !.skt = skt])
  BY <1>8 DEF RouteAlready
<1>10. skt # NoSkt => skt \in SktIds /\ skt[1] \in Sockets /\ skt \in Sockets \X {1}
  BY <1>8, Selected, LkRoutes DEF Found
<1>11. ASSUME NEW t \in Routing
       PROVE  Way(net'[t], strand[Peer[t]], Records(t), exited, Kept(Peer[t]))
  <2>1. CASE t = s
    <3>1. ~IsExit(pk) /\ pk.tag # "link"
      BY <1>1 DEF IsExit
    <3>2. PICK R2 : R2 = Records(s)
      OBVIOUS
    <3>3. Way(rest[s], strand[Peer[s]], R2, exited, Kept(Peer[s]))
      BY <3>1, <3>2, ReadRt
    <3>4. QED
      BY <1>1, <2>1, <3>2, <3>3
  <2>2. CASE t # s
    <3>1. net'[t] = net[t]
      BY <1>1, <1>2, <2>2, OneWay
    <3>2. QED
      BY <3>1 DEF WayInv, WaysOK
  <2>3. QED
    BY <2>1, <2>2
<1>12. Sorted(strand) /\ strand = [z \in Objects \cup Sockets |-> strand[z]]
  BY <1>4, SortedNow DEF Sorted
<1>13. /\ Sorted(strand')
       /\ \A t \in Routing : Way(net'[t], strand'[Peer[t]], Records(t), exited, Kept(Peer[t]))
  <2>1. CASE skt = NoSkt
    BY <1>9, <1>11, <1>12, <2>1
  <2>2. PICK q : q = [pk EXCEPT !.skt = skt]
    OBVIOUS
  <2>3. CASE skt # NoSkt
    <3>1. PICK x \in Sockets : x = skt[1]
      BY <1>10, <2>3
    <3>2. skt \in SktIds /\ skt[1] = x /\ skt \in Sockets \X {1} /\ x \notin Objects
      BY <1>10, <2>3, <3>1, OneWay
    <3>3. q \in PackSet /\ q.tag = "aid" /\ q.skt \in Sockets \X {1}
      BY <1>1, <1>2, <2>2, <3>2, Handed
    <3>4. strand' = PostTo(strand, x, q)
      BY <1>9, <2>2, <2>3, <3>2
    <3>5. ASSUME NEW t \in Routing
          PROVE  Way(net'[t], strand'[Peer[t]], Records(t), exited, Kept(Peer[t]))
      <4>1. PICK N, R, X, Y : N = net'[t] /\ R = Records(t) /\ X = exited /\ Y = Kept(Peer[t])
        OBVIOUS
      <4>2. Way(N, strand[Peer[t]], R, X, Y)
        BY <1>11, <4>1
      <4>3. Way(N, PostTo(strand, x, q)[Peer[t]], R, X, Y)
        BY <1>4, <1>12, <3>3, <4>2, AnswerPosted
      <4>4. QED
        BY <3>4, <4>1, <4>3
    <3>6. Sorted(strand')
      <4>1. q \in PlacedAt(x)'
        BY <3>2, <3>3, AnswerPlaced
      <4>2. QED
        BY <1>12, <3>4, <4>1, SortedOne
    <3>7. QED
      BY <3>5, <3>6
  <2>4. QED
    BY <2>1, <2>3
<1>14. PlacedOK'
  BY <1>13, SortedOK
<1>15. WaysOK'
  <2>1. ASSUME NEW t \in Routing
        PROVE  Way(net[t], strand[Peer[t]], Records(t), exited, Kept(Peer[t]))'
    <3>1. Records(t)' = Records(t) /\ Kept(Peer[t])' = Kept(Peer[t]) /\ exited' = exited
      BY <1>1, <1>5 DEF Records
    <3>2. Way(net'[t], strand'[Peer[t]], Records(t), exited, Kept(Peer[t]))
      BY <1>13
    <3>3. QED
      BY <3>1, <3>2
  <2>2. QED
    BY <2>1 DEF WaysOK
<1>16. QED
  BY <1>1, <1>5, <1>6, <1>14, <1>15 DEF WayInv

\* and passes an exit on and removes its record. If there is none, both ends have exited.
LEMMA RouteExitRt ==
  ASSUME LkAssumed, LkInv, WayInv, ~Failed, NEW s \in Routing, NEW pk, NEW rest,
         Taken(s, pk, rest), RouteExit(s, pk, rest)
  PROVE  \/ WayInv' /\ UNCHANGED aborted
         \/ aborted' /\ \E l \in links : l[1] \in exited /\ l[2] \in exited
<1>1. /\ pk.tag = "exit" /\ UNCHANGED cache
      /\ UNCHANGED <<sid, link_list, links, exited>>
  BY DEF Taken, NetStep, RouteExit
<1>2. /\ s \in Sockets /\ pk \in PackSet /\ Truthful(pk)
      /\ \A x \in Sockets : rest[x] \in Seq(PassingAt(x)) /\ x \in DOMAIN rest
      /\ rest[s] = Tail(net[s]) /\ \A x \in Sockets : x # s => rest[x] = net[x]
  BY TakenRt
<1>3. pk.aid \in exited /\ Linked(pk.aid, pk.to)
  BY <1>1, <1>2 DEF Truthful
<1>4. PICK p : p = Ends(pk)
  OBVIOUS
<1>5. p = <<pk.to, pk.aid>> /\ p[2] \in exited
  BY <1>3, <1>4 DEF Ends
<1>6. ASSUME NEW r \in RoutesOf(s, pk.to, pk.aid),
             strand' = PostTo(strand, r.skt[1], Fwd(pk, r.skt, SktAid(s))),
             routes' = RemoveRoute(s, pk.to, pk.aid), net' = rest, UNCHANGED aborted
      PROVE  WayInv'
  <2>1. Grows
    BY <1>6, NetGrows DEF Taken
  <2>2. r \in routes[s] /\ r.skt \in Routing \X {1}
    BY <1>2, <1>6 DEF RoutesOf, WayInv, RecordsOK
  <2>3. PICK x \in Routing : r.skt = <<x, 1>>
    BY <2>2
  <2>4. PICK skt \in SktIds : skt = r.skt /\ skt[1] = x /\ skt \in Routing \X {1} /\ skt \in Sockets \X {1}
    <3>1. x \in Sockets /\ <<x, 1>> \in SktIds
      BY OneWay
    <3>2. QED
      BY <2>3, <3>1
  <2>5. PICK via \in SktIds : via = SktAid(s) /\ via \in Routing \X {1}
    <3>1. SktAid(s) = <<s, 1>> /\ <<s, 1>> \in SktIds
      BY <1>2, Smooth, OneWay
    <3>2. QED
      BY <3>1
  <2>6. PICK q : q = Fwd(pk, skt, via)
    OBVIOUS
  <2>7. strand' = PostTo(strand, x, q)
    BY <1>6, <2>4, <2>5, <2>6
  <2>8. q \in PackSet /\ q.aid = pk.aid /\ q.to = pk.to /\ q.skt = skt /\ q.via = via /\ q.tag = "fwd_exit"
    BY <1>1, <1>2, <2>6, Wrapped
  <2>9. /\ Records(s)' = Records(s) \ {p}
        /\ \A t \in Sockets : t # s => routes'[t] = routes[t]
        /\ routes'[s] \subseteq routes[s]
    BY <1>2, <1>5, <1>6, RecordsKept
  <2>10. Lasts
    <3>1. ASSUME NEW t \in Routing, NEW d \in Records(t)
          PROVE  d \in Records(t)' \/ d[1] \in exited \/ d[2] \in exited
      <4>1. CASE t = s
        BY <1>5, <2>9, <4>1
      <4>2. CASE t # s
        <5>1. routes'[t] = routes[t]
          BY <2>9, <4>2, OneWay
        <5>2. QED
          BY <5>1 DEF Records
      <4>3. QED
        BY <4>1, <4>2
    <3>2. QED
      BY <2>1, <3>1 DEF Lasts
  <2>11. q \in PlacedAt(x)'
    <3>1. Truthful(q)'
      <4>1. Truthful(pk)'
        BY <1>2, <2>10, PlacesStay
      <4>2. QED
        BY <1>1, <2>8, <4>1 DEF Truthful
    <3>2. x \notin Objects
      BY OneWay
    <3>3. QED
      BY <2>4, <2>5, <2>8, <3>1, <3>2, Fixed DEF PlacedAt
  <2>12. PlacedOK'
    BY <2>7, <2>10, <2>11, SortedNow, SortedOne, SortedOK
  <2>13. PassingOK'
    BY <1>1, <1>6, <2>10, RestPasses
  <2>14. RecordsOK'
    <3>1. ASSUME NEW t \in Sockets, NEW d \in routes'[t]
          PROVE  t \in Routing /\ d.skt \in Routing \X {1}
      <4>1. d \in routes[t]
        BY <2>9, <3>1
      <4>2. QED
        BY <4>1 DEF WayInv, RecordsOK
    <3>2. QED
      BY <3>1, Fixed DEF RecordsOK
  <2>15. KeptOK' /\ \A t : Kept(t)' = Kept(t)
    BY <1>1, <2>10, RouterPartsStay
  <2>16. ASSUME NEW t \in Routing
         PROVE  Way(net[t], strand[Peer[t]], Records(t), exited, Kept(Peer[t]))'
    <3>1. strand'[Peer[t]] = strand[Peer[t]]
      <4>1. strand = [z \in Objects \cup Sockets |-> strand[z]]
        BY DEF LkInv, PostedOK
      <4>2. Peer[t] \in Objects \cup Sockets /\ Peer[t] # x
        BY OneWay
      <4>3. QED
        BY <2>7, <4>1, <4>2, PostedThere
    <3>2. CASE t = s
      <4>1. PICK R2 : R2 = Records(s)'
        OBVIOUS
      <4>2. IsExit(pk) /\ pk.tag # "link"
        BY <1>1 DEF IsExit
      <4>3. Records(s) \subseteq R2 \cup {Ends(pk)}
        BY <1>4, <2>9, <4>1
      <4>4. Way(rest[s], strand[Peer[s]], R2, exited, Kept(Peer[s]))
        BY <4>2, <4>3, ReadRt
      <4>5. net'[t] = rest[s] /\ Kept(Peer[t])' = Kept(Peer[s]) /\ exited' = exited
        BY <1>1, <1>6, <2>15, <3>2
      <4>6. QED
        BY <3>1, <3>2, <4>1, <4>4, <4>5
    <3>3. CASE t # s
      <4>1. net'[t] = net[t]
        BY <1>2, <1>6, <3>3, OneWay
      <4>2. routes'[t] = routes[t]
        BY <2>9, <3>3, OneWay
      <4>3. Records(t)' = Records(t) /\ \A d \in Kept(Peer[t])' : d \in Kept(Peer[t])
        BY <2>15, <4>2 DEF Records
      <4>4. QED
        BY <2>10, <3>1, <4>1, <4>3, WaysStay
    <3>4. QED
      BY <3>2, <3>3
  <2>17. WaysOK'
    BY <2>16 DEF WaysOK
  <2>18. QED
    BY <2>12, <2>13, <2>14, <2>15, <2>17 DEF WayInv
<1>7. ASSUME RoutesOf(s, pk.to, pk.aid) = {}
      PROVE  \E l \in links : l[1] \in exited /\ l[2] \in exited
  <2>1. p \notin Records(s)
    BY <1>2, <1>5, <1>7, RecordsKept
  <2>2. PICK N, S, R, Y : N = net[s] /\ S = strand[Peer[s]] /\ R = Records(s) /\ Y = Kept(Peer[s])
    OBVIOUS
  <2>3. Way(N, S, R, exited, Y)
    BY <2>2 DEF WayInv, WaysOK
  <2>4. N \in Seq(PackSet)
    <3>1. net[s] \in Seq(PassingAt(s)) /\ PassingAt(s) \subseteq PackSet
      BY <1>2 DEF WayInv, PassingOK, PassingAt
    <3>2. QED
      BY <2>2, <3>1
  <2>5. N[1] = pk /\ 1 \in 1..Len(N)
    <3>1. N # <<>> /\ pk = Head(N)
      BY <2>2 DEF Taken
    <3>2. QED
      BY <2>4, <3>1
  <2>6. IsExit(N[1]) /\ Ends(N[1]) = p
    BY <1>1, <1>4, <2>5 DEF IsExit
  <2>7. Ends(N[1]) \in R \/ N[1].to \in exited \/ Asked(N, 1 - 1, Ends(N[1]))
    BY <2>3, <2>5, <2>6 DEF Way
  <2>8. ~Asked(N, 1 - 1, Ends(N[1]))
    BY DEF Asked
  <2>9. pk.to \in exited
    BY <2>1, <2>2, <2>5, <2>6, <2>7, <2>8
  <2>10. PICK l, k : l = <<pk.aid, pk.to>> /\ k = <<pk.to, pk.aid>>
    OBVIOUS
  <2>11. l \in links \/ k \in links
    BY <1>3, <2>10 DEF Linked
  <2>12. l[1] = pk.aid /\ l[2] = pk.to /\ k[1] = pk.to /\ k[2] = pk.aid
    BY <2>10
  <2>13. QED
    BY <1>3, <2>9, <2>11, <2>12
<1>8. CASE \E r \in RoutesOf(s, pk.to, pk.aid) :
             /\ strand' = PostTo(strand, r.skt[1], Fwd(pk, r.skt, SktAid(s)))
             /\ routes' = RemoveRoute(s, pk.to, pk.aid)
             /\ net' = rest
             /\ UNCHANGED <<aborted, broken, conn, registered>>
  BY <1>6, <1>8
<1>9. CASE RoutesOf(s, pk.to, pk.aid) = {} /\ aborted' = TRUE
  BY <1>7, <1>9
<1>10. QED
  BY <1>8, <1>9 DEF RouteExit

\* Whatever a socket handles.
LEMMA HandleNetMsgRt ==
  ASSUME LkAssumed, LkInv, WayInv, ~Failed, NEW s \in Sockets, HandleNetMsg(s)
  PROVE  \/ WayInv' /\ UNCHANGED aborted
         \/ aborted' /\ \E l \in links : l[1] \in exited /\ l[2] \in exited
<1>1. PICK pk : pk = Head(net[s])
  OBVIOUS
<1>2. PICK rest : rest = [net EXCEPT ![s] = Tail(net[s])]
  OBVIOUS
<1>3. net \in [Sockets -> Seq(Packs)] /\ net[s] # <<>>
  BY DEF LkInv, SentOK, HandleNetMsg
<1>4. net[s] \in Seq(Packs)
  BY <1>3
<1>5. pk \in Packs /\ Tail(net[s]) \in Seq(Packs)
  BY <1>1, <1>3, <1>4
<1>6. rest \in [Sockets -> Seq(Packs)]
  BY <1>2, <1>3, <1>5
<1>7. NetStep(s, pk, rest)
  BY <1>5, <1>6 DEF NetStep, HandleNetMsg, actorVars, historyVars
<1>8. Taken(s, pk, rest)
  BY <1>1, <1>2, <1>3, <1>7 DEF Taken
<1>9. \/ s \in Routing /\ (RouteLink(s, pk, rest) \/ RouteExit(s, pk, rest) \/ RouteAlready(s, pk, rest))
      \/ s \notin Routing /\ FromNet(s, pk, rest) /\ UNCHANGED aborted
  BY <1>1, <1>2 DEF HandleNetMsg
<1>10. QED
  BY <1>8, <1>9, RouteLinkRt, RouteExitRt, RouteAlreadyRt, FromNetRt

\* While every connection is there none is lost or made again.
LEMMA ConnectedRt ==
  ASSUME LkAssumed, LkInv, ~Failed
  PROVE  /\ \A s \in Sockets : ~RecvFails(s) /\ ~Login(s)
         /\ \A c \in Connectors : ~GiveUp(c) /\ ~Reconnect(c)
<1>1. (\A s \in Sockets : conn[s] /\ registered[s]) /\ \A c \in Connectors : ~broken[c]
  BY DEF LkInv, ConnsOK
<1>2. \A s \in Sockets : Wire(s) \in Connectors
  BY LkRoutes
<1>3. Connectors \subseteq Sockets
  BY DEF Sockets
<1>4. QED
  BY <1>1, <1>2, <1>3 DEF RecvFails, Login, GiveUp, Reconnect

\* What has happened has happened.
LEMMA HistoryGrows ==
  ASSUME LkInv, [Next]_vars
  PROVE  /\ links \subseteq links' /\ exited \subseteq exited'
         /\ (breaks > 0 => breaks' > 0) /\ (aborted => aborted')
<1>1. breaks \in Nat
  BY DEF LkInv, ConnsOK
<1>2. ASSUME NEW o \in Objects, Free(o)
      PROVE  links \subseteq links' /\ exited \subseteq exited' /\ UNCHANGED <<breaks, aborted>>
  BY <1>2 DEF Free, netVars
<1>3. ASSUME NEW o \in Objects, UserCode(o) \/ RecvExit(o) \/ HandleRecv(o)
      PROVE  links \subseteq links' /\ exited \subseteq exited' /\ UNCHANGED <<breaks, aborted>>
  <2>1. ASSUME NEW type, NEW a, LinkTo(o, type, a)
        PROVE  links \subseteq links' /\ exited \subseteq exited' /\ UNCHANGED <<breaks, aborted>>
    BY <2>1 DEF LinkTo, netVars
  <2>2. CASE ExitActor(o)
    BY <1>2, <2>2 DEF ExitActor
  <2>3. CASE Spawn(o)
    BY <2>3 DEF Spawn, netVars, historyVars
  <2>4. CASE RecvExit(o)
    BY <1>2, <2>4 DEF RecvExit, netVars
  <2>5. CASE HandleRecv(o)
    BY <2>5 DEF HandleRecv, netVars
  <2>6. QED
    BY <1>3, <2>1, <2>2, <2>3, <2>4, <2>5 DEF UserCode
<1>4. ASSUME NEW s \in Sockets, SocketRecv(s) \/ HandleNetMsg(s) \/ Login(s) \/ RecvFails(s)
      PROVE  UNCHANGED <<links, exited, breaks>> /\ (aborted => aborted')
  <2>1. CASE SocketRecv(s) \/ Login(s) \/ RecvFails(s)
    BY <2>1 DEF SocketRecv, Login, RecvFails, netVars, historyVars
  <2>2. CASE HandleNetMsg(s)
    <3>1. UNCHANGED <<links, exited, breaks>>
      BY <2>2 DEF HandleNetMsg, historyVars
    <3>2. UNCHANGED aborted \/ aborted' = TRUE
      BY <2>2 DEF HandleNetMsg, RouteLink, RouteExit, RouteAlready
    <3>3. QED
      BY <3>1, <3>2
  <2>3. QED
    BY <1>4, <2>1, <2>2
<1>5. ASSUME NEW c \in Connectors, Break(c) \/ GiveUp(c) \/ Reconnect(c)
      PROVE  UNCHANGED <<links, exited, aborted>> /\ breaks' \in {breaks, breaks + 1}
  BY <1>5 DEF Break, GiveUp, Reconnect, netVars, historyVars
<1>6. CASE UNCHANGED vars
  BY <1>6 DEF vars, netVars, historyVars
<1>7. CASE Next
  BY <1>1, <1>3, <1>4, <1>5, <1>7 DEF Next
<1>8. QED
  BY <1>6, <1>7

\* Without a failure, every step keeps the router's records right, or is the first failure
\* of a connection, or the router ends because both ends of a link have exited.
LEMMA SmoothStep ==
  ASSUME LkAssumed, LkInv, WayInv, ~Failed, [Next]_vars
  PROVE  \/ WayInv' /\ UNCHANGED aborted
         \/ aborted' /\ \E l \in links : l[1] \in exited /\ l[2] \in exited
         \/ breaks' > 0
<1>1. ASSUME NEW o \in Objects, UserCode(o) \/ RecvExit(o) \/ HandleRecv(o)
      PROVE  WayInv' /\ UNCHANGED aborted
  <2>1. ASSUME NEW a \in Known, NEW type \in {"linked", "monitored"}, LinkTo(o, type, a)
        PROVE  WayInv' /\ UNCHANGED aborted
    BY <2>1, LinkToRt DEF LinkTo, netVars
  <2>2. CASE ExitActor(o)
    BY <2>2, ExitActorRt DEF ExitActor, Free, netVars
  <2>3. CASE Spawn(o)
    BY <2>3, SpawnRt DEF Spawn, netVars
  <2>4. CASE RecvExit(o)
    <3>1. UNCHANGED aborted
      BY <2>4 DEF RecvExit, Free, netVars
    <3>2. QED
      BY <2>4, <3>1, RecvExitRt
  <2>5. CASE HandleRecv(o)
    BY <2>5, HandleRecvRt DEF HandleRecv, netVars
  <2>6. QED
    BY <1>1, <2>1, <2>2, <2>3, <2>4, <2>5 DEF UserCode
<1>2. ASSUME NEW s \in Sockets, SocketRecv(s)
      PROVE  WayInv' /\ UNCHANGED aborted
  BY <1>2, SocketRecvRt DEF SocketRecv
<1>3. ASSUME NEW c \in Connectors, Break(c)
      PROVE  breaks' > 0
  <2>1. breaks \in Nat /\ breaks' = breaks + 1
    BY <1>3 DEF Break, LkInv, ConnsOK
  <2>2. QED
    BY <2>1
<1>4. CASE UNCHANGED vars
  <2>1. /\ UNCHANGED <<sid, link_list, strand, routes, net, cache, links, exited, aborted>>
        /\ Grows
    BY <1>4 DEF vars, actorVars, socketVars, netVars, historyVars, Grows, Failed, Known, Aids
  <2>2. Lasts
    BY <2>1 DEF Lasts, Records
  <2>3. PassingOK' /\ RecordsOK' /\ KeptOK' /\ \A s : Kept(s)' = Kept(s)
    BY <2>1, <2>2, RouterPartsStay
  <2>4. PlacedOK'
    BY <2>1, <2>2, SortedNow, SortedOK
  <2>5. WaysOK'
    <3>1. ASSUME NEW t \in Routing
          PROVE  Way(net[t], strand[Peer[t]], Records(t), exited, Kept(Peer[t]))'
      BY <2>1, <2>2, <2>3, WaysStay DEF Records
    <3>2. QED
      BY <3>1 DEF WaysOK
  <2>6. QED
    BY <2>1, <2>3, <2>4, <2>5 DEF WayInv
<1>5. CASE Next
  BY <1>1, <1>2, <1>3, <1>5, HandleNetMsgRt, ConnectedRt DEF Next
<1>6. QED
  BY <1>4, <1>5

LEMMA RouterInit ==
  ASSUME LkAssumed, Init
  PROVE  RouterInv
<1>1. RouterKnowsLinks
  BY DEF Init, RouterKnowsLinks
<1>2. \A S : <<>> \in Seq(S)
  OBVIOUS
<1>3. PlacedOK /\ PassingOK
  <2>1. /\ \A x \in Objects \cup Sockets : strand[x] = <<>>
        /\ \A s \in Sockets : cache[s] = <<>> /\ net[s] = <<>>
    BY DEF Init
  <2>2. QED
    BY <1>2, <2>1 DEF PlacedOK, PassingOK
<1>4. RecordsOK /\ KeptOK
  BY DEF Init, RecordsOK, KeptOK
<1>5. WaysOK
  <2>1. ASSUME NEW s \in Routing
        PROVE  Way(net[s], strand[Peer[s]], Records(s), exited, Kept(Peer[s]))
    <3>1. net[s] = <<>> /\ strand[Peer[s]] = <<>>
      BY OneWay DEF Init
    <3>2. Kept(Peer[s]) = {}
      <4>1. SUFFICES ASSUME NEW p \in Kept(Peer[s]) PROVE FALSE
        OBVIOUS
      <4>2. p[2] \in Aids /\ \E l \in link_list[p[2][1]] : l.aid = p[1]
        BY DEF Kept
      <4>3. p[2][1] \in Objects
        BY <4>2, AidPairs
      <4>4. QED
        BY <4>2, <4>3 DEF Init
    <3>3. PICK N, S, R, Y : N = net[s] /\ S = strand[Peer[s]] /\ R = Records(s) /\ Y = Kept(Peer[s])
      OBVIOUS
    <3>4. Len(N) = 0 /\ Len(S) = 0 /\ Y = {}
      BY <3>1, <3>2, <3>3
    <3>5. 1..0 = {}
      OBVIOUS
    <3>6. Way(N, S, R, exited, Y)
      BY <3>4, <3>5 DEF Way
    <3>7. QED
      BY <3>3, <3>6
  <2>2. QED
    BY <2>1 DEF WaysOK
<1>6. QED
  BY <1>1, <1>3, <1>4, <1>5 DEF RouterInv, WayInv

LEMMA RouterStep ==
  ASSUME LkAssumed, LkInv, LkInv', RouterInv, [Next]_vars
  PROVE  RouterInv'
<1>1. /\ links \subseteq links' /\ exited \subseteq exited'
      /\ (breaks > 0 => breaks' > 0) /\ (aborted => aborted')
  BY HistoryGrows
<1>2. breaks \in Nat /\ breaks' \in Nat /\ aborted \in BOOLEAN /\ aborted' \in BOOLEAN
  BY DEF LkInv, ConnsOK
<1>3. (\E l \in links : l[1] \in exited /\ l[2] \in exited)
        => \E l \in links' : l[1] \in exited' /\ l[2] \in exited'
  BY <1>1
<1>4. CASE breaks > 0
  BY <1>1, <1>4 DEF RouterInv, RouterKnowsLinks, Failed
<1>5. CASE ~(breaks > 0) /\ aborted
  <2>1. \E l \in links' : l[1] \in exited' /\ l[2] \in exited'
    BY <1>3, <1>5 DEF RouterInv, RouterKnowsLinks
  <2>2. aborted'
    BY <1>1, <1>5
  <2>3. QED
    BY <2>1, <2>2 DEF RouterInv, RouterKnowsLinks, Failed
<1>6. CASE ~(breaks > 0) /\ ~aborted
  <2>1. ~Failed /\ WayInv
    BY <1>6 DEF Failed, RouterInv
  <2>2. \/ WayInv' /\ UNCHANGED aborted
        \/ aborted' /\ \E l \in links : l[1] \in exited /\ l[2] \in exited
        \/ breaks' > 0
    BY <2>1, SmoothStep
  <2>3. CASE WayInv' /\ UNCHANGED aborted
    BY <1>6, <2>3 DEF RouterInv, RouterKnowsLinks
  <2>4. CASE aborted' /\ \E l \in links : l[1] \in exited /\ l[2] \in exited
    BY <1>3, <2>4 DEF RouterInv, RouterKnowsLinks, Failed
  <2>5. CASE breaks' > 0
    BY <2>5 DEF RouterInv, RouterKnowsLinks, Failed
  <2>6. QED
    BY <2>2, <2>3, <2>4, <2>5
<1>7. QED
  BY <1>4, <1>5, <1>6

\* A router finds the record of every exit it forwards (the BOOST_ASSERT(skt) of socket.cpp
\* holds) until a connection fails or both ends of a link have exited: whatever the actors
\* and the other sockets do, the link's record is made before the exit comes, and removed
\* by no other.
THEOREM RouterLosesNoLink ==
  Spec => []RouterKnowsLinks
<1> DEFINE J == LkInv /\ RouterInv
<1>1. LkAssumed
  BY LinksAssumption DEF LkAssumed
<1>2. Init => J
  BY <1>1, LkInit, RouterInit
<1>3. J /\ [Next]_vars => J'
  <2>1. LkInv /\ [Next]_vars => LkInv'
    BY <1>1, LkStep
  <2>2. QED
    BY <1>1, <2>1, RouterStep
<1>4. J => RouterKnowsLinks
  BY DEF RouterInv
<1>5. QED
  BY <1>2, <1>3, <1>4, PTL DEF Spec

=============================================================================
