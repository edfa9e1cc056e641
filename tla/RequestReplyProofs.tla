------------------------- MODULE RequestReplyProofs -------------------------
(***************************************************************************)
(* Requests, replies and relays among any actors, for any number of        *)
(* requests: a request is a token that is with one actor, the one that is  *)
(* to handle it, until an answer takes its place.                          *)
(*                                                                         *)
(* Tokens counts it where it can be: posted, owed, unread or in a message  *)
(* to relay, or answered, and finds one at most. It is owed by whoever     *)
(* replies and unread where it is relayed; the list that pop leaves it in, *)
(* the message and the posted pack are counted, so that a relay that posts *)
(* it moves it. RqType says what there may be to count.                    *)
(***************************************************************************)
EXTENDS RequestReply, FiniteSetTheorems, SequenceTheorems, TLAPS

-----------------------------------------------------------------------------
(* How often what is in S occurs in a sequence. *)
\* What is put before a sequence.
LEMMA ConsInSeq ==
  ASSUME NEW U, NEW x \in U, NEW s \in Seq(U)
  PROVE  <<x>> \o s \in Seq(U)
OBVIOUS

CountIn(s, S) == Cardinality({i \in 1..Len(s) : s[i] \in S})

\* How often a sequence has an element of S is a number, and 0 if it has none.
LEMMA CountType ==
  ASSUME NEW U, NEW s \in Seq(U), NEW S
  PROVE  /\ CountIn(s, S) \in Nat
         /\ CountIn(s, S) = 0 <=> \A i \in 1..Len(s) : s[i] \notin S
<1> DEFINE I == {i \in 1..Len(s) : s[i] \in S}
<1>1. IsFiniteSet(1..Len(s))
  BY FS_Interval
<1>2. IsFiniteSet(I)
  BY <1>1, FS_Subset
<1>3. I = {} <=> \A i \in 1..Len(s) : s[i] \notin S
  OBVIOUS
<1> HIDE DEF I
<1>4. Cardinality(I) \in Nat /\ (Cardinality(I) = 0 <=> I = {})
  BY <1>2, FS_CardinalityType, FS_EmptySet
<1>5. QED
  BY <1>3, <1>4 DEF CountIn, I

\* One put behind the others counts for itself.
LEMMA CountAppend ==
  ASSUME NEW U, NEW s \in Seq(U), NEW x, NEW S
  PROVE  CountIn(Append(s, x), S) = CountIn(s, S) + (IF x \in S THEN 1 ELSE 0)
<1> DEFINE I == {i \in 1..Len(s) : s[i] \in S}
           J == {i \in 1..Len(Append(s, x)) : Append(s, x)[i] \in S}
<1>1. IsFiniteSet(I)
  BY FS_Interval, FS_Subset
<1>2. Len(s) + 1 \notin I
  OBVIOUS
<1>3. J = IF x \in S THEN I \cup {Len(s) + 1} ELSE I
  OBVIOUS
<1> HIDE DEF I, J
<1>4. Cardinality(J) = Cardinality(I) + (IF x \in S THEN 1 ELSE 0)
  <2>1. CASE x \in S
    BY <1>1, <1>2, <1>3, <2>1, FS_AddElement
  <2>2. CASE x \notin S
    BY <1>1, <1>3, <2>2, FS_CardinalityType
  <2>3. QED
    BY <2>1, <2>2
<1>5. QED
  BY <1>4 DEF CountIn, I, J

\* One put before the others shifts them.
LEMMA CountCons ==
  ASSUME NEW U, NEW s \in Seq(U), NEW x, NEW S
  PROVE  CountIn(<<x>> \o s, S) = CountIn(s, S) + (IF x \in S THEN 1 ELSE 0)
<1> DEFINE n == Len(s)
           r == <<x>> \o s
           I == {i \in 1..n : s[i] \in S}
           J == {i \in 2..(n + 1) : r[i] \in S}
           K == {i \in 1..Len(r) : r[i] \in S}
           f == [i \in I |-> i + 1]
<1>1. n \in Nat /\ Len(r) = n + 1 /\ r[1] = x /\ \A i \in 1..n : r[i + 1] = s[i]
  OBVIOUS
<1> HIDE DEF r, n
<1>2. IsFiniteSet(I)
  <2>1. I \subseteq 1..n /\ IsFiniteSet(1..n)
    BY <1>1, FS_Interval
  <2>2. QED
    BY <2>1, FS_Subset
<1>3. f \in Bijection(I, J)
  <2>1. f \in [I -> J]
    BY <1>1
  <2>2. \A a, b \in I : f[a] = f[b] => a = b
    OBVIOUS
  <2>3. \A j \in J : \E i \in I : f[i] = j
    <3>1. ASSUME NEW j \in J PROVE j - 1 \in I /\ f[j - 1] = j
      <4>1. j - 1 \in 1..n /\ r[(j - 1) + 1] = s[j - 1] /\ (j - 1) + 1 = j
        BY <1>1
      <4>2. QED
        BY <4>1
    <3>2. QED
      BY <3>1
  <2> HIDE DEF f, I, J
  <2>4. QED
    BY <2>1, <2>2, <2>3 DEF Bijection, Injection, Surjection, IsInjective
<1>4. IsFiniteSet(J) /\ Cardinality(J) = Cardinality(I)
  <2> HIDE DEF f, I, J
  <2>1. QED
    BY <1>2, <1>3, FS_Bijection DEF ExistsBijection
<1>5. 1 \notin J
  OBVIOUS
<1>6. K = IF x \in S THEN J \cup {1} ELSE J
  BY <1>1
<1> HIDE DEF I, J, K
<1>7. Cardinality(K) = Cardinality(I) + (IF x \in S THEN 1 ELSE 0)
  <2>1. CASE x \in S
    BY <1>4, <1>5, <1>6, <2>1, FS_AddElement
  <2>2. CASE x \notin S
    BY <1>2, <1>4, <1>6, <2>2, FS_CardinalityType
  <2>3. QED
    BY <2>1, <2>2
<1>8. QED
  BY <1>7 DEF CountIn, I, K, n, r

\* And so does the one that is taken.
LEMMA CountTail ==
  ASSUME NEW U, NEW s \in Seq(U), s # <<>>, NEW S
  PROVE  CountIn(s, S) = CountIn(Tail(s), S) + (IF Head(s) \in S THEN 1 ELSE 0)
<1> DEFINE x == Head(s)
           r == Tail(s)
<1>1. r \in Seq(U) /\ s = <<x>> \o r
  OBVIOUS
<1> HIDE DEF x, r
<1>2. CountIn(<<x>> \o r, S) = CountIn(r, S) + (IF x \in S THEN 1 ELSE 0)
  BY <1>1, CountCons
<1>3. CountIn(s, S) = CountIn(r, S) + (IF x \in S THEN 1 ELSE 0)
  BY <1>1, <1>2, Zenon
<1>4. QED
  BY <1>3 DEF x, r

-----------------------------------------------------------------------------
(* Requests, replies and relays *)

\* Whoever deals with a message either replies or relays: one that does both to the same
\* message has the request answered twice.
OneRoleEach == Repliers \cap Relayers = {}

\* What may be posted to x; the first two of it may be unread there.
Plains == [tag : {"aid"}, from : Actors]
Requests == {Request(asked[id], id) : id \in Ids}
AnswersTo(x) == {Response(handler[id], id) : id \in {i \in Ids : asked[i] = x}}
PacksTo(x) == Plains \cup Requests \cup AnswersTo(x)
OwedTo(x) == {id \in Ids : asked[id] = x}

HistoryOK ==
  /\ asked \in Seq(Askers) /\ handler \in Seq(Actors) /\ Len(handler) = Len(asked)
  /\ answered \subseteq {[id |-> id, by |-> handler[id]] : id \in Ids}
StrandsOK ==
  /\ strand = [x \in Actors |-> strand[x]]
  /\ \A x \in Actors : strand[x] \in Seq(PacksTo(x))
QueuesOK ==
  /\ recv_que = [x \in Actors |-> recv_que[x]]
  /\ \A x \in Actors : recv_que[x] \in Seq(Plains \cup Requests)
OwedOK ==
  /\ wait_reply_list = [b \in Actors |-> [x \in Actors |-> wait_reply_list[b][x]]]
  /\ \A b, x \in Actors : wait_reply_list[b][x] \in Seq(OwedTo(x))
ResponsesOK ==
  /\ res_msg_list = [x \in Actors |-> res_msg_list[x]]
  /\ \A x \in Actors : res_msg_list[x] \subseteq AnswersTo(x)
UsersOK ==
  /\ busy \subseteq Actors
  /\ msg \in [Actors -> [from : Actors \cup {"none"}, req : Nat]]
  /\ \A b \in Actors : /\ msg[b].req \in Ids \cup {0}
                       /\ b \in busy => msg[b].from \in Actors

RqType == HistoryOK /\ StrandsOK /\ QueuesOK /\ OwedOK /\ ResponsesOK /\ UsersOK

\* How often a request is with an actor: posted to it, owed by it, or unread or in the
\* message of one that relays. And how often it has an answer.
HeldAs(b, id) ==
  LET pk == Request(asked[id], id)
  IN  CountIn(strand[b], {pk})
      + IF b \in Repliers THEN CountIn(wait_reply_list[b][asked[id]], {id})
        ELSE CountIn(recv_que[b], {pk}) + (IF msg[b].req = id THEN 1 ELSE 0)

AnsweredAs(id) ==
  LET pk == Response(handler[id], id)
  IN  CountIn(strand[asked[id]], {pk})
      + (IF pk \in res_msg_list[asked[id]] THEN 1 ELSE 0)
      + (IF [id |-> id, by |-> handler[id]] \in answered THEN 1 ELSE 0)

Tokens ==
  \A id \in Ids :
    /\ \A b \in Actors \ {handler[id]} : HeldAs(b, id) = 0
    /\ HeldAs(handler[id], id) + AnsweredAs(id) <= 1

RqInv == RqType /\ Tokens

\* Those who ask deal with no messages, and no thread_mapped actor relays: its relay knows
\* no request and sends a message in its own name. Then, until someone calls send, whoever
\* deals with messages gets requests only.
DisjointRoles == Askers \cap (Repliers \cup Relayers) = {} /\ Relayers \cap Threaded = {}
OnlyRequests ==
  /\ busy \subseteq Repliers \cup Relayers
  /\ ~sent =>
       \A b \in Repliers \cup Relayers :
         /\ strand[b] \in Seq(Requests) /\ recv_que[b] \in Seq(Requests)
         /\ b \in busy => msg[b].from \in Askers /\ (b \in Relayers => msg[b].req # 0)

-----------------------------------------------------------------------------
\* Nobody has asked: nothing is held or answered.
LEMMA RqInit ==
  ASSUME RequestReplyAssumption, Init
  PROVE  RqInv /\ OnlyRequests
<1>1. Ids = {}
  BY DEF Ids, Init
<1>2. RqType
  <2>1. asked \in Seq(Askers) /\ handler \in Seq(Actors) /\ Len(handler) = Len(asked)
    BY DEF Init
  <2>2. \A x \in Actors : <<>> \in Seq(PacksTo(x)) /\ <<>> \in Seq(OwedTo(x))
    OBVIOUS
  <2>3. <<>> \in Seq(Plains \cup Requests)
    OBVIOUS
  <2>4. QED
    BY <2>1, <2>2, <2>3 DEF Init, RqType, HistoryOK, StrandsOK, QueuesOK, OwedOK, ResponsesOK,
          UsersOK, NoActor, NoReq
<1>3. Tokens
  BY <1>1 DEF Tokens
<1>4. OnlyRequests
  BY DEF OnlyRequests, Init, RequestReplyAssumption
<1>5. QED
  BY <1>2, <1>3, <1>4 DEF RqInv

\* What a pack that is posted does to the strands.
LEMMA PostKeeps ==
  ASSUME NEW P, strand = [x \in Actors |-> strand[x]],
         \A x \in Actors : strand[x] \in Seq(P[x]),
         NEW b \in Actors, NEW pk \in P[b], Post(b, pk)
  PROVE  /\ strand' = [x \in Actors |-> strand'[x]]
         /\ \A x \in Actors : strand'[x] \in Seq(P[x])
         /\ \A S : pk \in S => CountIn(strand'[b], S) = CountIn(strand[b], S) + 1
         /\ \A x \in Actors : \A S :
              x # b \/ pk \notin S => CountIn(strand'[x], S) = CountIn(strand[x], S)
<1> DEFINE s == strand[b]
<1>1. s \in Seq(P[b]) /\ \A S : CountIn(s, S) \in Nat
  BY CountType
<1> HIDE DEF s
<1>2. CASE strand' = [strand EXCEPT ![b] = Append(@, pk)]
  <2>1. strand' = [strand EXCEPT ![b] = Append(s, pk)]
    BY <1>2 DEF s
  <2>2. Append(s, pk) \in Seq(P[b])
    BY <1>1
  <2>3. \A S : CountIn(Append(s, pk), S) = CountIn(s, S) + (IF pk \in S THEN 1 ELSE 0)
    BY <1>1, CountAppend
  <2> DEFINE r == Append(s, pk)
  <2> HIDE DEF r
  <2>4. QED
    <3>1. strand' = [strand EXCEPT ![b] = r] /\ r \in Seq(P[b])
          /\ \A S : CountIn(r, S) = CountIn(s, S) + (IF pk \in S THEN 1 ELSE 0)
      BY <2>1, <2>2, <2>3 DEF r
    <3>2. ASSUME NEW x \in Actors PROVE \A S : CountIn(strand[x], S) \in Nat
      BY CountType
    <3>3. QED
      BY <1>1, <3>1, <3>2 DEF s
<1>3. CASE strand' = [strand EXCEPT ![b] = <<pk>> \o @]
  <2>1. strand' = [strand EXCEPT ![b] = <<pk>> \o s]
    BY <1>3 DEF s
  <2>2. <<pk>> \o s \in Seq(P[b])
    BY <1>1, ConsInSeq
  <2>3. \A S : CountIn(<<pk>> \o s, S) = CountIn(s, S) + (IF pk \in S THEN 1 ELSE 0)
    BY <1>1, CountCons
  <2> DEFINE r == <<pk>> \o s
  <2> HIDE DEF r
  <2>4. QED
    <3>1. strand' = [strand EXCEPT ![b] = r] /\ r \in Seq(P[b])
          /\ \A S : CountIn(r, S) = CountIn(s, S) + (IF pk \in S THEN 1 ELSE 0)
      BY <2>1, <2>2, <2>3 DEF r
    <3>2. ASSUME NEW x \in Actors PROVE \A S : CountIn(strand[x], S) \in Nat
      BY CountType
    <3>3. QED
      BY <1>1, <3>1, <3>2 DEF s
<1>4. QED
  BY <1>2, <1>3 DEF Post

\* The counts are numbers.
LEMMA IdType ==
  ASSUME HistoryOK, RequestReplyAssumption, NEW id \in Ids
  PROVE  asked[id] \in Askers /\ asked[id] \in Actors /\ handler[id] \in Actors
         /\ id \in Nat /\ id # 0
BY DEF HistoryOK, Ids, RequestReplyAssumption

\* The counts are numbers.
LEMMA CountsAreNat ==
  ASSUME RqType, RequestReplyAssumption, NEW id \in Ids, NEW b \in Actors
  PROVE  /\ \A S : CountIn(strand[b], S) \in Nat
         /\ \A S : CountIn(recv_que[b], S) \in Nat
         /\ \A S : CountIn(wait_reply_list[b][asked[id]], S) \in Nat
         /\ HeldAs(b, id) \in Nat
         /\ AnsweredAs(id) \in Nat
<1>1. asked[id] \in Actors
  BY IdType DEF RqType
<1>2. \A x \in Actors : \A S : CountIn(strand[x], S) \in Nat
  BY CountType DEF RqType, StrandsOK
<1>3. \A S : CountIn(recv_que[b], S) \in Nat
  BY CountType DEF RqType, QueuesOK
<1>4. \A S : CountIn(wait_reply_list[b][asked[id]], S) \in Nat
  BY <1>1, CountType DEF RqType, OwedOK
<1>5. HeldAs(b, id) \in Nat
  <2>1. CASE b \in Repliers
    BY <1>2, <1>4, <2>1 DEF HeldAs
  <2>2. CASE b \notin Repliers
    BY <1>2, <1>3, <2>2 DEF HeldAs
  <2>3. QED
    BY <2>1, <2>2
<1>6. AnsweredAs(id) \in Nat
  BY <1>1, <1>2 DEF AnsweredAs
<1>7. QED
  BY <1>2, <1>3, <1>4, <1>5, <1>6

\* A sequence of other things has none.
LEMMA NoneIn ==
  ASSUME NEW U, NEW s \in Seq(U), NEW S, U \cap S = {}
  PROVE  CountIn(s, S) = 0
<1>1. \A i \in 1..Len(s) : s[i] \in U
  OBVIOUS
<1>2. QED
  BY <1>1, CountType

\* What the packs and the ids may be does not change as long as nobody asks or relays.
LEMMA SameSets ==
  ASSUME UNCHANGED <<asked, handler>>
  PROVE  /\ Ids' = Ids /\ Requests' = Requests
         /\ \A x : PacksTo(x)' = PacksTo(x) /\ OwedTo(x)' = OwedTo(x) /\ AnswersTo(x)' = AnswersTo(x)
BY DEF Ids, Requests, PacksTo, OwedTo, AnswersTo, Request, Response

\* What Tokens says of one request: it is only with its handler, or answered.
OneToken(id) ==
  /\ \A b \in Actors \ {handler[id]} : HeldAs(b, id) = 0
  /\ HeldAs(handler[id], id) + AnsweredAs(id) <= 1

\* If no request is held or answered more often than before, the counts stay right.
LEMMA TokensKept ==
  ASSUME RqInv, RequestReplyAssumption, UNCHANGED <<asked, handler>>, RqType',
         ASSUME NEW id \in Ids, OneToken(id)
         PROVE  OneToken(id)'
  PROVE  RqInv'
<1>1. Ids' = Ids
  BY SameSets
<1>2. \A id \in Ids : OneToken(id)'
  BY DEF RqInv, Tokens, OneToken
<1>3. QED
  BY <1>1, <1>2 DEF RqInv, Tokens, OneToken

\* A plain message moves no request.
LEMMA PlainPosted ==
  ASSUME RqType, NEW a \in Actors, NEW b \in Actors, PostPlain(a, b)
  PROVE  /\ strand' = [x \in Actors |-> strand'[x]]
         /\ \A x \in Actors : strand'[x] \in Seq(PacksTo(x))
         /\ \A x \in Actors : \A y, id :
              /\ CountIn(strand'[x], {Request(y, id)}) = CountIn(strand[x], {Request(y, id)})
              /\ CountIn(strand'[x], {Response(y, id)}) = CountIn(strand[x], {Response(y, id)})
<1> DEFINE P == [x \in Actors |-> PacksTo(x)]
           pk == Plain(a)
<1>1. strand = [x \in Actors |-> strand[x]] /\ \A x \in Actors : strand[x] \in Seq(P[x])
  BY DEF RqType, StrandsOK
<1>2. pk \in P[b]
  BY DEF PacksTo, Plains, Plain
<1>3. \A y, id : pk \notin {Request(y, id)} /\ pk \notin {Response(y, id)}
  BY DEF Plain, Request, Response
<1>4. CASE Post(b, pk)
  <2> HIDE DEF pk, P
  <2>1. /\ strand' = [x \in Actors |-> strand'[x]]
        /\ \A x \in Actors : strand'[x] \in Seq(P[x])
        /\ \A x \in Actors : \A S : pk \notin S => CountIn(strand'[x], S) = CountIn(strand[x], S)
    BY <1>1, <1>2, <1>4, PostKeeps
  <2>2. \A x \in Actors : strand'[x] \in Seq(PacksTo(x))
    BY <2>1 DEF P
  <2>3. QED
    BY <1>3, <2>1, <2>2
<1>5. CASE UNCHANGED strand
  BY <1>1, <1>5
<1>6. QED
  BY <1>4, <1>5 DEF PostPlain

\* send: a plain message.
LEMMA SendInv ==
  ASSUME RqInv, RequestReplyAssumption, NEW a \in Actors, NEW b \in Actors, Send(a, b)
  PROVE  RqInv'
<1>1. /\ PostPlain(a, b)
      /\ UNCHANGED <<recv_que, wait_reply_list, res_msg_list, msg, busy, asked, handler, answered>>
  BY DEF Send, mailboxVars, userVars
<1>2. RqType'
  <2>1. StrandsOK'
    BY <1>1, PlainPosted, SameSets DEF RqInv, RqType, StrandsOK
  <2>2. HistoryOK' /\ QueuesOK' /\ UsersOK'
    BY <1>1, SameSets DEF RqInv, RqType, HistoryOK, QueuesOK, UsersOK, Plains
  <2>3. OwedOK' /\ ResponsesOK'
    BY <1>1, SameSets DEF RqInv, RqType, OwedOK, ResponsesOK
  <2>4. QED
    BY <2>1, <2>2, <2>3 DEF RqType
<1>3. ASSUME NEW id \in Ids, OneToken(id)
      PROVE  OneToken(id)'
  <2>1. asked[id] \in Actors /\ handler[id] \in Actors
    BY IdType DEF RqInv, RqType
  <2>2. \A x \in Actors : \A y : 
              /\ CountIn(strand'[x], {Request(y, id)}) = CountIn(strand[x], {Request(y, id)})
              /\ CountIn(strand'[x], {Response(y, id)}) = CountIn(strand[x], {Response(y, id)})
    <3>1. RqType /\ PostPlain(a, b)
      BY <1>1 DEF RqInv
    <3>2. \A x \in Actors : \A y, i :
            /\ CountIn(strand'[x], {Request(y, i)}) = CountIn(strand[x], {Request(y, i)})
            /\ CountIn(strand'[x], {Response(y, i)}) = CountIn(strand[x], {Response(y, i)})
      BY <3>1, PlainPosted
    <3>3. QED
      BY <3>2
  <2>3. /\ \A x \in Actors : HeldAs(x, id)' = HeldAs(x, id)
        /\ AnsweredAs(id)' = AnsweredAs(id)
    BY <1>1, <2>1, <2>2 DEF HeldAs, AnsweredAs, Request, Response
  <2>4. QED
    BY <1>1, <1>3, <2>1, <2>3 DEF OneToken
<1>4. QED
  BY <1>1, <1>2, <1>3, TokensKept

\* Taking the first pack of a sequence.
LEMMA TakeHead ==
  ASSUME NEW U, NEW s \in Seq(U), s # <<>>
  PROVE  /\ Head(s) \in U /\ Tail(s) \in Seq(U)
         /\ \A S : Head(s) \in S => CountIn(s, S) = CountIn(Tail(s), S) + 1
         /\ \A S : Head(s) \notin S => CountIn(Tail(s), S) = CountIn(s, S)
         /\ \A S : CountIn(Tail(s), S) \in Nat
<1>1. Head(s) \in U /\ Tail(s) \in Seq(U)
  OBVIOUS
<1> DEFINE r == Tail(s)
           x == Head(s)
<1>2. /\ \A S : CountIn(s, S) = CountIn(r, S) + (IF x \in S THEN 1 ELSE 0)
      /\ \A S : CountIn(r, S) \in Nat
  BY <1>1, CountTail, CountType
<1> HIDE DEF r, x
<1>3. /\ \A S : x \in S => CountIn(s, S) = CountIn(r, S) + 1
      /\ \A S : x \notin S => CountIn(r, S) = CountIn(s, S)
  BY <1>2
<1>4. QED
  BY <1>1, <1>2, <1>3 DEF r, x

\* reply takes what is owed and posts the one answer.
LEMMA ReplyInv ==
  ASSUME RqInv, RequestReplyAssumption, NEW b \in Actors, Reply(b)
  PROVE  RqInv'
<1> DEFINE a == msg[b].from
           ids == wait_reply_list[b][a]
<1>1. /\ b \in Repliers /\ a \in Actors /\ ids \in Seq(OwedTo(a))
      /\ busy' = busy \ {b}
      /\ UNCHANGED <<recv_que, res_msg_list, msg, asked, handler, answered>>
  BY DEF Reply, RqInv, RqType, UsersOK, OwedOK
<1>2. HistoryOK' /\ QueuesOK' /\ ResponsesOK' /\ UsersOK'
  BY <1>1, SameSets DEF RqInv, RqType, HistoryOK, QueuesOK, ResponsesOK, UsersOK, Plains
<1>3. CASE ids # <<>>
  <2> DEFINE j == Head(ids)
             rest == Tail(ids)
             pk == Response(b, j)
  <2>1. /\ Post(a, pk)
        /\ wait_reply_list' = [wait_reply_list EXCEPT ![b][a] = Tail(@)]
    BY <1>3 DEF Reply, PopRequest
  <2>2. /\ j \in Ids /\ asked[j] = a /\ rest \in Seq(OwedTo(a))
        /\ CountIn(ids, {j}) = CountIn(rest, {j}) + 1
        /\ \A id : id # j => CountIn(rest, {id}) = CountIn(ids, {id})
        /\ \A id : CountIn(rest, {id}) \in Nat
    <3> HIDE DEF a
    <3>1. j \in OwedTo(a)
      BY <1>1, <1>3, TakeHead
    <3>2. QED
      BY <1>1, <1>3, <3>1, TakeHead DEF OwedTo
  <2>3. handler[j] = b
    <3>1. HeldAs(b, j) > 0
      <4>1. HeldAs(b, j) = CountIn(strand[b], {Request(asked[j], j)})
                            + CountIn(wait_reply_list[b][asked[j]], {j})
        BY <1>1 DEF HeldAs
      <4>2. CountIn(wait_reply_list[b][asked[j]], {j}) = CountIn(rest, {j}) + 1
        BY <2>2
      <4>3. CountIn(strand[b], {Request(asked[j], j)}) \in Nat /\ CountIn(rest, {j}) \in Nat
        BY <2>2, CountsAreNat DEF RqInv
      <4> HIDE DEF j, rest
      <4>4. QED
        BY <4>1, <4>2, <4>3
    <3>2. QED
      BY <2>2, <3>1 DEF RqInv, Tokens
  <2>4. /\ strand' = [x \in Actors |-> strand'[x]]
        /\ \A x \in Actors : strand'[x] \in Seq(PacksTo(x))
        /\ \A S : pk \in S => CountIn(strand'[a], S) = CountIn(strand[a], S) + 1
        /\ \A x \in Actors : \A S : x # a \/ pk \notin S => CountIn(strand'[x], S) = CountIn(strand[x], S)
    <3> DEFINE P == [x \in Actors |-> PacksTo(x)]
    <3>1. pk \in P[a]
      BY <1>1, <2>2, <2>3 DEF PacksTo, AnswersTo
    <3>2. strand = [x \in Actors |-> strand[x]] /\ \A x \in Actors : strand[x] \in Seq(P[x])
      BY DEF RqInv, RqType, StrandsOK
    <3> HIDE DEF P, pk, a
    <3>3. /\ strand' = [x \in Actors |-> strand'[x]]
          /\ \A x \in Actors : strand'[x] \in Seq(P[x])
          /\ \A S : pk \in S => CountIn(strand'[a], S) = CountIn(strand[a], S) + 1
          /\ \A x \in Actors : \A S : x # a \/ pk \notin S => CountIn(strand'[x], S) = CountIn(strand[x], S)
      BY <1>1, <2>1, <3>1, <3>2, PostKeeps
    <3>4. QED
      BY <3>3 DEF P
  <2> HIDE DEF a, ids, j, rest
  <2>5. /\ wait_reply_list'[b][a] = rest
        /\ \A x, y \in Actors : x # b \/ y # a => wait_reply_list'[x][y] = wait_reply_list[x][y]
        /\ wait_reply_list' = [x \in Actors |-> [y \in Actors |-> wait_reply_list'[x][y]]]
    BY <1>1, <2>1 DEF ids, rest, RqInv, RqType, OwedOK
  <2>6. RqType'
    <3>1. StrandsOK'
      BY <1>1, <2>4, SameSets DEF StrandsOK
    <3>2. OwedOK'
      BY <1>1, <2>2, <2>5, SameSets DEF RqInv, RqType, OwedOK
    <3>3. QED
      BY <1>2, <3>1, <3>2 DEF RqType
  <2>7. ASSUME NEW id \in Ids, OneToken(id)
        PROVE  OneToken(id)'
    <3>1. asked[id] \in Actors /\ handler[id] \in Actors
      BY IdType DEF RqInv, RqType
    <3>2. \A x \in Actors : CountIn(strand'[x], {Request(asked[id], id)})
                              = CountIn(strand[x], {Request(asked[id], id)})
      <4>1. pk \notin {Request(asked[id], id)}
        BY DEF Request, Response
      <4>2. QED
        BY <2>4, <4>1
    <3>3. \A x \in Actors : (x # b \/ id # j) => HeldAs(x, id)' = HeldAs(x, id)
      <4>1. \A x \in Actors : (x # b \/ id # j) => CountIn(wait_reply_list'[x][asked[id]], {id})
                                                     = CountIn(wait_reply_list[x][asked[id]], {id})
        BY <2>2, <2>5, <3>1 DEF ids
      <4>2. QED
        BY <1>1, <3>2, <4>1 DEF HeldAs
    <3>4. CASE id # j
      <4>1. pk \notin {Response(handler[id], id)}
        BY <3>4 DEF Response
      <4>2. AnsweredAs(id)' = AnsweredAs(id)
        BY <1>1, <2>4, <3>1, <4>1 DEF AnsweredAs
      <4>3. QED
        BY <1>1, <2>7, <3>1, <3>3, <3>4, <4>2 DEF OneToken
    <3>5. CASE id = j
      <4>1. HeldAs(b, id) = HeldAs(b, id)' + 1
        <5>1. CountIn(wait_reply_list[b][asked[id]], {id}) = CountIn(wait_reply_list'[b][asked[id]], {id}) + 1
          BY <2>2, <2>5, <3>5 DEF ids
        <5>2. /\ CountIn(strand[b], {Request(asked[id], id)}) \in Nat
              /\ CountIn(wait_reply_list'[b][asked[id]], {id}) \in Nat
          BY <2>2, <2>5, <3>5, CountsAreNat DEF RqInv
        <5>3. /\ HeldAs(b, id) = CountIn(strand[b], {Request(asked[id], id)})
                                   + CountIn(wait_reply_list[b][asked[id]], {id})
              /\ HeldAs(b, id)' = CountIn(strand'[b], {Request(asked[id], id)})
                                    + CountIn(wait_reply_list'[b][asked[id]], {id})
          BY <1>1 DEF HeldAs
        <5>4. QED
          BY <3>2, <5>1, <5>2, <5>3
      <4>2. AnsweredAs(id)' = AnsweredAs(id) + 1
        <5>1. CountIn(strand'[a], {Response(handler[id], id)})
                = CountIn(strand[a], {Response(handler[id], id)}) + 1
          BY <2>3, <2>4, <3>5
        <5>2. CountIn(strand[a], {Response(handler[id], id)}) \in Nat
          BY <1>1, CountsAreNat DEF RqInv
        <5>3. QED
          BY <1>1, <2>2, <3>5, <5>1, <5>2 DEF AnsweredAs
      <4>3. QED
        <5>1. HeldAs(b, id) \in Nat /\ AnsweredAs(id) \in Nat
          BY CountsAreNat DEF RqInv
        <5>2. HeldAs(b, id)' + AnsweredAs(id)' = HeldAs(b, id) + AnsweredAs(id)
          <6> DEFINE x == HeldAs(b, id)'
                     y == AnsweredAs(id)'
          <6>1. x \in Nat
            <7>1. HeldAs(b, id)' = CountIn(strand'[b], {Request(asked[id], id)})
                                     + CountIn(wait_reply_list'[b][asked[id]], {id})
              BY <1>1 DEF HeldAs
            <7>2. /\ CountIn(strand'[b], {Request(asked[id], id)}) \in Nat
                  /\ CountIn(wait_reply_list'[b][asked[id]], {id}) \in Nat
              BY <2>2, <2>5, <3>2, <3>5, CountsAreNat DEF RqInv
            <7>3. QED
              BY <7>1, <7>2
          <6>2. HeldAs(b, id) = x + 1 /\ y = AnsweredAs(id) + 1
            BY <4>1, <4>2
          <6> HIDE DEF x, y
          <6>3. x + y = HeldAs(b, id) + AnsweredAs(id)
            BY <5>1, <6>1, <6>2
          <6>4. QED
            BY <6>3 DEF x, y
        <5>3. QED
          BY <1>1, <2>3, <2>7, <3>1, <3>3, <3>5, <5>2 DEF OneToken
    <3>6. QED
      BY <3>4, <3>5
  <2>8. QED
    BY <1>1, <2>6, <2>7, TokensKept
<1>4. CASE ids = <<>>
  <2>1. PostPlain(b, a) /\ UNCHANGED wait_reply_list
    BY <1>4 DEF Reply
  <2> HIDE DEF a
  <2>2. RqType'
    <3>1. StrandsOK'
      BY <1>1, <2>1, PlainPosted, SameSets DEF RqInv, StrandsOK
    <3>2. OwedOK'
      BY <1>1, <2>1, SameSets DEF RqInv, RqType, OwedOK
    <3>3. QED
      BY <1>2, <3>1, <3>2 DEF RqType
  <2>3. ASSUME NEW id \in Ids, OneToken(id)
        PROVE  OneToken(id)'
    <3>1. asked[id] \in Actors /\ handler[id] \in Actors
      BY IdType DEF RqInv, RqType
    <3>2. \A x \in Actors : \A y : 
                /\ CountIn(strand'[x], {Request(y, id)}) = CountIn(strand[x], {Request(y, id)})
                /\ CountIn(strand'[x], {Response(y, id)}) = CountIn(strand[x], {Response(y, id)})
      <4>1. RqType /\ PostPlain(b, a)
        BY <2>1 DEF RqInv
      <4>2. \A x \in Actors : \A y, i :
              /\ CountIn(strand'[x], {Request(y, i)}) = CountIn(strand[x], {Request(y, i)})
              /\ CountIn(strand'[x], {Response(y, i)}) = CountIn(strand[x], {Response(y, i)})
        BY <1>1, <4>1, PlainPosted
      <4>3. QED
        BY <4>2
    <3>3. /\ \A x \in Actors : HeldAs(x, id)' = HeldAs(x, id)
          /\ AnsweredAs(id)' = AnsweredAs(id)
      BY <1>1, <2>1, <3>1, <3>2 DEF HeldAs, AnsweredAs, Request, Response
    <3>4. QED
      BY <1>1, <2>3, <3>1, <3>3 DEF OneToken
  <2>4. QED
    BY <1>1, <2>2, <2>3, TokensKept
<1>5. QED
  BY <1>3, <1>4

\* recv of a response: what was unread is answered.
LEMMA RecvResponseInv ==
  ASSUME RqInv, RequestReplyAssumption, NEW a \in Actors, RecvResponse(a)
  PROVE  RqInv'
<1>1. PICK r \in res_msg_list[a] :
        /\ answered' = answered \cup {[id |-> r.id, by |-> r.from]}
        /\ res_msg_list' = [res_msg_list EXCEPT ![a] = @ \ {r}]
        /\ UNCHANGED <<strand, recv_que, wait_reply_list, msg, busy, asked, handler>>
  BY DEF RecvResponse, userVars
<1>2. PICK j \in Ids : asked[j] = a /\ r = Response(handler[j], j)
  BY DEF RqInv, RqType, ResponsesOK, AnswersTo
<1>3. r.id = j /\ r.from = handler[j]
  BY <1>2 DEF Response
<1>4. RqType'
  <2>1. HistoryOK'
    BY <1>1, <1>3, SameSets DEF RqInv, RqType, HistoryOK
  <2>2. ResponsesOK'
    BY <1>1, SameSets DEF RqInv, RqType, ResponsesOK
  <2>3. StrandsOK' /\ QueuesOK' /\ OwedOK' /\ UsersOK'
    BY <1>1, SameSets DEF RqInv, RqType, StrandsOK, QueuesOK, OwedOK, UsersOK, Plains
  <2>4. QED
    BY <2>1, <2>2, <2>3 DEF RqType
<1>5. ASSUME NEW id \in Ids, OneToken(id)
      PROVE  OneToken(id)'
  <2> DEFINE pk == Response(handler[id], id)
  <2>1. \A x \in Actors : HeldAs(x, id)' = HeldAs(x, id)
    BY <1>1 DEF HeldAs
  <2>2. asked[id] \in Actors /\ handler[id] \in Actors
    BY IdType DEF RqInv, RqType
  <2>3. /\ CountIn(strand[asked[id]], {pk}) \in Nat
        /\ AnsweredAs(id) \in Nat /\ HeldAs(handler[id], id) \in Nat
    BY <2>2, CountsAreNat DEF RqInv
  <2>4. AnsweredAs(id)' <= AnsweredAs(id) /\ AnsweredAs(id)' \in Nat
    <3>1. CASE id = j
      <4>1. pk = r
        BY <1>2, <3>1
      <4>2. pk \in res_msg_list[asked[id]] /\ pk \notin res_msg_list'[asked[id]]
        BY <1>1, <1>2, <3>1, <4>1 DEF RqInv, RqType, ResponsesOK
      <4> HIDE DEF pk
      <4>3. QED
        BY <1>1, <2>3, <4>2 DEF AnsweredAs, pk
    <3>2. CASE id # j
      <4>1. pk # r
        BY <1>3, <3>2 DEF Response
      <4>2. pk \in res_msg_list[asked[id]] <=> pk \in res_msg_list'[asked[id]]
        BY <1>1, <2>2, <4>1 DEF RqInv, RqType, ResponsesOK
      <4>3. [id |-> id, by |-> handler[id]] # [id |-> r.id, by |-> r.from]
        BY <1>3, <3>2
      <4>4. QED
        BY <1>1, <2>3, <4>2, <4>3 DEF AnsweredAs
    <3>3. QED
      BY <3>1, <3>2
  <2>5. QED
    BY <1>1, <1>5, <2>1, <2>2, <2>3, <2>4 DEF OneToken
<1>6. QED
  BY <1>1, <1>4, <1>5, TokensKept

\* An actor that exits owes nothing more, and what it had not read is lost.
LEMMA ExitInv ==
  ASSUME RqInv, RequestReplyAssumption, NEW b \in Actors, Exit(b)
  PROVE  RqInv'
<1>1. /\ recv_que' = [recv_que EXCEPT ![b] = <<>>]
      /\ wait_reply_list' = [wait_reply_list EXCEPT ![b] = [a \in Actors |-> <<>>]]
      /\ res_msg_list' = [res_msg_list EXCEPT ![b] = {}]
      /\ busy' = busy \ {b}
      /\ UNCHANGED <<strand, msg, asked, handler, answered>>
  BY DEF Exit
<1>2. RqType'
  <2>1. HistoryOK' /\ StrandsOK' /\ UsersOK'
    BY <1>1, SameSets DEF RqInv, RqType, HistoryOK, StrandsOK, UsersOK
  <2>2. QueuesOK'
    <3>1. <<>> \in Seq(Plains \cup Requests)
      OBVIOUS
    <3>2. \A x \in Actors : recv_que'[x] \in Seq(Plains \cup Requests)
      BY <1>1, <3>1 DEF RqInv, RqType, QueuesOK
    <3>3. QED
      BY <1>1, <3>2, SameSets DEF RqInv, RqType, QueuesOK, Plains
  <2>3. OwedOK'
    <3>1. \A x : <<>> \in Seq(OwedTo(x))
      OBVIOUS
    <3>2. QED
      BY <1>1, <3>1, SameSets DEF RqInv, RqType, OwedOK
  <2>4. ResponsesOK'
    BY <1>1, SameSets DEF RqInv, RqType, ResponsesOK
  <2>5. QED
    BY <2>1, <2>2, <2>3, <2>4 DEF RqType
<1>3. ASSUME NEW id \in Ids, OneToken(id)
      PROVE  OneToken(id)'
  <2>1. asked[id] \in Actors /\ handler[id] \in Actors
    BY IdType DEF RqInv, RqType
  <2>2. \A S : CountIn(<<>>, S) = 0
    <3>1. <<>> \in Seq({})
      OBVIOUS
    <3>2. \A S : {} \cap S = {}
      OBVIOUS
    <3>3. \A S : CountIn(<<>>, S) = 0
      BY <3>1, <3>2, NoneIn, Zenon
    <3>4. QED
      BY <3>3
  <2>3. \A x \in Actors : HeldAs(x, id)' \in Nat /\ HeldAs(x, id)' <= HeldAs(x, id)
    <3>1. ASSUME NEW x \in Actors, x # b PROVE HeldAs(x, id)' = HeldAs(x, id)
      BY <1>1, <3>1 DEF HeldAs, RqInv, RqType, QueuesOK, OwedOK
    <3>2. recv_que'[b] = <<>> /\ wait_reply_list'[b][asked[id]] = <<>>
      BY <1>1, <2>1 DEF RqInv, RqType, QueuesOK, OwedOK
    <3>3. HeldAs(b, id)' \in Nat /\ HeldAs(b, id)' <= HeldAs(b, id)
      <4>1. /\ CountIn(strand[b], {Request(asked[id], id)}) \in Nat
            /\ CountIn(recv_que[b], {Request(asked[id], id)}) \in Nat
            /\ CountIn(wait_reply_list[b][asked[id]], {id}) \in Nat
        BY CountsAreNat DEF RqInv
      <4>2. CASE b \in Repliers
        BY <1>1, <2>2, <3>2, <4>1, <4>2 DEF HeldAs
      <4>3. CASE b \notin Repliers
        BY <1>1, <2>2, <3>2, <4>1, <4>3 DEF HeldAs
      <4>4. QED
        BY <4>2, <4>3
    <3>4. QED
      BY <3>1, <3>3, CountsAreNat DEF RqInv
  <2>4. AnsweredAs(id)' \in Nat /\ AnsweredAs(id)' <= AnsweredAs(id)
    <3>1. CountIn(strand[asked[id]], {Response(handler[id], id)}) \in Nat
      BY <2>1, CountsAreNat DEF RqInv
    <3>2. res_msg_list'[asked[id]] \subseteq res_msg_list[asked[id]]
      BY <1>1, <2>1 DEF RqInv, RqType, ResponsesOK
    <3>3. QED
      BY <1>1, <3>1, <3>2 DEF AnsweredAs
  <2>5. \A x \in Actors : HeldAs(x, id) \in Nat /\ AnsweredAs(id) \in Nat
    BY CountsAreNat DEF RqInv
  <2>6. QED
    <3>1. \A x \in Actors \ {handler[id]} : HeldAs(x, id)' = 0
      BY <1>3, <2>3, <2>5 DEF OneToken
    <3>2. HeldAs(handler[id], id)' + AnsweredAs(id)' <= 1
      BY <1>1, <1>3, <2>1, <2>3, <2>4, <2>5 DEF OneToken
    <3>3. QED
      BY <1>1, <3>1, <3>2 DEF OneToken
<1>4. QED
  BY <1>1, <1>2, <1>3, TokensKept


\* If no request is held or answered more often than before, it is still in one place.
LEMMA FewerTokens ==
  ASSUME RqInv, RequestReplyAssumption, UNCHANGED <<asked, handler>>, RqType',
         \A id \in Ids :
           /\ \A x \in Actors : HeldAs(x, id)' \in Nat /\ HeldAs(x, id)' <= HeldAs(x, id)
           /\ AnsweredAs(id)' \in Nat /\ AnsweredAs(id)' <= AnsweredAs(id)
  PROVE  RqInv'
<1>1. ASSUME NEW id \in Ids, OneToken(id)
      PROVE  OneToken(id)'
  <2>1. handler[id] \in Actors /\ handler' = handler
    BY IdType DEF RqInv, RqType
  <2>2. \A x \in Actors : HeldAs(x, id) \in Nat /\ AnsweredAs(id) \in Nat
    BY CountsAreNat DEF RqInv
  <2>3. \A x \in Actors \ {handler[id]} : HeldAs(x, id)' = 0
    BY <1>1, <2>2 DEF OneToken
  <2>4. HeldAs(handler[id], id)' + AnsweredAs(id)' <= 1
    BY <1>1, <2>1, <2>2 DEF OneToken
  <2>5. QED
    BY <2>1, <2>3, <2>4 DEF OneToken
<1>2. QED
  BY <1>1, TokensKept

\* recv of a message: one that relays has the request in its hands, one that replies owes it.
LEMMA RecvInv ==
  ASSUME RqInv, RequestReplyAssumption, NEW b \in Actors, Recv(b)
  PROVE  RqInv'
<1> DEFINE m == Head(recv_que[b])
           U == Plains \cup Requests
<1>1. PICK old \in {0, msg[b].req} :
        /\ msg' = [msg EXCEPT ![b] = [from |-> m.from, req |-> IF m.tag = "request" THEN m.id ELSE old]]
        /\ recv_que[b] # <<>>
        /\ recv_que' = [recv_que EXCEPT ![b] = Tail(@)]
        /\ busy' = busy \cup {b}
        /\ UNCHANGED <<strand, wait_reply_list, res_msg_list, asked, handler, answered>>
  BY DEF Recv, NoReq, historyVars
<1>2. recv_que[b] \in Seq(U) /\ recv_que[b] # <<>>
  BY <1>1 DEF RqInv, RqType, QueuesOK
<1>3. /\ m \in U /\ Tail(recv_que[b]) \in Seq(U)
      /\ \A S : m \in S => CountIn(recv_que[b], S) = CountIn(Tail(recv_que[b]), S) + 1
      /\ \A S : m \notin S => CountIn(Tail(recv_que[b]), S) = CountIn(recv_que[b], S)
      /\ \A S : CountIn(Tail(recv_que[b]), S) \in Nat
  <2> HIDE DEF U
  <2>1. QED
    BY <1>2, TakeHead
<1> HIDE DEF m
<1>4. /\ m.from \in Actors
      /\ m.tag = "request" => m.id \in Ids /\ m = Request(asked[m.id], m.id)
  <2>1. CASE m \in Plains
    BY <2>1 DEF Plains
  <2>2. CASE m \in Requests
    <3>1. PICK j \in Ids : m = Request(asked[j], j)
      BY <2>2 DEF Requests
    <3>2. asked[j] \in Actors
      BY IdType DEF RqInv, RqType
    <3>3. QED
      BY <3>1, <3>2 DEF Request
  <2>3. QED
    BY <1>3, <2>1, <2>2
<1>5. /\ msg'[b].from = m.from
      /\ m.tag = "request" => msg'[b].req = m.id
      /\ m.tag # "request" => msg'[b].req = old
      /\ \A x \in Actors : x # b => msg'[x] = msg[x] /\ recv_que'[x] = recv_que[x]
      /\ recv_que'[b] = Tail(recv_que[b])
  BY <1>1 DEF RqInv, RqType, UsersOK, QueuesOK
<1>6. RqType'
  <2>1. HistoryOK' /\ StrandsOK' /\ OwedOK' /\ ResponsesOK'
    BY <1>1, SameSets DEF RqInv, RqType, HistoryOK, StrandsOK, OwedOK, ResponsesOK
  <2>2. QueuesOK'
    BY <1>1, <1>3, SameSets DEF RqInv, RqType, QueuesOK, Plains
  <2>3. UsersOK'
    <3>1. \A j \in Ids : j \in Nat
      BY DEF Ids, RqInv, RqType, HistoryOK
    <3>2. [from |-> m.from, req |-> IF m.tag = "request" THEN m.id ELSE old]
            \in [from : Actors \cup {"none"}, req : Nat]
      BY <1>1, <1>4, <3>1 DEF RqInv, RqType, UsersOK
    <3>3. msg' \in [Actors -> [from : Actors \cup {"none"}, req : Nat]]
      BY <1>1, <3>2 DEF RqInv, RqType, UsersOK
    <3>4. \A x \in Actors : /\ msg'[x].req \in Ids \cup {0}
                            /\ x \in busy' => msg'[x].from \in Actors
      BY <1>1, <1>4, <1>5 DEF RqInv, RqType, UsersOK
    <3>5. busy' \subseteq Actors
      BY <1>1 DEF RqInv, RqType, UsersOK
    <3>6. QED
      BY <1>1, <3>3, <3>4, <3>5, SameSets DEF UsersOK
  <2>4. QED
    BY <2>1, <2>2, <2>3 DEF RqType
<1>7. ASSUME NEW id \in Ids
      PROVE  /\ \A x \in Actors : HeldAs(x, id)' \in Nat /\ HeldAs(x, id)' <= HeldAs(x, id)
             /\ AnsweredAs(id)' \in Nat /\ AnsweredAs(id)' <= AnsweredAs(id)
  <2> DEFINE pk == Request(asked[id], id)
  <2>1. asked[id] \in Actors /\ handler[id] \in Actors /\ id # 0
    BY IdType DEF RqInv, RqType
  <2>2. \A x \in Actors : HeldAs(x, id) \in Nat /\ AnsweredAs(id) \in Nat
    BY CountsAreNat DEF RqInv
  <2>3. AnsweredAs(id)' = AnsweredAs(id)
    BY <1>1 DEF AnsweredAs
  <2>4. ASSUME NEW x \in Actors, x # b \/ x \in Repliers PROVE HeldAs(x, id)' = HeldAs(x, id)
    BY <1>1, <1>5, <2>4 DEF HeldAs
  <2>5. CASE b \notin Repliers
    <3>1. /\ HeldAs(b, id) = CountIn(strand[b], {pk})
               + (CountIn(recv_que[b], {pk}) + (IF msg[b].req = id THEN 1 ELSE 0))
          /\ HeldAs(b, id)' = CountIn(strand[b], {pk})
               + (CountIn(Tail(recv_que[b]), {pk}) + (IF msg'[b].req = id THEN 1 ELSE 0))
      BY <1>1, <1>5, <2>5 DEF HeldAs
    <3>2. CountIn(strand[b], {pk}) \in Nat /\ CountIn(Tail(recv_que[b]), {pk}) \in Nat
      BY <1>3, CountsAreNat DEF RqInv
    <3>3. CASE m = pk
      <4>1. CountIn(recv_que[b], {pk}) = CountIn(Tail(recv_que[b]), {pk}) + 1
        BY <1>3, <3>3
      <4>2. QED
        BY <2>2, <2>3, <2>4, <3>1, <3>2, <4>1
    <3>4. CASE m # pk
      <4>1. CountIn(recv_que[b], {pk}) = CountIn(Tail(recv_que[b]), {pk})
        BY <1>3, <3>4
      <4>2. msg'[b].req = id => msg[b].req = id
        BY <1>1, <1>4, <1>5, <2>1, <3>4
      <4>3. QED
        BY <2>2, <2>3, <2>4, <3>1, <3>2, <4>1, <4>2
    <3>5. QED
      BY <3>3, <3>4
  <2>6. QED
    BY <2>2, <2>3, <2>4, <2>5
<1>8. QED
  BY <1>1, <1>6, <1>7, FewerTokens

\* What is left on an actor's strand when its first pack is taken.
RestOf(b) == [strand EXCEPT ![b] = Tail(@)]

\* The pack a strand runs is taken from it, and nothing else.
LEMMA PackTaken ==
  ASSUME RqType, NEW b \in Actors, strand[b] # <<>>
  PROVE  LET pk == Head(strand[b])
             rest == RestOf(b)
         IN
         /\ pk \in PacksTo(b)
         /\ rest = [x \in Actors |-> rest[x]]
         /\ \A x \in Actors : rest[x] \in Seq(PacksTo(x)) /\ \A S : CountIn(rest[x], S) \in Nat
         /\ \A S : pk \in S => CountIn(strand[b], S) = CountIn(rest[b], S) + 1
         /\ \A x \in Actors : \A S : x # b \/ pk \notin S => CountIn(rest[x], S) = CountIn(strand[x], S)
<1> DEFINE pk == Head(strand[b])
           rest == RestOf(b)
<1>1. strand[b] \in Seq(PacksTo(b)) /\ strand[b] # <<>>
  BY DEF RqType, StrandsOK
<1>2. /\ pk \in PacksTo(b) /\ Tail(strand[b]) \in Seq(PacksTo(b))
      /\ \A S : pk \in S => CountIn(strand[b], S) = CountIn(Tail(strand[b]), S) + 1
      /\ \A S : pk \notin S => CountIn(Tail(strand[b]), S) = CountIn(strand[b], S)
  BY <1>1, TakeHead
<1>3. /\ rest[b] = Tail(strand[b]) /\ rest = [x \in Actors |-> rest[x]]
      /\ \A x \in Actors : x # b => rest[x] = strand[x]
  BY DEF RqType, StrandsOK, RestOf
<1> HIDE DEF pk, rest
<1>4. \A x \in Actors : rest[x] \in Seq(PacksTo(x))
  BY <1>2, <1>3 DEF RqType, StrandsOK
<1>5. \A x \in Actors : \A S : CountIn(rest[x], S) \in Nat
  BY <1>4, CountType
<1>6. QED
  BY <1>2, <1>3, <1>4, <1>5 DEF pk, rest

\* A message comes to the mailbox; one that replies owes an answer from there on.
LEMMA PushMessageInv ==
  ASSUME RqInv, RequestReplyAssumption, NEW b \in Actors, strand[b] # <<>>,
         PushMessage(b, Head(strand[b])), strand' = RestOf(b),
         UNCHANGED <<msg, busy, asked, handler, answered>>
  PROVE  RqInv'
<1> DEFINE pk == Head(strand[b])
           rest == RestOf(b)
<1>0. strand' = rest
  OBVIOUS
<1>1. /\ pk \in PacksTo(b)
      /\ rest = [x \in Actors |-> rest[x]]
      /\ \A x \in Actors : rest[x] \in Seq(PacksTo(x)) /\ \A S : CountIn(rest[x], S) \in Nat
      /\ \A S : pk \in S => CountIn(strand[b], S) = CountIn(rest[b], S) + 1
      /\ \A x \in Actors : \A S : x # b \/ pk \notin S => CountIn(rest[x], S) = CountIn(strand[x], S)
  BY PackTaken DEF RqInv
<1>2. /\ pk.tag # "response"
      /\ recv_que' = [recv_que EXCEPT ![b] = Append(@, pk)]
      /\ pk.tag = "request" => wait_reply_list' = [wait_reply_list EXCEPT ![b][pk.from] = Append(@, pk.id)]
      /\ pk.tag # "request" => wait_reply_list' = wait_reply_list
      /\ UNCHANGED res_msg_list
  BY DEF PushMessage
<1>3. pk \in Plains \cup Requests
  BY <1>0, <1>1, <1>2 DEF PacksTo, AnswersTo, Response
<1>4. recv_que[b] \in Seq(Plains \cup Requests) /\ recv_que = [x \in Actors |-> recv_que[x]]
  BY DEF RqInv, RqType, QueuesOK
<1>5. /\ recv_que'[b] = Append(recv_que[b], pk)
      /\ \A x \in Actors : x # b => recv_que'[x] = recv_que[x]
      /\ recv_que' = [x \in Actors |-> recv_que'[x]]
  BY <1>2, <1>4
<1>6. \A S : CountIn(recv_que'[b], S) = CountIn(recv_que[b], S) + (IF pk \in S THEN 1 ELSE 0)
  BY <1>4, <1>5, CountAppend
<1>7. HistoryOK' /\ StrandsOK' /\ QueuesOK' /\ ResponsesOK' /\ UsersOK'
  <2>1. StrandsOK'
    BY <1>0, <1>1, SameSets DEF StrandsOK
  <2>2. Append(recv_que[b], pk) \in Seq(Plains \cup Requests)
    BY <1>3, <1>4
  <2>3. \A x \in Actors : recv_que'[x] \in Seq(Plains \cup Requests)
    BY <1>5, <2>2 DEF RqInv, RqType, QueuesOK
  <2>4. QueuesOK'
    BY <1>5, <2>3, SameSets DEF QueuesOK, Plains
  <2>5. HistoryOK' /\ ResponsesOK' /\ UsersOK'
    BY <1>2, SameSets DEF RqInv, RqType, HistoryOK, ResponsesOK, UsersOK
  <2>6. QED
    BY <2>1, <2>4, <2>5
<1>8. CASE pk.tag # "request"
  <2>1. \A y, id : pk \notin {Request(y, id)} /\ pk \notin {Response(y, id)}
    BY <1>2, <1>8 DEF Request, Response
  <2>2. OwedOK'
    BY <1>2, <1>8, SameSets DEF RqInv, RqType, OwedOK
  <2>3. RqType'
    BY <1>7, <2>2 DEF RqType
  <2>4. ASSUME NEW id \in Ids
        PROVE  /\ \A x \in Actors : HeldAs(x, id)' \in Nat /\ HeldAs(x, id)' <= HeldAs(x, id)
               /\ AnsweredAs(id)' \in Nat /\ AnsweredAs(id)' <= AnsweredAs(id)
    <3>1. asked[id] \in Actors /\ handler[id] \in Actors
      BY IdType DEF RqInv, RqType
    <3>2. \A x \in Actors : HeldAs(x, id) \in Nat /\ AnsweredAs(id) \in Nat
      BY CountsAreNat DEF RqInv
    <3>3. \A x \in Actors : CountIn(recv_que[x], {Request(asked[id], id)}) \in Nat
      BY CountsAreNat DEF RqInv
    <3>4. \A x \in Actors : CountIn(recv_que'[x], {Request(asked[id], id)})
                              = CountIn(recv_que[x], {Request(asked[id], id)})
      <4> DEFINE S == {Request(asked[id], id)}
      <4>1. pk \notin S /\ \A x \in Actors : CountIn(recv_que[x], S) \in Nat
        BY <2>1, <3>3
      <4> HIDE DEF S
      <4>2. CountIn(recv_que'[b], S) = CountIn(recv_que[b], S)
        BY <1>6, <4>1
      <4>3. \A x \in Actors : CountIn(recv_que'[x], S) = CountIn(recv_que[x], S)
        BY <1>5, <4>2
      <4>4. QED
        BY <4>3 DEF S
    <3>5. \A x \in Actors : CountIn(strand'[x], {Request(asked[id], id)})
                              = CountIn(strand[x], {Request(asked[id], id)})
      BY <1>0, <1>1, <2>1
    <3>6. \A x \in Actors : HeldAs(x, id)' = HeldAs(x, id)
      <4>1. UNCHANGED <<wait_reply_list, asked, msg>>
        BY <1>2, <1>8
      <4>2. QED
        BY <3>4, <3>5, <4>1 DEF HeldAs
    <3>7. AnsweredAs(id)' = AnsweredAs(id)
      BY <1>0, <1>1, <1>2, <2>1, <3>1 DEF AnsweredAs
    <3>8. QED
      BY <3>2, <3>6, <3>7
  <2>5. QED
    BY <2>3, <2>4, FewerTokens
<1>9. CASE pk.tag = "request"
  <2>1. PICK j \in Ids : pk = Request(asked[j], j)
    BY <1>3, <1>9 DEF Plains, Requests
  <2> DEFINE a == asked[j]
             w == wait_reply_list[b][a]
  <2>2. pk.from = a /\ pk.id = j /\ a \in Actors
    BY <2>1, IdType DEF Request, RqInv, RqType
  <2>3. w \in Seq(OwedTo(a)) /\ j \in OwedTo(a)
    BY <2>2 DEF RqInv, RqType, OwedOK, OwedTo
  <2>4. /\ wait_reply_list'[b][a] = Append(w, j)
        /\ \A x, y \in Actors : x # b \/ y # a => wait_reply_list'[x][y] = wait_reply_list[x][y]
        /\ wait_reply_list' = [x \in Actors |-> [y \in Actors |-> wait_reply_list'[x][y]]]
    <3>1. wait_reply_list' = [wait_reply_list EXCEPT ![b][a] = Append(@, j)]
      BY <1>2, <1>9, <2>2
    <3>2. wait_reply_list = [x \in Actors |-> [y \in Actors |-> wait_reply_list[x][y]]]
      BY DEF RqInv, RqType, OwedOK
    <3> HIDE DEF a
    <3>3. QED
      BY <2>2, <3>1, <3>2
  <2>5. \A S : CountIn(Append(w, j), S) = CountIn(w, S) + (IF j \in S THEN 1 ELSE 0)
    BY <2>3, CountAppend
  <2>6. Append(w, j) \in Seq(OwedTo(a))
    BY <2>3
  <2> HIDE DEF w, a
  <2>7. OwedOK'
    BY <2>4, <2>6, SameSets DEF RqInv, RqType, OwedOK
  <2>8. RqType'
    BY <1>7, <2>7 DEF RqType
  <2>9. ASSUME NEW id \in Ids
        PROVE  /\ \A x \in Actors : HeldAs(x, id)' \in Nat /\ HeldAs(x, id)' <= HeldAs(x, id)
               /\ AnsweredAs(id)' \in Nat /\ AnsweredAs(id)' <= AnsweredAs(id)
    <3> DEFINE q == Request(asked[id], id)
    <3>1. asked[id] \in Actors /\ handler[id] \in Actors
      BY IdType DEF RqInv, RqType
    <3>2. \A x \in Actors : HeldAs(x, id) \in Nat /\ AnsweredAs(id) \in Nat
      BY CountsAreNat DEF RqInv
    <3>3. AnsweredAs(id)' = AnsweredAs(id)
      <4>1. pk \notin {Response(handler[id], id)}
        BY <1>9 DEF Response
      <4>2. QED
        BY <1>0, <1>1, <1>2, <3>1, <4>1 DEF AnsweredAs
    <3>4. ASSUME NEW x \in Actors, x # b PROVE HeldAs(x, id)' = HeldAs(x, id)
      BY <1>0, <1>1, <1>5, <2>4, <3>1, <3>4 DEF HeldAs
    <3>5. HeldAs(b, id)' = HeldAs(b, id)
      <4>1. /\ CountIn(rest[b], {q}) \in Nat /\ CountIn(recv_que[b], {q}) \in Nat
            /\ CountIn(wait_reply_list[b][asked[id]], {id}) \in Nat
        BY <1>0, <1>1, CountsAreNat DEF RqInv
      <4>2. pk = q <=> id = j
        BY <2>1 DEF Request
      <4>3. CountIn(strand[b], {q}) = CountIn(rest[b], {q}) + (IF id = j THEN 1 ELSE 0)
        <5> HIDE DEF q
        <5>1. CASE id = j
          BY <1>0, <1>1, <4>1, <4>2, <5>1
        <5>2. CASE id # j
          <6>1. pk \notin {q}
            BY <4>2, <5>2
          <6>2. CountIn(rest[b], {q}) = CountIn(strand[b], {q})
            BY <1>1, <6>1
          <6>3. QED
            BY <4>1, <5>2, <6>2
        <5>3. QED
          BY <5>1, <5>2
      <4>4. CountIn(recv_que'[b], {q}) = CountIn(recv_que[b], {q}) + (IF id = j THEN 1 ELSE 0)
        BY <1>6, <4>2
      <4>5. CountIn(wait_reply_list'[b][asked[id]], {id})
              = CountIn(wait_reply_list[b][asked[id]], {id}) + (IF id = j THEN 1 ELSE 0)
        <5>1. CASE id = j
          BY <2>4, <2>5, <5>1 DEF a, w
        <5>2. CASE id # j /\ asked[id] = a
          <6>1. CountIn(Append(w, j), {id}) = CountIn(w, {id}) + 0
            BY <2>5, <5>2
          <6>2. QED
            BY <2>4, <4>1, <5>2, <6>1 DEF w
        <5>3. CASE id # j /\ asked[id] # a
          BY <2>4, <3>1, <4>1, <5>3
        <5>4. QED
          BY <5>1, <5>2, <5>3
      <4>6. CASE b \in Repliers
        <5>1. /\ HeldAs(b, id) = CountIn(strand[b], {q}) + CountIn(wait_reply_list[b][asked[id]], {id})
              /\ HeldAs(b, id)' = CountIn(rest[b], {q}) + CountIn(wait_reply_list'[b][asked[id]], {id})
          BY <4>6 DEF HeldAs
        <5>2. QED
          BY <4>1, <4>3, <4>5, <5>1
      <4>7. CASE b \notin Repliers
        <5>1. /\ HeldAs(b, id) = CountIn(strand[b], {q})
                   + (CountIn(recv_que[b], {q}) + (IF msg[b].req = id THEN 1 ELSE 0))
              /\ HeldAs(b, id)' = CountIn(rest[b], {q})
                   + (CountIn(recv_que'[b], {q}) + (IF msg[b].req = id THEN 1 ELSE 0))
          BY <4>7 DEF HeldAs
        <5>2. QED
          BY <4>1, <4>3, <4>4, <5>1
      <4>8. QED
        BY <4>6, <4>7
    <3>6. QED
      BY <3>2, <3>3, <3>4, <3>5
  <2>10. QED
    BY <2>8, <2>9, FewerTokens
<1>10. QED
  BY <1>8, <1>9

\* A response comes to the mailbox.
LEMMA PushResponseInv ==
  ASSUME RqInv, RequestReplyAssumption, NEW b \in Actors, strand[b] # <<>>,
         PushResponse(b, Head(strand[b])), strand' = RestOf(b),
         UNCHANGED <<msg, busy, asked, handler, answered>>
  PROVE  RqInv'
<1> DEFINE pk == Head(strand[b])
           rest == RestOf(b)
<1>0. strand' = rest
  OBVIOUS
<1>1. /\ pk \in PacksTo(b)
      /\ rest = [x \in Actors |-> rest[x]]
      /\ \A x \in Actors : rest[x] \in Seq(PacksTo(x)) /\ \A S : CountIn(rest[x], S) \in Nat
      /\ \A S : pk \in S => CountIn(strand[b], S) = CountIn(rest[b], S) + 1
      /\ \A x \in Actors : \A S : x # b \/ pk \notin S => CountIn(rest[x], S) = CountIn(strand[x], S)
  BY PackTaken DEF RqInv
<1>2. /\ pk.tag = "response"
      /\ res_msg_list' = res_msg_list \/ res_msg_list' = [res_msg_list EXCEPT ![b] = @ \cup {pk}]
      /\ UNCHANGED <<recv_que, wait_reply_list>>
  BY DEF PushResponse
<1>3. PICK j \in Ids : asked[j] = b /\ pk = Response(handler[j], j)
  BY <1>0, <1>1, <1>2 DEF PacksTo, Plains, Requests, AnswersTo, Request
<1>4. pk \in AnswersTo(b)
  BY <1>3 DEF AnswersTo
<1>5. RqType'
  <2>1. StrandsOK'
    BY <1>0, <1>1, SameSets DEF StrandsOK
  <2>2. ResponsesOK'
    BY <1>2, <1>4, SameSets DEF RqInv, RqType, ResponsesOK
  <2>3. HistoryOK' /\ QueuesOK' /\ OwedOK' /\ UsersOK'
    BY <1>2, SameSets DEF RqInv, RqType, HistoryOK, QueuesOK, OwedOK, UsersOK, Plains
  <2>4. QED
    BY <2>1, <2>2, <2>3 DEF RqType
<1>6. ASSUME NEW id \in Ids
      PROVE  /\ \A x \in Actors : HeldAs(x, id)' \in Nat /\ HeldAs(x, id)' <= HeldAs(x, id)
             /\ AnsweredAs(id)' \in Nat /\ AnsweredAs(id)' <= AnsweredAs(id)
  <2> DEFINE r == Response(handler[id], id)
  <2>1. asked[id] \in Actors /\ handler[id] \in Actors
    BY IdType DEF RqInv, RqType
  <2>2. \A x \in Actors : HeldAs(x, id) \in Nat /\ AnsweredAs(id) \in Nat
    BY CountsAreNat DEF RqInv
  <2>3. pk \notin {Request(asked[id], id)}
    BY <1>2 DEF Request
  <2>4. \A x \in Actors : HeldAs(x, id)' = HeldAs(x, id)
    BY <1>0, <1>1, <1>2, <2>3 DEF HeldAs
  <2>5. pk = r <=> id = j
    BY <1>3 DEF Response
  <2> HIDE DEF r
  <2>6. AnsweredAs(id)' \in Nat /\ AnsweredAs(id)' <= AnsweredAs(id)
    <3>1. CountIn(rest[asked[id]], {r}) \in Nat
      BY <1>0, <1>1, <2>1
    <3>2. CASE id = j
      <4>1. CountIn(strand[asked[id]], {r}) = CountIn(rest[asked[id]], {r}) + 1
        BY <1>0, <1>1, <1>3, <2>5, <3>2
      <4>2. QED
        BY <3>1, <4>1 DEF AnsweredAs, r
    <3>3. CASE id # j
      <4>1. CountIn(strand[asked[id]], {r}) = CountIn(rest[asked[id]], {r})
        BY <1>0, <1>1, <2>1, <2>5, <3>3
      <4>2. r \in res_msg_list'[asked[id]] <=> r \in res_msg_list[asked[id]]
        BY <1>2, <2>1, <2>5, <3>3 DEF RqInv, RqType, ResponsesOK
      <4>3. QED
        BY <3>1, <4>1, <4>2 DEF AnsweredAs, r
    <3>4. QED
      BY <3>2, <3>3
  <2>7. QED
    BY <2>2, <2>4, <2>6
<1>7. QED
  BY <1>5, <1>6, FewerTokens

\* The actor has exited: a request is answered for it.
LEMMA BounceInv ==
  ASSUME RqInv, RequestReplyAssumption, NEW b \in Actors, strand[b] # <<>>,
         Bounce(b, Head(strand[b]), RestOf(b)),
         UNCHANGED <<recv_que, wait_reply_list, res_msg_list, msg, busy, asked, handler, answered>>
  PROVE  RqInv'
<1> DEFINE pk == Head(strand[b])
           rest == RestOf(b)
<1>1. /\ pk \in PacksTo(b)
      /\ rest = [x \in Actors |-> rest[x]]
      /\ \A x \in Actors : rest[x] \in Seq(PacksTo(x)) /\ \A S : CountIn(rest[x], S) \in Nat
      /\ \A S : pk \in S => CountIn(strand[b], S) = CountIn(rest[b], S) + 1
      /\ \A x \in Actors : \A S : x # b \/ pk \notin S => CountIn(rest[x], S) = CountIn(strand[x], S)
  BY PackTaken DEF RqInv
<1>2. /\ pk.tag = "request" => strand' = [rest EXCEPT ![pk.from] = Append(@, Response(b, pk.id))]
      /\ pk.tag # "request" => strand' = rest
  BY DEF Bounce
<1> HIDE DEF pk, rest
<1>3. HistoryOK' /\ QueuesOK' /\ OwedOK' /\ ResponsesOK' /\ UsersOK'
  BY SameSets DEF RqInv, RqType, HistoryOK, QueuesOK, OwedOK, ResponsesOK, UsersOK, Plains
<1>4. \A x \in Actors : \A S : CountIn(rest[x], S) \in Nat /\ CountIn(rest[x], S) <= CountIn(strand[x], S)
  <2>1. ASSUME NEW x \in Actors, NEW S
        PROVE  CountIn(rest[x], S) <= CountIn(strand[x], S)
    <3>1. CountIn(rest[x], S) \in Nat
      BY <1>1
    <3>2. CASE x # b \/ pk \notin S
      BY <1>1, <3>1, <3>2
    <3>3. CASE x = b /\ pk \in S
      BY <1>1, <3>1, <3>3
    <3>4. QED
      BY <3>2, <3>3
  <2>2. QED
    BY <1>1, <2>1
<1>5. CASE pk.tag # "request"
  <2>1. RqType'
    BY <1>1, <1>2, <1>3, <1>5, SameSets DEF RqType, StrandsOK
  <2>2. ASSUME NEW id \in Ids
        PROVE  /\ \A x \in Actors : HeldAs(x, id)' \in Nat /\ HeldAs(x, id)' <= HeldAs(x, id)
               /\ AnsweredAs(id)' \in Nat /\ AnsweredAs(id)' <= AnsweredAs(id)
    <3> DEFINE q == Request(asked[id], id)
               r == Response(handler[id], id)
    <3>1. asked[id] \in Actors /\ handler[id] \in Actors
      BY IdType DEF RqInv, RqType
    <3>2. \A x \in Actors : HeldAs(x, id) \in Nat
      BY CountsAreNat DEF RqInv
    <3>3. pk \notin {q}
      BY <1>5 DEF Request
    <3>4. \A x \in Actors : CountIn(strand'[x], {q}) = CountIn(strand[x], {q})
      BY <1>1, <1>2, <1>5, <3>3
    <3>5. \A x \in Actors : HeldAs(x, id)' = HeldAs(x, id)
      BY <3>4 DEF HeldAs
    <3>6. /\ CountIn(strand'[asked[id]], {r}) \in Nat
          /\ CountIn(strand'[asked[id]], {r}) <= CountIn(strand[asked[id]], {r})
          /\ CountIn(strand[asked[id]], {r}) \in Nat
      BY <1>2, <1>4, <1>5, <3>1, CountsAreNat DEF RqInv
    <3> HIDE DEF q
    <3>7. AnsweredAs(id)' \in Nat /\ AnsweredAs(id)' <= AnsweredAs(id)
      BY <3>6 DEF AnsweredAs
    <3>8. QED
      BY <3>2, <3>5, <3>7
  <2>3. QED
    BY <2>1, <2>2, FewerTokens
<1>6. CASE pk.tag = "request"
  <2>1. PICK j \in Ids : pk = Request(asked[j], j)
    BY <1>1, <1>6 DEF PacksTo, Plains, Requests, AnswersTo, Response
  <2> DEFINE a == asked[j]
             t == rest[a]
             p == Response(b, j)
  <2>2. pk.from = a /\ pk.id = j /\ a \in Actors
    BY <2>1, IdType DEF Request, RqInv, RqType
  <2>3. handler[j] = b
    <3>1. CountIn(strand[b], {pk}) = CountIn(rest[b], {pk}) + 1 /\ CountIn(rest[b], {pk}) \in Nat
      BY <1>1
    <3>2. CountIn(strand[b], {pk}) > 0
      BY <3>1
    <3>3. HeldAs(b, j) # 0
      <4>1. /\ CountIn(recv_que[b], {pk}) \in Nat
            /\ CountIn(wait_reply_list[b][asked[j]], {j}) \in Nat
            /\ CountIn(strand[b], {pk}) \in Nat
        BY CountsAreNat DEF RqInv
      <4>2. HeldAs(b, j) = CountIn(strand[b], {pk})
              + IF b \in Repliers THEN CountIn(wait_reply_list[b][asked[j]], {j})
                ELSE CountIn(recv_que[b], {pk}) + (IF msg[b].req = j THEN 1 ELSE 0)
        BY <2>1 DEF HeldAs
      <4>3. QED
        BY <3>2, <4>1, <4>2
    <3>4. QED
      BY <3>3 DEF RqInv, Tokens
  <2>4. t \in Seq(PacksTo(a)) /\ p \in PacksTo(a)
    BY <1>1, <2>2, <2>3 DEF PacksTo, AnswersTo
  <2>5. /\ Append(t, p) \in Seq(PacksTo(a))
        /\ \A S : CountIn(Append(t, p), S) = CountIn(t, S) + (IF p \in S THEN 1 ELSE 0)
    <3> HIDE DEF t, p
    <3>1. QED
      BY <2>4, CountAppend
  <2>6. /\ strand'[a] = Append(t, p)
        /\ \A x \in Actors : x # a => strand'[x] = rest[x]
        /\ strand' = [x \in Actors |-> strand'[x]]
    BY <1>1, <1>2, <1>6, <2>2
  <2> HIDE DEF a, t, p
  <2>7. RqType'
    <3>1. \A x \in Actors : strand'[x] \in Seq(PacksTo(x))
      BY <1>1, <2>5, <2>6
    <3>2. StrandsOK'
      BY <2>6, <3>1, SameSets DEF StrandsOK
    <3>3. QED
      BY <1>3, <3>2 DEF RqType
  <2>8. \A S : p \notin S => \A x \in Actors : CountIn(strand'[x], S) = CountIn(rest[x], S)
    <3>1. ASSUME NEW S, p \notin S, NEW x \in Actors
          PROVE  CountIn(strand'[x], S) = CountIn(rest[x], S)
      <4>1. CASE x # a
        BY <2>6, <4>1
      <4>2. CASE x = a
        <5>1. CountIn(t, S) \in Nat
          BY <1>1, <2>2 DEF t
        <5>2. CountIn(Append(t, p), S) = CountIn(t, S)
          BY <2>5, <3>1, <5>1
        <5>3. QED
          BY <2>6, <4>2, <5>2 DEF t
      <4>3. QED
        BY <4>1, <4>2
    <3>2. QED
      BY <3>1
  <2>9. ASSUME NEW id \in Ids, OneToken(id)
        PROVE  OneToken(id)'
    <3> DEFINE q == Request(asked[id], id)
               r == Response(handler[id], id)
    <3>1. asked[id] \in Actors /\ handler[id] \in Actors
      BY IdType DEF RqInv, RqType
    <3>2. \A x \in Actors : HeldAs(x, id) \in Nat /\ AnsweredAs(id) \in Nat
      BY CountsAreNat DEF RqInv
    <3>3. \A x \in Actors : CountIn(strand'[x], {q}) = CountIn(rest[x], {q})
      <4>1. p \notin {q}
        BY DEF p, Request, Response
      <4>2. QED
        BY <2>8, <4>1
    <3>4. CASE id # j
      <4>1. pk \notin {q}
        BY <2>1, <3>4 DEF Request
      <4>2. \A x \in Actors : CountIn(strand'[x], {q}) = CountIn(strand[x], {q})
        BY <1>1, <3>3, <4>1
      <4>3. \A x \in Actors : HeldAs(x, id)' = HeldAs(x, id)
        BY <4>2 DEF HeldAs
      <4>4. p \notin {r} /\ pk \notin {r}
        BY <1>6, <3>4 DEF p, Response
      <4>5. CountIn(strand'[asked[id]], {r}) = CountIn(strand[asked[id]], {r})
        BY <1>1, <2>8, <3>1, <4>4
      <4>6. AnsweredAs(id)' = AnsweredAs(id)
        BY <4>5 DEF AnsweredAs
      <4>7. QED
        BY <2>9, <3>1, <4>3, <4>6 DEF OneToken
    <3>5. CASE id = j
      <4>1. \A x \in Actors : x # b => HeldAs(x, id)' = HeldAs(x, id)
        BY <1>1, <3>3 DEF HeldAs
      <4>2. HeldAs(b, id) = HeldAs(b, id)' + 1 /\ HeldAs(b, id)' \in Nat
        <5>1. /\ CountIn(recv_que[b], {q}) \in Nat
              /\ CountIn(wait_reply_list[b][asked[id]], {id}) \in Nat
              /\ CountIn(rest[b], {q}) \in Nat
          BY <1>1, CountsAreNat DEF RqInv
        <5>2. CountIn(strand[b], {q}) = CountIn(rest[b], {q}) + 1
          BY <1>1, <2>1, <3>5
        <5>3. CASE b \in Repliers
          <6>1. /\ HeldAs(b, id) = CountIn(strand[b], {q}) + CountIn(wait_reply_list[b][asked[id]], {id})
                /\ HeldAs(b, id)' = CountIn(rest[b], {q}) + CountIn(wait_reply_list[b][asked[id]], {id})
            BY <3>3, <5>3 DEF HeldAs
          <6>2. QED
            BY <5>1, <5>2, <6>1
        <5>4. CASE b \notin Repliers
          <6>1. /\ HeldAs(b, id) = CountIn(strand[b], {q})
                     + (CountIn(recv_que[b], {q}) + (IF msg[b].req = id THEN 1 ELSE 0))
                /\ HeldAs(b, id)' = CountIn(rest[b], {q})
                     + (CountIn(recv_que[b], {q}) + (IF msg[b].req = id THEN 1 ELSE 0))
            BY <3>3, <5>4 DEF HeldAs
          <6>2. QED
            BY <5>1, <5>2, <6>1
        <5>5. QED
          BY <5>3, <5>4
      <4>3. AnsweredAs(id)' = AnsweredAs(id) + 1
        <5>1. pk \notin {r} /\ r = p
          BY <1>6, <2>3, <3>5 DEF Response, p
        <5>2. CountIn(t, {r}) = CountIn(strand[a], {r}) /\ CountIn(t, {r}) \in Nat
          BY <1>1, <2>2, <5>1 DEF t
        <5>3. CountIn(strand'[a], {r}) = CountIn(strand[a], {r}) + 1
          BY <2>5, <2>6, <5>1, <5>2
        <5>4. asked[id] = a
          BY <3>5 DEF a
        <5> HIDE DEF q
        <5>5. QED
          BY <5>2, <5>3, <5>4 DEF AnsweredAs
      <4>4. HeldAs(b, id)' + AnsweredAs(id)' <= 1
        BY <2>3, <2>9, <3>2, <3>5, <4>2, <4>3 DEF OneToken
      <4>5. QED
        BY <2>3, <2>9, <3>5, <4>1, <4>4 DEF OneToken
    <3>6. QED
      BY <3>4, <3>5
  <2>10. QED
    BY <2>7, <2>9, TokensKept
<1>7. QED
  BY <1>5, <1>6

\* Whatever a strand runs.
LEMMA HandleRecvInv ==
  ASSUME RqInv, RequestReplyAssumption, NEW b \in Actors, HandleRecv(b)
  PROVE  RqInv'
<1>1. strand[b] # <<>> /\ UNCHANGED <<msg, busy, asked, handler, answered>>
  BY DEF HandleRecv, userVars, historyVars
<1>2. CASE PushMessage(b, Head(strand[b])) /\ strand' = RestOf(b)
  BY <1>1, <1>2, PushMessageInv
<1>3. CASE PushResponse(b, Head(strand[b])) /\ strand' = RestOf(b)
  BY <1>1, <1>3, PushResponseInv
<1>4. CASE Bounce(b, Head(strand[b]), RestOf(b)) /\ UNCHANGED mailboxVars
  BY <1>1, <1>4, BounceInv DEF mailboxVars
<1>5. QED
  BY <1>2, <1>3, <1>4 DEF HandleRecv, RestOf

\* A request that is relayed leaves the one that relays it for its new handler: only an actor
\* that does not also owe it an answer may do so.
LEMMA RelayInv ==
  ASSUME RqInv, RequestReplyAssumption, OneRoleEach,
         NEW b \in Actors, NEW c \in Actors, Relay(b, c)
  PROVE  RqInv'
<1>1. /\ b \in Relayers /\ b \notin Repliers /\ b # c
      /\ busy' = busy \ {b}
      /\ UNCHANGED <<recv_que, wait_reply_list, res_msg_list, asked, answered>>
  BY DEF Relay, mailboxVars, OneRoleEach
<1>2. CASE RelayedReq(b) = 0
  <2>1. PostPlain(b, c) /\ UNCHANGED <<handler, msg>>
    BY <1>2 DEF Relay, NoReq
  <2>2. RqType'
    <3>1. StrandsOK'
      BY <1>1, <2>1, PlainPosted, SameSets DEF RqInv, StrandsOK
    <3>2. HistoryOK' /\ QueuesOK'
      BY <1>1, <2>1, SameSets DEF RqInv, RqType, HistoryOK, QueuesOK, Plains
    <3>3. OwedOK' /\ ResponsesOK'
      BY <1>1, <2>1, SameSets DEF RqInv, RqType, OwedOK, ResponsesOK
    <3>4. UsersOK'
      BY <1>1, <2>1, SameSets DEF RqInv, RqType, UsersOK
    <3>5. QED
      BY <3>1, <3>2, <3>3, <3>4 DEF RqType
  <2>3. ASSUME NEW id \in Ids, OneToken(id)
        PROVE  OneToken(id)'
    <3>1. asked[id] \in Actors /\ handler[id] \in Actors
      BY IdType DEF RqInv, RqType
    <3>2. \A x \in Actors : \A y :
                /\ CountIn(strand'[x], {Request(y, id)}) = CountIn(strand[x], {Request(y, id)})
                /\ CountIn(strand'[x], {Response(y, id)}) = CountIn(strand[x], {Response(y, id)})
      <4>1. RqType /\ PostPlain(b, c)
        BY <2>1 DEF RqInv
      <4>2. \A x \in Actors : \A y, i :
              /\ CountIn(strand'[x], {Request(y, i)}) = CountIn(strand[x], {Request(y, i)})
              /\ CountIn(strand'[x], {Response(y, i)}) = CountIn(strand[x], {Response(y, i)})
        BY <1>1, <4>1, PlainPosted
      <4>3. QED
        BY <4>2
    <3>3. /\ \A x \in Actors : HeldAs(x, id)' = HeldAs(x, id)
          /\ AnsweredAs(id)' = AnsweredAs(id)
      BY <1>1, <2>1, <3>1, <3>2 DEF HeldAs, AnsweredAs, Request, Response
    <3>4. QED
      BY <1>1, <2>1, <2>3, <3>1, <3>3 DEF OneToken
  <2>4. QED
    BY <1>1, <2>1, <2>2, <2>3, TokensKept
<1>3. CASE RelayedReq(b) # 0
  <2>1. PICK j \in Ids :
          /\ j = msg[b].req /\ j # 0
          /\ Post(c, Request(asked[j], j))
          /\ handler' = [handler EXCEPT ![j] = c]
          /\ msg' = [msg EXCEPT ![b].req = 0]
    BY <1>3 DEF Relay, RelayedReq, NoReq, RelayedRequest, ClearReq, RqInv, RqType, UsersOK
  <2> DEFINE a == asked[j]
             pk == Request(a, j)
             r == Response(handler[j], j)
  <2>2. a \in Actors /\ handler[j] \in Actors /\ j \in Nat
    BY <2>1, IdType DEF RqInv, RqType
  <2>3. /\ CountIn(strand[b], {pk}) \in Nat /\ CountIn(recv_que[b], {pk}) \in Nat
        /\ HeldAs(b, j) = CountIn(strand[b], {pk}) + (CountIn(recv_que[b], {pk}) + 1)
    <3>1. CountIn(strand[b], {pk}) \in Nat /\ CountIn(recv_que[b], {pk}) \in Nat
      BY <2>1, CountsAreNat DEF RqInv
    <3>2. QED
      BY <1>1, <2>1, <3>1 DEF HeldAs
  <2>4. handler[j] = b
    <3>1. HeldAs(b, j) # 0
      BY <2>3
    <3>2. QED
      BY <2>1, <3>1 DEF RqInv, Tokens
  <2>5. /\ AnsweredAs(j) = 0
        /\ CountIn(strand[b], {pk}) = 0 /\ CountIn(recv_que[b], {pk}) = 0
    <3>1. HeldAs(b, j) + AnsweredAs(j) <= 1 /\ AnsweredAs(j) \in Nat
      BY <2>1, <2>4, CountsAreNat DEF RqInv, Tokens
    <3>2. QED
      BY <2>3, <3>1
  <2>6. /\ CountIn(strand[a], {r}) = 0
        /\ r \notin res_msg_list[a]
        /\ [id |-> j, by |-> handler[j]] \notin answered
    <3>1. CountIn(strand[a], {r}) \in Nat
      BY <2>1, <2>2, CountsAreNat DEF RqInv
    <3> HIDE DEF r
    <3>2. AnsweredAs(j) = CountIn(strand[a], {r})
            + (IF r \in res_msg_list[a] THEN 1 ELSE 0)
            + (IF [id |-> j, by |-> handler[j]] \in answered THEN 1 ELSE 0)
      BY DEF AnsweredAs, r
    <3>3. QED
      BY <2>5, <3>1, <3>2
  <2>7. /\ handler' \in Seq(Actors) /\ Len(handler') = Len(asked)
        /\ handler'[j] = c
        /\ \A id \in Ids : id # j => handler'[id] = handler[id]
        /\ Ids' = Ids /\ Requests' = Requests /\ \A x : OwedTo(x)' = OwedTo(x)
    <3>1. Ids' = Ids /\ Requests' = Requests /\ \A x : OwedTo(x)' = OwedTo(x)
      BY <1>1 DEF Ids, Requests, OwedTo
    <3>2. handler \in Seq(Actors) /\ Len(handler) = Len(asked) /\ j \in 1..Len(handler)
      BY <2>1 DEF RqInv, RqType, HistoryOK, Ids
    <3>3. handler' \in Seq(Actors) /\ Len(handler') = Len(asked)
      BY <2>1, <3>2
    <3>4. QED
      BY <2>1, <3>1, <3>2, <3>3 DEF Ids
  <2>8. \A x \in Actors : \A p \in AnswersTo(x) : p # r => p \in AnswersTo(x)'
    <3>1. ASSUME NEW x \in Actors, NEW p \in AnswersTo(x), p # r
          PROVE  p \in AnswersTo(x)'
      <4>1. PICK id \in Ids : asked[id] = x /\ p = Response(handler[id], id)
        BY DEF AnswersTo
      <4>2. id # j
        BY <3>1, <4>1
      <4>3. p = Response(handler'[id], id)
        BY <2>7, <4>1, <4>2
      <4>4. QED
        BY <1>1, <2>7, <4>1, <4>3 DEF AnswersTo, Response
    <3>2. QED
      BY <3>1
  <2>9. \A x \in Actors : r \in AnswersTo(x) => x = a
    BY DEF AnswersTo, Response
  <2>10. \A x \in Actors : strand[x] \in Seq(PacksTo(x)')
    <3>1. ASSUME NEW x \in Actors PROVE strand[x] \in Seq(PacksTo(x)')
      <4>1. strand[x] \in Seq(PacksTo(x))
        BY DEF RqInv, RqType, StrandsOK
      <4>2. r \notin Plains \cup Requests
        BY DEF Plains, Requests, Request, Response
      <4>3. \A i \in 1..Len(strand[x]) : strand[x][i] # r
        <5>1. CASE x = a
          <6>1. CountIn(strand[x], {r}) = 0
            BY <2>6, <5>1
          <6> HIDE DEF r, a
          <6>2. \A i \in 1..Len(strand[x]) : strand[x][i] \notin {r}
            BY <4>1, <6>1, CountType
          <6>3. QED
            BY <6>2
        <5>2. CASE x # a
          BY <2>9, <4>1, <4>2, <5>2 DEF PacksTo
        <5>3. QED
          BY <5>1, <5>2
      <4>4. \A i \in 1..Len(strand[x]) : strand[x][i] \in PacksTo(x)'
        <5>1. \A i \in 1..Len(strand[x]) : strand[x][i] \in PacksTo(x)
          BY <4>1
        <5>2. \A p \in PacksTo(x) : p # r => p \in PacksTo(x)'
          BY <2>7, <2>8 DEF PacksTo, Plains
        <5>3. QED
          BY <4>3, <5>1, <5>2
      <4>5. QED
        BY <4>1, <4>4
    <3>2. QED
      BY <3>1
  <2>11. pk \in PacksTo(c)'
    <3>1. pk \in Requests
      BY <2>1 DEF Requests
    <3>2. QED
      BY <2>7, <3>1 DEF PacksTo
  <2>12. /\ strand' = [x \in Actors |-> strand'[x]]
         /\ \A x \in Actors : strand'[x] \in Seq(PacksTo(x)')
         /\ \A S : pk \in S => CountIn(strand'[c], S) = CountIn(strand[c], S) + 1
         /\ \A x \in Actors : \A S : x # c \/ pk \notin S => CountIn(strand'[x], S) = CountIn(strand[x], S)
    <3> DEFINE P == [x \in Actors |-> PacksTo(x)']
    <3>1. pk \in P[c]
      BY <2>11
    <3>2. strand = [x \in Actors |-> strand[x]] /\ \A x \in Actors : strand[x] \in Seq(P[x])
      BY <2>10 DEF RqInv, RqType, StrandsOK
    <3>0. Post(c, pk)
      BY <2>1
    <3> HIDE DEF P, pk, a
    <3>3. /\ strand' = [x \in Actors |-> strand'[x]]
          /\ \A x \in Actors : strand'[x] \in Seq(P[x])
          /\ \A S : pk \in S => CountIn(strand'[c], S) = CountIn(strand[c], S) + 1
          /\ \A x \in Actors : \A S : x # c \/ pk \notin S => CountIn(strand'[x], S) = CountIn(strand[x], S)
      BY <3>0, <3>1, <3>2, PostKeeps
    <3>4. QED
      BY <3>3 DEF P
  <2>13. RqType'
    <3>1. HistoryOK'
      <4>1. answered \subseteq {[id |-> id, by |-> handler'[id]] : id \in Ids}
        BY <2>6, <2>7 DEF RqInv, RqType, HistoryOK
      <4>2. QED
        BY <1>1, <2>7, <4>1 DEF RqInv, RqType, HistoryOK
    <3>2. StrandsOK'
      BY <2>12 DEF StrandsOK
    <3>3. QueuesOK' /\ OwedOK'
      BY <1>1, <2>7 DEF RqInv, RqType, QueuesOK, OwedOK, Plains
    <3>4. ResponsesOK'
      BY <1>1, <2>6, <2>8, <2>9 DEF RqInv, RqType, ResponsesOK
    <3>5. UsersOK'
      BY <1>1, <2>1, <2>7 DEF RqInv, RqType, UsersOK
    <3>6. QED
      BY <3>1, <3>2, <3>3, <3>4, <3>5 DEF RqType
  <2>14. ASSUME NEW id \in Ids, id # j, OneToken(id)
         PROVE  OneToken(id)'
    <3> DEFINE q == Request(asked[id], id)
               p == Response(handler[id], id)
    <3>1. asked[id] \in Actors /\ handler[id] \in Actors /\ id # 0
      BY IdType DEF RqInv, RqType
    <3>2. pk \notin {q} /\ pk \notin {p}
      BY <2>14 DEF Request, Response
    <3>3. \A x \in Actors : /\ CountIn(strand'[x], {q}) = CountIn(strand[x], {q})
                            /\ CountIn(strand'[x], {p}) = CountIn(strand[x], {p})
      BY <2>12, <3>2
    <3>4. \A x \in Actors : msg'[x].req = id <=> msg[x].req = id
      BY <2>1, <2>14, <3>1 DEF RqInv, RqType, UsersOK
    <3>5. \A x \in Actors : HeldAs(x, id)' = HeldAs(x, id)
      BY <1>1, <3>3, <3>4 DEF HeldAs
    <3>6. handler'[id] = handler[id]
      BY <2>7, <2>14
    <3>7. AnsweredAs(id)' = AnsweredAs(id)
      BY <1>1, <3>1, <3>3, <3>6 DEF AnsweredAs
    <3>8. QED
      BY <2>14, <3>1, <3>5, <3>6, <3>7 DEF OneToken
  <2>15. OneToken(j)'
    <3>1. HeldAs(b, j)' = 0
      <4>1. CountIn(strand'[b], {pk}) = 0
        BY <1>1, <2>5, <2>12
      <4>2. msg'[b].req = 0
        BY <2>1 DEF RqInv, RqType, UsersOK
      <4>3. HeldAs(b, j)' = CountIn(strand'[b], {pk})
              + (CountIn(recv_que[b], {pk}) + (IF msg'[b].req = j THEN 1 ELSE 0))
        BY <1>1 DEF HeldAs
      <4>4. QED
        BY <2>1, <2>5, <4>1, <4>2, <4>3
    <3>2. ASSUME NEW x \in Actors, x # b, x # c PROVE HeldAs(x, j)' = 0
      <4>1. HeldAs(x, j) = 0
        BY <2>1, <2>4, <3>2 DEF RqInv, Tokens
      <4>2. CountIn(strand'[x], {pk}) = CountIn(strand[x], {pk})
        BY <2>12, <3>2
      <4>3. msg'[x] = msg[x]
        BY <2>1, <3>2 DEF RqInv, RqType, UsersOK
      <4>4. QED
        BY <1>1, <4>1, <4>2, <4>3 DEF HeldAs
    <3>3. HeldAs(c, j)' = 1
      <4> DEFINE n == IF c \in Repliers THEN CountIn(wait_reply_list[c][a], {j})
                      ELSE CountIn(recv_que[c], {pk}) + (IF msg[c].req = j THEN 1 ELSE 0)
      <4>1. CountIn(strand[c], {pk}) + n = 0
        <5>1. HeldAs(c, j) = 0
          BY <1>1, <2>1, <2>4 DEF RqInv, Tokens
        <5>2. QED
          BY <5>1 DEF HeldAs
      <4>2. CountIn(strand'[c], {pk}) = CountIn(strand[c], {pk}) + 1
        BY <2>12
      <4>3. msg'[c] = msg[c]
        BY <1>1, <2>1 DEF RqInv, RqType, UsersOK
      <4>4. HeldAs(c, j)' = CountIn(strand'[c], {pk}) + n
        BY <1>1, <4>3 DEF HeldAs
      <4>5. n \in Nat /\ CountIn(strand[c], {pk}) \in Nat
        <5>1. /\ CountIn(wait_reply_list[c][a], {j}) \in Nat
              /\ CountIn(recv_que[c], {pk}) \in Nat
              /\ CountIn(strand[c], {pk}) \in Nat
          BY <2>1, CountsAreNat DEF RqInv
        <5>2. QED
          BY <5>1
      <4> HIDE DEF n
      <4>6. QED
        BY <4>1, <4>2, <4>4, <4>5
    <3>4. AnsweredAs(j)' = 0
      <4> DEFINE p == Response(c, j)
      <4>1. p \notin PacksTo(a) /\ p \notin AnswersTo(a)
        BY <1>1, <2>4 DEF PacksTo, Plains, Requests, AnswersTo, Request, Response
      <4>2. CountIn(strand[a], {p}) = 0
        <5>1. strand[a] \in Seq(PacksTo(a)) /\ PacksTo(a) \cap {p} = {}
          BY <2>2, <4>1 DEF RqInv, RqType, StrandsOK
        <5> HIDE DEF p
        <5>2. QED
          BY <5>1, NoneIn
      <4>3. CountIn(strand'[a], {p}) = 0
        <5>1. pk \notin {p}
          BY DEF Request, Response
        <5>2. QED
          BY <2>2, <2>12, <4>2, <5>1
      <4>4. p \notin res_msg_list[a]
        BY <2>2, <4>1 DEF RqInv, RqType, ResponsesOK
      <4>5. [id |-> j, by |-> c] \notin answered
        BY <1>1, <2>4 DEF RqInv, RqType, HistoryOK
      <4>6. AnsweredAs(j)' = CountIn(strand'[a], {p}) + (IF p \in res_msg_list[a] THEN 1 ELSE 0)
                               + (IF [id |-> j, by |-> c] \in answered THEN 1 ELSE 0)
        BY <1>1, <2>7 DEF AnsweredAs
      <4>7. QED
        BY <4>3, <4>4, <4>5, <4>6
    <3>5. QED
      BY <2>7, <3>1, <3>2, <3>3, <3>4 DEF OneToken
  <2>16. QED
    BY <2>7, <2>13, <2>14, <2>15 DEF RqInv, Tokens, OneToken
<1>4. QED
  BY <1>2, <1>3

\* A request gets the next number: it was held and answered nowhere.
LEMMA AskInv ==
  ASSUME RqInv, RequestReplyAssumption, NEW a \in Actors, NEW b \in Actors, Ask(a, b)
  PROVE  RqInv'
<1>1. PICK n \in Nat : n = Len(asked) + 1
  BY DEF RqInv, RqType, HistoryOK
<1> DEFINE pk == Request(a, n)
<1>2. /\ a \in Askers
      /\ asked' = Append(asked, a) /\ handler' = Append(handler, b)
      /\ Post(b, pk)
      /\ UNCHANGED <<recv_que, wait_reply_list, res_msg_list, msg, busy, answered>>
  BY <1>1 DEF Ask, mailboxVars, userVars
<1>3. /\ asked' \in Seq(Askers) /\ handler' \in Seq(Actors) /\ Len(handler') = Len(asked')
      /\ Ids' = Ids \cup {n} /\ n \notin Ids /\ n # 0
      /\ \A id \in Ids : asked'[id] = asked[id] /\ handler'[id] = handler[id]
      /\ asked'[n] = a /\ handler'[n] = b
  BY <1>1, <1>2 DEF RqInv, RqType, HistoryOK, Ids
<1>4. /\ Requests \subseteq Requests' /\ pk \in Requests'
      /\ \A x : AnswersTo(x) \subseteq AnswersTo(x)' /\ OwedTo(x) \subseteq OwedTo(x)'
  <2>1. Requests \subseteq Requests'
    <3>1. ASSUME NEW id \in Ids PROVE Request(asked[id], id) \in Requests'
      <4>1. Request(asked[id], id) = Request(asked'[id], id) /\ id \in Ids'
        BY <1>3
      <4>2. QED
        BY <4>1 DEF Requests, Request
    <3>2. QED
      BY <3>1 DEF Requests
  <2>2. pk \in Requests'
    BY <1>3 DEF Requests, Request
  <2>3. ASSUME NEW x PROVE AnswersTo(x) \subseteq AnswersTo(x)'
    <3>1. ASSUME NEW id \in Ids, asked[id] = x PROVE Response(handler[id], id) \in AnswersTo(x)'
      <4>1. Response(handler[id], id) = Response(handler'[id], id) /\ id \in Ids' /\ asked'[id] = x
        BY <1>3, <3>1
      <4>2. QED
        BY <4>1 DEF AnswersTo, Response
    <3>2. QED
      BY <3>1 DEF AnswersTo
  <2>4. ASSUME NEW x PROVE OwedTo(x) \subseteq OwedTo(x)'
    BY <1>3 DEF OwedTo
  <2>5. QED
    BY <2>1, <2>2, <2>3, <2>4
<1>5. \A x : PacksTo(x) \subseteq PacksTo(x)' /\ pk \in PacksTo(x)'
  BY <1>4 DEF PacksTo, Plains
<1>6. \A x \in Actors : /\ strand[x] \in Seq(PacksTo(x)) /\ strand[x] \in Seq(PacksTo(x)')
                        /\ recv_que[x] \in Seq(Plains \cup Requests)
                        /\ recv_que[x] \in Seq(Plains \cup Requests')
                        /\ \A y \in Actors : /\ wait_reply_list[x][y] \in Seq(OwedTo(y))
                                             /\ wait_reply_list[x][y] \in Seq(OwedTo(y)')
  <2>1. \A S, T : S \subseteq T => Seq(S) \subseteq Seq(T)
    OBVIOUS
  <2>2. ASSUME NEW x \in Actors PROVE strand[x] \in Seq(PacksTo(x)) /\ strand[x] \in Seq(PacksTo(x)')
    BY <1>5, <2>1 DEF RqInv, RqType, StrandsOK
  <2>3. ASSUME NEW x \in Actors PROVE /\ recv_que[x] \in Seq(Plains \cup Requests)
                                      /\ recv_que[x] \in Seq(Plains \cup Requests')
    <3>1. Plains \cup Requests \subseteq Plains \cup Requests'
      BY <1>4
    <3>2. recv_que[x] \in Seq(Plains \cup Requests)
      BY DEF RqInv, RqType, QueuesOK
    <3>3. QED
      BY <2>1, <3>1, <3>2, Zenon
  <2>4. ASSUME NEW x \in Actors, NEW y \in Actors PROVE /\ wait_reply_list[x][y] \in Seq(OwedTo(y))
                                                        /\ wait_reply_list[x][y] \in Seq(OwedTo(y)')
    BY <1>4, <2>1 DEF RqInv, RqType, OwedOK
  <2>5. QED
    BY <2>2, <2>3, <2>4
<1>7. /\ strand' = [x \in Actors |-> strand'[x]]
      /\ \A x \in Actors : strand'[x] \in Seq(PacksTo(x)')
      /\ \A S : pk \in S => CountIn(strand'[b], S) = CountIn(strand[b], S) + 1
      /\ \A x \in Actors : \A S : x # b \/ pk \notin S => CountIn(strand'[x], S) = CountIn(strand[x], S)
  <2> DEFINE P == [x \in Actors |-> PacksTo(x)']
  <2>1. pk \in P[b] /\ Post(b, pk)
    BY <1>2, <1>5
  <2>2. strand = [x \in Actors |-> strand[x]] /\ \A x \in Actors : strand[x] \in Seq(P[x])
    BY <1>6 DEF RqInv, RqType, StrandsOK
  <2> HIDE DEF P, pk
  <2>3. /\ strand' = [x \in Actors |-> strand'[x]]
        /\ \A x \in Actors : strand'[x] \in Seq(P[x])
        /\ \A S : pk \in S => CountIn(strand'[b], S) = CountIn(strand[b], S) + 1
        /\ \A x \in Actors : \A S : x # b \/ pk \notin S => CountIn(strand'[x], S) = CountIn(strand[x], S)
    BY <2>1, <2>2, PostKeeps
  <2>4. QED
    BY <2>3 DEF P
<1>8. RqType'
  <2>1. HistoryOK'
    <3>1. \A r \in answered : \E id \in Ids' : r = [id |-> id, by |-> handler'[id]]
      BY <1>3 DEF RqInv, RqType, HistoryOK
    <3>2. QED
      BY <1>2, <1>3, <3>1 DEF HistoryOK
  <2>2. StrandsOK'
    BY <1>7 DEF StrandsOK
  <2>3. QueuesOK'
    BY <1>2, <1>6 DEF RqInv, RqType, QueuesOK, Plains
  <2>4. OwedOK'
    BY <1>2, <1>6 DEF RqInv, RqType, OwedOK
  <2>5. ResponsesOK'
    BY <1>2, <1>4 DEF RqInv, RqType, ResponsesOK
  <2>6. UsersOK'
    BY <1>2, <1>3 DEF RqInv, RqType, UsersOK
  <2>7. QED
    BY <2>1, <2>2, <2>3, <2>4, <2>5, <2>6 DEF RqType
<1>9. ASSUME NEW id \in Ids, OneToken(id)
      PROVE  OneToken(id)'
  <2> DEFINE q == Request(asked[id], id)
             p == Response(handler[id], id)
  <2>1. asked[id] \in Actors /\ handler[id] \in Actors /\ asked'[id] = asked[id] /\ handler'[id] = handler[id]
    BY <1>3, IdType DEF RqInv, RqType
  <2>2. pk \notin {q} /\ pk \notin {p}
    BY <1>3 DEF Request, Response
  <2>3. \A x \in Actors : /\ CountIn(strand'[x], {q}) = CountIn(strand[x], {q})
                          /\ CountIn(strand'[x], {p}) = CountIn(strand[x], {p})
    BY <1>7, <2>2
  <2>4. \A x \in Actors : HeldAs(x, id)' = HeldAs(x, id)
    BY <1>2, <2>1, <2>3 DEF HeldAs
  <2>5. AnsweredAs(id)' = AnsweredAs(id)
    BY <1>2, <2>1, <2>3 DEF AnsweredAs
  <2>6. QED
    BY <1>9, <2>1, <2>4, <2>5 DEF OneToken
<1>10. OneToken(n)'
  <2>1. \A x \in Actors : CountIn(strand[x], {pk}) = 0
    <3>1. ASSUME NEW x \in Actors PROVE PacksTo(x) \cap {pk} = {}
      BY <1>3 DEF PacksTo, Plains, Requests, AnswersTo, Request, Response
    <3>2. QED
      BY <1>6, <3>1, NoneIn
  <2>2. \A x \in Actors : CountIn(recv_que[x], {pk}) = 0
    <3>1. (Plains \cup Requests) \cap {pk} = {}
      BY <1>3 DEF Plains, Requests, Request
    <3>2. QED
      BY <1>6, <3>1, NoneIn
  <2>3. \A x \in Actors : CountIn(wait_reply_list[x][a], {n}) = 0 /\ msg[x].req # n
    <3>1. OwedTo(a) \cap {n} = {}
      BY <1>3 DEF OwedTo
    <3>2. \A x \in Actors : CountIn(wait_reply_list[x][a], {n}) = 0
      BY <1>6, <3>1, NoneIn
    <3>3. QED
      BY <1>3, <3>2 DEF RqInv, RqType, UsersOK
  <2>4. \A x \in Actors : HeldAs(x, n)' = CountIn(strand'[x], {pk}) + 0
    <3>1. ASSUME NEW x \in Actors
          PROVE  HeldAs(x, n)' = CountIn(strand'[x], {pk})
                   + IF x \in Repliers THEN CountIn(wait_reply_list[x][a], {n})
                     ELSE CountIn(recv_que[x], {pk}) + (IF msg[x].req = n THEN 1 ELSE 0)
      BY <1>2, <1>3 DEF HeldAs
    <3> HIDE DEF pk
    <3>2. ASSUME NEW x \in Actors PROVE HeldAs(x, n)' = CountIn(strand'[x], {pk}) + 0
      <4>1. CASE x \in Repliers
        BY <2>3, <3>1, <4>1
      <4>2. CASE x \notin Repliers
        <5>1. CountIn(recv_que[x], {pk}) = 0 /\ msg[x].req # n
          BY <2>2, <2>3
        <5>2. HeldAs(x, n)' = CountIn(strand'[x], {pk})
                                + (CountIn(recv_que[x], {pk}) + (IF msg[x].req = n THEN 1 ELSE 0))
          BY <3>1, <4>2
        <5>3. HeldAs(x, n)' = CountIn(strand'[x], {pk}) + (0 + 0)
          BY <5>1, <5>2, Zenon
        <5>4. QED
          BY <5>3
      <4>3. QED
        BY <4>1, <4>2
    <3>3. QED
      BY <3>2
  <2>5. CountIn(strand'[b], {pk}) = 1 /\ \A x \in Actors : x # b => CountIn(strand'[x], {pk}) = 0
    <3>1. pk \in {pk} /\ CountIn(strand[b], {pk}) = 0
      BY <2>1
    <3>2. CountIn(strand'[b], {pk}) = CountIn(strand[b], {pk}) + 1
      BY <1>7, <3>1
    <3>3. \A x \in Actors : x # b => CountIn(strand'[x], {pk}) = CountIn(strand[x], {pk})
      BY <1>7
    <3> HIDE DEF pk
    <3>4. QED
      BY <2>1, <3>1, <3>2, <3>3
  <2>6. AnsweredAs(n)' = 0
    <3> DEFINE p == Response(b, n)
    <3>1. p \notin PacksTo(a) /\ p \notin AnswersTo(a)
      BY <1>3 DEF PacksTo, Plains, Requests, AnswersTo, Request, Response
    <3>2. CountIn(strand[a], {p}) = 0
      <4>1. PacksTo(a) \cap {p} = {}
        BY <3>1
      <4> HIDE DEF p
      <4>2. QED
        BY <1>6, <4>1, NoneIn
    <3>3. CountIn(strand'[a], {p}) = 0
      <4>1. pk \notin {p}
        BY DEF Request, Response
      <4>2. QED
        BY <1>7, <3>2, <4>1
    <3>4. p \notin res_msg_list[a]
      BY <3>1 DEF RqInv, RqType, ResponsesOK
    <3>5. [id |-> n, by |-> b] \notin answered
      BY <1>3 DEF RqInv, RqType, HistoryOK
    <3>6. AnsweredAs(n)' = CountIn(strand'[a], {p}) + (IF p \in res_msg_list[a] THEN 1 ELSE 0)
                             + (IF [id |-> n, by |-> b] \in answered THEN 1 ELSE 0)
      BY <1>2, <1>3 DEF AnsweredAs
    <3>7. QED
      BY <3>3, <3>4, <3>5, <3>6
  <2>7. HeldAs(b, n)' = 1 /\ \A x \in Actors : x # b => HeldAs(x, n)' = 0
    BY <2>4, <2>5
  <2>8. QED
    BY <1>3, <2>6, <2>7 DEF OneToken
<1>11. QED
  BY <1>3, <1>8, <1>9, <1>10 DEF RqInv, Tokens, OneToken

\* Every step keeps the tokens.
LEMMA RqStep ==
  ASSUME RqInv, RequestReplyAssumption, OneRoleEach, [Next]_vars
  PROVE  RqInv'
<1>1. CASE UNCHANGED vars
  <2>1. UNCHANGED <<strand, recv_que, wait_reply_list, res_msg_list, msg, busy, asked, handler, answered>>
    BY <1>1 DEF vars, mailboxVars, userVars, historyVars
  <2>2. RqType'
    <3>1. HistoryOK' /\ QueuesOK' /\ UsersOK'
      BY <2>1, SameSets DEF RqInv, RqType, HistoryOK, QueuesOK, UsersOK, Plains
    <3>2. StrandsOK'
      BY <2>1, SameSets DEF RqInv, RqType, StrandsOK
    <3>3. OwedOK' /\ ResponsesOK'
      BY <2>1, SameSets DEF RqInv, RqType, OwedOK, ResponsesOK
    <3>4. QED
      BY <3>1, <3>2, <3>3 DEF RqType
  <2>3. \A id \in Ids : AnsweredAs(id)' = AnsweredAs(id) /\ \A x : HeldAs(x, id)' = HeldAs(x, id)
    BY <2>1 DEF AnsweredAs, HeldAs
  <2>4. \A id \in Ids : OneToken(id) => OneToken(id)'
    BY <2>1, <2>3, IdType DEF OneToken, RqInv, RqType
  <2>5. QED
    BY <2>1, <2>2, <2>4, TokensKept
<1>2. ASSUME NEW a \in Actors, NEW b \in Actors, Ask(a, b) \/ Send(a, b) PROVE RqInv'
  BY <1>2, AskInv, SendInv
<1>3. ASSUME NEW b \in Actors, DealWith(b) \/ HandleRecv(b) \/ RecvResponse(b) \/ Exit(b)
      PROVE  RqInv'
  BY <1>3, RecvInv, ReplyInv, RelayInv, HandleRecvInv, RecvResponseInv, ExitInv DEF DealWith
<1>4. QED
  BY <1>1, <1>2, <1>3 DEF Next

\* The counts of the model are the counts here.
LEMMA OccurrencesCount ==
  ASSUME NEW s, NEW x
  PROVE  Cardinality(Occurrences(s, x)) = CountIn(s, {x})
<1>1. Occurrences(s, x) = {i \in 1..Len(s) : s[i] \in {x}}
  BY DEF Occurrences
<1>2. QED
  BY <1>1 DEF CountIn

\* What the model counts as held is part of what the tokens count.
LEMMA HeldByAtMost ==
  ASSUME RqInv, RequestReplyAssumption, NEW id \in Ids, NEW b \in Actors
  PROVE  HeldBy(id, b) \in Nat /\ HeldBy(id, b) <= HeldAs(b, id)
<1> DEFINE pk == Request(asked[id], id)
<1>1. asked[id] \in Actors
  BY IdType DEF RqInv, RqType
<1>2. /\ CountIn(strand[b], {pk}) \in Nat /\ CountIn(recv_que[b], {pk}) \in Nat
      /\ CountIn(wait_reply_list[b][asked[id]], {id}) \in Nat
  BY CountsAreNat DEF RqInv
<1>3. Owes(b, id) => CountIn(wait_reply_list[b][asked[id]], {id}) > 0
  <2>1. wait_reply_list[b][asked[id]] \in Seq(OwedTo(asked[id]))
    BY <1>1 DEF RqInv, RqType, OwedOK
  <2>2. CountIn(wait_reply_list[b][asked[id]], {id}) = 0 <=>
          \A i \in 1..Len(wait_reply_list[b][asked[id]]) : wait_reply_list[b][asked[id]][i] \notin {id}
    BY <2>1, CountType
  <2>3. QED
    BY <1>2, <2>2 DEF Owes
<1>4. HeldBy(id, b) = CountIn(strand[b], {pk})
        + (IF b \in Repliers /\ Owes(b, id) THEN 1 ELSE 0)
        + (IF b \notin Repliers THEN CountIn(recv_que[b], {pk}) ELSE 0)
        + (IF b \notin Repliers /\ b \in busy /\ msg[b].req = id THEN 1 ELSE 0)
  <2>1. /\ Cardinality(Occurrences(strand[b], pk)) = CountIn(strand[b], {pk})
        /\ Cardinality(Occurrences(recv_que[b], pk)) = CountIn(recv_que[b], {pk})
    BY OccurrencesCount
  <2>2. QED
    BY <2>1 DEF HeldBy
<1>5. HeldAs(b, id) = CountIn(strand[b], {pk})
        + IF b \in Repliers THEN CountIn(wait_reply_list[b][asked[id]], {id})
          ELSE CountIn(recv_que[b], {pk}) + (IF msg[b].req = id THEN 1 ELSE 0)
  BY DEF HeldAs
<1> HIDE DEF pk
<1>6. CASE b \in Repliers
  BY <1>2, <1>3, <1>4, <1>5, <1>6
<1>7. CASE b \notin Repliers
  BY <1>2, <1>4, <1>5, <1>7
<1>8. QED
  BY <1>6, <1>7

\* A set whose members can be x only.
LEMMA AtMostOne ==
  ASSUME NEW x, NEW T, T \subseteq {x}
  PROVE  Cardinality(T) = IF x \in T THEN 1 ELSE 0
<1>1. T = {x} \/ T = {}
  OBVIOUS
<1>2. Cardinality({x}) = 1 /\ Cardinality({}) = 0
  BY FS_Singleton, FS_EmptySet
<1>3. QED
  BY <1>1, <1>2

\* And what it counts as answers is what they count.
LEMMA AnswersCount ==
  ASSUME RqInv, RequestReplyAssumption, NEW id \in Ids
  PROVE  Answers(id) = AnsweredAs(id)
<1> DEFINE a == asked[id]
           pk == Response(handler[id], id)
           rc == [id |-> id, by |-> handler[id]]
           A == {i \in 1..Len(strand[a]) : strand[a][i].tag = "response" /\ strand[a][i].id = id}
           B == {r \in res_msg_list[a] : r.id = id}
           C == {r \in answered : r.id = id}
<1>1. a \in Actors
  BY IdType DEF RqInv, RqType
<1>2. A = {i \in 1..Len(strand[a]) : strand[a][i] \in {pk}}
  <2>1. \A i \in 1..Len(strand[a]) : strand[a][i] \in PacksTo(a)
    BY <1>1 DEF RqInv, RqType, StrandsOK
  <2>2. \A p \in PacksTo(a) : p.tag = "response" /\ p.id = id <=> p = pk
    <3>1. ASSUME NEW p \in PacksTo(a), p.tag = "response", p.id = id PROVE p = pk
      <4>1. p \notin Plains /\ p \notin Requests
        BY <3>1 DEF Plains, Requests, Request
      <4>2. p \in AnswersTo(a)
        BY <4>1 DEF PacksTo
      <4>3. QED
        BY <3>1, <4>2 DEF AnswersTo, Response
    <3>2. pk.tag = "response" /\ pk.id = id
      BY DEF Response
    <3>3. QED
      BY <3>1, <3>2
  <2>3. QED
    BY <2>1, <2>2
<1>3. B \subseteq {pk} /\ (pk \in B <=> pk \in res_msg_list[a])
  BY <1>1 DEF RqInv, RqType, ResponsesOK, AnswersTo, Response
<1>4. C \subseteq {rc} /\ (rc \in C <=> rc \in answered)
  BY DEF RqInv, RqType, HistoryOK
<1>5. /\ Cardinality(A) = CountIn(strand[a], {pk})
      /\ Cardinality(B) = IF pk \in res_msg_list[a] THEN 1 ELSE 0
      /\ Cardinality(C) = IF rc \in answered THEN 1 ELSE 0
  <2> HIDE DEF B, C, pk, rc, a
  <2>1. Cardinality(A) = CountIn(strand[a], {pk})
    BY <1>2 DEF CountIn
  <2>2. QED
    BY <1>3, <1>4, <2>1, AtMostOne
<1>6. Answers(id) = Cardinality(A) + Cardinality(B) + Cardinality(C)
  <2>1. Answers(id) = Cardinality(A) + Cardinality(B) + Cardinality(C)
    BY DEF Answers
  <2> HIDE DEF A, B, C
  <2>2. QED
    BY <2>1
<1>7. AnsweredAs(id) = CountIn(strand[a], {pk}) + (IF pk \in res_msg_list[a] THEN 1 ELSE 0)
                         + (IF rc \in answered THEN 1 ELSE 0)
  BY DEF AnsweredAs
<1> HIDE DEF A, B, C, pk, rc, a
<1>8. QED
  BY <1>5, <1>6, <1>7

\* The tokens are what the two invariants say.
LEMMA InvNeverTwice ==
  ASSUME RqInv, RequestReplyAssumption
  PROVE  NeverTwice /\ AnsweredByHandler
<1>1. AnsweredByHandler
  BY DEF RqInv, RqType, HistoryOK, AnsweredByHandler
<1>2. ASSUME NEW id \in Ids
      PROVE  /\ \A b \in Actors : HeldBy(id, b) > 0 =>
                  HeldBy(id, b) = 1 /\ b = handler[id] /\ Answers(id) = 0
             /\ Answers(id) <= 1
  <2>1. /\ \A b \in Actors \ {handler[id]} : HeldAs(b, id) = 0
        /\ HeldAs(handler[id], id) + AnsweredAs(id) <= 1
        /\ handler[id] \in Actors
    BY IdType DEF RqInv, RqType, Tokens
  <2>2. \A b \in Actors : HeldAs(b, id) \in Nat /\ AnsweredAs(id) \in Nat
    BY CountsAreNat DEF RqInv
  <2>3. \A b \in Actors : HeldBy(id, b) \in Nat /\ HeldBy(id, b) <= HeldAs(b, id)
    BY HeldByAtMost
  <2>4. Answers(id) = AnsweredAs(id)
    BY AnswersCount
  <2>5. QED
    BY <2>1, <2>2, <2>3, <2>4
<1>3. NeverTwice
  BY <1>2 DEF NeverTwice
<1>4. QED
  BY <1>1, <1>3

\* A request is with one actor at a time, the one that is to handle it, and gets one answer
\* at most, from that one: replies, relays, exits and bounces never multiply it (reply, relay
\* and handle_recv of basic_actor.cpp). Those who relay must not reply to what they relay.
THEOREM RequestsAreNotMultiplied ==
  ASSUME OneRoleEach
  PROVE  Spec => [](NeverTwice /\ AnsweredByHandler)
<1>1. Init => RqInv
  BY RequestReplyAssumption, RqInit
<1>2. RqInv /\ [Next]_vars => RqInv'
  BY RequestReplyAssumption, RqStep
<1>3. RqInv => NeverTwice /\ AnsweredByHandler
  BY RequestReplyAssumption, InvNeverTwice
<1>4. QED
  BY <1>1, <1>2, <1>3, PTL DEF Spec

\* What is posted to one actor changes no other actor's strand.
LEMMA PostReaches ==
  ASSUME strand = [x \in Actors |-> strand[x]], NEW U, NEW b \in Actors, NEW pk, Post(b, pk)
  PROVE  /\ \A x \in Actors : x # b => strand'[x] = strand[x]
         /\ strand[b] \in Seq(U) /\ pk \in U => strand'[b] \in Seq(U)
<1>1. CASE strand' = [strand EXCEPT ![b] = Append(@, pk)]
  <2>1. strand'[b] = Append(strand[b], pk) /\ \A x \in Actors : x # b => strand'[x] = strand[x]
    BY <1>1
  <2>2. QED
    BY <2>1
<1>2. CASE strand' = [strand EXCEPT ![b] = <<pk>> \o @]
  <2>1. strand'[b] = <<pk>> \o strand[b] /\ \A x \in Actors : x # b => strand'[x] = strand[x]
    BY <1>2
  <2>2. strand[b] \in Seq(U) /\ pk \in U => <<pk>> \o strand[b] \in Seq(U)
    BY ConsInSeq
  <2>3. QED
    BY <2>1, <2>2
<1>3. QED
  BY <1>1, <1>2 DEF Post

\* Nobody but send gives a message that is no request to those who deal with them.
LEMMA OnlyRequestsStep ==
  ASSUME RqInv, RequestReplyAssumption, DisjointRoles, OnlyRequests, [Next]_vars
  PROVE  OnlyRequests'
<1> DEFINE Dealers == Repliers \cup Relayers
           Fine(b) == /\ strand[b] \in Seq(Requests) /\ recv_que[b] \in Seq(Requests)
                      /\ b \in busy => msg[b].from \in Askers /\ (b \in Relayers => msg[b].req # 0)
<1>0. busy' \subseteq Dealers
  <2>1. ASSUME NEW b \in Actors, DealWith(b) \/ HandleRecv(b) \/ RecvResponse(b) \/ Exit(b)
        PROVE  busy' \subseteq Dealers
    BY <2>1 DEF OnlyRequests, DealWith, Recv, Reply, Relay, HandleRecv, RecvResponse,
          Exit, userVars
  <2>2. ASSUME NEW a \in Actors, NEW b \in Actors, Ask(a, b) \/ Send(a, b)
        PROVE  busy' \subseteq Dealers
    BY <2>2 DEF OnlyRequests, Ask, Send, userVars
  <2>3. CASE UNCHANGED vars
    BY <2>3 DEF OnlyRequests, vars, userVars
  <2>4. QED
    BY <2>1, <2>2, <2>3 DEF Next
<1> SUFFICES ASSUME ~sent', NEW d \in Dealers
             PROVE  Fine(d)'
  BY <1>0 DEF OnlyRequests
<1>1. /\ d \in Actors /\ d \notin Askers /\ Dealers \subseteq Actors
      /\ \A x \in Dealers : x \notin Askers
      /\ strand = [x \in Actors |-> strand[x]] /\ recv_que = [x \in Actors |-> recv_que[x]]
      /\ asked \in Seq(Askers)
  BY DEF RequestReplyAssumption, DisjointRoles, RqInv, RqType, HistoryOK, StrandsOK, QueuesOK
<1>2. UNCHANGED asked => Requests' = Requests
  BY SameSets DEF Requests, Ids
<1>3. ASSUME ~sent PROVE \A x \in Dealers : Fine(x)
  BY <1>3 DEF OnlyRequests
<1>4. \A pk \in Requests : \E j \in Ids : pk = Request(asked[j], j) /\ asked[j] \in Askers /\ j # 0
  BY <1>1 DEF Requests, Ids
<1>5. ASSUME NEW a \in Actors, NEW b \in Actors, Ask(a, b) PROVE Fine(d)'
  <2>1. /\ ~sent /\ asked' = Append(asked, a) /\ Post(b, Request(a, Len(asked) + 1))
        /\ UNCHANGED <<recv_que, msg, busy>>
    BY <1>5 DEF Ask, mailboxVars, userVars
  <2> DEFINE pk == Request(a, Len(asked) + 1)
             R == Requests'
  <2>2. pk \in R /\ Requests \subseteq R
    <3>1. /\ Ids' = 1..(Len(asked) + 1) /\ Ids = 1..Len(asked) /\ Len(asked) \in Nat
          /\ \A id \in Ids : asked'[id] = asked[id]
          /\ asked'[Len(asked) + 1] = a
      BY <1>1, <2>1 DEF Ids
    <3>2. \A id \in Ids : Request(asked'[id], id) = Request(asked[id], id) /\ id \in Ids'
      BY <3>1
    <3>3. R = {Request(asked'[id], id) : id \in Ids'}
      BY DEF Requests, Request
    <3>4. Len(asked) + 1 \in Ids'
      BY <3>1
    <3>5. pk \in R
      BY <3>1, <3>3, <3>4
    <3>6. Requests \subseteq R
      BY <3>2, <3>3 DEF Requests
    <3>7. QED
      BY <3>5, <3>6
  <2> HIDE DEF R, pk
  <2>3. \A s \in Seq(Requests) : s \in Seq(R)
    BY <2>2
  <2>4. strand'[d] \in Seq(R)
    <3>1. Post(b, pk)
      BY <2>1 DEF pk
    <3>2. strand[d] \in Seq(R)
      BY <1>3, <2>1, <2>3
    <3>3. QED
      BY <1>1, <2>2, <3>1, <3>2, PostReaches
  <2>5. recv_que[d] \in Seq(R)
    BY <1>3, <2>1, <2>3
  <2>6. QED
    BY <1>3, <2>1, <2>4, <2>5 DEF R
<1>6. ASSUME NEW b \in Actors, Recv(b) PROVE Fine(d)'
  <2> DEFINE m == Head(recv_que[b])
  <2>1. PICK old : msg' = [msg EXCEPT ![b] = [from |-> m.from, req |-> IF m.tag = "request" THEN m.id ELSE old]]
    BY <1>6 DEF Recv
  <2>2. /\ ~sent /\ b \in Dealers /\ recv_que[b] # <<>>
        /\ recv_que' = [recv_que EXCEPT ![b] = Tail(@)]
        /\ busy' = busy \cup {b}
        /\ UNCHANGED <<strand, asked>>
    BY <1>6 DEF Recv, historyVars
  <2>3. recv_que[b] \in Seq(Requests) /\ recv_que[b] # <<>>
    BY <1>3, <2>2
  <2>4. m \in Requests /\ Tail(recv_que[b]) \in Seq(Requests)
    BY <2>3, TakeHead
  <2> HIDE DEF m
  <2>5. PICK j \in Ids : m = Request(asked[j], j) /\ asked[j] \in Askers /\ j # 0
    BY <1>4, <2>4
  <2>6. /\ msg'[b].from \in Askers /\ msg'[b].req # 0
        /\ recv_que'[b] = Tail(recv_que[b])
        /\ \A x \in Actors : x # b => msg'[x] = msg[x] /\ recv_que'[x] = recv_que[x]
    <3>1. m.from \in Askers /\ m.tag = "request" /\ m.id = j
      BY <2>5 DEF Request
    <3>2. QED
      BY <1>1, <2>1, <2>2, <2>5, <3>1 DEF RqInv, RqType, UsersOK
  <2>7. CASE d = b
    BY <1>2, <1>3, <2>2, <2>4, <2>6, <2>7
  <2>8. CASE d # b
    BY <1>1, <1>2, <1>3, <2>2, <2>6, <2>8
  <2>9. QED
    BY <2>7, <2>8
<1>7. ASSUME NEW b \in Actors, Reply(b) PROVE Fine(d)'
  <2>1. /\ ~sent /\ b \in Dealers /\ b \in busy
        /\ busy' = busy \ {b} /\ UNCHANGED <<recv_que, msg, asked>>
        /\ \/ Post(msg[b].from, Response(b, Head(wait_reply_list[b][msg[b].from])))
           \/ PostPlain(b, msg[b].from)
    BY <1>7 DEF Reply
  <2>2. msg[b].from \in Askers /\ msg[b].from \in Actors
    BY <1>3, <2>1 DEF RequestReplyAssumption
  <2>3. strand'[d] = strand[d]
    BY <1>1, <2>1, <2>2, PostReaches DEF PostPlain
  <2>4. QED
    BY <1>2, <1>3, <2>1, <2>3
<1>8. ASSUME NEW b \in Actors, NEW c \in Actors, Relay(b, c) PROVE Fine(d)'
  <2>1. ~sent /\ b \in Relayers /\ b \in busy
    BY <1>8 DEF Relay
  <2>2. RelayedReq(b) = msg[b].req /\ msg[b].req # 0
    BY <1>3, <2>1 DEF RelayedReq, DisjointRoles
  <2>3. /\ busy' = busy \ {b} /\ UNCHANGED <<recv_que, asked>>
        /\ Post(c, Request(asked[msg[b].req], msg[b].req))
        /\ msg' = [msg EXCEPT ![b].req = 0]
    BY <1>8, <2>2 DEF Relay, NoReq, RelayedRequest, ClearReq, mailboxVars
  <2>4. Request(asked[msg[b].req], msg[b].req) \in Requests
    BY <2>2 DEF Requests, RqInv, RqType, UsersOK
  <2>5. strand'[d] \in Seq(Requests)
    BY <1>1, <1>3, <2>1, <2>3, <2>4, PostReaches
  <2>6. d # b => msg'[d] = msg[d]
    BY <1>1, <2>3 DEF RqInv, RqType, UsersOK
  <2>7. QED
    BY <1>2, <1>3, <2>1, <2>3, <2>5, <2>6
<1>9. ASSUME NEW b \in Actors, HandleRecv(b) PROVE Fine(d)'
  <2>1. ~sent /\ strand[b] # <<>> /\ UNCHANGED <<msg, busy, asked>>
    BY <1>9 DEF HandleRecv, userVars, historyVars
  <2> DEFINE pk == Head(strand[b])
             rest == RestOf(b)
  <2>2. /\ pk \in PacksTo(b) /\ (b \in Dealers => pk \in Requests)
        /\ \A x \in Dealers : rest[x] \in Seq(Requests)
        /\ rest = [x \in Actors |-> rest[x]]
    <3>1. pk \in PacksTo(b) /\ rest = [x \in Actors |-> rest[x]]
      BY <2>1, PackTaken DEF RqInv
    <3>2. b \in Dealers => pk \in Requests /\ Tail(strand[b]) \in Seq(Requests)
      <4>1. b \in Dealers => strand[b] \in Seq(Requests) /\ strand[b] # <<>>
        BY <1>3, <2>1
      <4>2. QED
        BY <4>1, TakeHead
    <3>3. rest[b] = Tail(strand[b]) /\ \A x \in Actors : x # b => rest[x] = strand[x]
      BY <1>1 DEF RestOf
    <3>4. \A x \in Dealers : rest[x] \in Seq(Requests)
      BY <1>1, <1>3, <2>1, <3>2, <3>3
    <3>5. QED
      BY <3>1, <3>2, <3>4
  <2>3. CASE PushMessage(b, pk) /\ strand' = rest
    <3>1. recv_que' = [recv_que EXCEPT ![b] = Append(@, pk)]
      BY <2>3 DEF PushMessage
    <3> HIDE DEF pk, rest
    <3>2. CASE d = b
      <4>1. recv_que'[d] = Append(recv_que[d], pk) /\ pk \in Requests /\ recv_que[d] \in Seq(Requests)
        BY <1>1, <1>3, <2>1, <2>2, <3>1, <3>2
      <4>2. recv_que'[d] \in Seq(Requests)
        BY <4>1
      <4>3. QED
        BY <1>2, <1>3, <2>1, <2>2, <2>3, <4>2
    <3>3. CASE d # b
      <4>1. recv_que'[d] = recv_que[d]
        BY <1>1, <3>1, <3>3
      <4>2. QED
        BY <1>2, <1>3, <2>1, <2>2, <2>3, <4>1
    <3>4. QED
      BY <3>2, <3>3
  <2>4. CASE PushResponse(b, pk) /\ strand' = rest
    <3>1. UNCHANGED recv_que
      BY <2>4 DEF PushResponse
    <3> HIDE DEF pk, rest
    <3>2. QED
      BY <1>2, <1>3, <2>1, <2>2, <2>4, <3>1
  <2>5. CASE Bounce(b, pk, rest) /\ UNCHANGED mailboxVars
    <3>1. /\ UNCHANGED recv_que
          /\ pk.tag = "request" => strand' = [rest EXCEPT ![pk.from] = Append(@, Response(b, pk.id))]
          /\ pk.tag # "request" => strand' = rest
      BY <2>5 DEF Bounce, mailboxVars
    <3> HIDE DEF pk, rest
    <3>2. pk.tag = "request" => pk.from \in Askers
      <4>1. pk.tag = "request" => pk \in Requests
        BY <2>2 DEF PacksTo, Plains, AnswersTo, Response
      <4>2. QED
        BY <1>4, <4>1 DEF Request
    <3>3. strand'[d] = rest[d]
      BY <1>1, <2>2, <3>1, <3>2
    <3>4. QED
      BY <1>2, <1>3, <2>1, <2>2, <3>1, <3>3
  <2>6. QED
    BY <1>9, <2>3, <2>4, <2>5 DEF HandleRecv, RestOf
<1>10. ASSUME NEW b \in Actors, RecvResponse(b) PROVE Fine(d)'
  BY <1>2, <1>3, <1>10 DEF RecvResponse, userVars
<1>11. ASSUME NEW b \in Actors, Exit(b) PROVE Fine(d)'
  <2>1. /\ ~sent /\ recv_que' = [recv_que EXCEPT ![b] = <<>>] /\ busy' = busy \ {b}
        /\ UNCHANGED <<strand, msg, asked>>
    BY <1>11 DEF Exit
  <2>2. <<>> \in Seq(Requests)
    OBVIOUS
  <2>3. recv_que'[d] \in Seq(Requests)
    BY <1>1, <1>3, <2>1, <2>2
  <2>4. QED
    BY <1>2, <1>3, <2>1, <2>3
<1>12. CASE UNCHANGED vars
  BY <1>2, <1>3, <1>12 DEF vars, mailboxVars, userVars, historyVars
<1>13. \A a, b \in Actors : ~Send(a, b)
  BY DEF Send
<1>14. QED
  BY <1>5, <1>6, <1>7, <1>8, <1>9, <1>10, <1>11, <1>12, <1>13 DEF Next, DealWith

\* As long as nobody calls send, whoever deals with a message sees one of the actors that ask
\* as its sender, however often the request was relayed: relay posts it in the name of the
\* asker (relay of basic_actor.cpp). Those who ask must deal with no messages
\* themselves, and no thread_mapped actor may relay.
THEOREM RelayIsNotSeen ==
  ASSUME OneRoleEach, DisjointRoles
  PROVE  Spec => []SeenAsTheAskers
<1>1. Init => RqInv /\ OnlyRequests
  BY RequestReplyAssumption, RqInit
<1>2. RqInv /\ OnlyRequests /\ [Next]_vars => (RqInv /\ OnlyRequests)'
  BY RequestReplyAssumption, RqStep, OnlyRequestsStep
<1>3. RqInv /\ OnlyRequests => SeenAsTheAskers
  BY DEF OnlyRequests, SeenAsTheAskers
<1>4. QED
  BY <1>1, <1>2, <1>3, PTL DEF Spec

=============================================================================
