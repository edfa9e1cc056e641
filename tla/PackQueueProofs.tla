--------------------------- MODULE PackQueueProofs ---------------------------
(***************************************************************************)
(* The pack queue for any number of producers and any number of packs: no  *)
(* pack is freed while a pointer to it is in use, pop_front never runs     *)
(* past the deque, and each producer's packs are handled once, in order.   *)
(***************************************************************************)
EXTENDS PackQueue, TLAPS

\* The next pack of q to be popped by the actor, and the next one to be pushed.
NextPopped(q) == IF recv = "handling" /\ pk.queue = q THEN handled[q] + 1 ELSE handled[q]
NextPushed(q) == IF on_recv[q] = "stored" THEN index_base[q] - 1 ELSE index_base[q]

\* The deque: head_ is the index of its front, and what was popped is garbage.
DequeInv ==
  \A q \in Producers :
    /\ head[q] = front[q]
    /\ front[q] <= loaded[q] + 1
    /\ \A v \in garbage_tail[q] : loaded[q] <= v /\ v < handled[q]
    /\ loaded[q] < handled[q]
    /\ handled[q] <= NextPopped(q)
    /\ NextPopped(q) <= NextPushed(q)

\* The queue holds, of each producer, exactly the packs between the next one to be
\* popped and the next one to be pushed, in order.
ContentInv ==
  \A q \in Producers :
    /\ \A i \in 1..Len(pack_queue) : pack_queue[i].queue = q =>
         NextPopped(q) <= pack_queue[i].index /\ pack_queue[i].index < NextPushed(q)
    /\ \A k \in NextPopped(q)..(NextPushed(q) - 1) :
         \E i \in 1..Len(pack_queue) : pack_queue[i] = [queue |-> q, index |-> k]

OrderInv ==
  \A i, j \in 1..Len(pack_queue) :
    i < j /\ pack_queue[i].queue = pack_queue[j].queue
      => pack_queue[i].index < pack_queue[j].index

\* What release_pack is going to publish was handled and not published before.
GcInv ==
  /\ recv = "handling" => /\ pk \in Pointer
                          /\ pk.index = handled[pk.queue]
                          /\ gc[pk.queue] = pk.index
  /\ \A q \in Producers : InUse(q) /\ gc[q] # Nil =>
       /\ loaded[q] < gc[q]
       /\ \A v \in garbage_tail[q] : v < gc[q]
       /\ gc[q] < NextPopped(q)

IInv == TypeOK /\ DequeInv /\ ContentInv /\ OrderInv /\ GcInv

-----------------------------------------------------------------------------
LEMMA Indices == Producers \subseteq Nat
BY PackQueueAssumption DEF Producers

LEMMA PointerAt ==
  ASSUME TypeOK, NEW i \in 1..Len(pack_queue)
  PROVE  /\ pack_queue[i] \in Pointer
         /\ pack_queue[i].queue \in Producers
         /\ pack_queue[i].index \in Nat
<1>1. pack_queue[i] \in Pointer
  BY DEF TypeOK
<1>2. QED
  BY <1>1 DEF Pointer

LEMMA AppendFacts ==
  ASSUME NEW S, NEW s \in Seq(S), NEW e \in S
  PROVE  /\ Append(s, e) \in Seq(S)
         /\ Len(Append(s, e)) = Len(s) + 1
         /\ \A i \in 1..Len(s) : Append(s, e)[i] = s[i]
         /\ Append(s, e)[Len(s) + 1] = e
OBVIOUS

LEMMA TailFacts ==
  ASSUME NEW S, NEW s \in Seq(S), s # <<>>
  PROVE  /\ Head(s) = s[1]
         /\ Len(s) \in Nat /\ Len(s) >= 1
         /\ Tail(s) \in Seq(S)
         /\ Len(Tail(s)) = Len(s) - 1
         /\ \A i \in 1..(Len(s) - 1) : Tail(s)[i] = s[i + 1] /\ i + 1 \in 1..Len(s)
OBVIOUS

LEMMA InitInv == Init => IInv
<1> SUFFICES ASSUME Init PROVE IInv
  OBVIOUS
<1> USE PackQueueAssumption DEF Init, Nil
<1>1. TypeOK
  BY DEF TypeOK, NoPack
<1>2. DequeInv
  BY DEF DequeInv, NextPopped, NextPushed
<1>3. ContentInv
  BY DEF ContentInv, NextPopped, NextPushed
<1>4. OrderInv /\ GcInv
  BY DEF OrderInv, GcInv
<1>5. QED
  BY <1>1, <1>2, <1>3, <1>4 DEF IInv

(* ContentInv speaks of the queue and of the two ends only, OrderInv of the     *)
(* queue only, GcInv of what the actor has and of the values stored.             *)
LEMMA Ends ==
  ASSUME IInv
  PROVE  \A q \in Producers : NextPopped(q) \in Nat /\ NextPushed(q) \in Nat
                             /\ NextPopped(q) <= NextPushed(q)
<1> SUFFICES ASSUME NEW q \in Producers
             PROVE  NextPopped(q) \in Nat /\ NextPushed(q) \in Nat
                             /\ NextPopped(q) <= NextPushed(q)
  OBVIOUS
<1>1. NextPopped(q) \in Nat
  BY DEF IInv, TypeOK, NextPopped
<1>2. NextPushed(q) \in Int
  BY DEF IInv, TypeOK, NextPushed
<1>3. NextPopped(q) <= NextPushed(q)
  BY DEF IInv, DequeInv
<1>4. QED
  BY <1>1, <1>2, <1>3

LEMMA QueueUnchanged ==
  ASSUME IInv, UNCHANGED pack_queue,
         \A q \in Producers : NextPopped(q)' = NextPopped(q) /\ NextPushed(q)' = NextPushed(q)
  PROVE  ContentInv' /\ OrderInv'
<1>1. ContentInv'
  BY DEF IInv, ContentInv
<1>2. OrderInv'
  BY DEF IInv, OrderInv
<1>3. QED
  BY <1>1, <1>2

LEMMA LoadGarbageTailInv ==
  ASSUME IInv, NEW q \in Producers, LoadGarbageTail(q)
  PROVE  IInv'
<1> USE DEF LoadGarbageTail, producerVars, consumerVars
<1>1. TypeOK'
  <2>1. PICK g \in garbage_tail[q] :
          /\ loaded' = [loaded EXCEPT ![q] = g]
          /\ garbage_tail' = [garbage_tail EXCEPT ![q] = {v \in @ : g <= v}]
    OBVIOUS
  <2>2. g \in Nat \cup {Nil}
    BY DEF IInv, TypeOK
  <2>3. loaded' \in [Producers -> Nat \cup {Nil}]
    BY <2>1, <2>2 DEF IInv, TypeOK
  <2>4. garbage_tail' \in [Producers -> SUBSET (Nat \cup {Nil})]
    BY <2>1 DEF IInv, TypeOK
  <2>5. on_recv' \in [Producers -> {"idle", "loaded", "stored"}]
    BY DEF IInv, TypeOK
  <2>6. QED
    BY <2>3, <2>4, <2>5 DEF IInv, TypeOK
<1>2. DequeInv'
  <2>1. SUFFICES ASSUME NEW p \in Producers
                 PROVE  /\ head'[p] = front'[p] /\ front'[p] <= loaded'[p] + 1
                        /\ \A v \in garbage_tail'[p] : loaded'[p] <= v /\ v < handled'[p]
                        /\ loaded'[p] < handled'[p]
                        /\ handled'[p] <= NextPopped(p)' /\ NextPopped(p)' <= NextPushed(p)'
    BY DEF DequeInv
  <2>2. handled'[p] <= NextPopped(p)' /\ NextPopped(p)' <= NextPushed(p)' /\ head'[p] = front'[p]
    BY DEF IInv, TypeOK, DequeInv, NextPopped, NextPushed
  <2>3. /\ front[p] \in Nat /\ handled[p] \in Nat /\ loaded[p] \in Nat \cup {-1}
        /\ garbage_tail[p] \subseteq Nat \cup {-1}
        /\ front[p] <= loaded[p] + 1 /\ loaded[p] < handled[p]
        /\ \A v \in garbage_tail[p] : loaded[p] <= v /\ v < handled[p]
    BY DEF IInv, TypeOK, DequeInv, Nil
  <2>4. /\ loaded'[p] = loaded[p] /\ garbage_tail'[p] = garbage_tail[p]
        \/ /\ loaded'[p] \in garbage_tail[p]
           /\ garbage_tail'[p] = {v \in garbage_tail[p] : loaded'[p] <= v}
    BY DEF IInv, TypeOK
  <2>5. front'[p] = front[p] /\ handled'[p] = handled[p]
    OBVIOUS
  <2>6. /\ front[p] <= loaded'[p] + 1 /\ loaded'[p] < handled[p]
        /\ \A v \in garbage_tail'[p] : loaded'[p] <= v /\ v < handled[p]
    BY <2>3, <2>4
  <2>7. QED
    BY <2>2, <2>5, <2>6
<1>3. \A p \in Producers : NextPopped(p)' = NextPopped(p) /\ NextPushed(p)' = NextPushed(p)
  BY DEF NextPopped, NextPushed, IInv, TypeOK
<1>4. ContentInv' /\ OrderInv'
  BY <1>3, QueueUnchanged
<1>5. GcInv'
  <2>1. recv = "handling" => /\ pk \in Pointer
                             /\ pk.index = handled[pk.queue] /\ gc[pk.queue] = pk.index
    BY DEF IInv, GcInv
  <2>2. ASSUME NEW p \in Producers, InUse(p), gc[p] # Nil
        PROVE  /\ loaded'[p] < gc[p] /\ \A v \in garbage_tail'[p] : v < gc[p]
               /\ gc[p] < NextPopped(p)
    <3>1. /\ loaded[p] < gc[p] /\ \A v \in garbage_tail[p] : v < gc[p]
          /\ gc[p] < NextPopped(p)
      BY <2>2 DEF IInv, GcInv
    <3>2. loaded'[p] \in garbage_tail[p] \cup {loaded[p]} /\ garbage_tail'[p] \subseteq garbage_tail[p]
      BY DEF IInv, TypeOK
    <3>3. QED
      BY <3>1, <3>2
  <2>3. \A p \in Producers : InUse(p)' = InUse(p)
    BY DEF InUse
  <2>4. QED
    BY <1>3, <2>1, <2>2, <2>3 DEF GcInv
<1>6. QED
  BY <1>1, <1>2, <1>4, <1>5 DEF IInv

(* What is popped is what lies below the index loaded, so the deque begins right *)
(* above it; head_ equals the front in each of the two ways it is reset.         *)
LEMMA StorePackInv ==
  ASSUME IInv, NEW q \in Producers, StorePack(q)
  PROVE  IInv'
<1>1. Garbage(q) \in Nat
  BY DEF Garbage, IInv, TypeOK, Nil
<1>2. front' \in [Producers -> Nat] /\ index_base' \in [Producers -> Nat]
  BY <1>1 DEF StorePack, IInv, TypeOK
<1>3. head' \in [Producers -> Nat]
  BY <1>2 DEF StorePack, IInv, TypeOK
<1>4. TypeOK'
  BY <1>2, <1>3 DEF StorePack, IInv, TypeOK, consumerVars
<1>5. /\ front'[q] = head[q] + Garbage(q)
      /\ front'[q] <= loaded[q] + 1
      /\ head'[q] = front'[q]
  BY <1>1 DEF StorePack, DequeInv, Garbage, IInv, TypeOK, Nil
<1>6. \A p \in Producers : NextPopped(p)' = NextPopped(p) /\ NextPushed(p)' = NextPushed(p)
  BY DEF StorePack, NextPopped, NextPushed, IInv, TypeOK, consumerVars
<1>7. DequeInv'
  BY <1>5, <1>6 DEF DequeInv, StorePack, IInv, TypeOK, consumerVars
<1>8. ContentInv' /\ OrderInv'
  BY <1>6, QueueUnchanged DEF StorePack
<1>9. GcInv'
  BY <1>6 DEF GcInv, InUse, StorePack, IInv, consumerVars
<1>10. QED
  BY <1>4, <1>7, <1>8, <1>9 DEF IInv

LEMMA PushPackInv ==
  ASSUME IInv, NEW q \in Producers, PushPack(q)
  PROVE  IInv'
<1> DEFINE new == [queue |-> q, index |-> index_base[q] - 1]
           n == Len(pack_queue)
<1>a. TypeOK /\ pack_queue \in Seq(Pointer) /\ n \in Nat
  BY DEF IInv, TypeOK
<1>b. NextPushed(q) = index_base[q] - 1
  BY DEF PushPack, NextPushed
<1>1. new.index \in Nat /\ NextPushed(q) = new.index /\ new.queue = q
  BY <1>b, Ends
<1>2. new \in Pointer
  BY <1>1 DEF Pointer
<1>3. /\ pack_queue' = Append(pack_queue, new)
      /\ pack_queue' \in Seq(Pointer)
      /\ Len(pack_queue') = n + 1
      /\ \A i \in 1..n : pack_queue'[i] = pack_queue[i]
      /\ pack_queue'[n + 1] = new
  <2>1. pack_queue' = Append(pack_queue, new)
    BY DEF PushPack
  <2>2. QED
    BY <1>a, <1>2, <2>1, AppendFacts
<1>4. TypeOK'
  BY <1>3 DEF PushPack, IInv, TypeOK, consumerVars
<1>5. /\ \A p \in Producers : NextPopped(p)' = NextPopped(p)
      /\ \A p \in Producers : NextPushed(p)' = IF p = q THEN NextPushed(q) + 1 ELSE NextPushed(p)
  BY DEF PushPack, NextPopped, NextPushed, IInv, TypeOK, consumerVars
<1>6. DequeInv'
  BY <1>5, Ends DEF IInv, DequeInv, PushPack, consumerVars
<1>7. ASSUME NEW i \in 1..n
      PROVE  /\ pack_queue[i].queue \in Producers /\ pack_queue[i].index \in Nat
             /\ pack_queue'[i] = pack_queue[i]
             /\ NextPopped(pack_queue[i].queue) <= pack_queue[i].index
             /\ pack_queue[i].index < NextPushed(pack_queue[i].queue)
  <2>1. pack_queue[i].queue \in Producers /\ pack_queue[i].index \in Nat
    BY <1>a, PointerAt
  <2>2. QED
    BY <1>3, <2>1 DEF IInv, ContentInv
<1>8. ContentInv'
  <2> HIDE DEF new
  <2> SUFFICES ASSUME NEW p \in Producers
               PROVE  /\ \A i \in 1..(n + 1) : pack_queue'[i].queue = p =>
                           /\ NextPopped(p)' <= pack_queue'[i].index
                           /\ pack_queue'[i].index < NextPushed(p)'
                      /\ \A k \in NextPopped(p)'..(NextPushed(p)' - 1) :
                           \E i \in 1..(n + 1) : pack_queue'[i] = [queue |-> p, index |-> k]
    BY <1>3 DEF ContentInv
  <2>1. ASSUME NEW i \in 1..(n + 1), pack_queue'[i].queue = p
        PROVE  /\ NextPopped(p)' <= pack_queue'[i].index
               /\ pack_queue'[i].index < NextPushed(p)'
    <3>1. CASE i = n + 1
      BY <1>1, <1>3, <1>5, <2>1, <3>1, Ends
    <3>2. CASE i \in 1..n
      BY <1>5, <1>7, <2>1, <3>2, Ends
    <3>3. QED
      BY <1>a, <3>1, <3>2
  <2>2. ASSUME NEW k \in NextPopped(p)'..(NextPushed(p)' - 1)
        PROVE  \E i \in 1..(n + 1) : pack_queue'[i] = [queue |-> p, index |-> k]
    <3>1. CASE k \in NextPopped(p)..(NextPushed(p) - 1)
      <4>1. PICK i \in 1..n : pack_queue[i] = [queue |-> p, index |-> k]
        BY <3>1 DEF IInv, ContentInv
      <4>2. i \in 1..(n + 1) /\ pack_queue'[i] = [queue |-> p, index |-> k]
        BY <1>3, <1>a, <4>1
      <4>3. QED
        BY <4>2
    <3>2. CASE k \notin NextPopped(p)..(NextPushed(p) - 1)
      <4>1. p = q /\ k = NextPushed(q)
        BY <1>5, <3>2, Ends
      <4>2. pack_queue'[n + 1] = [queue |-> p, index |-> k]
        BY <1>1, <1>3, <4>1 DEF new
      <4>3. QED
        BY <4>2, <1>a
    <3>3. QED
      BY <3>1, <3>2
  <2>3. QED
    BY <2>1, <2>2
<1>9. OrderInv'
  <2> HIDE DEF new
  <2> SUFFICES ASSUME NEW i \in 1..(n + 1), NEW j \in 1..(n + 1), i < j,
                      pack_queue'[i].queue = pack_queue'[j].queue
               PROVE  pack_queue'[i].index < pack_queue'[j].index
    BY <1>3 DEF OrderInv
  <2>1. i \in 1..n
    BY <1>a
  <2>2. CASE j = n + 1
    BY <1>1, <1>3, <1>7, <2>1, <2>2
  <2>3. CASE j \in 1..n
    BY <1>3, <2>1, <2>3 DEF IInv, OrderInv
  <2>4. QED
    BY <1>a, <2>2, <2>3
<1>10. GcInv'
  BY <1>5 DEF IInv, GcInv, InUse, PushPack, consumerVars
<1>11. QED
  BY <1>4, <1>6, <1>8, <1>9, <1>10 DEF IInv

LEMMA MovePackInv ==
  ASSUME IInv, MovePack
  PROVE  IInv'
<1> USE DEF MovePack, producerVars, consumerVars
<1>1. TypeOK'
  BY DEF IInv, TypeOK
<1>2. \A p \in Producers : NextPopped(p)' = NextPopped(p) /\ NextPushed(p)' = NextPushed(p)
  BY DEF NextPopped, NextPushed
<1>3. DequeInv'
  BY <1>2 DEF IInv, DequeInv
<1>4. ContentInv' /\ OrderInv'
  BY <1>2, QueueUnchanged
<1>5. GcInv'
  BY DEF GcInv
<1>6. QED
  BY <1>1, <1>3, <1>4, <1>5 DEF IInv

(* The pack popped is the next one of its producer: it is in the queue, and by   *)
(* the order nothing of its producer is in front of it.                          *)
LEMMA PopPackInv ==
  ASSUME IInv, PopPack
  PROVE  IInv'
<1> DEFINE q == pack_queue[1].queue
           x == pack_queue[1].index
           n == Len(pack_queue)
<1>a. TypeOK /\ pack_queue \in Seq(Pointer) /\ pack_queue # <<>>
  BY DEF IInv, TypeOK, PopPack
<1>b. recv = "draining" /\ recv' = "handling" /\ pk' = Head(pack_queue)
      /\ pack_queue' = Tail(pack_queue) /\ gc' = [gc EXCEPT ![pk'.queue] = pk'.index]
  BY DEF PopPack
<1>1. /\ Head(pack_queue) = pack_queue[1] /\ n \in Nat /\ n >= 1
      /\ pack_queue' \in Seq(Pointer) /\ Len(pack_queue') = n - 1
      /\ \A i \in 1..(n - 1) : pack_queue'[i] = pack_queue[i + 1] /\ i + 1 \in 1..n
  BY <1>a, <1>b, TailFacts
<1>2. \A i \in 1..n : pack_queue[i] \in Pointer /\ pack_queue[i].queue \in Producers
                     /\ pack_queue[i].index \in Nat
  BY <1>a, PointerAt
<1>3. /\ pk' \in Pointer /\ q \in Producers /\ x \in Nat /\ 1 \in 1..n
      /\ pk'.queue = q /\ pk'.index = x /\ gc' = [gc EXCEPT ![q] = x]
  BY <1>b, <1>1, <1>2
<1> HIDE DEF n, q, x
<1>c. pack_queue[1].queue = q /\ pack_queue[1].index = x
  BY DEF q, x
<1>4. \A p \in Producers : NextPopped(p) = handled[p]
  BY <1>b DEF NextPopped
<1>5. \A i \in 1..n : /\ handled[pack_queue[i].queue] <= pack_queue[i].index
                     /\ pack_queue[i].index < NextPushed(pack_queue[i].queue)
  BY <1>2, <1>4 DEF IInv, ContentInv, n
<1>6. \A p \in Producers : handled[p] \in Nat /\ NextPushed(p) \in Nat
  BY <1>4, Ends
<1>7. x = handled[q]
  <2>1. handled[q] <= x /\ x < NextPushed(q)
    BY <1>3, <1>5, <1>c
  <2>2. handled[q] \in NextPopped(q)..(NextPushed(q) - 1)
    BY <1>3, <1>4, <1>6, <2>1
  <2>3. PICK i \in 1..n : pack_queue[i] = [queue |-> q, index |-> handled[q]]
    BY <1>3, <2>2 DEF IInv, ContentInv, n
  <2>4. pack_queue[i].queue = q /\ pack_queue[i].index = handled[q]
    BY <2>3
  <2>5. i # 1 => x < pack_queue[i].index
    BY <1>1, <1>3, <1>c, <2>4 DEF IInv, OrderInv, n
  <2>6. QED
    BY <1>3, <1>6, <1>c, <2>1, <2>4, <2>5
<1>8. /\ \A p \in Producers : NextPopped(p)' = IF p = q THEN handled[p] + 1 ELSE handled[p]
      /\ \A p \in Producers : NextPushed(p)' = NextPushed(p)
  BY <1>b, <1>3 DEF PopPack, NextPopped, NextPushed, producerVars
<1>9. TypeOK'
  <2>1. gc' \in [Producers -> Nat \cup {Nil}]
    BY <1>3, <1>a DEF TypeOK
  <2>2. QED
    BY <1>1, <1>3, <1>a, <2>1 DEF TypeOK, PopPack, producerVars
<1>10. DequeInv'
  <2>1. handled[q] + 1 <= NextPushed(q)
    BY <1>3, <1>5, <1>6, <1>7, <1>c
  <2>2. QED
    BY <1>4, <1>6, <1>8, <2>1 DEF IInv, DequeInv, PopPack, producerVars
<1>11. ContentInv'
  <2> SUFFICES ASSUME NEW p \in Producers
               PROVE  /\ \A i \in 1..(n - 1) : pack_queue'[i].queue = p =>
                           /\ NextPopped(p)' <= pack_queue'[i].index
                           /\ pack_queue'[i].index < NextPushed(p)'
                      /\ \A k \in NextPopped(p)'..(NextPushed(p)' - 1) :
                           \E i \in 1..(n - 1) : pack_queue'[i] = [queue |-> p, index |-> k]
    BY <1>1 DEF ContentInv, n
  <2>1. ASSUME NEW i \in 1..(n - 1), pack_queue'[i].queue = p
        PROVE  /\ NextPopped(p)' <= pack_queue'[i].index
               /\ pack_queue'[i].index < NextPushed(p)'
    <3>1. i + 1 \in 1..n /\ pack_queue'[i] = pack_queue[i + 1] /\ 1 < i + 1
      BY <1>1 DEF n
    <3>2. /\ handled[p] <= pack_queue'[i].index
          /\ pack_queue'[i].index < NextPushed(p)
          /\ pack_queue'[i].index \in Nat
      BY <1>2, <1>5, <2>1, <3>1
    <3>3. p = q => x < pack_queue'[i].index
      BY <1>3, <1>c, <2>1, <3>1 DEF IInv, OrderInv, n
    <3>4. QED
      BY <1>3, <1>6, <1>7, <1>8, <3>2, <3>3
  <2>2. ASSUME NEW k \in NextPopped(p)'..(NextPushed(p)' - 1)
        PROVE  \E i \in 1..(n - 1) : pack_queue'[i] = [queue |-> p, index |-> k]
    <3>1. k \in NextPopped(p)..(NextPushed(p) - 1) /\ (p = q => k # x)
      BY <1>3, <1>4, <1>6, <1>7, <1>8, <2>2
    <3>2. PICK i \in 1..n : pack_queue[i] = [queue |-> p, index |-> k]
      BY <3>1 DEF IInv, ContentInv, n
    <3>3. i # 1
      BY <3>1, <3>2, <1>c
    <3>4. i - 1 \in 1..(n - 1) /\ (i - 1) + 1 = i
      BY <1>1, <3>2, <3>3 DEF n
    <3>5. pack_queue'[i - 1] = [queue |-> p, index |-> k]
      BY <1>1, <3>2, <3>4 DEF n
    <3>6. QED
      BY <3>4, <3>5
  <2>3. QED
    BY <2>1, <2>2
<1>12. OrderInv'
  <2> SUFFICES ASSUME NEW i \in 1..(n - 1), NEW j \in 1..(n - 1), i < j,
                      pack_queue'[i].queue = pack_queue'[j].queue
               PROVE  pack_queue'[i].index < pack_queue'[j].index
    BY <1>1 DEF OrderInv, n
  <2>1. i + 1 \in 1..n /\ j + 1 \in 1..n /\ i + 1 < j + 1
    BY <1>1 DEF n
  <2>2. pack_queue'[i] = pack_queue[i + 1] /\ pack_queue'[j] = pack_queue[j + 1]
    BY <1>1 DEF n
  <2>3. QED
    BY <2>1, <2>2 DEF IInv, OrderInv, n
<1>13. GcInv'
  <2>1. handled' = handled /\ loaded' = loaded /\ garbage_tail' = garbage_tail
    BY DEF PopPack, producerVars
  <2>2. gc \in [Producers -> Nat \cup {Nil}]
    BY <1>a DEF TypeOK
  <2>3. gc'[q] = x /\ \A p \in Producers : p # q => gc'[p] = gc[p]
    BY <1>3, <2>2
  <2>4. ASSUME NEW p \in Producers, gc'[p] # Nil
        PROVE  /\ loaded'[p] < gc'[p]
               /\ \A v \in garbage_tail'[p] : v < gc'[p]
               /\ gc'[p] < NextPopped(p)'
    <3>1. CASE p = q
      BY <1>3, <1>6, <1>7, <1>8, <2>1, <2>3, <3>1 DEF IInv, DequeInv
    <3>2. CASE p # q
      BY <1>4, <1>8, <1>b, <2>1, <2>3, <2>4, <3>2 DEF IInv, GcInv, InUse
    <3>3. QED
      BY <3>1, <3>2
  <2>5. QED
    BY <1>3, <1>7, <2>1, <2>3, <2>4 DEF GcInv
<1>14. QED
  BY <1>9, <1>10, <1>11, <1>12, <1>13 DEF IInv

LEMMA HandlePackInv ==
  ASSUME IInv, HandlePack
  PROVE  IInv'
<1> USE DEF HandlePack, producerVars
<1>1. /\ pk \in Pointer /\ pk.queue \in Producers /\ pk.index \in Nat
      /\ pk.index = handled[pk.queue] /\ NextPopped(pk.queue) = handled[pk.queue] + 1
  BY DEF IInv, GcInv, Pointer, NextPopped
<1>2. TypeOK'
  <2>1. handled' \in [Producers -> Nat]
    BY <1>1 DEF IInv, TypeOK
  <2>2. QED
    BY <2>1 DEF IInv, TypeOK
<1>3. handled \in [Producers -> Nat] /\ handled' = [handled EXCEPT ![pk.queue] = handled[pk.queue] + 1]
  BY <1>1 DEF IInv, TypeOK
<1>4. \A p \in Producers : /\ NextPopped(p)' = NextPopped(p)
                          /\ NextPushed(p)' = NextPushed(p)
                          /\ handled'[p] = NextPopped(p)
                          /\ handled[p] \in Nat /\ handled[p] <= handled'[p]
  BY <1>1, <1>3 DEF NextPopped, NextPushed
<1>5. DequeInv'
  <2> SUFFICES ASSUME NEW p \in Producers
               PROVE  /\ \A v \in garbage_tail[p] : loaded[p] <= v /\ v < handled'[p]
                      /\ loaded[p] < handled'[p]
    BY <1>4, Ends DEF IInv, DequeInv
  <2>1. loaded[p] \in Int /\ garbage_tail[p] \subseteq Int
    BY DEF IInv, TypeOK, Nil
  <2>2. handled[p] \in Nat /\ handled'[p] \in Nat /\ handled[p] <= handled'[p]
    BY <1>4, Ends
  <2>3. /\ \A v \in garbage_tail[p] : loaded[p] <= v /\ v < handled[p]
        /\ loaded[p] < handled[p]
    BY DEF IInv, DequeInv
  <2>4. QED
    BY <2>1, <2>2, <2>3
<1>6. ContentInv' /\ OrderInv'
  BY <1>4, QueueUnchanged
<1>7. GcInv'
  BY <1>4 DEF IInv, GcInv, InUse
<1>8. QED
  BY <1>2, <1>5, <1>6, <1>7 DEF IInv

LEMMA DrainedInv ==
  ASSUME IInv, Drained
  PROVE  IInv'
<1> USE DEF Drained, producerVars
<1>1. TypeOK'
  BY DEF IInv, TypeOK
<1>2. \A p \in Producers : NextPopped(p)' = NextPopped(p) /\ NextPushed(p)' = NextPushed(p)
  BY DEF NextPopped, NextPushed
<1>3. DequeInv'
  BY <1>2 DEF IInv, DequeInv
<1>4. ContentInv' /\ OrderInv'
  BY <1>2, QueueUnchanged
<1>5. GcInv'
  BY <1>2 DEF IInv, GcInv, InUse
<1>6. QED
  BY <1>1, <1>3, <1>4, <1>5 DEF IInv

(* What release_pack publishes is above all it published before, and handled.    *)
LEMMA ReleasePackInv ==
  ASSUME IInv, NEW q \in Producers, ReleasePack(q)
  PROVE  IInv'
<1> USE DEF ReleasePack, producerVars
<1>1. TypeOK'
  BY DEF IInv, TypeOK
<1>2. \A p \in Producers : NextPopped(p)' = NextPopped(p) /\ NextPushed(p)' = NextPushed(p)
                          /\ NextPopped(p) = handled[p]
  BY DEF NextPopped, NextPushed
<1>3. gc[q] # Nil => gc[q] < handled[q] /\ loaded[q] < gc[q]
  BY <1>2 DEF IInv, GcInv, InUse
<1>4. \A p \in Producers : \A v \in garbage_tail'[p] :
        v \in garbage_tail[p] \/ (p = q /\ v = gc[q] /\ gc[q] # Nil)
  BY DEF IInv, TypeOK
<1>5. DequeInv'
  <2> SUFFICES ASSUME NEW p \in Producers
               PROVE  \A v \in garbage_tail'[p] : loaded[p] <= v /\ v < handled[p]
    BY <1>2 DEF IInv, DequeInv
  <2>1. loaded[q] \in Int /\ gc[q] \in Int
    BY DEF IInv, TypeOK, Nil
  <2>2. QED
    BY <1>3, <1>4, <2>1 DEF IInv, DequeInv
<1>6. ContentInv' /\ OrderInv'
  BY <1>2, QueueUnchanged
<1>7. GcInv'
  <2>1. recv' # "handling" /\ recv' # "draining" /\ releasing' = releasing \ {q}
    OBVIOUS
  <2>2. \A p \in Producers : p # q => garbage_tail'[p] = garbage_tail[p]
    BY DEF IInv, TypeOK
  <2>3. ASSUME NEW p \in Producers, InUse(p)', gc[p] # Nil
        PROVE  /\ loaded[p] < gc[p]
               /\ \A v \in garbage_tail'[p] : v < gc[p]
               /\ gc[p] < NextPopped(p)
    <3>1. p # q /\ InUse(p)
      BY <2>1, <2>3 DEF InUse
    <3>2. QED
      BY <2>2, <2>3, <3>1 DEF IInv, GcInv
  <2>4. QED
    BY <1>2, <2>1, <2>3 DEF GcInv
<1>8. QED
  BY <1>1, <1>5, <1>6, <1>7 DEF IInv

LEMMA StepInv == IInv /\ [Next]_vars => IInv'
<1> SUFFICES ASSUME IInv, [Next]_vars PROVE IInv'
  OBVIOUS
<1>1. CASE Receive
  BY <1>1, MovePackInv, PopPackInv, HandlePackInv, DrainedInv, ReleasePackInv DEF Receive
<1>2. ASSUME NEW q \in Producers, OnRecv(q) PROVE IInv'
  BY <1>2, LoadGarbageTailInv, StorePackInv, PushPackInv DEF OnRecv
<1>3. CASE UNCHANGED vars
  <2> USE <1>3 DEF vars, producerVars, consumerVars
  <2>1. TypeOK'
    BY DEF IInv, TypeOK
  <2>2. \A p \in Producers : NextPopped(p)' = NextPopped(p) /\ NextPushed(p)' = NextPushed(p)
    BY DEF NextPopped, NextPushed
  <2>3. DequeInv'
    BY <2>2 DEF IInv, DequeInv
  <2>4. ContentInv' /\ OrderInv'
    BY <2>2, QueueUnchanged
  <2>5. GcInv'
    BY <2>2 DEF IInv, GcInv, InUse
  <2>6. QED
    BY <2>1, <2>3, <2>4, <2>5 DEF IInv
<1>4. QED
  BY <1>1, <1>2, <1>3 DEF Next

LEMMA Invariant == Spec => []IInv
BY InitInv, StepInv, PTL DEF Spec

(* A pack that the deque has dropped lies below the index loaded, and that index *)
(* was handled; every pointer in use is to a pack handled later, or to the last. *)
LEMMA SafeInv == IInv => TypeOK /\ NoUseAfterFree /\ PopFrontInDeque
<1> SUFFICES ASSUME IInv PROVE TypeOK /\ NoUseAfterFree /\ PopFrontInDeque
  OBVIOUS
<1>1. \A q \in Producers :
        /\ head[q] = front[q] /\ front[q] <= loaded[q] + 1 /\ loaded[q] < handled[q]
        /\ handled[q] <= NextPopped(q) /\ NextPopped(q) <= NextPushed(q)
        /\ NextPushed(q) <= index_base[q]
        /\ handled[q] \in Nat /\ front[q] \in Nat /\ index_base[q] \in Nat
        /\ loaded[q] \in Int /\ gc[q] \in Int
        /\ NextPopped(q) \in Nat /\ NextPushed(q) \in Nat
  <2>1. \A q \in Producers : NextPushed(q) <= index_base[q] /\ gc[q] \in Int
                            /\ handled[q] \in Nat /\ front[q] \in Nat
                            /\ index_base[q] \in Nat /\ loaded[q] \in Int
    BY DEF IInv, TypeOK, NextPushed, Nil
  <2>2. QED
    BY <2>1, Ends DEF IInv, DequeInv
<1>2. ASSUME NEW i \in 1..Len(pack_queue)
      PROVE  Live(pack_queue[i].queue, pack_queue[i].index)
  <2>1. pack_queue[i].queue \in Producers /\ pack_queue[i].index \in Nat
    BY PointerAt DEF IInv
  <2>2. /\ NextPopped(pack_queue[i].queue) <= pack_queue[i].index
        /\ pack_queue[i].index < NextPushed(pack_queue[i].queue)
    BY <2>1 DEF IInv, ContentInv
  <2>3. QED
    BY <1>1, <2>1, <2>2 DEF Live
<1>3. ASSUME recv = "handling" PROVE Live(pk.queue, pk.index)
  <2>1. pk.queue \in Producers /\ pk.index = handled[pk.queue]
        /\ NextPopped(pk.queue) = handled[pk.queue] + 1
    BY <1>3 DEF IInv, GcInv, Pointer, NextPopped
  <2>2. QED
    BY <1>1, <2>1 DEF Live
<1>4. ASSUME NEW q \in Producers, InUse(q), gc[q] # Nil PROVE Live(q, gc[q])
  <2>1. loaded[q] < gc[q] /\ gc[q] < NextPopped(q)
    BY <1>4 DEF IInv, GcInv
  <2>2. QED
    BY <1>1, <2>1 DEF Live
<1>5. NoUseAfterFree
  BY <1>2, <1>3, <1>4 DEF NoUseAfterFree, InUse
<1>6. PopFrontInDeque
  BY <1>1 DEF PopFrontInDeque, Garbage, Nil
<1>7. QED
  BY <1>5, <1>6 DEF IInv

(* For any number of producers and of packs, no pack is freed while a pointer to *)
(* it is in use, and pop_front never takes more than the deque holds.            *)
THEOREM PacksStayAlive == Spec => [](TypeOK /\ NoUseAfterFree /\ PopFrontInDeque)
BY Invariant, SafeInv, PTL

(* For any number of producers, the packs of each are handled one by one in the  *)
(* order they were sent.                                                         *)
THEOREM PacksInOrder == Spec => InOrderOnce
<1> DEFINE Once == \A q \in Producers : handled'[q] # handled[q] => handled'[q] = handled[q] + 1
<1>1. ASSUME IInv, [Next]_vars PROVE [Once]_handled
  <2>1. CASE HandlePack
    BY <1>1, <2>1 DEF IInv, TypeOK, GcInv, HandlePack, Pointer
  <2>2. CASE ~HandlePack
    <3>1. UNCHANGED handled
      BY <1>1, <2>2 DEF Next, Receive, OnRecv, MovePack, PopPack, Drained, ReleasePack,
                        LoadGarbageTail, StorePack, PushPack, vars, consumerVars
    <3>2. QED
      BY <3>1
  <2>3. QED
    BY <2>1, <2>2
<1>2. QED
  BY <1>1, Invariant, PTL DEF Spec, InOrderOnce
=============================================================================
