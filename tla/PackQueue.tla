------------------------------ MODULE PackQueue ------------------------------
(***************************************************************************)
(* How packs reach a nonblocking actor (libs/actor/src/                    *)
(* nonblocking_actor.cpp). The actor has one cache_queue for every thread  *)
(* of execution that sends to it, the producers: the strand of each cache  *)
(* pool and each nonblocking actor. A producer appends the pack to the     *)
(* deque of its own cache_queue and hands a POINTER to it over a lock-free *)
(* queue. The actor's own thread drains that queue in recv, and when it    *)
(* has handled a batch publishes, for each cache_queue, the index of the   *)
(* last pack it is done with; the producer frees what is below that index  *)
(* the next time it sends. Nothing else keeps a pack alive.                *)
(*                                                                         *)
(* A pointer to a pack is the cache_queue and the pack's cache_index_. The *)
(* deque of q holds the packs front[q] .. index_base[q]-1: push_back adds  *)
(* at index_base_ and pop_front removes the lowest, and neither moves the  *)
(* others (std::deque).                                                    *)
(***************************************************************************)
EXTENDS Integers, Sequences

CONSTANTS
  CacheQueueSize,  \* context::get_cache_queue_size(): the number of producers
  MaxPacks         \* bound on the packs one producer sends

ASSUME PackQueueAssumption == CacheQueueSize \in Nat \ {0} /\ MaxPacks \in Nat

Producers == 0..(CacheQueueSize - 1)
Nil == -1  \* u64_nil as an index, the null pointer in gc_

VARIABLES
  index_base,    \* q -> cache_queue::index_base_, the index of the next pack
  head,          \* q -> cache_queue::head_
  front,         \* q -> the index of the pack at the front of que_
  garbage_tail,  \* q -> the values a load of garbage_tail_ may return
  loaded,        \* q -> on_recv's local garbage_tail
  on_recv,       \* q -> how far the producer is in on_recv
  pack_queue,    \* the lock-free queue of pointers
  gc,            \* q -> gc_[q]: the last pack of q that move_pack has popped
  recv,          \* how far the actor is in move_pack
  pk,            \* the pointer the actor has popped
  releasing,     \* the cache_queues release_pack has not come to
  handled        \* q -> how many packs of q were handled (history)

producerVars == <<index_base, head, front, loaded, on_recv>>
consumerVars == <<gc, recv, pk, releasing, handled>>
vars == <<producerVars, garbage_tail, pack_queue, consumerVars>>

Pointer == [queue : Producers, index : Nat]
NoPack == [queue |-> 0, index |-> Nil]

-----------------------------------------------------------------------------
(* on_recv, on the producer's thread *)

\* The load is relaxed. It returns a value stored since the last one it returned,
\* or that one again, not necessarily the latest.
LoadGarbageTail(q) ==
  /\ on_recv[q] = "idle"
  /\ index_base[q] < MaxPacks
  /\ \E g \in garbage_tail[q] :
       /\ loaded' = [loaded EXCEPT ![q] = g]
       /\ garbage_tail' = [garbage_tail EXCEPT ![q] = {v \in @ : g <= v}]
  /\ on_recv' = [on_recv EXCEPT ![q] = "loaded"]
  /\ UNCHANGED <<index_base, head, front, pack_queue, consumerVars>>

\* How many packs to pop.
Garbage(q) ==
  IF loaded[q] # Nil /\ loaded[q] >= head[q] THEN loaded[q] - head[q] + 1 ELSE 0

\* Were head_ not reset.
StorePackKeepsHead(q) ==
  /\ on_recv[q] = "loaded"
  /\ front' = [front EXCEPT ![q] = @ + Garbage(q)]
  /\ index_base' = [index_base EXCEPT ![q] = @ + 1]
  /\ on_recv' = [on_recv EXCEPT ![q] = "stored"]
  /\ UNCHANGED <<head, loaded, garbage_tail, pack_queue, consumerVars>>

\* Pop the garbage, reset head_, and append the new pack.
StorePack(q) ==
  /\ on_recv[q] = "loaded"
  /\ front' = [front EXCEPT ![q] = @ + Garbage(q)]
  /\ head' = [head EXCEPT ![q] = IF Garbage(q) = 0 THEN @
                                 ELSE IF front'[q] = index_base[q] THEN index_base[q]
                                 ELSE front'[q]]
  /\ index_base' = [index_base EXCEPT ![q] = @ + 1]
  /\ on_recv' = [on_recv EXCEPT ![q] = "stored"]
  /\ UNCHANGED <<loaded, garbage_tail, pack_queue, consumerVars>>

\* Were the lock-free queue bounded, and the result of its push ignored.
PushPackBounded(q) ==
  /\ on_recv[q] = "stored"
  /\ pack_queue' = IF Len(pack_queue) < 2
                   THEN Append(pack_queue, [queue |-> q, index |-> index_base[q] - 1])
                   ELSE pack_queue
  /\ on_recv' = [on_recv EXCEPT ![q] = "idle"]
  /\ UNCHANGED <<index_base, head, front, loaded, garbage_tail, consumerVars>>

PushPack(q) ==
  /\ on_recv[q] = "stored"
  /\ pack_queue' = Append(pack_queue, [queue |-> q, index |-> index_base[q] - 1])
  /\ on_recv' = [on_recv EXCEPT ![q] = "idle"]
  /\ UNCHANGED <<index_base, head, front, loaded, garbage_tail, consumerVars>>

-----------------------------------------------------------------------------
(* move_pack, on the actor's thread, which every recv calls first *)

MovePack ==
  /\ recv = "idle"
  /\ gc' = [q \in Producers |-> Nil]
  /\ recv' = "draining"
  /\ UNCHANGED <<producerVars, garbage_tail, pack_queue, pk, releasing, handled>>

\* Were a pack published when it is popped, and were the queue a stack.
PopPackPublishes ==
  /\ recv = "draining"
  /\ pack_queue # <<>>
  /\ pk' = Head(pack_queue)
  /\ pack_queue' = Tail(pack_queue)
  /\ gc' = [gc EXCEPT ![pk'.queue] = pk'.index]
  /\ garbage_tail' = [garbage_tail EXCEPT ![pk'.queue] = @ \cup {pk'.index}]
  /\ recv' = "handling"
  /\ UNCHANGED <<producerVars, releasing, handled>>
PopPackLast ==
  /\ recv = "draining"
  /\ pack_queue # <<>>
  /\ pk' = pack_queue[Len(pack_queue)]
  /\ pack_queue' = SubSeq(pack_queue, 1, Len(pack_queue) - 1)
  /\ gc' = [gc EXCEPT ![pk'.queue] = pk'.index]
  /\ recv' = "handling"
  /\ UNCHANGED <<producerVars, garbage_tail, releasing, handled>>

PopPack ==
  /\ recv = "draining"
  /\ pack_queue # <<>>
  /\ pk' = Head(pack_queue)
  /\ pack_queue' = Tail(pack_queue)
  /\ gc' = [gc EXCEPT ![pk'.queue] = pk'.index]
  /\ recv' = "handling"
  /\ UNCHANGED <<producerVars, garbage_tail, releasing, handled>>

\* handle_recv(*pk) reads the pack: it goes to the mailbox, the links or the
\* registries of the actor.
HandlePack ==
  /\ recv = "handling"
  /\ handled' = [handled EXCEPT ![pk.queue] = pk.index + 1]
  /\ pk' = NoPack
  /\ recv' = "draining"
  /\ UNCHANGED <<producerVars, garbage_tail, pack_queue, gc, releasing>>

\* The queue is empty: the scope guard calls release_pack.
Drained ==
  /\ recv = "draining"
  /\ pack_queue = <<>>
  /\ recv' = "releasing"
  /\ releasing' = Producers
  /\ UNCHANGED <<producerVars, garbage_tail, pack_queue, gc, pk, handled>>

\* One round of release_pack's loop, which reads gc_[q]->cache_index_.
ReleasePack(q) ==
  /\ recv = "releasing"
  /\ q \in releasing
  /\ \A p \in releasing : q <= p
  /\ garbage_tail' = IF gc[q] = Nil THEN garbage_tail
                     ELSE [garbage_tail EXCEPT ![q] = @ \cup {gc[q]}]
  /\ releasing' = releasing \ {q}
  /\ recv' = IF releasing' = {} THEN "idle" ELSE "releasing"
  /\ UNCHANGED <<producerVars, pack_queue, gc, pk, handled>>

-----------------------------------------------------------------------------
Init ==
  /\ index_base = [q \in Producers |-> 0]
  /\ head = [q \in Producers |-> 0]
  /\ front = [q \in Producers |-> 0]
  /\ garbage_tail = [q \in Producers |-> {Nil}]
  /\ loaded = [q \in Producers |-> Nil]
  /\ on_recv = [q \in Producers |-> "idle"]
  /\ pack_queue = <<>>
  /\ gc = [q \in Producers |-> Nil]
  /\ recv = "idle"
  /\ pk = NoPack
  /\ releasing = {}
  /\ handled = [q \in Producers |-> 0]

OnRecv(q) == LoadGarbageTail(q) \/ StorePack(q) \/ PushPack(q)
Receive == MovePack \/ PopPack \/ HandlePack \/ Drained \/ \E q \in Producers : ReleasePack(q)

Next == Receive \/ \E q \in Producers : OnRecv(q)

Spec == Init /\ [][Next]_vars

\* on_recv runs to its end once it has begun, and the user polls the actor: the
\* main loop of a client calls recv in every frame.
Fairness ==
  /\ \A q \in Producers : WF_vars(StorePack(q)) /\ WF_vars(PushPack(q))
  /\ WF_vars(Receive)

FairSpec == Spec /\ Fairness

-----------------------------------------------------------------------------
TypeOK ==
  /\ index_base \in [Producers -> Nat]
  /\ head \in [Producers -> Nat]
  /\ front \in [Producers -> Nat]
  /\ garbage_tail \in [Producers -> SUBSET (Nat \cup {Nil})]
  /\ loaded \in [Producers -> Nat \cup {Nil}]
  /\ on_recv \in [Producers -> {"idle", "loaded", "stored"}]
  /\ pack_queue \in Seq(Pointer)
  /\ gc \in [Producers -> Nat \cup {Nil}]
  /\ recv \in {"idle", "draining", "handling", "releasing"}
  /\ pk \in Pointer \cup {NoPack}
  /\ releasing \in SUBSET Producers
  /\ handled \in [Producers -> Nat]

Live(q, i) == front[q] <= i /\ i < index_base[q]

\* gc_[q] still matters: move_pack is running and release_pack has not read it.
InUse(q) == recv \in {"draining", "handling"} \/ (recv = "releasing" /\ q \in releasing)

\* No pointer outlives its pack, however the producers' sends interleave with the
\* actor's recv: the pointers in the queue, the pack being handled, and the packs
\* release_pack still reads are all in the deque (nonblocking_actor.cpp:94, 189,
\* 175).
NoUseAfterFree ==
  /\ \A i \in 1..Len(pack_queue) : Live(pack_queue[i].queue, pack_queue[i].index)
  /\ recv = "handling" => Live(pk.queue, pk.index)
  /\ \A q \in Producers : InUse(q) /\ gc[q] # Nil => Live(q, gc[q])

\* BOOST_ASSERT(cac_que.que_.size() >= size) (nonblocking_actor.cpp:91): head_ never
\* falls behind the deque, also after it was emptied.
PopFrontInDeque ==
  \A q \in Producers : on_recv[q] = "loaded" => Garbage(q) <= index_base[q] - front[q]

\* The actor handles the packs of a producer one by one in the order they were
\* sent, none twice and none left out.
InOrderOnce ==
  [][\A q \in Producers : handled'[q] # handled[q] => handled'[q] = handled[q] + 1]_handled

\* A pack whose producer has stored it is handled, if the actor is polled.
EveryPackHandled ==
  \A q \in Producers : \A i \in 1..MaxPacks : index_base[q] >= i ~> handled[q] >= i
=============================================================================
