--------------------------- MODULE MessageProofs ---------------------------
(***************************************************************************)
(* A message keeps its own content, for any number of messages, threads    *)
(* and buffers, any sizes and whatever is written.                         *)
(*                                                                         *)
(* OwnContent is not inductive: a thread in the middle of copy-on-write    *)
(* will write the buffer it has just taken without looking at its count    *)
(* again.  The strengthening says that this buffer is still its own        *)
(* (FreshAlone), which is why everything that makes a new pointer needs    *)
(* the message it points from to be idle.                                  *)
(***************************************************************************)
EXTENDS Message, FiniteSetTheorems, TLAPS

Pointers ==
    /\ large \in [Msgs -> Bufs \cup {NoBuffer}]
    /\ src \in [Msgs -> Bufs \cup {NoBuffer}]
    /\ pin \in [Msgs -> Bufs \cup {NoBuffer}]
    /\ DOMAIN small = Msgs /\ DOMAIN heap = Bufs
    /\ w \in [Msgs -> Int] /\ DOMAIN log = Msgs /\ DOMAIN pend = Msgs

FreshAlone ==
    \A v \in Msgs : ~ Idle(v) =>
        /\ large[v] \in Bufs /\ w[v] + Len(pend[v]) \in Int
        /\ \A u \in Msgs :
              /\ u # v => large[u] # large[v]
              /\ src[u] # large[v] /\ pin[u] # large[v]

IInv == Pointers /\ FreshAlone /\ OwnContent

\* A buffer some pointer holds is not freed.
LEMMA HeldIsKept ==
  ASSUME NEW b \in Bufs, NEW v \in Msgs, large'[v] = b \/ src'[v] = b
  PROVE  Holders(b)' # {}
BY DEF Holders

\* A free buffer is no message's and nobody copies from it.
LEMMA FreeIsUnheld ==
  ASSUME NEW b \in Free
  PROVE  /\ b \in Bufs
         /\ \A u \in Msgs : large[u] # b /\ src[u] # b /\ pin[u] # b
BY DEF Free, Holders

\* A count of one means what copy-on-write takes it to mean.
LEMMA AloneHolds ==
  ASSUME NEW v \in Msgs, NEW p, ~ Shared(v, p)
  PROVE  \A u \in Msgs :
            /\ u # v => large[u] # large[v]
            /\ src[u] # large[v] /\ pin[u] # large[v]
<1> DEFINE H == Holders(large[v]) \cup (IF p = large[v] THEN {<<v, "pin">>} ELSE {})
<1> DEFINE me == <<v, "large">>
<1>1. IsFiniteSet(Msgs \X {"large", "src", "pin"})
  <2>1. IsFiniteSet({"large"})
    BY FS_Singleton
  <2>2. IsFiniteSet({"large"} \cup {"src"})
    BY <2>1, FS_AddElement
  <2>3. IsFiniteSet(({"large"} \cup {"src"}) \cup {"pin"})
    BY <2>2, FS_AddElement
  <2>4. ({"large"} \cup {"src"}) \cup {"pin"} = {"large", "src", "pin"}
    OBVIOUS
  <2>5. IsFiniteSet({"large", "src", "pin"})
    BY <2>3, <2>4
  <2>6. QED
    BY <2>5, MsgsFinite, FS_Product
<1>2. H \subseteq Msgs \X {"large", "src", "pin"}
  BY DEF Holders
<1>3. IsFiniteSet(H)
  BY <1>1, <1>2, FS_Subset
<1>4. Cardinality(H) \in Nat /\ ~ (Cardinality(H) > 1)
  BY <1>3, FS_CardinalityType DEF Shared
<1>5. me \in H
  BY DEF Holders
<1>6. ASSUME NEW h \in H PROVE h = me
  <2> SUFFICES ASSUME h # me PROVE FALSE
    OBVIOUS
  <2>1. IsFiniteSet({me}) /\ Cardinality({me}) = 1
    BY FS_Singleton
  <2> HIDE DEF me, H
  <2>a. h \notin {me}
    OBVIOUS
  <2>b. Cardinality({me} \cup {h}) = Cardinality({me}) + 1
    BY <2>1, <2>a, FS_AddElement
  <2>2. Cardinality({me} \cup {h}) = 2
    BY <2>1, <2>b
  <2>3. {me} \cup {h} \in SUBSET H
    BY <1>5
  <2>4. Cardinality({me} \cup {h}) <= Cardinality(H)
    BY <1>3, <2>3, FS_Subset
  <2>5. QED
    BY <1>4, <2>2, <2>4
<1>7. SUFFICES ASSUME NEW u \in Msgs
               PROVE  /\ u # v => large[u] # large[v]
                      /\ src[u] # large[v] /\ pin[u] # large[v]
  OBVIOUS
<1>8. /\ large[u] = large[v] => <<u, "large">> \in H
      /\ src[u] = large[v] => <<u, "src">> \in H
      /\ pin[u] = large[v] => <<u, "pin">> \in H
  BY DEF Holders
<1> HIDE DEF H
<1>9. QED
  BY <1>6, <1>8

\* What a step must show of the shared buffers: the content of a message
\* that is not being changed stays where it is.
LEMMA CellsStay ==
  ASSUME Pointers, OwnContent, NEW u \in Msgs,
         large'[u] = large[u], src'[u] = src[u], w'[u] = w[u],
         log'[u] = log[u], small'[u] = small[u],
         large[u] \in Bufs => heap'[large[u]] = heap[large[u]],
         src[u] \in Bufs => heap'[src[u]] = heap[src[u]]
  PROVE  \A i \in Idx :
            i < w'[u] => log'[u][i] = (IF Idle(u)' THEN Cells(u)'[i] ELSE heap'[src'[u]][i])
BY DEF Pointers, OwnContent, Idle, IsSmall, Cells

\* The bytes written go where the history says, wherever the buffer is.
LEMMA LaidSame ==
  ASSUME NEW c, NEW d, NEW n, NEW s, \A i \in Idx : i < n => c[i] = d[i]
  PROVE  \A i \in Idx : i < n + Len(s) => Laid(c, n, s)[i] = Laid(d, n, s)[i]
BY DEF Laid

LEMMA DuplicateSame ==
  ASSUME NEW c, NEW n
  PROVE  \A i \in Idx : i < n => Duplicate(c, n)[i] = c[i]
BY DEF Duplicate

\* reserve and write.
LEMMA WritePreserves ==
  ASSUME IInv, NEW v \in Msgs, NEW p, NEW size, NEW s,
         p = NoBuffer \/ \E m \in Msgs : Idle(m) /\ p = large[m],
         Write(v, p, size, s)
  PROVE  IInv'
<1> USE DEF IInv
<1>a. p \in Bufs \cup {NoBuffer} /\ \A x \in Msgs : ~ Idle(x) => p # large[x]
  BY NoBufferIsNone DEF Pointers, FreshAlone
<1>0. /\ Idle(v) /\ v \in DOMAIN w /\ v \in DOMAIN log /\ w[v] + Len(s) \in Int
      /\ \A i \in Idx : i < w[v] => Cells(v)[i] = log[v][i]
  BY SizesAssumption DEF Write, Pointers, OwnContent, Idle
<1>1. CASE WriteInside(v, size, s)
  <2>1. Pointers'
    BY <1>1 DEF WriteInside, Advance, Pointers
  <2>2. FreshAlone'
    BY <1>0, <1>1 DEF WriteInside, Advance, FreshAlone, Idle, Pointers
  <2>3. ASSUME NEW u \in Msgs, u # v
        PROVE  \A i \in Idx :
                  i < w'[u] => log'[u][i] = (IF Idle(u)' THEN Cells(u)'[i] ELSE heap'[src'[u]][i])
    BY <1>1, <2>3, CellsStay DEF WriteInside, Advance, Pointers
  <2>4. /\ w'[v] = w[v] + Len(s) /\ log'[v] = Laid(log[v], w[v], s)
        /\ Idle(v)' /\ Cells(v)' = Laid(small[v], w[v], s) /\ Cells(v) = small[v]
    BY <1>0, <1>1 DEF WriteInside, Advance, Pointers, Idle, Cells, IsSmall
  <2>5. \A i \in Idx : i < w'[v] => log'[v][i] = Cells(v)'[i]
    BY <1>0, <2>4, LaidSame
  <2>6. QED
    BY <2>1, <2>2, <2>3, <2>4, <2>5 DEF OwnContent
<1>2. CASE WriteLeavingSmall(v, size, s)
  <2>1. PICK b \in Free :
           /\ large' = [large EXCEPT ![v] = b]
           /\ heap' = [heap EXCEPT ![b] = Laid(Duplicate(small[v], w[v]), w[v], s)]
    BY <1>2 DEF WriteLeavingSmall
  <2>2. /\ b \in Bufs /\ \A u \in Msgs : large[u] # b /\ src[u] # b /\ pin[u] # b
    BY FreeIsUnheld
  <2>3. Pointers'
    BY <1>2, <2>1, <2>2 DEF WriteLeavingSmall, Advance, Pointers
  <2>4. FreshAlone'
    BY <1>0, <1>2, <2>1, <2>2 DEF WriteLeavingSmall, Advance, FreshAlone, Idle, Pointers
  <2>5. ASSUME NEW u \in Msgs, u # v
        PROVE  \A i \in Idx :
                  i < w'[u] => log'[u][i] = (IF Idle(u)' THEN Cells(u)'[i] ELSE heap'[src'[u]][i])
    BY <1>2, <2>1, <2>2, <2>5, CellsStay DEF WriteLeavingSmall, Advance, Pointers
  <2>6. /\ w'[v] = w[v] + Len(s) /\ log'[v] = Laid(log[v], w[v], s)
        /\ Idle(v)' /\ Cells(v)' = Laid(Duplicate(small[v], w[v]), w[v], s) /\ Cells(v) = small[v]
    BY <1>0, <1>2, <2>1, <2>2, NoBufferIsNone
       DEF WriteLeavingSmall, Advance, Pointers, Idle, Cells, IsSmall
  <2>7. \A i \in Idx : i < w[v] => Duplicate(small[v], w[v])[i] = log[v][i]
    BY <1>0, <2>6, DuplicateSame
  <2>8. \A i \in Idx : i < w'[v] => log'[v][i] = Cells(v)'[i]
    BY <2>6, <2>7, LaidSame
  <2>9. QED
    BY <2>3, <2>4, <2>5, <2>6, <2>8 DEF OwnContent
<1>3. CASE WriteAlone(v, p, size, s)
  <2>1. /\ large[v] \in Bufs
        /\ \A u \in Msgs : /\ u # v => large[u] # large[v]
                           /\ src[u] # large[v] /\ pin[u] # large[v]
    BY <1>3, AloneHolds DEF WriteAlone, IsSmall, Pointers
  <2>2. /\ heap' = [heap EXCEPT ![large[v]] = Laid(heap[large[v]], w[v], s)]
        /\ UNCHANGED <<large, src, pin, small>>
    BY <1>3 DEF WriteAlone
  <2>3. Pointers'
    BY <1>3, <2>2 DEF WriteAlone, Advance, Pointers
  <2>4. FreshAlone'
    BY <1>0, <1>3, <2>2 DEF WriteAlone, Advance, FreshAlone, Idle, Pointers
  <2>5. ASSUME NEW u \in Msgs, u # v
        PROVE  \A i \in Idx :
                  i < w'[u] => log'[u][i] = (IF Idle(u)' THEN Cells(u)'[i] ELSE heap'[src'[u]][i])
    BY <1>3, <2>1, <2>2, <2>5, CellsStay DEF WriteAlone, Advance, Pointers
  <2>6. /\ w'[v] = w[v] + Len(s) /\ log'[v] = Laid(log[v], w[v], s)
        /\ Idle(v)' /\ Cells(v)' = Laid(Cells(v), w[v], s)
    BY <1>0, <1>3, <2>1, <2>2 DEF WriteAlone, Advance, Pointers, Idle, Cells, IsSmall
  <2>7. \A i \in Idx : i < w'[v] => log'[v][i] = Cells(v)'[i]
    BY <1>0, <2>6, LaidSame
  <2>8. QED
    BY <2>3, <2>4, <2>5, <2>6, <2>7 DEF OwnContent
<1>4. CASE BeginCopy(v, p, size, s)
  <2>1. PICK b \in Free :
           /\ large' = [large EXCEPT ![v] = b]
           /\ heap' = [heap EXCEPT ![b] = Blank]
    BY <1>4 DEF BeginCopy
  <2>2. /\ b \in Bufs /\ \A u \in Msgs : large[u] # b /\ src[u] # b /\ pin[u] # b
    BY FreeIsUnheld
  <2>3. /\ src' = [src EXCEPT ![v] = large[v]] /\ pin' = [pin EXCEPT ![v] = p]
        /\ pend' = [pend EXCEPT ![v] = s] /\ w[v] + Len(s) \in Int
        /\ UNCHANGED <<small, w, log>> /\ large[v] \in Bufs /\ p # b
    <3>1. p # b
      BY <2>2, NoBufferIsNone
    <3>2. QED
      BY <1>0, <1>4, <3>1 DEF BeginCopy, IsSmall, Pointers
  <2>4. Pointers'
    BY <1>a, <2>1, <2>2, <2>3 DEF Pointers
  <2>5. FreshAlone'
    <3> SUFFICES ASSUME NEW x \in Msgs, ~ Idle(x)', NEW u \in Msgs
                 PROVE  /\ large'[x] \in Bufs /\ w'[x] + Len(pend'[x]) \in Int
                        /\ u # x => large'[u] # large'[x]
                        /\ src'[u] # large'[x] /\ pin'[u] # large'[x]
      BY DEF FreshAlone
    <3>1. CASE x = v
      BY <2>1, <2>2, <2>3, <3>1 DEF Pointers
    <3>2. CASE x # v
      <4>1. ~ Idle(x)
        BY <2>3, <3>2 DEF Idle, Pointers
      <4>2. /\ large[x] \in Bufs /\ large'[x] = large[x]
            /\ large[v] # large[x] /\ p # large[x]
            /\ \A y \in Msgs : /\ y # x => large[y] # large[x]
                               /\ src[y] # large[x] /\ pin[y] # large[x]
        BY <1>a, <2>1, <3>2, <4>1 DEF FreshAlone, Pointers
      <4>3. QED
        BY <2>1, <2>2, <2>3, <4>2 DEF Pointers
    <3>3. QED
      BY <3>1, <3>2
  <2>6. ASSUME NEW u \in Msgs, u # v
        PROVE  \A i \in Idx :
                  i < w'[u] => log'[u][i] = (IF Idle(u)' THEN Cells(u)'[i] ELSE heap'[src'[u]][i])
    BY <2>1, <2>2, <2>3, <2>6, CellsStay DEF Pointers
  <2>7. /\ ~ Idle(v)' /\ heap'[src'[v]] = Cells(v)
    BY <2>1, <2>2, <2>3, NoBufferIsNone DEF Idle, Cells, IsSmall, Pointers
  <2>8. QED
    BY <1>0, <2>3, <2>4, <2>5, <2>6, <2>7 DEF OwnContent
<1>5. QED
  BY <1>1, <1>2, <1>3, <1>4 DEF Write

\* The end of copy-on-write: the old buffer may be freed, the new one is
\* still this message's alone.
LEMMA EndCopyPreserves ==
  ASSUME IInv, NEW v \in Msgs, EndCopy(v)
  PROVE  IInv'
<1> USE DEF IInv
<1>1. /\ ~ Idle(v) /\ large[v] \in Bufs /\ src[v] \in Bufs
      /\ \A u \in Msgs : /\ u # v => large[u] # large[v]
                         /\ src[u] # large[v] /\ pin[u] # large[v]
      /\ v \in DOMAIN w /\ v \in DOMAIN log
  BY DEF EndCopy, FreshAlone, Pointers, Idle
<1> DEFINE bytes == Laid(Duplicate(heap[src[v]], w[v]), w[v], pend[v])
<1>2. /\ src' = [src EXCEPT ![v] = NoBuffer] /\ pin' = [pin EXCEPT ![v] = NoBuffer]
      /\ UNCHANGED <<small, large>> /\ pend' = [pend EXCEPT ![v] = <<>>]
      /\ w' = [w EXCEPT ![v] = w[v] + Len(pend[v])]
      /\ log' = [log EXCEPT ![v] = Laid(log[v], w[v], pend[v])]
  BY DEF EndCopy, Advance
<1>3. /\ DOMAIN heap' = Bufs
      /\ \A b \in Bufs : Holders(b)' # {} =>
            heap'[b] = (IF b = large[v] THEN bytes ELSE heap[b])
  BY DEF EndCopy, Kept, Pointers
<1> HIDE DEF bytes
<1>4. Pointers'
  BY <1>2, <1>3 DEF Pointers
<1>5. FreshAlone'
  BY <1>1, <1>2, NoBufferIsNone DEF FreshAlone, Idle, Pointers
<1>6. ASSUME NEW u \in Msgs, u # v
      PROVE  \A i \in Idx :
                i < w'[u] => log'[u][i] = (IF Idle(u)' THEN Cells(u)'[i] ELSE heap'[src'[u]][i])
  <2>1. large'[u] = large[u] /\ src'[u] = src[u]
    BY <1>2, <1>6 DEF Pointers
  <2>2. large[u] \in Bufs => heap'[large[u]] = heap[large[u]]
    BY <1>1, <1>3, <1>6, <2>1, HeldIsKept
  <2>3. src[u] \in Bufs => heap'[src[u]] = heap[src[u]]
    BY <1>1, <1>3, <1>6, <2>1, HeldIsKept
  <2>4. QED
    BY <1>2, <1>6, <2>1, <2>2, <2>3, CellsStay DEF Pointers
<1>7. Idle(v)' /\ Cells(v)' = bytes
  BY <1>1, <1>2, <1>3, HeldIsKept, NoBufferIsNone DEF Idle, Cells, IsSmall, Pointers
<1>8. \A i \in Idx : i < w[v] => Duplicate(heap[src[v]], w[v])[i] = log[v][i]
  BY <1>1, DuplicateSame DEF OwnContent
<1>9. \A i \in Idx : i < w'[v] => log'[v][i] = Cells(v)'[i]
  BY <1>1, <1>2, <1>7, <1>8, LaidSame DEF bytes
<1>10. QED
  BY <1>4, <1>5, <1>6, <1>7, <1>9 DEF OwnContent

\* A message overwritten by a copy of another one.
LEMMA CopyPreserves ==
  ASSUME IInv, NEW v \in Msgs, NEW x \in Msgs, CopyOf(v, x)
  PROVE  IInv'
<1> USE DEF IInv
<1>1. /\ Idle(v) /\ Idle(x) /\ x # v /\ UNCHANGED <<src, pin, pend>>
      /\ large' = [large EXCEPT ![v] = large[x]]
      /\ small' = [small EXCEPT ![v] = IF IsSmall(x) THEN Duplicate(small[x], w[x]) ELSE Blank]
      /\ w' = [w EXCEPT ![v] = w[x]] /\ log' = [log EXCEPT ![v] = log[x]]
  BY DEF CopyOf
<1>2. /\ DOMAIN heap' = Bufs
      /\ \A b \in Bufs : Holders(b)' # {} => heap'[b] = heap[b]
  BY DEF CopyOf, Kept
<1>3. Pointers'
  BY <1>1, <1>2 DEF Pointers
<1>4. FreshAlone'
  BY <1>1, <1>2 DEF FreshAlone, Idle, Pointers
<1>5. ASSUME NEW u \in Msgs, u # v
      PROVE  \A i \in Idx :
                i < w'[u] => log'[u][i] = (IF Idle(u)' THEN Cells(u)'[i] ELSE heap'[src'[u]][i])
  <2>1. large'[u] = large[u] /\ src'[u] = src[u]
    BY <1>1, <1>5 DEF Pointers
  <2>2. large[u] \in Bufs => heap'[large[u]] = heap[large[u]]
    BY <1>2, <2>1, HeldIsKept
  <2>3. src[u] \in Bufs => heap'[src[u]] = heap[src[u]]
    BY <1>2, <2>1, HeldIsKept
  <2>4. QED
    BY <1>1, <1>5, <2>1, <2>2, <2>3, CellsStay DEF Pointers
<1>6. Idle(v)'
  BY <1>1 DEF Idle
<1>7. \A i \in Idx : i < w[x] => log[x][i] = Cells(x)[i]
  BY <1>1 DEF OwnContent
<1>8. \A i \in Idx : i < w[x] => Cells(v)'[i] = Cells(x)[i]
  <2>1. CASE IsSmall(x)
    BY <1>1, <2>1, DuplicateSame DEF Cells, IsSmall, Pointers
  <2>2. CASE ~ IsSmall(x)
    <3>1. large[x] \in Bufs /\ large'[v] = large[x]
      BY <1>1, <2>2 DEF IsSmall, Pointers
    <3>2. heap'[large[x]] = heap[large[x]]
      BY <1>2, <3>1, HeldIsKept
    <3>3. QED
      BY <2>2, <3>1, <3>2, NoBufferIsNone DEF Cells, IsSmall
  <2>3. QED
    BY <2>1, <2>2
<1>9. QED
  BY <1>1, <1>3, <1>4, <1>5, <1>6, <1>7, <1>8 DEF OwnContent, Pointers

\* A message made from bytes.
LEMMA MadePreserves ==
  ASSUME IInv, NEW v \in Msgs, NEW s, NEW o, NEW its, Made(v, s, o, its)
  PROVE  IInv'
<1> USE DEF IInv
<1> DEFINE bytes == Laid(Blank, 0, s)
<1>1. /\ Idle(v) /\ UNCHANGED <<src, pin, pend>> /\ Len(s) \in Int
      /\ w' = [w EXCEPT ![v] = Len(s)] /\ log' = [log EXCEPT ![v] = bytes]
  BY SizesAssumption DEF Made
<1>2. \/ /\ large' = [large EXCEPT ![v] = NoBuffer] /\ small' = [small EXCEPT ![v] = bytes]
         /\ heap' = Kept(heap, Blank)
      \/ \E b \in Free :
            /\ large' = [large EXCEPT ![v] = b] /\ small' = [small EXCEPT ![v] = Blank]
            /\ heap' = Kept([heap EXCEPT ![b] = bytes], Blank)
  BY DEF Made
<1>3. CASE /\ large' = [large EXCEPT ![v] = NoBuffer] /\ small' = [small EXCEPT ![v] = bytes]
           /\ heap' = Kept(heap, Blank)
  <2>1. /\ DOMAIN heap' = Bufs
        /\ \A c \in Bufs : Holders(c)' # {} => heap'[c] = heap[c]
    BY <1>3 DEF Kept
  <2>2. Pointers'
    BY <1>1, <1>3, <2>1 DEF Pointers
  <2>3. FreshAlone'
    BY <1>1, <1>3, NoBufferIsNone DEF FreshAlone, Idle, Pointers
  <2>4. ASSUME NEW u \in Msgs, u # v
        PROVE  \A i \in Idx :
                  i < w'[u] => log'[u][i] = (IF Idle(u)' THEN Cells(u)'[i] ELSE heap'[src'[u]][i])
    <3>1. large'[u] = large[u] /\ src'[u] = src[u]
      BY <1>1, <1>3, <2>4 DEF Pointers
    <3>2. large[u] \in Bufs => heap'[large[u]] = heap[large[u]]
      BY <2>1, <3>1, HeldIsKept
    <3>3. src[u] \in Bufs => heap'[src[u]] = heap[src[u]]
      BY <2>1, <3>1, HeldIsKept
    <3>4. QED
      BY <1>1, <1>3, <2>4, <3>1, <3>2, <3>3, CellsStay DEF Pointers
  <2>5. Idle(v)' /\ Cells(v)' = bytes /\ log'[v] = bytes
    BY <1>1, <1>3 DEF Idle, Cells, IsSmall, Pointers
  <2>6. QED
    BY <2>2, <2>3, <2>4, <2>5 DEF OwnContent
<1>4. ASSUME NEW b \in Free,
             large' = [large EXCEPT ![v] = b], small' = [small EXCEPT ![v] = Blank],
             heap' = Kept([heap EXCEPT ![b] = bytes], Blank)
      PROVE  IInv'
  <2>1. /\ b \in Bufs /\ \A u \in Msgs : large[u] # b /\ src[u] # b /\ pin[u] # b
    BY FreeIsUnheld
  <2>2. /\ DOMAIN heap' = Bufs
        /\ \A c \in Bufs : Holders(c)' # {} => heap'[c] = (IF c = b THEN bytes ELSE heap[c])
    BY <1>4 DEF Kept, Pointers
  <2>3. Pointers'
    BY <1>1, <1>4, <2>1, <2>2 DEF Pointers
  <2>4. FreshAlone'
    BY <1>1, <1>4, <2>1 DEF FreshAlone, Idle, Pointers
  <2>5. ASSUME NEW u \in Msgs, u # v
        PROVE  \A i \in Idx :
                  i < w'[u] => log'[u][i] = (IF Idle(u)' THEN Cells(u)'[i] ELSE heap'[src'[u]][i])
    <3>1. large'[u] = large[u] /\ src'[u] = src[u]
      BY <1>1, <1>4, <2>5 DEF Pointers
    <3>2. large[u] \in Bufs => heap'[large[u]] = heap[large[u]]
      BY <2>1, <2>2, <3>1, HeldIsKept
    <3>3. src[u] \in Bufs => heap'[src[u]] = heap[src[u]]
      BY <2>1, <2>2, <3>1, HeldIsKept
    <3>4. QED
      BY <1>1, <1>4, <2>5, <3>1, <3>2, <3>3, CellsStay DEF Pointers
  <2>6. large'[v] = b /\ heap'[b] = bytes
    BY <1>4, <2>1, <2>2, HeldIsKept DEF Pointers
  <2>7. Idle(v)' /\ Cells(v)' = bytes /\ log'[v] = bytes
    BY <1>1, <2>1, <2>6, NoBufferIsNone DEF Idle, Cells, IsSmall, Pointers
  <2>8. QED
    BY <2>3, <2>4, <2>5, <2>7 DEF OwnContent
<1>5. QED
  BY <1>2, <1>3, <1>4

\* Reading and taking the tag off leave the bytes that remain.
LEMMA ShorterPreserves ==
  ASSUME IInv, UNCHANGED <<small, large, src, pin, heap, log>>,
         w' \in [Msgs -> Int], pend' = pend,
         \A v \in Msgs : ~ Idle(v) => w'[v] = w[v],
         \A v \in Msgs : \A i \in Idx : i < w'[v] => i < w[v]
  PROVE  IInv'
BY DEF IInv, Pointers, FreshAlone, OwnContent, Idle, IsSmall, Cells

\* A message keeps the bytes written to it and to no other: the invariant
\* of copy-on-write (message.hpp:528-574).
THEOREM MessagesOwnTheirContent == Spec => []OwnContent
<1>1. Init => IInv
  <2>1. SUFFICES ASSUME Init PROVE IInv
    OBVIOUS
  <2>2. Pointers /\ FreshAlone
    BY <2>1 DEF Init, Pointers, FreshAlone, Idle
  <2>3. OwnContent
    BY <2>1 DEF Init, OwnContent, Idle, IsSmall, Cells
  <2>4. QED
    BY <2>2, <2>3 DEF IInv
<1>2. IInv /\ [Next]_vars => IInv'
  <2> SUFFICES ASSUME IInv, [Next]_vars PROVE IInv'
    OBVIOUS
  <2>1. ASSUME NEW v \in Msgs, NEW x \in Values, Put(v, x) PROVE IInv'
    BY <2>1, WritePreserves DEF Put
  <2>2. ASSUME NEW v \in Msgs, PushTag(v) PROVE IInv'
    BY <2>2, WritePreserves DEF PushTag
  <2>3. ASSUME NEW v \in Msgs, NEW u \in Msgs, PutMessage(v, u) PROVE IInv'
    BY <2>3, WritePreserves DEF PutMessage
  <2>4. ASSUME NEW v \in Msgs, PopTag(v) PROVE IInv'
    <3>a. w[v] \in Int /\ tag[v] \in Int /\ tag[v] < w[v] /\ w' = [w EXCEPT ![v] = tag[v]]
      BY <2>4 DEF PopTag, IInv, Pointers
    <3>1. \A u \in Msgs : \A i \in Idx : i < w'[u] => i < w[u]
      BY <3>a, SizesAssumption DEF IInv, Pointers, Idx
    <3>2. QED
      BY <2>4, <3>1, ShorterPreserves DEF PopTag, IInv, Pointers
  <2>5. ASSUME NEW v \in Msgs, EndCopy(v) PROVE IInv'
    BY <2>5, EndCopyPreserves
  <2>6. ASSUME NEW v \in Msgs, NEW k \in 1..MaxItems, Get(v, k) PROVE IInv'
    BY <2>6, ShorterPreserves DEF Get, IInv, Pointers
  <2>7. ASSUME NEW v \in Msgs, NEW u \in Msgs, CopyOf(v, u) PROVE IInv'
    BY <2>7, CopyPreserves
  <2>8. ASSUME NEW v \in Msgs, NEW u \in Msgs, Arrive(v, u) PROVE IInv'
    BY <2>8, MadePreserves DEF Arrive
  <2>9. ASSUME NEW v \in Msgs, NEW u \in Msgs, NEW k \in 1..MaxItems, GetMessage(v, u, k)
        PROVE  IInv'
    BY <2>9, MadePreserves DEF GetMessage
  <2>10. ASSUME UNCHANGED vars PROVE IInv'
    BY <2>10, ShorterPreserves DEF vars, own, IInv, Pointers
  <2>11. QED
    BY <2>1, <2>2, <2>3, <2>4, <2>5, <2>6, <2>7, <2>8, <2>9, <2>10 DEF Next
<1>3. IInv => OwnContent
  BY DEF IInv
<1>4. QED
  BY <1>1, <1>2, <1>3, PTL DEF Spec
=============================================================================
