------------------------------ MODULE Message ------------------------------
(***************************************************************************)
(* The body of a message (gce/actor/message.hpp, detail/buffer.hpp and     *)
(* detail/buffer_ref.hpp): a few bytes inside the object while it is       *)
(* small, otherwise a buffer on the heap that copies of the message share  *)
(* until one of them writes (copy-on-write).                               *)
(*                                                                         *)
(* Every message object belongs to one thread; copies of one message are   *)
(* handed to other threads and written and read there at the same time.    *)
(* What the threads share is the buffers and their reference counts, so a  *)
(* write that finds its buffer shared takes two steps: it takes a buffer   *)
(* of its own while it still holds the old one, then copies.  All else in  *)
(* an operation touches what one thread owns and is one step.              *)
(*                                                                         *)
(* A buffer is a function from offsets to bytes.  Bytes of a buffer just   *)
(* allocated are Junk; an address that has been freed may be allocated     *)
(* again.  log and items are history variables: what the operations on     *)
(* this very message wrote, as bytes and as values.                        *)
(***************************************************************************)
EXTENDS Amsg, FiniteSets

CONSTANTS
    Msgs,       \* the message objects
    Bufs,       \* the addresses malloc returns
    SmallSize,  \* GCE_SMALL_MSG_SIZE
    MinGrow,    \* GCE_MSG_MIN_GROW_SIZE
    MaxSize,    \* bound: no message gets longer
    MaxItems,   \* bound: no message holds more values
    Values,     \* the structures and containers the program writes
    Samples,    \* the numbers, with their types, tried by CodecExact
    Junk,       \* what malloc leaves in a buffer, not a byte
    NoBuffer    \* the null pointer

ASSUME SizesAssumption == SmallSize \in Nat /\ MinGrow \in Nat /\ MaxSize \in Nat /\ MaxItems \in Nat
ASSUME MsgsFinite == IsFiniteSet(Msgs)

ASSUME NoBufferIsNone == NoBuffer \notin Bufs

Nil == -1    \* u32_nil, the offset of no tag
Idx == 0..(MaxSize + SmallSize + MinGrow)
Blank == [i \in Idx |-> Junk]

VARIABLES
    small,      \* small_
    large,      \* large_
    cap, w, r,  \* buf_.size_, write_size_, read_size_
    tag,        \* tag_offset_
    src,        \* reserve's tmp: the buffer being copied from
    pin,        \* the by-value parameter of operator<<(message const)
    pend,       \* the bytes to be written once the copy is made
    heap,       \* the bytes of the buffers
    hcap,       \* the size of the buffers
    log, items  \* history

own == <<cap, w, r, tag>>
vars == <<small, large, own, src, pin, pend, heap, hcap, log, items>>

(***************************************************************************)
(* use_count: the pointers to buffer b.                                    *)
(***************************************************************************)
Holders(b) ==
    {<<v, "large">> : v \in {u \in Msgs : large[u] = b}}
        \cup {<<v, "src">> : v \in {u \in Msgs : src[u] = b}}
        \cup {<<v, "pin">> : v \in {u \in Msgs : pin[u] = b}}

Free == {b \in Bufs : Holders(b) = {}}

(* What intrusive_ptr frees when its last pointer goes is not read again. *)
Kept(f, none) == [b \in Bufs |-> IF Holders(b)' = {} THEN none ELSE f[b]]

IsSmall(v) == large[v] = NoBuffer
Idle(v) == src[v] = NoBuffer

Cells(v) == IF IsSmall(v) THEN small[v] ELSE heap[large[v]]
Bytes(v, from, to) == [i \in 1..(to - from) |-> Cells(v)[from + i - 1]]

(* memcpy of the bytes s to offset at of the buffer c. *)
Laid(c, at, s) ==
    [i \in Idx |-> IF i < at THEN c[i] ELSE IF i < at + Len(s) THEN s[i - at + 1] ELSE c[i]]

(* memcpy of the first n bytes of c into a new buffer. *)
Duplicate(c, n) == [i \in Idx |-> IF i < n THEN c[i] ELSE Junk]

(***************************************************************************)
(* What the program puts in a message.  A nested message is its size, its  *)
(* type (one byte here), its tag offset and its bytes.                     *)
(***************************************************************************)
OffsetBytes(o) == IF o = Nil THEN [i \in 1..4 |-> 255] ELSE Number("uint32", o)

HeaderMembers(n, o) ==
    << [type |-> "uint32", val |-> Number("uint32", n)],
       [type |-> "uint64", val |-> Number("uint64", 1)],
       [type |-> "uint32", val |-> OffsetBytes(o)] >>

SizeOfValue(x) ==
    IF x.kind = "struct" THEN StructSize(x.members) ELSE VectorSize(x.type, x.elems)

WrittenValue(x) ==
    IF x.kind = "struct" THEN StructWritten(x.members) ELSE VectorWritten(x.type, x.elems)

Refused(x) == x.kind = "vector" /\ TooLong(x.max, Len(x.elems))

TagBytes == <<1>>

(***************************************************************************)
(* reserve(size) and the write that follows it, in the thread of v: the    *)
(* capacity grows by at least MinGrow.                                     *)
(***************************************************************************)
NewCapacity(v, size) ==
    LET more == w[v] + size - cap[v]
    IN  IF more <= 0 THEN cap[v] ELSE cap[v] + (IF more < MinGrow THEN MinGrow ELSE more)

SharedByMore(v, p) ==                   \* were one other holder not counted
    Cardinality(Holders(large[v]) \cup (IF p = large[v] THEN {<<v, "pin">>} ELSE {})) > 2

Shared(v, p) ==
    Cardinality(Holders(large[v]) \cup (IF p = large[v] THEN {<<v, "pin">>} ELSE {})) > 1

Advance(v, s) ==
    /\ w' = [w EXCEPT ![v] = @ + Len(s)]
    /\ log' = [log EXCEPT ![v] = Laid(@, w[v], s)]

WriteInside(v, size, s) ==
    /\ IsSmall(v) /\ NewCapacity(v, size) = cap[v]
    /\ small' = [small EXCEPT ![v] = Laid(@, w[v], s)]
    /\ Advance(v, s)
    /\ UNCHANGED <<large, cap, src, pin, pend, heap, hcap>>

WriteLeavingSmall(v, size, s) ==
    /\ IsSmall(v) /\ NewCapacity(v, size) > cap[v]
    /\ \E b \in Free :
          /\ large' = [large EXCEPT ![v] = b]
          /\ heap' = [heap EXCEPT ![b] = Laid(Duplicate(small[v], w[v]), w[v], s)]
          /\ hcap' = [hcap EXCEPT ![b] = NewCapacity(v, size)]
    /\ small' = [small EXCEPT ![v] = Blank]
    /\ cap' = [cap EXCEPT ![v] = NewCapacity(v, size)]
    /\ Advance(v, s)
    /\ UNCHANGED <<src, pin, pend>>

WriteAlone(v, p, size, s) ==
    /\ ~ IsSmall(v) /\ ~ Shared(v, p)
    /\ heap' = [heap EXCEPT ![large[v]] = Laid(@, w[v], s)]
    /\ hcap' = [hcap EXCEPT ![large[v]] = IF NewCapacity(v, size) > @ THEN NewCapacity(v, size) ELSE @]
    /\ cap' = [cap EXCEPT ![v] = NewCapacity(v, size)]
    /\ Advance(v, s)
    /\ UNCHANGED <<small, large, src, pin, pend>>

BeginCopy(v, p, size, s) ==
    /\ ~ IsSmall(v) /\ Shared(v, p)
    /\ \E b \in Free :
          /\ large' = [large EXCEPT ![v] = b]
          /\ heap' = [heap EXCEPT ![b] = Blank]
          /\ hcap' = [hcap EXCEPT ![b] = NewCapacity(v, size)]
    /\ src' = [src EXCEPT ![v] = large[v]]
    /\ pin' = [pin EXCEPT ![v] = p]
    /\ pend' = [pend EXCEPT ![v] = s]
    /\ cap' = [cap EXCEPT ![v] = NewCapacity(v, size)]
    /\ UNCHANGED <<small, w, log>>

EndCopy(v) ==
    /\ ~ Idle(v)
    /\ Advance(v, pend[v])
    /\ src' = [src EXCEPT ![v] = NoBuffer]
    /\ pin' = [pin EXCEPT ![v] = NoBuffer]
    /\ pend' = [pend EXCEPT ![v] = <<>>]
    /\ UNCHANGED <<small, large, cap, r, tag, items>>
    /\ heap' = Kept([heap EXCEPT ![large[v]] =
                        Laid(Duplicate(heap[src[v]], w[v]), w[v], pend[v])], Blank)
    /\ hcap' = Kept(hcap, 0)

Write(v, p, size, s) ==
    /\ Idle(v) /\ w[v] + Len(s) \in 0..MaxSize
    /\ \/ WriteInside(v, size, s)
       \/ WriteLeavingSmall(v, size, s)
       \/ WriteAlone(v, p, size, s)
       \/ BeginCopy(v, p, size, s)

Note(v, it) == Len(items[v]) < MaxItems /\ items' = [items EXCEPT ![v] = Append(@, [at |-> w[v], is |-> it])]

(***************************************************************************)
(* The operations.  Nothing is written behind a tag: the socket that       *)
(* pushed it sends the message.                                            *)
(***************************************************************************)
Tagged(v) == items[v] # <<>> /\ items[v][Len(items[v])].is.kind = "tag"

Put(v, x) ==
    /\ ~ Tagged(v) /\ ~ Refused(x)
    /\ Write(v, NoBuffer, SizeOfValue(x), WrittenValue(x))
    /\ Note(v, x)
    /\ UNCHANGED <<r, tag>>

PutMessage(v, m) ==
    LET head == HeaderMembers(w[m], tag[m])
        body == Bytes(m, 0, w[m])
    IN  /\ ~ Tagged(v) /\ Idle(m)
        /\ Write(v, large[m], StructSize(head) + w[m], StructWritten(head) \o body)
        /\ Note(v, [kind |-> "message", body |-> body])
        /\ UNCHANGED <<r, tag>>

PushTag(v) ==
    /\ ~ Tagged(v)
    /\ tag' = [tag EXCEPT ![v] = w[v]]
    /\ Write(v, NoBuffer, Len(TagBytes), TagBytes)
    /\ Note(v, [kind |-> "tag"])
    /\ UNCHANGED r

(* The copy constructor and operator=. *)
CopyOf(v, u) ==
    /\ Idle(v) /\ Idle(u) /\ u # v
    /\ small' = [small EXCEPT ![v] = IF IsSmall(u) THEN Duplicate(small[u], w[u]) ELSE Blank]
    /\ large' = [large EXCEPT ![v] = large[u]]
    /\ cap' = [cap EXCEPT ![v] = IF IsSmall(u) THEN SmallSize ELSE hcap[large[u]]]
    /\ w' = [w EXCEPT ![v] = w[u]]
    /\ r' = [r EXCEPT ![v] = 0]
    /\ tag' = [tag EXCEPT ![v] = tag[u]]
    /\ log' = [log EXCEPT ![v] = log[u]]
    /\ items' = [items EXCEPT ![v] = items[u]]
    /\ UNCHANGED <<src, pin, pend>>
    /\ heap' = Kept(heap, Blank)
    /\ hcap' = Kept(hcap, 0)

(***************************************************************************)
(* message(type, data, size, tag_offset): a message made from bytes, by    *)
(* the socket that received them or by operator>>(message&).               *)
(***************************************************************************)
Made(v, s, o, its) ==
    LET bytes == Laid(Blank, 0, s)
    IN  /\ Idle(v) /\ Len(s) \in 0..MaxSize
        /\ UNCHANGED <<src, pin, pend>>
        /\ IF Len(s) <= SmallSize
           THEN /\ small' = [small EXCEPT ![v] = bytes]
                /\ large' = [large EXCEPT ![v] = NoBuffer]
                /\ cap' = [cap EXCEPT ![v] = SmallSize]
                /\ heap' = Kept(heap, Blank)
                /\ hcap' = Kept(hcap, 0)
           ELSE \E b \in Free :
                /\ small' = [small EXCEPT ![v] = Blank]
                /\ large' = [large EXCEPT ![v] = b]
                /\ cap' = [cap EXCEPT ![v] = Len(s)]
                /\ heap' = Kept([heap EXCEPT ![b] = bytes], Blank)
                /\ hcap' = Kept([hcap EXCEPT ![b] = Len(s)], 0)
        /\ w' = [w EXCEPT ![v] = Len(s)]
        /\ tag' = [tag EXCEPT ![v] = o]
        /\ log' = [log EXCEPT ![v] = bytes]
        /\ items' = [items EXCEPT ![v] = its]

(* A tagged message goes over a connection and comes out as v. *)
Arrive(v, u) ==
    /\ Idle(u) /\ Tagged(u) /\ u # v
    /\ Made(v, Bytes(u, 0, w[u]), tag[u], items[u])
    /\ r' = [r EXCEPT ![v] = 0]

(***************************************************************************)
(* operator>>: reads the next value.  The reader stands before it when     *)
(* exactly the values before it have been read.                            *)
(***************************************************************************)
Rest(v) == Bytes(v, r[v], w[v])

AtItem(v, k) == k \in 1..Len(items[v]) /\ items[v][k].at = r[v]

ReadValue(x, s) ==
    IF x.kind = "struct"
    THEN StructRead([i \in 1..Len(x.members) |-> x.members[i].type], s)
    ELSE VectorRead(x.type, x.max, s)

Get(v, k) ==
    LET x == items[v][k].is
    IN  /\ Idle(v) /\ AtItem(v, k) /\ x.kind \in {"struct", "vector"}
        /\ ReadValue(x, Rest(v)).is # "bad"
        /\ r' = [r EXCEPT ![v] = @ + ReadValue(x, Rest(v)).len]
        /\ UNCHANGED <<small, large, cap, w, tag, src, pin, pend, heap, hcap, log, items>>

ReadHeader(s) == StructRead(<<"uint32", "uint64", "uint32">>, s)

OffsetRead(x) == IF x = OffsetBytes(Nil) THEN Nil ELSE x[1]

GetMessage(v, u, k) ==
    LET head == ReadHeader(Rest(v))
        size == head.val[1][1]
        from == r[v] + head.len
    IN  /\ Idle(v) /\ Idle(u) /\ u # v
        /\ AtItem(v, k) /\ items[v][k].is.kind = "message"
        /\ head.is # "bad" /\ from + size <= w[v]
        /\ r' = [r EXCEPT ![v] = from + size, ![u] = 0]
        /\ Made(u, Bytes(v, from, from + size), OffsetRead(head.val[3]),
                <<[at |-> 0, is |-> [kind |-> "raw", bytes |-> items[v][k].is.body]]>>)

(* pop_tag: the socket takes the tag off the message it has just made. *)
PopTag(v) ==
    /\ Idle(v) /\ Tagged(v) /\ r[v] = 0
    /\ tag[v] \in 0..(w[v] - 1)
    /\ w' = [w EXCEPT ![v] = tag[v]]
    /\ r' = [r EXCEPT ![v] = 0]
    /\ items' = [items EXCEPT ![v] = SubSeq(@, 1, Len(@) - 1)]
    /\ UNCHANGED <<small, large, cap, tag, src, pin, pend, heap, hcap, log>>

(* The constructors message() and message(type). *)
Init ==
    /\ small = [v \in Msgs |-> Blank]
    /\ large = [v \in Msgs |-> NoBuffer]
    /\ cap = [v \in Msgs |-> SmallSize]
    /\ w = [v \in Msgs |-> 0]
    /\ r = [v \in Msgs |-> 0]
    /\ tag = [v \in Msgs |-> Nil]
    /\ src = [v \in Msgs |-> NoBuffer]
    /\ pin = [v \in Msgs |-> NoBuffer]
    /\ pend = [v \in Msgs |-> <<>>]
    /\ heap = [b \in Bufs |-> Blank]
    /\ hcap = [b \in Bufs |-> 0]
    /\ log = [v \in Msgs |-> Blank]
    /\ items = [v \in Msgs |-> <<>>]

Next ==
    \E v \in Msgs :
        \/ \E x \in Values : Put(v, x)
        \/ PushTag(v) \/ PopTag(v) \/ EndCopy(v)
        \/ \E k \in 1..MaxItems : Get(v, k)
        \/ \E u \in Msgs : PutMessage(v, u) \/ CopyOf(v, u) \/ Arrive(v, u)
        \/ \E u \in Msgs, k \in 1..MaxItems : GetMessage(v, u, k)

Spec == Init /\ [][Next]_vars

TypeOK ==
    /\ small \in [Msgs -> [Idx -> Byte \cup {Junk}]]
    /\ heap \in [Bufs -> [Idx -> Byte \cup {Junk}]]
    /\ large \in [Msgs -> Bufs \cup {NoBuffer}]
    /\ src \in [Msgs -> Bufs \cup {NoBuffer}]
    /\ pin \in [Msgs -> Bufs \cup {NoBuffer}]
    /\ cap \in [Msgs -> Nat] /\ hcap \in [Bufs -> Nat]
    /\ w \in [Msgs -> 0..MaxSize] /\ r \in [Msgs -> 0..MaxSize]
    /\ tag \in [Msgs -> 0..MaxSize \cup {Nil}]

(***************************************************************************)
(* A message holds the bytes that were written to it and to the messages   *)
(* it was copied from before the copy, whatever copies of it other threads *)
(* write, and while one of them is being moved to a buffer of its own      *)
(* (message.hpp:551-569).                                                  *)
(***************************************************************************)
OwnContent ==
    \A v \in Msgs : \A i \in Idx :
        i < w[v] => log[v][i] = (IF Idle(v) THEN Cells(v)[i] ELSE heap[src[v]][i])

(***************************************************************************)
(* A number reads back as itself, from exactly as many bytes as size_of    *)
(* made operator<< reserve (append_write returns null otherwise, and the   *)
(* code stores through it: zerocopy.hpp:80-91, 340-368).  The exception is *)
(* the most negative number of a signed type of more than a byte: the code *)
(* finds its magnitude below 0x100, and 0 is read (zerocopy.hpp:424-440).  *)
(***************************************************************************)
IsMostNegative(t, x) == IsNegative(t, x) /\ Len(x) > 1 /\ Negation(x) = x

CodecExact ==
    \A n \in Samples :
        LET s == Written(n.type, n.val)
        IN  /\ Len(s) = SizeOf(n.type, n.val)
            /\ ~ IsMostNegative(n.type, n.val) => Read(n.type, s) = Good(n.val, Len(s))

(***************************************************************************)
(* What is read out of a message is what was put in, value by value: the   *)
(* reservation (size_of, reserve) was large enough for what is written,    *)
(* the tag is found at tag_offset_ (message.hpp:401-526), and a nested     *)
(* message comes out with its bytes.  Values of every type and boundary    *)
(* (CodecExact) read back from where they were written.                    *)
(***************************************************************************)
ReadsBack ==
    /\ CodecExact
    /\ \A v \in Msgs : Idle(v) =>
           /\ w[v] <= cap[v] /\ (~ IsSmall(v) => cap[v] <= hcap[large[v]])
           /\ \A k \in 1..Len(items[v]) :
                 LET x == items[v][k].is
                     s == Bytes(v, items[v][k].at, w[v])
                 IN  CASE x.kind = "struct" ->
                             ReadValue(x, s) = Good([i \in 1..Len(x.members) |-> x.members[i].val],
                                                    Len(WrittenValue(x)))
                       [] x.kind = "vector" -> ReadValue(x, s).val = x.elems
                       [] x.kind = "message" ->
                             LET from == items[v][k].at + ReadHeader(s).len
                             IN  Bytes(v, from, from + ReadHeader(s).val[1][1]) = x.body
                       [] x.kind = "raw" -> SubSeq(s, 1, Len(x.bytes)) = x.bytes
                       [] x.kind = "tag" -> Bytes(v, tag[v], w[v]) = TagBytes
=============================================================================
