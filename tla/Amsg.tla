------------------------------- MODULE Amsg -------------------------------
(***************************************************************************)
(* The encoding of integers, structures and vectors in a message's body    *)
(* (gce/amsg/amsg.hpp for the sizes, gce/amsg/zerocopy.hpp for the bytes). *)
(*                                                                         *)
(* A value of a C++ integer type is the sequence of its bytes, least       *)
(* significant first, negative numbers in two's complement: this is what   *)
(* the little-endian code copies, and it keeps 32 and 64 bit values exact. *)
(*                                                                         *)
(* On the wire a number in 0..127 is one byte.  Any other is a tag byte,   *)
(* 128 + (number of bytes - 1) + (64 if it is negative), and the bytes of  *)
(* its magnitude.                                                          *)
(***************************************************************************)
EXTENDS Integers, Sequences, FiniteSets, SequencesExt

Byte == 0..255

Types == {"uint8", "int8", "uint16", "int16", "uint32", "int32", "uint64", "int64"}

SignedTypes == {"int8", "int16", "int32", "int64"}

Width(t) ==
    CASE t \in {"uint8", "int8"}   -> 1
      [] t \in {"uint16", "int16"} -> 2
      [] t \in {"uint32", "int32"} -> 4
      [] OTHER                     -> 8

IsNegative(t, x) == t \in SignedTypes /\ x[Len(x)] >= 128

(***************************************************************************)
(* -x in the width of x; the most negative number is its own negation.     *)
(***************************************************************************)
Negation(x) ==
    [i \in 1..Len(x) |->
        IF \A j \in 1..(i - 1) : x[j] = 0 THEN (256 - x[i]) % 256 ELSE 255 - x[i]]

(* The first comparison of every size and write: 0 <= x < const_tag_as_type. *)
IsOneByte(t, x) ==
    ~ IsNegative(t, x) /\ x[1] < 128 /\ \A i \in 2..Len(x) : x[i] = 0

Magnitude(t, x) == IF IsNegative(t, x) THEN Negation(x) ELSE x

(***************************************************************************)
(* The comparisons that follow, of the magnitude: the bound n stands for   *)
(* 256^n, and Octal for 0100, which is 64. size_of and write have each     *)
(* their own chain of them; the i-th is met by a number of i bytes, one    *)
(* that meets none has all the bytes its type has.                         *)
(***************************************************************************)
Octal == 0

Below(t, m, bound) ==
    \/ IsNegative(t, m)
    \/ bound = Octal /\ m[1] < 64 /\ \A i \in 2..Len(m) : m[i] = 0
    \/ bound # Octal /\ \A i \in (bound + 1)..Len(m) : m[i] = 0

Chain(t, m, bounds) ==
    Cardinality({i \in 1..Len(bounds) : \A j \in 1..i : ~ Below(t, m, bounds[j])}) + 1

SizeBoundsHex(t) ==                      \* were 0100 taken for 0x100 here only
    [i \in 1..(Width(t) - 1) |-> i]

SizeBounds(t) ==                         \* amsg.hpp
    CASE t \in {"uint8", "int8"} -> <<>>
      [] t = "uint16" -> <<Octal>>
      [] t = "int16"  -> <<1>>
      [] t = "uint32" -> <<Octal, 2, 3>>
      [] t = "int32"  -> <<1, 2, 3>>
      [] t = "uint64" -> <<Octal, 2, 3, 4, 5, 6, 7>>
      [] t = "int64"  -> <<1, 2, 3, 4, 5, 6, 7>>

WriteBounds(t) ==                        \* zerocopy.hpp
    CASE t \in {"uint8", "int8"} -> <<>>
      [] t = "uint16" -> <<Octal>>
      [] t = "int16"  -> <<1>>
      [] t = "uint32" -> <<Octal, 2, 3>>
      [] t = "int32"  -> <<1, 2, 3>>
      [] t = "uint64" -> <<Octal, 2, 3, 4, 5, 6, 7>>
      [] t = "int64"  -> <<1, 2, 3, 4, 5, 6, 7>>

(***************************************************************************)
(* byte_size_of: what operator<< reserves before it writes.                *)
(***************************************************************************)
SizeOf(t, x) ==
    IF IsOneByte(t, x) THEN 1 ELSE 1 + Chain(t, Magnitude(t, x), SizeBounds(t))

TagByte(t, x, n) == 128 + (IF IsNegative(t, x) THEN 64 ELSE 0) + (n - 1)

Written(t, x) ==
    LET m == Magnitude(t, x)
        n == Chain(t, m, WriteBounds(t))
    IN  IF IsOneByte(t, x) THEN <<x[1]>> ELSE <<TagByte(t, x, n)>> \o SubSeq(m, 1, n)

(***************************************************************************)
(* What a read of type t returns from the bytes s that remain: "bad" when  *)
(* there are not enough (the reader's status: message throws), "error"     *)
(* when only the error code is set, which message does not look at: the    *)
(* tag byte has then been taken and the value is not the one written.      *)
(***************************************************************************)
Widened(t, s) == [i \in 1..Width(t) |-> IF i <= Len(s) THEN s[i] ELSE 0]

Bad == [is |-> "bad", val |-> <<>>, len |-> 0]
Error == [is |-> "error", val |-> <<>>, len |-> 1]
Good(x, n) == [is |-> "good", val |-> x, len |-> n]

Read(t, s) ==
    LET negative == (s[1] % 128) >= 64
        n        == (s[1] % 64) + 1
        x        == Widened(t, SubSeq(s, 2, n + 1))
    IN  CASE s = <<>> -> Bad
          [] s # <<>> /\ s[1] < 128 -> Good(Widened(t, <<s[1]>>), 1)
          [] s # <<>> /\ s[1] >= 128 ->
                 IF (negative /\ t \notin SignedTypes) \/ n > Width(t) THEN Error
                 ELSE IF Len(s) < n + 1 THEN Bad
                 ELSE Good(IF negative THEN Negation(x) ELSE x, n + 1)

(***************************************************************************)
(* A structure is its members, in the order the AMSG macro lists them; a   *)
(* read stops at the first member that sets the error code.  A member is a *)
(* record of its type and its value.                                       *)
(***************************************************************************)
StructSize(ms) == FoldLeft(LAMBDA n, m : n + SizeOf(m.type, m.val), 0, ms)

StructWritten(ms) == FoldLeft(LAMBDA s, m : s \o Written(m.type, m.val), <<>>, ms)

StructRead(ts, s) ==
    FoldLeft(LAMBDA r, t :
                IF r.is # "good" THEN r
                ELSE LET q == Read(t, SubSeq(s, r.len + 1, Len(s)))
                     IN  [is |-> q.is, val |-> Append(r.val, q.val), len |-> r.len + q.len],
             Good(<<>>, 0), ts)

(***************************************************************************)
(* A container is its length and its elements.  The length is written as a *)
(* size_t and read as a uint32, which are the same bytes up to 2^32.  With *)
(* a limit (smax) a longer container is refused when its size is asked for,*)
(* before anything is written, and a longer length when it is read.        *)
(***************************************************************************)
Number(t, n) == Widened(t, <<n>>)

VectorMembers(t, xs) == [i \in 1..Len(xs) |-> [type |-> t, val |-> xs[i]]]

VectorSize(t, xs) == SizeOf("uint64", Number("uint64", Len(xs))) + StructSize(VectorMembers(t, xs))

TooLong(max, n) == max > 0 /\ max < n

VectorWritten(t, xs) ==
    Written("uint64", Number("uint64", Len(xs))) \o StructWritten(VectorMembers(t, xs))

VectorRead(t, max, s) ==
    LET n == Read("uint32", s)
        r == StructRead([i \in 1..n.val[1] |-> t], SubSeq(s, n.len + 1, Len(s)))
    IN  IF n.is # "good" THEN n
        ELSE IF TooLong(max, n.val[1]) THEN [Error EXCEPT !.len = n.len]
        ELSE [r EXCEPT !.len = n.len + r.len]
=============================================================================
