--------------------------- MODULE HessianNumbers ---------------------------
(***************************************************************************)
(* The numbers of the Hessian2 codec as the bytes its Encoder writes and   *)
(* its Decoder reads (codec.rs write_int, write_long, write_list_begin,    *)
(* write_binary; decoder.rs read_int, read_long, ...).  A byte is a number *)
(* of 0..255, a shift to the right is a division, and an error of the      *)
(* reader is Mismatch.                                                     *)
(***************************************************************************)
EXTENDS Integers, Sequences

Mismatch == [used |-> 0]
Got(v, n) == [used |-> n, value |-> v]

(* The shortest form of an int or a long whose value fits it.              *)
IntIsTiny(v) == -16 <= v /\ v <= 47
LongIsTiny(v) == -8 <= v /\ v <= 15
IsShort(v) == -2048 <= v /\ v <= 2047
IsMedium(v) == -262144 <= v /\ v <= 262143
IsWord(v) == -2147483647 - 1 <= v /\ v <= 2147483647

Low(v) == v % 256
Shift(v, by) == v \div by

(* A tag and the four, or the eight, bytes of v, the highest one first.     *)
Upper(v) == Shift(Shift(v, 65536), 65536)
BigEndian4(tag, v) ==
    <<tag, Low(Shift(v, 16777216)), Low(Shift(v, 65536)), Low(Shift(v, 256)), Low(v)>>
BigEndian8(tag, v) ==
    LET h == BigEndian4(tag, Upper(v))
        l == BigEndian4(tag, v)
    IN  <<tag, h[2], h[3], h[4], h[5], l[2], l[3], l[4], l[5]>>

Signed(b) == IF b >= 128 THEN b - 256 ELSE b
FromBytes2(s, i) == Signed(s[i]) * 256 + s[i + 1]
FromBytes4(s, i) == FromBytes2(s, i) * 65536 + (s[i + 2] * 256 + s[i + 3])
FromBytes8(s, i) ==
    ((FromBytes4(s, i) * 65536) + (s[i + 4] * 256 + s[i + 5])) * 65536
    + (s[i + 6] * 256 + s[i + 7])

(* A value cut to some bits, read back: the upper half stands for the      *)
(* negative numbers.                                                       *)
Wrapped(v, half) == IF v >= half THEN v - 2 * half ELSE v

BugWriteInt(v) ==
    IF IntIsTiny(v) THEN <<v + 144>>
    ELSE IF IsShort(v) THEN <<200 + Shift(v, 256), Low(v)>>
    ELSE IF -262145 <= v /\ v <= 262143
      THEN <<208 + (Shift(v, 65536) % 8), Low(Shift(v, 256)), Low(v)>>
    ELSE BigEndian4(73, v)
WriteInt(v) ==
    IF IntIsTiny(v) THEN <<v + 144>>
    ELSE IF IsShort(v) THEN <<200 + Shift(v, 256), Low(v)>>
    ELSE IF IsMedium(v) THEN <<208 + (Shift(v, 65536) % 8), Low(Shift(v, 256)), Low(v)>>
    ELSE BigEndian4(73, v)

ReadInt(s) ==
    IF s[1] \in 128..191 THEN Got(s[1] - 144, 1)
    ELSE IF s[1] \in 192..207 THEN Got(Wrapped((s[1] - 200) * 256 + s[2], 2048), 2)
    ELSE IF s[1] \in 208..215
      THEN Got(Wrapped((s[1] - 208) * 65536 + s[2] * 256 + s[3], 262144), 3)
    ELSE IF s[1] = 73 THEN Got(FromBytes4(s, 2), 5)
    ELSE Mismatch

WriteLong(v) ==
    IF LongIsTiny(v) THEN <<v + 224>>
    ELSE IF IsShort(v) THEN <<240 + (Shift(v, 256) % 16), Low(v)>>
    ELSE IF IsMedium(v) THEN <<56 + (Shift(v, 65536) % 8), Low(Shift(v, 256)), Low(v)>>
    ELSE IF IsWord(v) THEN BigEndian4(89, v)
    ELSE BigEndian8(76, v)

ReadLong(s) ==
    IF s[1] \in 216..239 THEN Got(s[1] - 224, 1)
    ELSE IF s[1] \in 240..255 THEN Got(Wrapped((s[1] - 240) * 256 + s[2], 2048), 2)
    ELSE IF s[1] \in 56..63
      THEN Got(Wrapped((s[1] - 56) * 65536 + s[2] * 256 + s[3], 262144), 3)
    ELSE IF s[1] = 89 THEN Got(FromBytes4(s, 2), 5)
    ELSE IF s[1] = 76 THEN Got(FromBytes8(s, 2), 9)
    ELSE Mismatch

(* A date is always the full eight bytes; the reader also takes minutes.   *)
WriteDate(v) == BigEndian8(100, v)
ReadDate(s) ==
    CASE s[1] = 100 -> Got(FromBytes8(s, 2), 9)
      [] s[1] = 75 -> Got(FromBytes4(s, 2) * 60000, 5)
      [] OTHER -> Mismatch

(* The header of a list, and of binary data and of a string, whose length  *)
(* is cut to sixteen bits when it is beyond the compact forms.             *)
WriteListBegin(count) ==
    IF count <= 7 THEN <<120 + count>> ELSE <<88>> \o WriteInt(count)
WriteBinaryHead(len) ==
    IF len <= 15 THEN <<32 + len>> ELSE <<66, Low(Shift(len, 256)), Low(len)>>
WriteStringHead(chars) ==
    IF chars <= 31 THEN <<chars>>
    ELSE <<83, Low(Shift(chars, 256)), Low(chars)>>

(* The head of a list the Encoder writes: a list of variable length, whose *)
(* end the caller must look for, counts as empty.                          *)
ReadListBegin(s) ==
    CASE s[1] \in 120..127 -> Got(s[1] - 120, 1)
      [] s[1] = 88 ->
           LET n == ReadInt(SubSeq(s, 2, Len(s)))
           IN  IF n = Mismatch THEN Mismatch ELSE Got(n.value, n.used + 1)
      [] s[1] = 87 -> Got(0, 1)
      [] OTHER -> Mismatch
ReadBinaryHead(s) ==
    CASE s[1] = 66 -> Got(s[2] * 256 + s[3], 3)
      [] s[1] \in 32..47 -> Got(s[1] - 32, 1)
      [] s[1] = 52 -> Got(s[2], 2)
      [] s[1] = 53 -> Got(s[2] * 256 + s[3], 3)
      [] OTHER -> Mismatch
ReadStringHead(s) ==
    CASE s[1] \in 0..31 -> Got(s[1], 1)
      [] s[1] = 48 -> Got(s[2], 2)
      [] s[1] = 49 -> Got(s[2] * 256 + s[3], 3)
      [] s[1] = 50 -> Got((s[2] * 256 + s[3]) * 256 + s[4], 4)
      [] s[1] = 83 -> Got(s[2] * 256 + s[3], 3)
      [] OTHER -> Mismatch
=============================================================================
