------------------------------ MODULE Unreal ------------------------------
(***************************************************************************)
(* The Unreal wire helpers (src/proxy/unreal/): struc custom types that    *)
(* read length-prefixed fields from a byte stream.                        *)
(*                                                                         *)
(* A reader is the sequence of the bytes still unread.  Bytes are scaled  *)
(* down to 0..UByte-1; the little-endian int32 length is PrefixLen bytes, *)
(* so the "int32" of the model has UByte^PrefixLen values and wraps as    *)
(* Go's int32 does.  A uint16 code unit is two bytes; the scaled unit     *)
(* range holds no surrogate halves, where utf16.Decode maps each unit to  *)
(* itself, so a decoded wide string is its sequence of units.  An FGuid   *)
(* (four uint32) is GuidLen bytes.                                        *)
(***************************************************************************)
EXTENDS Integers, Sequences, SequencesExt

CONSTANTS
    UByte,      \* byte values are 0..UByte-1
    PrefixLen,  \* bytes of the int32 length prefix
    GuidLen     \* bytes of an FGuid

Full == UByte ^ PrefixLen      \* 2^32 scaled
Half == Full \div 2            \* 2^31 scaled

\* A read: "ok" with a value and the unread rest, "err" (an error return),
\* or "panic" (a runtime panic: makeslice or slice bounds out of range).
Read(v, rest) == [status |-> "ok", val |-> v, rest |-> rest]
ReadErr   == [status |-> "err", val |-> <<>>, rest |-> <<>>]
ReadPanic == [status |-> "panic", val |-> <<>>, rest |-> <<>>]

\* Go's int32 arithmetic: the result wrapped to -Half..Half-1.
Int32(x) == LET m == x % Full IN IF m >= Half THEN m - Full ELSE m

\* Unsigned value of little-endian bytes.
LeValue(bs) == FoldRight(LAMBDA b, acc : b + UByte * acc, bs, 0)

\* binary.Read(r, opt.Order, &len) into an int32: io.EOF or
\* io.ErrUnexpectedEOF when fewer than PrefixLen bytes are left.
ReadInt32(r) ==
    IF Len(r) < PrefixLen THEN ReadErr
    ELSE Read(Int32(LeValue(SubSeq(r, 1, PrefixLen))),
              SubSeq(r, PrefixLen + 1, Len(r)))

\* The code units of a byte buffer, read two bytes at a time.
U16s(buf) == [i \in 1..(Len(buf) \div 2) |-> LeValue(SubSeq(buf, 2*i - 1, 2*i))]

-----------------------------------------------------------------------------
\* FString.Unpack that keeps the ANSI terminator.
FStringUnpackKeepNul(r) ==
    LET h == ReadInt32(r) IN
    IF h.status # "ok" THEN ReadErr
    ELSE IF h.val = 0 THEN Read(<<>>, h.rest)
    ELSE IF h.val < 0 THEN ReadPanic
    ELSE IF Len(h.rest) < h.val THEN ReadErr
    ELSE Read(SubSeq(h.rest, 1, h.val), SubSeq(h.rest, h.val + 1, Len(h.rest)))

(***************************************************************************)
(* FString.Unpack.  A zero length is the empty string.  A negative length *)
(* is a wide string of -len units: len = -len and len*2 are int32         *)
(* operations, make([]byte, len*2) and make([]uint16, len) panic on a     *)
(* negative size, io.ReadFull fails on a short stream, binary.Read fails  *)
(* if the buffer holds fewer than len units, and bufU16[:len-2] panics    *)
(* for len < 2.  A positive length is len bytes, of which len-1 are kept. *)
(***************************************************************************)
FStringUnpack(r) ==
    LET h == ReadInt32(r) IN
    IF h.status # "ok" THEN ReadErr
    ELSE IF h.val = 0 THEN Read(<<>>, h.rest)
    ELSE IF h.val < 0 THEN
        LET n  == Int32(-h.val)
            nb == Int32(n * 2)
        IN IF nb < 0 THEN ReadPanic
           ELSE IF Len(h.rest) < nb THEN ReadErr
           ELSE IF n < 0 THEN ReadPanic
           ELSE IF nb < 2 * n THEN ReadErr
           ELSE IF n < 2 THEN ReadPanic
           ELSE Read(SubSeq(U16s(SubSeq(h.rest, 1, nb)), 1, n - 2),
                     SubSeq(h.rest, nb + 1, Len(h.rest)))
    ELSE IF Len(h.rest) < h.val THEN ReadErr
    ELSE Read(SubSeq(h.rest, 1, h.val - 1),
              SubSeq(h.rest, h.val + 1, Len(h.rest)))

\* An FGuid read by struc: GuidLen bytes, or an error.
FGuidUnpack(r) ==
    IF Len(r) < GuidLen THEN ReadErr
    ELSE Read(SubSeq(r, 1, GuidLen), SubSeq(r, GuidLen + 1, Len(r)))

\* struc.UnpackWithOptions on one item of a TArray[FGuid] or TArray[FString].
ItemUnpack(T, r) == IF T = "FGuid" THEN FGuidUnpack(r) ELSE FStringUnpack(r)

\* The loop of TArray.Unpack: n items, stopping at the first error.
RECURSIVE UnpackItems(_, _, _)
UnpackItems(T, r, n) ==
    IF n = 0 THEN Read(<<>>, r)
    ELSE LET it == ItemUnpack(T, r) IN
         IF it.status # "ok" THEN it
         ELSE LET more == UnpackItems(T, it.rest, n - 1) IN
              IF more.status # "ok" THEN more
              ELSE Read(<<it.val>> \o more.val, more.rest)

\* TArray.Unpack without the negative-length check.
TArrayUnpackNoUnderflow(T, r) ==
    LET h == ReadInt32(r) IN
    IF h.status # "ok" THEN ReadErr
    ELSE IF h.val < 0 THEN ReadPanic
    ELSE UnpackItems(T, h.rest, h.val)

\* TArray.Unpack: the int32 count, an error if negative, make([]T, len)
\* and one struc.UnpackWithOptions per item.
TArrayUnpack(T, r) ==
    LET h == ReadInt32(r) IN
    IF h.status # "ok" THEN ReadErr
    ELSE IF h.val < 0 THEN ReadErr
    ELSE UnpackItems(T, h.rest, h.val)

\* TArray.Size for fixed-size items: 4 plus struc.Sizeof of each item.
TArrayGuidSize(items) == PrefixLen + Len(items) * GuidLen

-----------------------------------------------------------------------------
(***************************************************************************)
(* The reference: how Unreal writes an FString (FArchive << FString).     *)
(* An empty string is the length 0; an ANSI string is +(chars+1) followed *)
(* by its bytes and a NUL; a wide string is -(chars+1) followed by its    *)
(* UTF-16 units and a NUL unit.  A TArray is its int32 count followed by  *)
(* its items.                                                              *)
(***************************************************************************)
EncInt32(v) == [i \in 1..PrefixLen |-> ((v % Full) \div (UByte ^ (i - 1))) % UByte]
EncU16(u) == <<u % UByte, u \div UByte>>

EncodeFString(str) ==
    IF str.chars = <<>> THEN EncInt32(0)
    ELSE IF ~str.wide THEN EncInt32(Len(str.chars) + 1) \o str.chars \o <<0>>
    ELSE EncInt32(-(Len(str.chars) + 1))
         \o FlattenSeq([i \in DOMAIN str.chars |-> EncU16(str.chars[i])])
         \o EncU16(0)

EncodeTArray(strs) ==
    EncInt32(Len(strs)) \o FlattenSeq([i \in DOMAIN strs |-> EncodeFString(strs[i])])
=============================================================================
