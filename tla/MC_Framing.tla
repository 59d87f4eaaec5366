----------------------------- MODULE MC_Framing -----------------------------
(***************************************************************************)
(* The wire conversions for TLC: Framing with a concrete IV block (a .cfg *)
(* cannot write a tuple), and the Unreal readers over the same single     *)
(* input variable.  An input is one of Framing's, a raw byte stream for   *)
(* the TArray[FGuid] reader, or a list of strings Unreal writes as a      *)
(* TArray[FString].                                                        *)
(***************************************************************************)
EXTENDS Framing, Unreal, TLC

MCIv == <<6, 1>>

UChars  == {1, 2}     \* non-NUL characters and code units
Trailer == 3          \* the byte after the array in the stream

UStrings ==
    {[wide |-> FALSE, chars |-> c] : c \in BoundedSeq(UChars, 2)}
    \cup {[wide |-> TRUE, chars |-> c] : c \in BoundedSeq(UChars, 2) \ {<<>>}}

Streams == {[kind |-> "stream", s |-> d] : d \in BoundedSeq(0..UByte-1, 5)}
Lists   == {[kind |-> "fstrings", l |-> l] : l \in BoundedSeq(UStrings, 2)}

MCInit == input \in Wires \cup Frames \cup Pairs \cup Streams \cup Lists

MCSpec == MCInit /\ [][Next]_input

(***************************************************************************)
(* TArray[FGuid].Unpack on any byte stream returns an error or an array,  *)
(* never panics (a negative count is the "len underflow" error, not a     *)
(* makeslice panic), and an array it returns is exactly TArray.Size()     *)
(* bytes of the stream.                                                   *)
(***************************************************************************)
TArrayGuidSizeConsumed ==
    input.kind = "stream" =>
        LET a == TArrayUnpack("FGuid", input.s) IN
        /\ a.status # "panic"
        /\ a.status = "ok" => Len(input.s) - Len(a.rest) = TArrayGuidSize(a.val)

(***************************************************************************)
(* The length-prefix contract of the helpers (spec 1): TArray[FString]    *)
(* .Unpack of any array of ANSI and wide strings as Unreal writes it      *)
(* reads exactly that array, leaving the reader at the next field, with   *)
(* one item per string and each ANSI string without its NUL.              *)
(***************************************************************************)
FStringArrayAligned ==
    input.kind = "fstrings" =>
        LET a == TArrayUnpack("FString", EncodeTArray(input.l) \o <<Trailer>>) IN
        /\ a.status = "ok"
        /\ a.rest = <<Trailer>>
        /\ Len(a.val) = Len(input.l)
        /\ \A i \in DOMAIN input.l :
              ~input.l[i].wide => a.val[i] = input.l[i].chars
=============================================================================
