------------------------------ MODULE Framing ------------------------------
(***************************************************************************)
(* The two wire conversions every datagram goes through                   *)
(* (src/proxy/crypto.go, src/proxy/packet.go):                            *)
(*   outer: AES-CBC with PKCS#7 padding, fixed key and IV;                *)
(*   inner: UNet framing, uid ++ payload ++ HMAC tag.                     *)
(*                                                                         *)
(* Bytes are scaled down to 0..NBytes-1 and the AES block to BlockSize    *)
(* bytes.  The AES block cipher is a fixed bijection on blocks (a byte    *)
(* permutation standing for one key); the CBC chaining around it is the   *)
(* one cipher.NewCBCEncrypter/Decrypter performs.  HMAC-SHA256 is a keyed *)
(* checksum of TagLen bytes standing for the 32-byte tag; what is checked *)
(* below depends only on the tag being a function of the tagged bytes.    *)
(*                                                                         *)
(* The single variable is the input the properties are evaluated on; it  *)
(* never changes, so each state is one bounded input.                     *)
(***************************************************************************)
EXTENDS Naturals, Sequences, SequencesExt, Bitwise

CONSTANTS
    NBytes,     \* byte values are 0..NBytes-1 (a power of two)
    BlockSize,  \* block.BlockSize()
    Iv,         \* Conf.Iv: a block
    UidLen,     \* the 3-byte UID
    TagLen,     \* the 32-byte HMAC-SHA256 tag
    MaxLen,     \* longest datagram enumerated
    FrameBytes  \* byte values used for the inner datagrams enumerated

ASSUME BlockSize < NBytes /\ Len(Iv) = BlockSize
ASSUME FrameBytes \subseteq 0..NBytes-1

VARIABLE input  \* [kind |-> "wire", s |-> bytes] or [kind |-> "pair", uid, payload]

Bytes == 0..NBytes-1

\* Result of a conversion: "ok" with data, "err" (the error return) or
\* "panic" (a runtime panic: index or slice bounds out of range).
Ok(d)  == [status |-> "ok", data |-> d]
Err    == [status |-> "err", data |-> <<>>]
Panic  == [status |-> "panic", data |-> <<>>]

-----------------------------------------------------------------------------
(* The block cipher and CBC chaining (crypto/aes, crypto/cipher).          *)
EncByte(b) == (5 * b + 3) % NBytes
DecByte(c) == (5 * ((c + NBytes - 3) % NBytes)) % NBytes
XorBlock(x, y) == [i \in 1..BlockSize |-> x[i] ^^ y[i]]
FirstBlock(s) == SubSeq(s, 1, BlockSize)
RestBlocks(s) == SubSeq(s, BlockSize + 1, Len(s))

RECURSIVE CbcEncrypt(_, _)
CbcEncrypt(p, prev) ==
    IF p = <<>> THEN <<>>
    ELSE LET c == [i \in 1..BlockSize |->
                     EncByte(XorBlock(FirstBlock(p), prev)[i])]
         IN c \o CbcEncrypt(RestBlocks(p), c)

RECURSIVE CbcDecrypt(_, _)
CbcDecrypt(c, prev) ==
    IF c = <<>> THEN <<>>
    ELSE XorBlock([i \in 1..BlockSize |-> DecByte(c[i])], prev)
         \o CbcDecrypt(RestBlocks(c), FirstBlock(c))

-----------------------------------------------------------------------------
(* PKCS#7 padding that adds nothing to a block-aligned payload.            *)
PkcsPadNoFullBlock(payload, blockSize) ==
    LET padding == (blockSize - (Len(payload) % blockSize)) % blockSize
    IN payload \o [i \in 1..padding |-> padding]

\* pkcsPad: always 1..blockSize bytes, each equal to their count.
PkcsPad(payload, blockSize) ==
    LET padding == blockSize - (Len(payload) % blockSize)
    IN payload \o [i \in 1..padding |-> padding]

\* pkcsUnpad: truncate by the last byte, unchecked.  buf[bufLen-1] on an
\* empty buffer and buf[:bufLen-unpadding] with unpadding > bufLen panic.
PkcsUnpad(buf) ==
    IF Len(buf) = 0 \/ buf[Len(buf)] > Len(buf) THEN Panic
    ELSE Ok(SubSeq(buf, 1, Len(buf) - buf[Len(buf)]))

AesCbcEncrypt(payload) == CbcEncrypt(PkcsPad(payload, BlockSize), Iv)

\* aesCbcDecrypt: a length that is not a multiple of the block size is an
\* error; otherwise decrypt and unpad.
AesCbcDecrypt(payload) ==
    IF Len(payload) % BlockSize # 0 THEN Err
    ELSE PkcsUnpad(CbcDecrypt(payload, Iv))

-----------------------------------------------------------------------------
\* hmacSum: the tag of a byte string.
HmacSum(m) ==
    LET h == FoldLeft(LAMBDA a, b : (3 * a + b + 1) % NBytes, 0, m)
    IN [i \in 1..TagLen |-> (h + i) % NBytes]

\* hmacVerify: the given tag equals the computed one.
HmacVerify(m, sig) == sig = HmacSum(m)

MinLen == UidLen + 1 + TagLen   \* uid + seq id + hmac sig

\* Deserialize that drops the last payload byte.
DeserializeUNetPacketShort(in) ==
    LET n == Len(in) IN
    IF n < MinLen THEN Err
    ELSE IF ~HmacVerify(SubSeq(in, 1, n - TagLen), SubSeq(in, n - TagLen + 1, n))
    THEN Err
    ELSE Ok([uid |-> SubSeq(in, 1, UidLen),
             payload |-> SubSeq(in, UidLen + 1, n - TagLen - 1)])

\* DeserializeUNetPacket: length check, HMAC check, then split.
DeserializeUNetPacket(in) ==
    LET n == Len(in) IN
    IF n < MinLen THEN Err
    ELSE IF ~HmacVerify(SubSeq(in, 1, n - TagLen), SubSeq(in, n - TagLen + 1, n))
    THEN Err
    ELSE Ok([uid |-> SubSeq(in, 1, UidLen),
             payload |-> SubSeq(in, UidLen + 1, n - TagLen)])

\* SerializeUNetPacket: uid ++ payload ++ hmacSum(uid ++ payload).
SerializeUNetPacket(uPkt) ==
    uPkt.uid \o uPkt.payload \o HmacSum(uPkt.uid \o uPkt.payload)

\* ioannes.encode with a "uid" field (luaApiEncode): the table's uid, of
\* whatever length, and payload, serialized.  (Without "uid" the UID comes
\* from clientSess; UidTracker models those reads.)
LuaApiEncode(t) == SerializeUNetPacket([uid |-> t.uid, payload |-> t.payload])

\* ioannes.decode (luaApiDecode): DeserializeUNetPacket; its error is raised
\* in the script, a frame becomes the table {uid, payload}.
LuaApiDecode(d) == DeserializeUNetPacket(d)

-----------------------------------------------------------------------------
Wires == {[kind |-> "wire", s |-> d] : d \in BoundedSeq(Bytes, MaxLen)}
Frames ==
    {[kind |-> "wire", s |-> d] :
        d \in BoundedSeq(FrameBytes, UidLen + 2 + TagLen)}
Pairs ==
    {[kind |-> "pair", uid |-> u, payload |-> p] :
        u \in TupleOf(FrameBytes, UidLen),
        p \in BoundedSeq(FrameBytes, 2)}

Init == input \in Wires \cup Frames \cup Pairs

Next == UNCHANGED input

Spec == Init /\ [][Next]_input

-----------------------------------------------------------------------------
(***************************************************************************)
(* AES-CBC round trip (spec 8.1 and 4.1): for every plaintext,             *)
(* aesCbcDecrypt(aesCbcEncrypt(p)) = p, and the ciphertext is             *)
(* ceil((len+1)/block)*block bytes long, so a block-aligned plaintext     *)
(* gains a whole block of padding that pkcsUnpad removes again.           *)
(***************************************************************************)
CbcRoundTrip ==
    input.kind = "wire" =>
        LET c == AesCbcEncrypt(input.s) IN
        /\ Len(c) = (Len(input.s) \div BlockSize + 1) * BlockSize
        /\ AesCbcDecrypt(c) = Ok(input.s)

(***************************************************************************)
(* UNet framing is a bijection on well-formed datagrams (spec 8.2, 8.3):  *)
(* a datagram that parses serializes back to itself, and a script's       *)
(* ioannes.decode(ioannes.encode{uid, payload}) gives back a 3-byte uid   *)
(* and a non-empty payload.                                               *)
(***************************************************************************)
FrameRoundTrip ==
    /\ input.kind = "wire" =>
         LET r == DeserializeUNetPacket(input.s) IN
         r.status = "ok" => SerializeUNetPacket(r.data) = input.s
    /\ (input.kind = "pair" /\ input.payload # <<>>) =>
         LuaApiDecode(LuaApiEncode(input)) =
             Ok([uid |-> input.uid, payload |-> input.payload])

(***************************************************************************)
(* A datagram received on either socket is decrypted with aesCbcDecrypt;  *)
(* a malformed one is a per-datagram error, logged and dropped (spec 7),  *)
(* never a panic that PanicCheck turns into process exit.                 *)
(***************************************************************************)
DecryptNeverPanics ==
    input.kind = "wire" => AesCbcDecrypt(input.s).status # "panic"
=============================================================================
