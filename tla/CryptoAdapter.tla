--------------------------- MODULE CryptoAdapter ---------------------------
(***************************************************************************)
(* PeerCryptoAdapter (javascript/peer-crypto-adapter.js): P-256 public     *)
(* keys between X9.63 and DER/SPKI, ECDSA signatures between P1363 (R||S)  *)
(* and DER.  A buffer is a sequence of bytes; a coordinate has W bytes     *)
(* (32 in the code).  A conversion that throws returns Thrown.             *)
(***************************************************************************)
EXTENDS Naturals, Sequences

CONSTANTS
    W,          \* bytes of a coordinate
    SpkiHeader  \* P256_SPKI_HEADER

ASSUME AdapterAssumption ==
    /\ W \in Nat \ {0} /\ 2 * (W + 3) < 128
    /\ SpkiHeader \in Seq(0 .. 255) /\ SpkiHeader # << >> /\ SpkiHeader[1] = 48

Thrown == << >>

\* Buffer.subarray from the i-th byte, at most n bytes long.
Bytes(b, i, n) == SubSeq(b, i, IF i + n - 1 > Len(b) THEN Len(b) ELSE i + n - 1)

\* buf[0] === t
HasTag(b, t) == b # << >> /\ b[1] = t

Zeros(n) == [i \in 1 .. n |-> 0]

-----------------------------------------------------------------------------
(* Public keys *)

X963ToDerSpki(k) ==
    IF Len(k) = 1 + 2 * W /\ HasTag(k, 4) THEN SpkiHeader \o k ELSE Thrown

DerSpkiToX963(k) ==
    LET h == Len(SpkiHeader) IN
    IF Len(k) = h + 1 + 2 * W /\ Bytes(k, 1, h) = SpkiHeader
    THEN SubSeq(k, h + 1, Len(k))
    ELSE Thrown

\* Mutant of NormalizePublicKey: both forms are returned as they are.
NormalizePublicKeyAsIs(k) == IF HasTag(k, 48) \/ HasTag(k, 4) THEN k ELSE Thrown

NormalizePublicKey(k) ==
    IF Len(k) = Len(SpkiHeader) + 1 + 2 * W /\ HasTag(k, 48) THEN k ELSE X963ToDerSpki(k)

-----------------------------------------------------------------------------
(* Signatures *)

\* Both loops over leading zeros: all of them but a last byte.
Stripped(b) ==
    LET first == CHOOSE i \in DOMAIN b :
                    /\ i = Len(b) \/ b[i] # 0
                    /\ \A j \in 1 .. i - 1 : b[j] = 0
    IN  IF b = << >> THEN b ELSE SubSeq(b, first, Len(b))

\* Mutant of EncodeInteger: no zero byte before a set top bit.
EncodeIntegerUnpadded(b) == <<2, Len(Stripped(b))>> \o Stripped(b)

EncodeInteger(b) ==
    LET s       == Stripped(b)
        content == IF s[1] >= 128 THEN <<0>> \o s ELSE s
    IN  <<2, Len(content)>> \o content

P1363ToDer(sig) ==
    LET seq == EncodeInteger(Bytes(sig, 1, W)) \o EncodeInteger(Bytes(sig, W + 1, W)) IN
    IF Len(sig) = 2 * W THEN <<48, Len(seq)>> \o seq ELSE Thrown

\* decodeInteger at position i: the value, and whether the tag was there.  A
\* length byte past the end counts as zero.
DecodeInteger(b, i) ==
    LET len == IF i + 1 \in DOMAIN b THEN b[i + 1] ELSE 0 IN
    IF i \in DOMAIN b /\ b[i] = 2
    THEN [ok |-> TRUE, value |-> Bytes(b, i + 2, len), next |-> i + 2 + len]
    ELSE [ok |-> FALSE, value |-> Thrown, next |-> 0]

\* padTo32
PadToWidth(b) ==
    LET s == Stripped(b) IN IF Len(s) > W THEN Thrown ELSE Zeros(W - Len(s)) \o s

\* derToP1363: the length byte of the sequence is skipped, what follows s ignored.
DerToP1363(sig) ==
    LET r == DecodeInteger(sig, 3)
        s == DecodeInteger(sig, r.next)
        both == <<PadToWidth(r.value), PadToWidth(s.value)>>
    IN  IF HasTag(sig, 48) /\ r.ok /\ s.ok /\ both[1] # Thrown /\ both[2] # Thrown
        THEN both[1] \o both[2]
        ELSE Thrown

NormalizeSignature(sig) ==
    IF HasTag(sig, 48) THEN sig ELSE P1363ToDer(sig)
=============================================================================
