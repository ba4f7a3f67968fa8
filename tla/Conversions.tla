---------------------------- MODULE Conversions ----------------------------
(***************************************************************************)
(* Values on their way between platforms: a signature and a public key     *)
(* that go through any sequence of the adapter's conversions, and a        *)
(* connection info that is shared, received and shared again.  What is     *)
(* checked is what a value means, against reference definitions of DER and *)
(* of the shared info, not how the code computes it.                       *)
(***************************************************************************)
EXTENDS CryptoAdapter, ConnectionShare

CONSTANTS
    CoordinateBytes, \* bound: the bytes of R, S and the coordinates
    Shared           \* the infos that are shared

\* What a receiver makes of a shared info is an info again.
ASSUME SharedAssumption ==
    /\ CoordinateBytes \subseteq 0 .. 255
    /\ Shared \subseteq DOMAIN Json
    /\ \A i \in Shared : NormalizeConnectionInfo(i) \in DOMAIN Json \cup {Rejected}

VARIABLES
    origin, \* the signature as R||S, the point as X||Y, or the info
    form,   \* what the value is taken to be
    value

vars == <<origin, form, value>>

Init ==
    \/ \E c \in [1 .. 2 * W -> CoordinateBytes] :
          /\ origin = c
          /\ \/ form = "P1363" /\ value = c
             \/ form = "X963" /\ value = <<4>> \o c
    \/ \E i \in Shared : origin = i /\ form = "info" /\ value = i

\* A value is converted, if its form is the one the conversion is for.
Convert(from, to, result) ==
    /\ form = from
    /\ form' = to
    /\ value' = result
    /\ UNCHANGED origin

SignatureToDer     == Convert("P1363", "DER", P1363ToDer(value))
SignatureToP1363   == Convert("DER", "P1363", DerToP1363(value))
SignatureToOwn     == \E f \in {"P1363", "DER"} : Convert(f, "DER", NormalizeSignature(value))
KeyToSpki          == Convert("X963", "SPKI", X963ToDerSpki(value))
KeyToX963          == Convert("SPKI", "X963", DerSpkiToX963(value))
KeyToOwn           == \E f \in {"X963", "SPKI"} : Convert(f, "SPKI", NormalizePublicKey(value))
Share              == Convert("info", "uri", ToShareUri(value))
Receive            == Convert("uri", "received", FromShareUri(value))
ShareAgain         ==
    form = "received" /\ value # Rejected /\ Convert("received", "uri", ToShareUri(value))

Next ==
    \/ SignatureToDer \/ SignatureToP1363 \/ SignatureToOwn
    \/ KeyToSpki \/ KeyToX963 \/ KeyToOwn
    \/ Share \/ Receive \/ ShareAgain

Spec == Init /\ [][Next]_vars

-----------------------------------------------------------------------------
(* Properties *)

\* The number whose bytes, the highest first, are b.
Number(b) ==
    LET n[i \in 0 .. Len(b)] == IF i = 0 THEN 0 ELSE 256 * n[i - 1] + b[i]
    IN  n[Len(b)]

\* X.690: a non-negative INTEGER in as few bytes as possible.
IsDerInteger(b, n) ==
    LET content == SubSeq(b, 3, Len(b)) IN
    /\ Len(b) >= 3 /\ b[1] = 2 /\ b[2] = Len(content)
    /\ Number(content) = n
    /\ content[1] < 128
    /\ Len(content) > 1 => content[1] # 0 \/ content[2] >= 128

\* X.690: a SEQUENCE of the two halves of c as INTEGERs.
IsDerOf(b, c) ==
    /\ Len(b) > 2 /\ b[1] = 48 /\ b[2] = Len(b) - 2
    /\ \E k \in 3 .. Len(b) - 1 :
          /\ IsDerInteger(SubSeq(b, 3, k), Number(SubSeq(c, 1, W)))
          /\ IsDerInteger(SubSeq(b, k + 1, Len(b)), Number(SubSeq(c, W + 1, 2 * W)))

\* Whatever conversions a signature goes through, it stays the same pair (R, S):
\* canonical DER, or fixed-width R||S.  The exception is real: normalizeSignature
\* takes a P1363 signature whose first byte is 0x30 for DER.
SignatureKept ==
    /\ form = "DER" /\ origin[1] # 48 => IsDerOf(value, origin)
    /\ form = "P1363" /\ origin[1] # 48 => value = origin

\* Whatever conversions a public key goes through, it stays the same point.
KeyKept ==
    /\ form = "X963" => value = <<4>> \o origin
    /\ form = "SPKI" => value = SpkiHeader \o <<4>> \o origin

WellFormed(i) ==
    /\ i.version = 1 /\ i.nodeId \in {"text", "date"}
    /\ IsText(i.displayName) \/ i.displayName = "null"
    /\ i.createdAt \in {"date", "null"}
    /\ \A k \in DOMAIN i.capabilities : IsText(i.capabilities[k])

\* A share URI needs no escaping.  Who receives one gets the info that was
\* shared, if it was well formed, else a well-formed one of the same node or none.
InfoKept ==
    /\ form = "uri" =>
          \A k \in DOMAIN value : value[k] \notin {Plus, Slash, Equals}
    /\ form = "received" =>
          IF WellFormed(origin) THEN value = origin
          ELSE value = Rejected \/ (WellFormed(value) /\ value.nodeId = origin.nodeId)
=============================================================================
