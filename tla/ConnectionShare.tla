-------------------------- MODULE ConnectionShare --------------------------
(***************************************************************************)
(* ConnectionInfoShare (javascript/connection-info-share.js; simulation/   *)
(* connection-info-share-browser.js is its port): a peer's connection info *)
(* as a URI, and back.  QR and NFC payloads are the same URI.              *)
(*                                                                         *)
(* A JSON value is reduced to what the code asks of it: its type, whether  *)
(* a string is empty and whether it is a date.  A Base64 character is its  *)
(* number, "-" and "_" being Dash and Underscore and "=" being Equals.  A  *)
(* URI is what follows its scheme: the check for the scheme and the trim   *)
(* of what follows it are left out, as no URI here lacks the one or has    *)
(* blanks for the other.                                                   *)
(***************************************************************************)
EXTENDS SequenceFilter, SequencesExt

CONSTANT Json  \* Json[i]: the bytes JSON.stringify gives for the info i

Plus == 62       Slash == 63
Dash == 64       Underscore == 65       Equals == 66

\* What a field of a parsed JSON object can be.
Values == {"text", "empty", "date", "other", "null"}

Info == [version : {0, 1}, nodeId : Values, displayName : Values,
         capabilities : Seq(Values) \cup {<<"notAnArray">>}, createdAt : Values]

Rejected == [version |-> 0, nodeId |-> "null", displayName |-> "null",
             capabilities |-> << >>, createdAt |-> "null"]

Texts == {"text", "empty", "date"}

IsText(v) == v \in Texts

\* JSON.stringify gives every info a text of its own, and none the empty one.
ASSUME JsonAssumption ==
    /\ DOMAIN Json \subseteq Info
    /\ \A i \in DOMAIN Json : Json[i] \in Seq(0 .. 255) /\ Json[i] # << >>
    /\ \A i, j \in DOMAIN Json : Json[i] = Json[j] => i = j

-----------------------------------------------------------------------------
(* Base64, of the runtime *)

\* The six bits of b from bit 6 * (i - 1) on; bits past the end are zero.
Sextet(b, i) ==
    LET g       == ((i - 1) \div 4) * 3
        byte(k) == IF g + k \in DOMAIN b THEN b[g + k] ELSE 0
    IN  CASE i % 4 = 1 -> byte(1) \div 4
          [] i % 4 = 2 -> (byte(1) % 4) * 16 + byte(2) \div 16
          [] i % 4 = 3 -> (byte(2) % 16) * 4 + byte(3) \div 64
          [] OTHER     -> byte(3) % 64

Base64(b) ==
    LET n == (4 * Len(b) + 2) \div 3 IN
    [i \in 1 .. n |-> Sextet(b, i)] \o [i \in 1 .. (4 - (n % 4)) % 4 |-> Equals]

\* stripTrailingEquals; atob does it too.
StripTrailingEquals(c) ==
    LET keep == {i \in DOMAIN c : c[i] # Equals} IN
    SubSeq(c, 1, IF keep = {} THEN 0 ELSE CHOOSE i \in keep : \A j \in keep : j <= i)

\* atob, which refuses any other character or length.  Node's Buffer skips them:
\* that makes a difference only to what ToShareUri did not make.
FromBase64(c) ==
    LET data == StripTrailingEquals(c)
        at(i) == IF i \in DOMAIN data THEN data[i] ELSE 0
        byte(i) == LET g == ((i - 1) \div 3) * 4 IN
            CASE i % 3 = 1 -> at(g + 1) * 4 + at(g + 2) \div 16
              [] i % 3 = 2 -> (at(g + 2) % 16) * 16 + at(g + 3) \div 4
              [] OTHER     -> (at(g + 3) % 4) * 64 + at(g + 4)
    IN  IF Len(c) % 4 = 0 /\ Len(c) - Len(data) <= 2 /\ \A i \in DOMAIN data : data[i] < 64
        THEN [i \in 1 .. (3 * Len(data)) \div 4 |-> byte(i)]
        ELSE << >>

-----------------------------------------------------------------------------
(* The share URI *)

ToUrlSafeBase64(b) ==
    ReplaceAll(ReplaceAll(StripTrailingEquals(Base64(b)), Plus, Dash), Slash, Underscore)

\* Mutant of FromUrlSafeBase64: one character that is URL-safe is not mapped back.
FromUrlSafeBase64NoSlash(c) ==
    LET padded == c \o [i \in 1 .. (4 - (Len(c) % 4)) % 4 |-> Equals] IN
    FromBase64(ReplaceAll(padded, Dash, Plus))

FromUrlSafeBase64(c) ==
    LET padded == c \o [i \in 1 .. (4 - (Len(c) % 4)) % 4 |-> Equals] IN
    FromBase64(ReplaceAll(ReplaceAll(padded, Dash, Plus), Underscore, Slash))

\* createConnectionInfo, for arguments it accepts.
CreateConnectionInfo(nodeId, displayName, capabilities) ==
    [version |-> 1, nodeId |-> nodeId, displayName |-> displayName,
     capabilities |-> IF capabilities = <<"notAnArray">> THEN << >> ELSE capabilities,
     createdAt |-> "date"]

NormalizeCreatedAt(v) == IF v = "date" THEN v ELSE "null"

NormalizeConnectionInfo(i) ==
    IF ~IsText(i.nodeId) \/ i.nodeId = "empty" \/ i.version # 1
    THEN Rejected
    ELSE [version      |-> 1,
          nodeId       |-> i.nodeId,
          displayName  |-> IF IsText(i.displayName) THEN i.displayName ELSE "null",
          capabilities |-> IF i.capabilities = <<"notAnArray">> THEN << >>
                           ELSE Keep(i.capabilities, Texts),
          createdAt    |-> NormalizeCreatedAt(i.createdAt)]

\* toShareUri, without the scheme it puts in front.
ToShareUri(i) == ToUrlSafeBase64(Json[i])

\* fromShareUri of what follows the scheme; an empty URI, and bytes that are not
\* JSON, are refused.
FromShareUri(uri) ==
    LET parsed == {i \in DOMAIN Json : Json[i] = FromUrlSafeBase64(uri)} IN
    IF uri = << >> \/ parsed = {} THEN Rejected
    ELSE NormalizeConnectionInfo(CHOOSE i \in parsed : TRUE)
=============================================================================
