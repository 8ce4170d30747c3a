----------------------------- MODULE Identifiers -----------------------------
(***************************************************************************)
(* The two identifiers a caller passes in: the id of an event, a UUIDv7,   *)
(* and the identity of an artifact.  Both are checked character by         *)
(* character before they reach a query or a path.  A text is a sequence of *)
(* characters; what a caller passes differs from a valid text by a few     *)
(* edits.                                                                  *)
(***************************************************************************)
EXTENDS Integers, SequencesExt

CONSTANTS
    HexLen,         \* length of a digest in hexadecimal (64)
    Originals,      \* valid ids and identities
    Characters,     \* what an edit can bring in
    MaxEdits

ASSUME TextAssumption == \A t \in Originals : t \in Seq(Range(t))

VARIABLES text, edits

textVars == <<text, edits>>

LowerHex == {"0", "1", "2", "3", "4", "5", "6", "7", "8", "9", "a", "b", "c", "d", "e", "f"}
UpperHex == {"A", "B", "C", "D", "E", "F"}

-----------------------------------------------------------------------------
(* event.ValidID *)

IsHex(c) == c \in LowerHex \cup UpperHex

\* Mutant of Hyphens: the last group begins one character late.
HyphensLate == {8, 13, 18, 24}
Hyphens == {8, 13, 18, 23}

\* id[i], counted from 0 as in the code.
At(id, i) == id[i + 1]

ValidID(id) ==
    /\ Len(id) = 36
    /\ \A i \in 0..35 : IF i \in Hyphens THEN At(id, i) = "-" ELSE IsHex(At(id, i))
    /\ At(id, 14) = "7"
    /\ At(id, 19) \in {"8", "9", "a", "A", "b", "B"}

-----------------------------------------------------------------------------
(* cas.ValidDigest, FormatIdentity and ParseIdentity *)

\* Mutant of ValidDigest: hexadecimal of either case.
AnyCase(digest) == Len(digest) = HexLen /\ \A i \in DOMAIN digest : IsHex(digest[i])

ValidDigest(digest) == Len(digest) = HexLen /\ \A i \in DOMAIN digest : digest[i] \in LowerHex

Prefix == <<"s", "h", "a", "2", "5", "6", ":">>
Malformed == <<>>

FormatIdentity(digest) == Prefix \o digest

TrimPrefix(t) == IF IsPrefix(Prefix, t) THEN SubSeq(t, Len(Prefix) + 1, Len(t)) ELSE t

ParseIdentity(identity) ==
    IF IsPrefix(Prefix, identity) /\ ValidDigest(TrimPrefix(identity))
    THEN TrimPrefix(identity) ELSE Malformed

-----------------------------------------------------------------------------
(* The caller *)

TextInit == text \in Originals /\ edits = 0

Edit ==
    /\ edits < MaxEdits /\ edits' = edits + 1
    /\ \/ \E i \in DOMAIN text, c \in Characters : text' = ReplaceAt(text, i, c)
       \/ \E i \in 1..Len(text) + 1, c \in Characters : text' = InsertAt(text, i, c)
       \/ \E i \in DOMAIN text : text' = RemoveAt(text, i)

-----------------------------------------------------------------------------
(* Properties *)

\* How PostgreSQL prints a uuid, 32 hexadecimal digits, where each of them then
\* stands, and which of them uuidv7() generates.
Lower(t) ==
    [i \in DOMAIN t |-> CASE t[i] = "A" -> "a" [] t[i] = "B" -> "b" [] t[i] = "C" -> "c"
                         [] t[i] = "D" -> "d" [] t[i] = "E" -> "e" [] t[i] = "F" -> "f"
                         [] OTHER -> t[i]]
Spot(i) ==
    i + (IF i > 20 THEN 4 ELSE IF i > 16 THEN 3 ELSE IF i > 12 THEN 2 ELSE IF i > 8 THEN 1 ELSE 0)
Digits(t) == [i \in 1..32 |-> IF Spot(i) \in DOMAIN t THEN Lower(t)[Spot(i)] ELSE "-"]
Printed(u) ==
    SubSeq(u, 1, 8) \o <<"-">> \o SubSeq(u, 9, 12) \o <<"-">> \o SubSeq(u, 13, 16)
        \o <<"-">> \o SubSeq(u, 17, 20) \o <<"-">> \o SubSeq(u, 21, 32)
IsV7(u) ==
    Len(u) = 32 /\ Range(u) \subseteq LowerHex /\ u[13] = "7" /\ u[17] \in {"8", "9", "a", "b"}

\* An id passes exactly if PostgreSQL prints some UUIDv7 that way, up to case: no
\* receipt of the ledger is refused when it is read back, and nothing else
\* reaches the query.
IdIsCanonical ==
    ValidID(text) <=> IsV7(Digits(text)) /\ Lower(text) = Printed(Digits(text))

\* An artifact has one identity: what parses is what the store formats for a
\* digest as it computes them, so no second spelling names the same bytes.
OneSpelling ==
    LET digest == ParseIdentity(text) IN
    digest # Malformed =>
        text = FormatIdentity(Lower(digest)) /\ Len(digest) = HexLen /\ Range(digest) \subseteq LowerHex
=============================================================================
