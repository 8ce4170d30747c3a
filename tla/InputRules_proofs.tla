------------------------- MODULE InputRules_proofs -------------------------
(***************************************************************************)
(* The three versions of the input rules agree on every input, not only on *)
(* the short texts TLC enumerates, and at every value of the limits; an    *)
(* artifact has one identity, whatever edits a caller makes to it.         *)
(***************************************************************************)
EXTENDS InputRules, Identifiers, SequenceTheorems, TLAPS

\* The white space of Go, of the Python writer and of the table is the same.
LEMMA SameSpaces == \A c \in Int : /\ GoSpace(c) <=> c \in SqlTrimSet
                                   /\ c \in PyTrimSet <=> c \in SqlTrimSet
BY SMTT(30) DEF GoSpace, SqlTrimSet, PyTrimSet

\* The characters of a text are code points or -1.
LEMMA TextChars == \A in \in Inputs : \A i \in DOMAIN in.text : in.text[i] \in Int
BY InputAssumption

\* rawJSONFlag hands on what the flag was set to, or that it was not set.
LEMMA GivenIsArgument == \A in, arg : Given(in, arg) = arg
BY DEF Given, RawJSONFlag, FlagValue

\* An argument that the table's object constraint would take passes the clients.
LEMMA ObjectPasses ==
    \A b : ObjectAccepts(OrDefault(b)) => ValidateObject(b) /\ JsonObject(b)
BY DEF ObjectAccepts, OrDefault, ValidateObject, JsonObject

\* What the table would store passes the pre-check of every writer.
LEMMA TableImpliesPreCheck ==
    \A in \in Inputs : TableAccepts(Row(in)) => GoAccepts(in) /\ PyAccepts(in)
<1> SUFFICES ASSUME NEW in \in Inputs, TableAccepts(Row(in))
             PROVE  GoAccepts(in) /\ PyAccepts(in)
  OBVIOUS
<1>1. /\ TypeAccepts(in.text)
      /\ ObjectAccepts(OrDefault(in.content)) /\ ObjectAccepts(OrDefault(in.refs))
  BY GivenIsArgument DEF TableAccepts, Row
<1>2. /\ ValidateObject(in.content) /\ ValidateObject(in.refs)
      /\ JsonObject(in.content) /\ JsonObject(in.refs)
  BY <1>1, ObjectPasses
<1>3. PICK i \in DOMAIN in.text : in.text[i] \notin SqlTrimSet
  BY <1>1 DEF TypeAccepts
<1>4. ~GoSpace(in.text[i]) /\ in.text[i] \notin PyTrimSet
  BY <1>3, TextChars, SameSpaces
<1>5. in.text # <<>>
  BY <1>3
<1>6. WellFormed(in.text) /\ Bytes(in.text) <= MaxEventTypeBytes
  BY <1>1 DEF TypeAccepts, IsText
<1> QED
  BY <1>2, <1>3, <1>4, <1>5, <1>6, GivenIsArgument DEF GoAccepts, PyAccepts

\* How far an append has come, and the verdicts that brought it there.
InputInv ==
    /\ input \in Inputs
    /\ pc \in {"new", "refused", "sent", "rejected", "stored"}
    /\ pc = "refused" => ~PreCheck(input)
    /\ pc \in {"sent", "rejected", "stored"} => PreCheck(input) /\ row = Row(input)
    /\ pc = "rejected" => ~TableAccepts(row)
    /\ pc = "stored" => TableAccepts(row)

\* Every step follows the verdict of the pre-check, then that of the table.
LEMMA InputInvHolds == Spec => []InputInv
<1>1. Init => InputInv
  BY DEF Init, InputInv
<1>2. InputInv /\ [Next]_vars => InputInv'
  <2> SUFFICES ASSUME InputInv, [Next]_vars PROVE InputInv'
    OBVIOUS
  <2>1. CASE Refuse
    BY <2>1 DEF Refuse, InputInv
  <2>2. CASE Send
    BY <2>2 DEF Send, InputInv
  <2>3. CASE Decide
    BY <2>3 DEF Decide, InputInv
  <2>4. CASE UNCHANGED vars
    BY <2>4 DEF vars, InputInv
  <2> QED
    BY <2>1, <2>2, <2>3, <2>4 DEF Next
<1> QED
  BY <1>1, <1>2, PTL DEF Spec

\* The clients never refuse what the table would store, for every text, every
\* argument and every limit.
THEOREM ClientsNotStricter == Spec => []NoFalseRefusal
<1>1. InputInv => NoFalseRefusal
  BY TableImpliesPreCheck DEF InputInv, NoFalseRefusal, PreCheck
<1> QED
  BY InputInvHolds, <1>1, PTL

\* The Go and the Python writer accept the same event types.
THEOREM WritersEqual == Spec => []WritersAgree
<1>1. InputInv => WritersAgree
  <2> SUFFICES ASSUME InputInv PROVE WritersAgree
    OBVIOUS
  <2> DEFINE bare(w) ==
        [writer |-> w, text |-> input.text, content |-> Omitted, refs |-> Omitted]
  <2>1. \A i \in DOMAIN input.text : ~GoSpace(input.text[i]) <=> input.text[i] \notin PyTrimSet
    BY TextChars, SameSpaces DEF InputInv
  <2>2. ValidateObject(Omitted) /\ JsonObject(Omitted)
    BY DEF ValidateObject, JsonObject
  <2>3. GoAccepts(bare("go")) <=> PyAccepts(bare("python"))
    BY <2>1, <2>2, GivenIsArgument DEF GoAccepts, PyAccepts
  <2> QED
    BY <2>3 DEF WritersAgree
<1> QED
  BY InputInvHolds, <1>1, PTL

\* The server refuses what passed a pre-check only for what the clients leave to
\* it: U+0000, what jsonb cannot represent, and the normalized size.
THEOREM ServerDecidesTheRest == Spec => []ServerDecidesOnly
<1>1. InputInv => ServerDecidesOnly
  <2> SUFFICES ASSUME InputInv, pc = "rejected", 0 \notin Range(row.text),
                      \A b \in {row.content, row.refs} : b.jsonb /\ ~(b.stored > MaxJSONBytes)
               PROVE  TableAccepts(row)
    BY DEF InputInv, ServerDecidesOnly
  <2>1. input \in Inputs /\ row = Row(input) /\ PreCheck(input)
    BY DEF InputInv
  <2>2. /\ row.text = input.text
        /\ row.content = OrDefault(input.content) /\ row.refs = OrDefault(input.refs)
    BY <2>1, GivenIsArgument DEF Row
  <2>3. TypeAccepts(row.text)
    BY <2>1, <2>2, TextChars, SameSpaces
       DEF PreCheck, GoAccepts, PyAccepts, TypeAccepts, IsText
  <2>4. \A a \in {input.content, input.refs} : a # Omitted => a.kind = "object"
    BY <2>1, GivenIsArgument
       DEF PreCheck, GoAccepts, PyAccepts, ValidateObject, JsonObject
  <2>5. \A a \in {input.content, input.refs} : ObjectAccepts(OrDefault(a))
    <3> SUFFICES ASSUME NEW a \in {input.content, input.refs}
                 PROVE  ObjectAccepts(OrDefault(a))
      OBVIOUS
    <3>1. OrDefault(a).stored \in Nat
      BY <2>1, InputAssumption DEF OrDefault, Arguments, Json
    <3>2. OrDefault(a).jsonb /\ ~(OrDefault(a).stored > MaxJSONBytes)
      BY <2>2
    <3>3. OrDefault(a).kind = "object"
      BY <2>4 DEF OrDefault
    <3> QED
      BY <3>1, <3>2, <3>3, InputAssumption DEF ObjectAccepts, IsJsonb
  <2> QED
    BY <2>2, <2>3, <2>5 DEF TableAccepts
<1> QED
  BY InputInvHolds, <1>1, PTL

\* What is stored meets the contract in all three senses of blank.
THEOREM StoredMeetsContract == Spec => []StoredContract
<1>1. InputInv => StoredContract
  <2> SUFFICES ASSUME InputInv, pc = "stored" PROVE StoredContract
    BY DEF StoredContract
  <2>1. input \in Inputs /\ row = Row(input) /\ TableAccepts(row)
    BY DEF InputInv
  <2>2. /\ row.text = input.text
        /\ row.content = OrDefault(input.content) /\ row.refs = OrDefault(input.refs)
    BY <2>1, GivenIsArgument DEF Row
  <2>3. PICK i \in DOMAIN row.text : row.text[i] \notin SqlTrimSet
    BY <2>1 DEF TableAccepts, TypeAccepts
  <2>4. ~GoSpace(row.text[i]) /\ row.text[i] \notin PyTrimSet
    BY <2>1, <2>2, <2>3, TextChars, SameSpaces
  <2>5. /\ Bytes(row.text) <= MaxEventTypeBytes
        /\ row.content.kind = "object" /\ row.refs.kind = "object"
    BY <2>1 DEF TableAccepts, TypeAccepts, ObjectAccepts
  <2> QED
    BY <2>2, <2>3, <2>4, <2>5 DEF StoredContract
<1> QED
  BY InputInvHolds, <1>1, PTL

-----------------------------------------------------------------------------
(* Identifiers *)

\* What a text can come to hold.
Held == Characters \cup UNION {Range(t) : t \in Originals}

\* A sequence that holds lower-case digits only is unchanged by Lower.
LEMMA LowerIsLower ==
  ASSUME NEW S, NEW d \in Seq(S), \A i \in DOMAIN d : d[i] \in LowerHex
  PROVE  Lower(d) = d
<1>1. \A i \in DOMAIN d : d[i] \notin {"A", "B", "C", "D", "E", "F"}
  BY DEF LowerHex
<1>2. Lower(d) = [i \in DOMAIN d |-> d[i]]
  BY <1>1 DEF Lower
<1> QED
  BY <1>2

\* Cutting the prefix off and putting it back gives the text.
LEMMA PrefixBack ==
  ASSUME NEW S, NEW t \in Seq(S), IsPrefix(Prefix, t)
  PROVE  /\ TrimPrefix(t) \in Seq(S)
         /\ t = Prefix \o TrimPrefix(t)
<1>1. Len(Prefix) = 7 /\ Prefix = SubSeq(Prefix, 1, 7)
  BY DEF Prefix
<1>2. Len(t) \in Nat /\ 7 <= Len(t) /\ Prefix = SubSeq(t, 1, 7)
  BY <1>1 DEF IsPrefix
<1>3. TrimPrefix(t) = SubSeq(t, 8, Len(t))
  BY <1>1 DEF TrimPrefix
<1>4. t = SubSeq(t, 1, 7) \o SubSeq(t, 8, Len(t))
  BY <1>2
<1>5. SubSeq(t, 8, Len(t)) \in Seq(S)
  BY <1>2
<1> QED
  BY <1>2, <1>3, <1>4, <1>5

\* An edit leaves a text a text.
LEMMA EditKeepsText ==
  ASSUME text \in Seq(Held), Edit
  PROVE  text' \in Seq(Held)
<1>1. ASSUME NEW i \in DOMAIN text, NEW c \in Characters, text' = ReplaceAt(text, i, c)
      PROVE  text' \in Seq(Held)
  BY <1>1 DEF ReplaceAt, Held
<1>2. ASSUME NEW i \in 1..Len(text) + 1, NEW c \in Characters, text' = InsertAt(text, i, c)
      PROVE  text' \in Seq(Held)
  BY <1>2 DEF InsertAt, Held
<1>3. ASSUME NEW i \in DOMAIN text, text' = RemoveAt(text, i)
      PROVE  text' \in Seq(Held)
  BY <1>3 DEF RemoveAt
<1> QED
  BY <1>1, <1>2, <1>3 DEF Edit

\* Every text a caller comes to pass is one.
LEMMA TextsHold == TextInit /\ [][Edit]_textVars => [](text \in Seq(Held))
<1>1. TextInit => text \in Seq(Held)
  <2> SUFFICES ASSUME NEW t \in Originals PROVE t \in Seq(Held)
    BY DEF TextInit
  <2>1. t \in Seq(Range(t)) /\ Range(t) \subseteq Held
    BY TextAssumption DEF Held
  <2> QED
    BY <2>1
<1>2. text \in Seq(Held) /\ [Edit]_textVars => (text \in Seq(Held))'
  BY EditKeepsText DEF textVars
<1> QED
  BY <1>1, <1>2, PTL

\* However a caller edits an id or an identity, what still parses is spelled as the
\* store spells the digest it computed: no second identity names the same bytes.
THEOREM IdentityIsUnique == TextInit /\ [][Edit]_textVars => []OneSpelling
<1>1. text \in Seq(Held) => OneSpelling
  <2> DEFINE digest == ParseIdentity(text)
  <2> SUFFICES ASSUME text \in Seq(Held), digest # Malformed
               PROVE  /\ text = FormatIdentity(Lower(digest)) /\ Len(digest) = HexLen
                      /\ Range(digest) \subseteq LowerHex
    BY DEF OneSpelling
  <2>1. IsPrefix(Prefix, text) /\ ValidDigest(digest) /\ digest = TrimPrefix(text)
    BY DEF ParseIdentity
  <2>2. digest \in Seq(Held) /\ text = Prefix \o digest
    BY <2>1, PrefixBack
  <2>3. Lower(digest) = digest
    BY <2>1, <2>2, LowerIsLower DEF ValidDigest
  <2> QED
    BY <2>1, <2>2, <2>3 DEF FormatIdentity, ValidDigest, Range
<1> QED
  BY <1>1, TextsHold, PTL

-----------------------------------------------------------------------------
(* Event ids *)

\* Where the i-th character of a printed uuid is among its digits.
Dashes == {9, 14, 19, 24}
Place(i) ==
    i - (IF i > 24 THEN 4 ELSE IF i > 19 THEN 3 ELSE IF i > 14 THEN 2 ELSE IF i > 9 THEN 1 ELSE 0)

LEMMA Places ==
    /\ \A i \in 1..32 : Spot(i) \in (1..36) \ Dashes /\ Place(Spot(i)) = i
    /\ \A i \in (1..36) \ Dashes : Place(i) \in 1..32 /\ Spot(Place(i)) = i
BY DEF Place, Spot, Dashes

\* The texts of one length.
TextsOf(S, n) == {t \in Seq(S) : Len(t) = n}

LEMMA TextsAreFunctions ==
  ASSUME NEW S, NEW n \in Nat
  PROVE  /\ \A t \in TextsOf(S, n) : t \in [1..n -> S] /\ DOMAIN t = 1..n
         /\ \A t \in [1..n -> S] : t \in TextsOf(S, n)
  BY DEF TextsOf

LEMMA TextDomain ==
  ASSUME NEW S, NEW n \in Nat, NEW t \in TextsOf(S, n)
  PROVE  DOMAIN t = 1..n
  BY TextsAreFunctions

\* A dash and the group u[m..n], behind the k characters of p.
Extended(p, u, m, n) == (p \o <<"-">>) \o SubSeq(u, m, n)

Behind(q, p, k, u, m, n) ==
    /\ \A i \in 1..k : q[i] = p[i]
    /\ q[k + 1] = "-"
    /\ \A i \in k + 2..k + 2 + n - m : q[i] = u[i - k + m - 2]

LEMMA NextGroup ==
  ASSUME NEW S, NEW l \in Nat, NEW u \in TextsOf(S, l), NEW k \in Nat, NEW p \in TextsOf(S, k),
         "-" \in S, NEW m \in 1..l, NEW n \in m..l
  PROVE  /\ Extended(p, u, m, n) \in TextsOf(S, k + 2 + n - m)
         /\ Behind(Extended(p, u, m, n), p, k, u, m, n)
<1> DEFINE r == p \o <<"-">>
           g == SubSeq(u, m, n)
           q == r \o g
<1> USE DEF TextsOf
<1>1. <<"-">> \in Seq(S) /\ Len(<<"-">>) = 1 /\ <<"-">>[1] = "-"
  OBVIOUS
<1>2. /\ r \in Seq(S) /\ Len(r) = Len(p) + 1
      /\ \A i \in 1..Len(p) + 1 : r[i] = IF i <= Len(p) THEN p[i] ELSE <<"-">>[i - Len(p)]
  BY <1>1, ConcatProperties
<1>3. \A i \in 1..k : r[i] = p[i]
  BY <1>2
<1>4. r[k + 1] = "-"
  BY <1>1, <1>2
<1> HIDE DEF r
<1>5. g \in Seq(S) /\ Len(g) = n - m + 1 /\ \A i \in 1..n - m + 1 : g[i] = u[m + i - 1]
  BY SubSeqProperties
<1> HIDE DEF g
<1>6. /\ q \in Seq(S) /\ Len(q) = Len(r) + Len(g)
      /\ \A i \in 1..Len(r) + Len(g) : q[i] = IF i <= Len(r) THEN r[i] ELSE g[i - Len(r)]
  BY <1>2, <1>5, ConcatProperties
<1> HIDE DEF q
<1>7. PICK x \in Nat, y \in Nat : x = Len(r) /\ y = Len(g) /\ x = k + 1 /\ y = n - m + 1
  BY <1>2, <1>5
<1>8. /\ Len(q) = x + y
      /\ \A i \in 1..x + y : q[i] = IF i <= x THEN r[i] ELSE g[i - x]
  BY <1>6, <1>7
<1>9. x + y = k + 2 + n - m
  BY <1>7
<1>10. q \in TextsOf(S, k + 2 + n - m)
  BY <1>6, <1>8, <1>9
<1>11. ASSUME NEW i \in 1..k + 1 PROVE q[i] = r[i]
  <2>1. i \in 1..x + y /\ i <= x
    BY <1>7
  <2> QED
    BY <1>8, <2>1
<1>12. ASSUME NEW i \in k + 2..k + 2 + n - m PROVE q[i] = u[i - k + m - 2]
  <2>1. /\ i \in 1..x + y /\ ~(i <= x)
        /\ i - x \in 1..n - m + 1 /\ m + (i - x) - 1 = i - k + m - 2
    BY <1>7, <1>9
  <2> QED
    BY <1>5, <1>8, <2>1
<1>13. (\A i \in 1..k : q[i] = p[i]) /\ q[k + 1] = "-"
  BY <1>3, <1>4, <1>11
<1> QED
  BY <1>10, <1>12, <1>13 DEF q, r, g, Extended, Behind

\* What PostgreSQL prints for a uuid, character by character.
LEMMA PrintedAt ==
  ASSUME NEW S, "-" \in S, NEW u \in TextsOf(S, 32)
  PROVE  /\ Printed(u) \in TextsOf(S, 36)
         /\ \A i \in 1..36 : Printed(u)[i] = IF i \in Dashes THEN "-" ELSE u[Place(i)]
<1> DEFINE a == SubSeq(u, 1, 8)
           b == Extended(a, u, 9, 12)
           c == Extended(b, u, 13, 16)
           d == Extended(c, u, 17, 20)
           e == Extended(d, u, 21, 32)
<1>0. u \in [1..32 -> S]
  BY TextsAreFunctions
<1>1. a \in TextsOf(S, 8) /\ \A i \in 1..8 : a[i] = u[i]
  <2>1. \A i \in 1..8 : u[i] \in S
    BY <1>0
  <2> QED
    BY <2>1, SubSeqProperties DEF TextsOf
<1> HIDE DEF a
<1>2. /\ b \in TextsOf(S, 13)
      /\ \A i \in 1..8 : b[i] = a[i]
      /\ b[9] = "-"
      /\ \A i \in 10..13 : b[i] = u[i - 1]
  <2>1. b \in TextsOf(S, 13) /\ Behind(b, a, 8, u, 9, 12)
    <3>1. 8 \in Nat /\ a \in TextsOf(S, 8) /\ 9 \in 1..32 /\ 12 \in 9..32 /\ 8 + 2 + 12 - 9 = 13
      BY <1>1
    <3> QED
      BY <3>1, NextGroup
  <2> HIDE DEF b
  <2> QED
    BY <2>1 DEF Behind
<1> HIDE DEF b
<1>3. /\ c \in TextsOf(S, 18)
      /\ \A i \in 1..13 : c[i] = b[i]
      /\ c[14] = "-"
      /\ \A i \in 15..18 : c[i] = u[i - 2]
  <2>1. c \in TextsOf(S, 18) /\ Behind(c, b, 13, u, 13, 16)
    BY <1>2, NextGroup
  <2> HIDE DEF c
  <2> QED
    BY <2>1 DEF Behind
<1> HIDE DEF c
<1>4. /\ d \in TextsOf(S, 23)
      /\ \A i \in 1..18 : d[i] = c[i]
      /\ d[19] = "-"
      /\ \A i \in 20..23 : d[i] = u[i - 3]
  <2>1. d \in TextsOf(S, 23) /\ Behind(d, c, 18, u, 17, 20)
    BY <1>3, NextGroup
  <2> HIDE DEF d
  <2> QED
    BY <2>1 DEF Behind
<1> HIDE DEF d
<1>5. /\ e \in TextsOf(S, 36)
      /\ \A i \in 1..23 : e[i] = d[i]
      /\ e[24] = "-"
      /\ \A i \in 25..36 : e[i] = u[i - 4]
  <2>1. e \in TextsOf(S, 36) /\ Behind(e, d, 23, u, 21, 32)
    BY <1>4, NextGroup
  <2> HIDE DEF e
  <2> QED
    BY <2>1 DEF Behind
<1> HIDE DEF e
<1>6. e = Printed(u)
  BY DEF Printed, Extended, a, b, c, d, e
<1>7. ASSUME NEW i \in 1..36 PROVE e[i] = IF i \in Dashes THEN "-" ELSE u[Place(i)]
  BY <1>1, <1>2, <1>3, <1>4, <1>5 DEF Dashes, Place
<1> QED
  BY <1>5, <1>6, <1>7

\* Lowering a character: hexadecimal becomes lower-case, and nothing else changes.
LEMMA LowerAt ==
  ASSUME NEW S, NEW t \in Seq(S)
  PROVE  /\ DOMAIN Lower(t) = DOMAIN t
         /\ \A i \in DOMAIN t :
              /\ IsHex(t[i]) <=> Lower(t)[i] \in LowerHex
              /\ t[i] = "-" <=> Lower(t)[i] = "-"
              /\ t[i] = "7" <=> Lower(t)[i] = "7"
              /\ t[i] \in {"8", "9", "a", "A", "b", "B"} <=> Lower(t)[i] \in {"8", "9", "a", "b"}
  BY DEF Lower, IsHex, LowerHex, UpperHex

\* ValidID takes a text exactly if it is, up to case, how PostgreSQL prints the
\* UUIDv7 whose digits it holds.
LEMMA ValidIdsArePrinted ==
  ASSUME NEW S, NEW t \in Seq(S)
  PROVE  ValidID(t) <=> IsV7(Digits(t)) /\ Lower(t) = Printed(Digits(t))
<1>0. Lower(t) = [i \in DOMAIN t |-> Lower(t)[i]] /\ DOMAIN Lower(t) = DOMAIN t
  BY DEF Lower
<1> DEFINE u == Digits(t)
<1>1. ASSUME ValidID(t)
      PROVE  IsV7(u) /\ Lower(t) = Printed(u)
  <2>1. DOMAIN t = 1..36
    <3>1. t \in TextsOf(S, 36)
      BY <1>1 DEF ValidID, TextsOf
    <3>2. 36 \in Nat
      OBVIOUS
    <3> QED
      BY <3>1, <3>2, TextDomain, Zenon
  <2>2. \A i \in 1..36 : IF i \in Dashes THEN t[i] = "-" ELSE IsHex(t[i])
    <3> SUFFICES ASSUME NEW i \in 1..36 PROVE IF i \in Dashes THEN t[i] = "-" ELSE IsHex(t[i])
      OBVIOUS
    <3>1. i - 1 \in 0..35 /\ At(t, i - 1) = t[i] /\ (i - 1 \in Hyphens <=> i \in Dashes)
      BY DEF At, Hyphens, Dashes
    <3> QED
      BY <1>1, <3>1 DEF ValidID
  <2>3. \A i \in 1..36 : IF i \in Dashes THEN Lower(t)[i] = "-" ELSE Lower(t)[i] \in LowerHex
    BY <2>1, <2>2, LowerAt
  <2>4. u = [i \in 1..32 |-> Lower(t)[Spot(i)]]
    BY <2>1, Places DEF Digits
  <2> HIDE DEF u
  <2>5. u \in [1..32 -> LowerHex]
    BY <2>3, <2>4, Places
  <2>6. u[13] = "7" /\ u[17] \in {"8", "9", "a", "b"}
    <3>1. t[15] = "7" /\ t[20] \in {"8", "9", "a", "A", "b", "B"}
      BY <1>1 DEF ValidID, At
    <3>2. Lower(t)[15] = "7" /\ Lower(t)[20] \in {"8", "9", "a", "b"}
      BY <2>1, <3>1, LowerAt
    <3>3. Spot(13) = 15 /\ Spot(17) = 20
      BY DEF Spot
    <3> QED
      BY <2>4, <3>2, <3>3, 13 \in 1..32, 17 \in 1..32
  <2>7. \A i \in (1..36) \ Dashes : u[Place(i)] = Lower(t)[i]
    BY <2>4, Places
  <2>8. IsV7(u)
    <3>1. 32 \in Nat
      OBVIOUS
    <3>2. u \in TextsOf(LowerHex, 32)
      BY <2>5, <3>1, TextsAreFunctions, Zenon
    <3> QED
      BY <2>5, <2>6, <3>2 DEF IsV7, Range, TextsOf
  <2>9. u \in TextsOf(LowerHex \cup {"-"}, 32)
    BY <2>5, TextsAreFunctions
  <2>10. /\ Printed(u) \in TextsOf(LowerHex \cup {"-"}, 36)
         /\ \A i \in 1..36 : Printed(u)[i] = IF i \in Dashes THEN "-" ELSE u[Place(i)]
    BY <2>9, PrintedAt
  <2>11. \A i \in 1..36 : Lower(t)[i] = Printed(u)[i]
    BY <2>3, <2>7, <2>10
  <2>12. Printed(u) = [i \in 1..36 |-> Printed(u)[i]]
    <3>1. 36 \in Nat
      OBVIOUS
    <3>2. Printed(u) \in [1..36 -> LowerHex \cup {"-"}]
      BY <2>10, <3>1, TextsAreFunctions, Zenon
    <3> QED
      BY <3>2
  <2>13. Lower(t) = Printed(u)
    BY <1>0, <2>1, <2>11, <2>12
  <2> QED
    BY <2>8, <2>13
<1>2. ASSUME IsV7(u), Lower(t) = Printed(u)
      PROVE  ValidID(t)
  <2>1. u \in [1..32 -> LowerHex] /\ u[13] = "7" /\ u[17] \in {"8", "9", "a", "b"}
    <3>1. u = [i \in 1..32 |-> u[i]]
      BY DEF Digits
    <3> HIDE DEF u
    <3> QED
      BY <1>2, <3>1 DEF IsV7, Range
  <2> HIDE DEF u
  <2>2. u \in TextsOf(LowerHex \cup {"-"}, 32)
    <3>1. 32 \in Nat
      OBVIOUS
    <3>2. u \in [1..32 -> LowerHex \cup {"-"}]
      BY <2>1
    <3> QED
      BY <3>1, <3>2, TextsAreFunctions, Zenon
  <2>3. /\ Lower(t) \in TextsOf(LowerHex \cup {"-"}, 36)
        /\ \A i \in 1..36 : Lower(t)[i] = IF i \in Dashes THEN "-" ELSE u[Place(i)]
    BY <1>2, <2>2, PrintedAt
  <2>4. DOMAIN t = 1..36
    <3>1. 36 \in Nat
      OBVIOUS
    <3>2. \A x \in TextsOf(LowerHex \cup {"-"}, 36) : DOMAIN x = 1..36
      BY <3>1, TextDomain, Zenon
    <3> QED
      BY <1>0, <2>3, <3>2
  <2>5. Len(t) = 36
    BY <2>4
  <2>6. \A i \in 1..36 : IF i \in Dashes THEN t[i] = "-" ELSE IsHex(t[i])
    <3>1. \A i \in (1..36) \ Dashes : Lower(t)[i] \in LowerHex
      BY <2>1, <2>3, Places
    <3> QED
      BY <2>3, <2>4, <3>1, LowerAt
  <2>7. \A i \in 0..35 : IF i \in Hyphens THEN At(t, i) = "-" ELSE IsHex(At(t, i))
    <3> SUFFICES ASSUME NEW i \in 0..35
                 PROVE  IF i \in Hyphens THEN At(t, i) = "-" ELSE IsHex(At(t, i))
      OBVIOUS
    <3>1. i + 1 \in 1..36 /\ At(t, i) = t[i + 1] /\ (i \in Hyphens <=> i + 1 \in Dashes)
      BY DEF At, Hyphens, Dashes
    <3> QED
      BY <2>6, <3>1
  <2>8. Lower(t)[15] = "7" /\ Lower(t)[20] \in {"8", "9", "a", "b"}
    <3>1. Place(15) = 13 /\ Place(20) = 17 /\ 15 \notin Dashes /\ 20 \notin Dashes
      BY DEF Place, Dashes
    <3>2. 15 \in 1..36 /\ 20 \in 1..36
      OBVIOUS
    <3>3. Lower(t)[15] = u[13] /\ Lower(t)[20] = u[17]
      BY <2>3, <3>1, <3>2, Zenon
    <3> QED
      BY <2>1, <3>3
  <2>9. t[15] = "7" /\ t[20] \in {"8", "9", "a", "A", "b", "B"}
    BY <2>4, <2>8, LowerAt
  <2>10. At(t, 14) = "7" /\ At(t, 19) \in {"8", "9", "a", "A", "b", "B"}
    BY <2>9 DEF At
  <2> QED
    BY <2>5, <2>7, <2>10 DEF ValidID
<1> QED
  BY <1>1, <1>2

\* However a caller edits an id, it passes exactly if the ledger prints some event's
\* id that way: no receipt is refused when it is read back.
THEOREM ReceiptsPass == TextInit /\ [][Edit]_textVars => []IdIsCanonical
<1>1. text \in Seq(Held) => IdIsCanonical
  BY ValidIdsArePrinted DEF IdIsCanonical
<1> QED
  BY <1>1, TextsHold, PTL
=============================================================================
