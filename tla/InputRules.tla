----------------------------- MODULE InputRules -----------------------------
(***************************************************************************)
(* The rules an event's type and its two JSON objects must meet, written   *)
(* three times: the pre-check of pkg/event and of the command line in      *)
(* front of it, the pre-check of the Python writer, and the CHECK          *)
(* constraints of public.events, which decide.  A text is a sequence of    *)
(* code points; -1 stands for a byte (Go) or a surrogate (Python) that no  *)
(* UTF-8 encodes.  A JSON text is a record: its kind, its size as written, *)
(* its size as jsonb::text, and whether jsonb can represent it.            *)
(***************************************************************************)
EXTENDS Integers, Sequences, Folds, Functions

CONSTANTS
    MaxEventTypeBytes,      \* 255
    MaxJSONBytes,           \* 1 MiB
    Inputs,                 \* [writer, text, content, refs] of every append
    Omitted                 \* an argument that was not given

Writers == {"cli", "go", "python"}
Kinds == {"object", "array", "scalar", "null", "malformed", "empty"}
Json == [kind : Kinds, raw : Nat, stored : Nat, jsonb : BOOLEAN]
Arguments == Json \cup {Omitted}

ASSUME InputAssumption ==
    /\ MaxEventTypeBytes \in Nat /\ MaxJSONBytes \in Nat /\ MaxJSONBytes >= 2
    /\ Omitted \notin Json
    /\ \A in \in Inputs :
          /\ in.writer \in Writers /\ in.content \in Arguments /\ in.refs \in Arguments
          /\ in.text \in Seq(Int)
          /\ in.writer = "cli" => 0 \notin Range(in.text)

VARIABLES
    input,      \* what the caller passes
    pc,         \* "new", "refused", "sent", "rejected" or "stored"
    row         \* the row as inserted

vars == <<input, pc, row>>

-----------------------------------------------------------------------------
(* Texts *)

\* unicode.IsSpace
GoSpace(c) ==
    c \in 9..13 \cup {32, 133, 160, 5760} \cup 8192..8202 \cup {8232, 8233, 8239, 8287, 12288}

\* Mutant of PyTrimSet: the white space of ASCII only. _WHITESPACE itself is below.
AsciiTrimSet == {9, 10, 11, 12, 13, 32}
PyTrimSet ==
    {9, 10, 11, 12, 13, 32, 133, 160, 5760, 8192, 8193, 8194, 8195, 8196, 8197,
     8198, 8199, 8200, 8201, 8202, 8232, 8233, 8239, 8287, 12288}

\* The trim set of events_event_type_nonblank.
SqlTrimSet ==
    {9, 10, 11, 12, 13, 32, 133, 160, 5760, 8192, 8193, 8194, 8195, 8196, 8197,
     8198, 8199, 8200, 8201, 8202, 8232, 8233, 8239, 8287, 12288}

WellFormed(t) == -1 \notin Range(t)

\* Bytes of a code point in UTF-8, and of a text.
Width(c) == IF c < 128 THEN 1 ELSE IF c < 2048 THEN 2 ELSE IF c < 65536 THEN 3 ELSE 4
Bytes(t) == FoldFunction(+, 0, [i \in DOMAIN t |-> Width(t[i])])

-----------------------------------------------------------------------------
(* The pre-checks *)

\* The value of a flag that is not set is the empty string.
Empty == [kind |-> "empty", raw |-> 0, stored |-> 0, jsonb |-> FALSE]
FlagValue(arg) == IF arg = Omitted THEN Empty ELSE arg

\* Mutant of RawJSONFlag: whether the flag is set is told from its value.
FlagByValue(val, set) == IF val = Empty THEN Omitted ELSE val

RawJSONFlag(val, set) == IF set THEN val ELSE Omitted

\* What New.Content and New.Refs hold, or the arguments of append_event.
Given(in, arg) ==
    IF in.writer = "cli" THEN RawJSONFlag(FlagValue(arg), arg # Omitted) ELSE arg

\* Mutant of ValidateObject: the server's limit is applied to the text as written.
LimitRaw(b) == b # Omitted => b.kind = "object" /\ b.raw <= MaxJSONBytes

\* encoding/json decodes what jsonb cannot represent, and null into a nil map.
ValidateObject(b) == b # Omitted => b.kind = "object"

\* Mutant of GoAccepts: the length is taken in code points.
CountsRunes(in) ==
    /\ WellFormed(in.text)
    /\ \E i \in DOMAIN in.text : ~GoSpace(in.text[i])
    /\ Len(in.text) <= MaxEventTypeBytes
    /\ ValidateObject(Given(in, in.content)) /\ ValidateObject(Given(in, in.refs))

\* runEventPut and New.Validate
GoAccepts(in) ==
    /\ in.writer = "cli" => in.text # <<>>
    /\ WellFormed(in.text)
    /\ \E i \in DOMAIN in.text : ~GoSpace(in.text[i])
    /\ Bytes(in.text) <= MaxEventTypeBytes
    /\ ValidateObject(Given(in, in.content)) /\ ValidateObject(Given(in, in.refs))

\* A mapping that json.dumps accepts.
JsonObject(b) == b # Omitted => b.kind = "object"

\* _validate_event_type and _json_object
PyAccepts(in) ==
    /\ WellFormed(in.text)
    /\ \E i \in DOMAIN in.text : in.text[i] \notin PyTrimSet
    /\ Bytes(in.text) <= MaxEventTypeBytes
    /\ JsonObject(in.content) /\ JsonObject(in.refs)

PreCheck(in) == IF in.writer = "python" THEN PyAccepts(in) ELSE GoAccepts(in)

-----------------------------------------------------------------------------
(* The table *)

\* ContentOrDefault and RefsOrDefault: {} only for what was left out.
OrDefault(b) ==
    IF b = Omitted THEN [kind |-> "object", raw |-> 2, stored |-> 2, jsonb |-> TRUE] ELSE b

\* text and jsonb as PostgreSQL types: neither holds U+0000, and jsonb::text has
\* only what jsonb can represent.
IsText(t) == WellFormed(t) /\ 0 \notin Range(t)
IsJsonb(b) == b.kind \notin {"malformed", "empty"} /\ b.jsonb

TypeAccepts(t) ==
    /\ IsText(t)
    /\ \E i \in DOMAIN t : t[i] \notin SqlTrimSet
    /\ Bytes(t) <= MaxEventTypeBytes

ObjectAccepts(b) == IsJsonb(b) /\ b.kind = "object" /\ b.stored <= MaxJSONBytes

TableAccepts(r) == TypeAccepts(r.text) /\ ObjectAccepts(r.content) /\ ObjectAccepts(r.refs)

-----------------------------------------------------------------------------
(* An append *)

Row(in) ==
    [text |-> in.text,
     content |-> OrDefault(Given(in, in.content)), refs |-> OrDefault(Given(in, in.refs))]

Init == input \in Inputs /\ pc = "new" /\ row = Omitted

Refuse ==
    /\ pc = "new" /\ ~PreCheck(input)
    /\ pc' = "refused"
    /\ UNCHANGED <<input, row>>

Send ==
    /\ pc = "new" /\ PreCheck(input)
    /\ pc' = "sent" /\ row' = Row(input)
    /\ UNCHANGED input

Decide ==
    /\ pc = "sent"
    /\ pc' = IF TableAccepts(row) THEN "stored" ELSE "rejected"
    /\ UNCHANGED <<input, row>>

Next == Refuse \/ Send \/ Decide

Spec == Init /\ [][Next]_vars

-----------------------------------------------------------------------------
(* Properties *)

\* No pre-check refuses what the table would have stored: whatever the three
\* rules say about blanks, bytes and JSON, the clients are never the stricter.
NoFalseRefusal == pc = "refused" => ~TableAccepts(Row(input))

\* The two writers give every text the same verdict; the object arguments have
\* no common form in the two languages.
WritersAgree ==
    LET bare(w) == [writer |-> w, text |-> input.text, content |-> Omitted, refs |-> Omitted]
    IN GoAccepts(bare("go")) <=> PyAccepts(bare("python"))

\* What a pre-check lets through fails at the server only for what the clients
\* leave to it: U+0000, what jsonb cannot represent, and the normalized size.
ServerDecidesOnly ==
    pc = "rejected" =>
        \/ 0 \in Range(row.text)
        \/ \E b \in {row.content, row.refs} : ~b.jsonb \/ b.stored > MaxJSONBytes

\* A stored event has a type that is not blank in any of the three senses, and
\* {} stands in it only where the caller wrote it or left the argument out.
StoredContract ==
    pc = "stored" =>
        /\ \E i \in DOMAIN row.text : ~GoSpace(row.text[i]) /\ row.text[i] \notin PyTrimSet
        /\ Bytes(row.text) <= MaxEventTypeBytes
        /\ row.content = OrDefault(input.content) /\ row.refs = OrDefault(input.refs)
        /\ row.content.kind = "object" /\ row.refs.kind = "object"
=============================================================================
