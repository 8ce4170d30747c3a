--------------------------- MODULE MCInputRules ---------------------------
(***************************************************************************)
(* What a caller passes in: an append, with texts of up to three code      *)
(* points around every boundary of the rules, each from every writer, and  *)
(* one text with every pair of arguments; or an identifier, where an id,   *)
(* and an identity whose digest has four characters, are followed by all   *)
(* texts that differ from them by at most two edits.                       *)
(***************************************************************************)
EXTENDS InputRules, Identifiers

CONSTANT NoArg

\* A letter, U+0000, the ends and neighbours of the white-space ranges, each
\* width, and what is not UTF-8.
Alphabet == {-1, 0, 9, 14, 28, 65, 133, 160, 8203, 12288, 65279, 128512}

Texts == SeqOf(Alphabet, 3) \cup {<<65, 65, 65, 65, 65, 65>>, <<65, 65, 65, 65, 65, 65, 65>>}

JsonOf(k, r, s, j) == [kind |-> k, raw |-> r, stored |-> s, jsonb |-> j]

\* Objects below, at and above the limit, longer and shorter as stored, one that
\* jsonb cannot represent, and every other kind.
GoArguments ==
    {NoArg, Empty, JsonOf("malformed", 3, 0, FALSE), JsonOf("null", 4, 4, TRUE),
     JsonOf("array", 2, 2, TRUE), JsonOf("scalar", 1, 1, TRUE), JsonOf("object", 2, 2, TRUE),
     JsonOf("object", 9, 3, TRUE), JsonOf("object", 7, 8, TRUE), JsonOf("object", 8, 9, TRUE),
     JsonOf("object", 4, 4, FALSE)}

\* In Python, None is how an argument is left out, and there is no text to be empty.
PyArguments == {b \in GoArguments : b = NoArg \/ b.kind \notin {"empty", "null"}}

Call(w, t, c, r) == [writer |-> w, text |-> t, content |-> c, refs |-> r]

MCInputs ==
    {Call(w, t, NoArg, NoArg) : w \in Writers \ {"cli"}, t \in Texts}
    \cup {Call("cli", t, NoArg, NoArg) : t \in {t \in Texts : 0 \notin Range(t)}}
    \cup {Call(w, <<65>>, c, r) : w \in {"cli", "go"}, c \in GoArguments, r \in GoArguments}
    \cup {Call("python", <<65>>, c, r) : c \in PyArguments, r \in PyArguments}

-----------------------------------------------------------------------------

Uuid == <<"0", "1", "9", "2", "6", "a", "3", "e", "1", "c", "2", "d", "7", "0", "0", "0",
          "8", "a", "b", "c", "0", "1", "2", "3", "4", "5", "6", "7", "8", "9", "a", "b">>

MCOriginals == {Printed(Uuid), FormatIdentity(<<"9", "f", "8", "6">>)}

\* A digit that is a version, one that is a variant, both cases of a variant digit,
\* an upper-case digit that is none, the separators, and no digit.
MCCharacters == {"7", "9", "B", "C", "-", ":", "g"}

\* The append that stands for none, and the text that does.
NoAppend == Call("go", <<65>>, NoArg, NoArg)
NoText == Printed(Uuid)

MCInit == Init /\ TextInit /\ (input = NoAppend \/ text = NoText)
MCNext ==
    \/ text = NoText /\ edits = 0 /\ Next /\ UNCHANGED textVars
    \/ input = NoAppend /\ pc = "new" /\ Edit /\ UNCHANGED vars

MCSpec == MCInit /\ [][MCNext]_<<vars, textVars>>
=============================================================================
