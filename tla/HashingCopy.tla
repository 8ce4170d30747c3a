---------------------------- MODULE HashingCopy ----------------------------
(***************************************************************************)
(* hashingCopy of pkg/cas: the loop behind every put, get and verification *)
(* that copies a source to a destination, hashes it, and counts its bytes  *)
(* in a signed integer of fixed width.                                     *)
(***************************************************************************)
EXTENDS Integers

CONSTANTS
    MaxInt,         \* the largest value of the counter (math.MaxInt64)
    BufSize,        \* the buffer (32 KiB)
    Lengths         \* lengths a source may have

ASSUME CopyAssumption ==
    MaxInt \in Nat /\ BufSize \in Nat \ {0} /\ BufSize <= MaxInt /\ Lengths \subseteq Nat

VARIABLES
    length,         \* bytes of the source
    taken,          \* bytes read from it
    nr, rerr,       \* what the last Read returned
    written,        \* bytes that reached the destination
    hashed,         \* bytes that reached the hash
    n,              \* the counter
    pc, result

source == <<length, taken>>
sink == <<written, hashed, n>>
vars == <<source, nr, rerr, sink, pc, result>>

ReadErrors == {"none", "EOF", "error"}
Results == {"none", "ok", "tooLarge", "writeError", "readError"}

TypeOK ==
    /\ length \in Lengths /\ taken \in 0..length
    /\ nr \in 0..BufSize /\ rerr \in ReadErrors
    /\ written \in Nat /\ hashed \in Nat
    /\ n \in 0..MaxInt
    /\ pc \in {"read", "count", "write", "next", "done"}
    /\ result \in Results
    /\ result # "none" <=> pc = "done"

Init ==
    /\ length \in Lengths /\ taken = 0
    /\ nr = 0 /\ rerr = "none"
    /\ written = 0 /\ hashed = 0 /\ n = 0
    /\ pc = "read" /\ result = "none"

-----------------------------------------------------------------------------

\* int64 addition of non-negative numbers.
Add(a, b) == IF a + b > MaxInt THEN a + b - 2 * (MaxInt + 1) ELSE a + b

Return(r) == pc' = "done" /\ result' = r
Goto(l) == pc' = l /\ UNCHANGED result

\* Mutant of Fill: an error of Read makes the loop skip the data it came with.
ErrorFirst ==
    /\ pc = "read"
    /\ \E k \in 0..BufSize :
          /\ taken + k <= length
          /\ nr' = k /\ taken' = taken + k
    /\ rerr' \in ReadErrors
    /\ rerr' = "EOF" => taken' = length
    /\ Goto(IF nr' > 0 /\ rerr' = "none" THEN "count" ELSE "next")
    /\ UNCHANGED <<length, sink>>

\* A reader may return data together with an error, or nothing at all.
Fill ==
    /\ pc = "read"
    /\ \E k \in 0..BufSize :
          /\ taken + k <= length
          /\ nr' = k /\ taken' = taken + k
    /\ rerr' \in ReadErrors
    /\ rerr' = "EOF" => taken' = length
    /\ Goto(IF nr' > 0 THEN "count" ELSE "next")
    /\ UNCHANGED <<length, sink>>

\* Mutant of TooLarge: the sum is compared after it has wrapped.
WrapsFirst(a, b) == Add(a, b) > MaxInt

\* The guard, itself free of overflow.
TooLarge(a, b) == a > MaxInt - b

Count ==
    /\ pc = "count"
    /\ IF TooLarge(n, nr) THEN Return("tooLarge") ELSE Goto("write")
    /\ UNCHANGED <<source, nr, rerr, sink>>

\* io.MultiWriter: the destination first, the hash only if all of it went.
Drain ==
    /\ pc = "write"
    /\ \/ /\ written' = written + nr /\ hashed' = hashed + nr /\ n' = Add(n, nr)
          /\ Goto("next")
       \/ /\ \E nw \in 0..nr : written' = written + nw /\ n' = Add(n, nw)
          /\ Return("writeError")
          /\ UNCHANGED hashed
    /\ UNCHANGED <<source, nr, rerr>>

\* Mutant of Advance: the end of the source is not noticed.
NeverEnds ==
    /\ pc = "next"
    /\ IF rerr = "error" THEN Return("readError") ELSE Goto("read")
    /\ UNCHANGED <<source, nr, rerr, sink>>

\* The error of a read is looked at after its data.
Advance ==
    /\ pc = "next"
    /\ \/ rerr = "none" /\ Goto("read")
       \/ rerr = "EOF" /\ Return("ok")
       \/ rerr = "error" /\ Return("readError")
    /\ UNCHANGED <<source, nr, rerr, sink>>

Next == Fill \/ Count \/ Drain \/ Advance

Spec == Init /\ [][Next]_vars

\* The reader does not return nothing, without an error, for ever.
Delivers == Fill /\ (nr' > 0 \/ rerr' # "none")
FairSpec == Spec /\ WF_vars(Next) /\ SF_vars(Delivers)

-----------------------------------------------------------------------------
(* Properties *)

\* The counter never wraps: it is the number of bytes that were written, which
\* WriteFile and Verify compare with a size, however long the source is; and
\* only a source that does not fit the counter is refused as too large.
CounterExact == n = written /\ (result = "tooLarge" => length > MaxInt)

\* A digest is returned only for all the bytes of the source, all of them at the
\* destination; before that the hash has seen no more than the destination.
SumOfWhole ==
    /\ hashed <= written /\ written <= taken
    /\ result = "ok" => hashed = length /\ written = length

\* The copy ends, if the reader goes on delivering.
CopyEnds == <>(pc = "done")
=============================================================================
