------------------------- MODULE HashingCopy_proofs -------------------------
(***************************************************************************)
(* What TLC checks of HashingCopy with a counter of four bits, for every   *)
(* width of the counter, every buffer size and every length.               *)
(***************************************************************************)
EXTENDS HashingCopy, TLAPS

\* How the bytes taken from the source, the bytes written and the bytes hashed
\* are related at each step of the loop.
CopyInv ==
    /\ TypeOK
    /\ n = written /\ hashed <= written
    /\ pc # "done" => hashed = written
    /\ pc \in {"count", "write"} => taken = written + nr
    /\ pc \in {"read", "next"} => taken = written
    /\ pc = "write" => written + nr <= MaxInt
    /\ pc = "done" => written <= taken
    /\ rerr = "EOF" => taken = length
    /\ result = "ok" => hashed = length /\ written = length
    /\ result = "tooLarge" => length > MaxInt

\* Nothing was read, written or hashed when the loop is entered.
LEMMA InitInv == Init => CopyInv
BY CopyAssumption DEF Init, CopyInv, TypeOK, ReadErrors, Results

\* Every step of the loop keeps CopyInv; the guard is what keeps the counter from
\* wrapping.
LEMMA StepInv == CopyInv /\ [Next]_vars => CopyInv'
<1> SUFFICES ASSUME CopyInv, [Next]_vars PROVE CopyInv'
  OBVIOUS
<1>0. /\ MaxInt \in Nat /\ BufSize \in Nat /\ length \in Nat /\ taken \in Nat
      /\ nr \in Nat /\ nr <= BufSize /\ written \in Nat /\ hashed \in Nat
      /\ n = written /\ n <= MaxInt /\ taken <= length
  BY CopyAssumption DEF CopyInv, TypeOK
<1>1. CASE Fill
  <2>1. PICK k \in 0..BufSize : taken + k <= length /\ nr' = k /\ taken' = taken + k
    BY <1>1 DEF Fill
  <2>2. /\ pc = "read" /\ pc' = (IF k > 0 THEN "count" ELSE "next") /\ result' = result
        /\ length' = length /\ written' = written /\ hashed' = hashed /\ n' = n
        /\ rerr' \in ReadErrors /\ (rerr' = "EOF" => taken + k = length)
    BY <1>1, <2>1 DEF Fill, Goto, sink
  <2>3. taken = written /\ hashed = written /\ result = "none"
    BY <2>2 DEF CopyInv, TypeOK, Results
  <2>4. TypeOK'
    BY <1>0, <2>1, <2>2, <2>3 DEF CopyInv, TypeOK
  <2> QED
    BY <1>0, <2>1, <2>2, <2>3, <2>4 DEF CopyInv
<1>2. CASE Count
  BY <1>0, <1>2 DEF Count, TooLarge, Return, Goto, source, sink, CopyInv, TypeOK, Results
<1>3. CASE Drain
  <2>1. /\ pc = "write" /\ length' = length /\ taken' = taken /\ nr' = nr /\ rerr' = rerr
        /\ taken = written + nr /\ hashed = written /\ written + nr <= MaxInt
    BY <1>3 DEF Drain, source, CopyInv
  <2>2. \A k \in 0..nr : Add(n, k) = n + k
    BY <1>0, <2>1 DEF Add
  <2>3. CASE /\ written' = written + nr /\ hashed' = hashed + nr /\ n' = Add(n, nr)
             /\ Goto("next")
    BY <1>0, <2>1, <2>2, <2>3 DEF Goto, CopyInv, TypeOK, Results
  <2>4. ASSUME NEW k \in 0..nr, written' = written + k, n' = Add(n, k),
               Return("writeError"), hashed' = hashed
        PROVE  CopyInv'
    BY <1>0, <2>1, <2>2, <2>4 DEF Return, CopyInv, TypeOK, Results
  <2> QED
    BY <1>3, <2>3, <2>4 DEF Drain
<1>4. CASE Advance
  BY <1>0, <1>4 DEF Advance, Return, Goto, source, sink, CopyInv, TypeOK, Results
<1>5. CASE UNCHANGED vars
  BY <1>5 DEF vars, source, sink, CopyInv, TypeOK
<1> QED
  BY <1>1, <1>2, <1>3, <1>4, <1>5 DEF Next

\* The invariant holds of every reachable state.
LEMMA InvHolds == Spec => []CopyInv
BY InitInv, StepInv, PTL DEF Spec

\* The counter stays a non-negative int64, whatever the source delivers.
THEOREM TypeCorrect == Spec => []TypeOK
<1>1. CopyInv => TypeOK
  BY DEF CopyInv
<1> QED
  BY InvHolds, <1>1, PTL

\* The counter is the number of bytes written and no source that it can represent
\* is refused as too large, at every width and every length.
THEOREM CountsWritten == Spec => []CounterExact
<1>1. CopyInv => CounterExact
  BY DEF CopyInv, CounterExact
<1> QED
  BY InvHolds, <1>1, PTL

\* A digest is one of the whole source, all of which reached the destination.
THEOREM DigestOfWhole == Spec => []SumOfWhole
<1>1. CopyInv => SumOfWhole
  BY DEF CopyInv, SumOfWhole, TypeOK
<1> QED
  BY InvHolds, <1>1, PTL
=============================================================================
