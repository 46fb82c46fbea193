------------------------- MODULE ByteCompareProofs -------------------------
(***************************************************************************)
(* Proofs about ByteCompare: operator<=> computes the lexicographic order  *)
(* and agrees with operator== for every pair of byte sequences, not only  *)
(* for the bytes of the types a TLC instance enumerates.                  *)
(***************************************************************************)
EXTENDS ByteCompare, TLAPS, SequenceTheorems

(* The number of bytes the loop has consumed from each span.             *)
Consumed == Len(lhs0) - Len(lhs)

(* The inductive invariant, in four parts.  The remaining spans are the  *)
(* suffixes of the operands after the same number of bytes, all of them   *)
(* equal so far.                                                          *)
SpanInv ==
    /\ lhs0 \in Seq(Nat) /\ rhs0 \in Seq(Nat)
    /\ lhs \in Seq(Nat) /\ rhs \in Seq(Nat)
    /\ Len(lhs) <= Len(lhs0)
    /\ Len(rhs0) - Len(rhs) = Consumed
    /\ \A i \in 1..Len(lhs) : lhs[i] = lhs0[Consumed + i]
    /\ \A i \in 1..Len(rhs) : rhs[i] = rhs0[Consumed + i]
    /\ \A i \in 1..Consumed : lhs0[i] = rhs0[i]

(* Spans that share their data are views of equal bytes.                 *)
SharedInv == shared \in BOOLEAN /\ (shared => lhs0 = rhs0)

(* A result is recorded exactly when the comparison is done, and the     *)
(* loop starts on the whole operands.                                     *)
ControlInv ==
    /\ pc \in {"entry", "loop", "done"}
    /\ res \in Orderings
    /\ pc # "done" => res = "none"
    /\ pc = "done" => res # "none"
    /\ pc = "entry" => lhs = lhs0 /\ rhs = rhs0

(* Each result was returned for the reason the code returns it.          *)
ResultInv ==
    /\ res = "equal" => lhs0 = rhs0
    /\ res = "less" =>
         \/ lhs # <<>> /\ rhs # <<>> /\ lhs[1] < rhs[1]
         \/ lhs = <<>> /\ rhs # <<>>
    /\ res = "greater" =>
         \/ lhs # <<>> /\ rhs # <<>> /\ lhs[1] > rhs[1]
         \/ lhs # <<>> /\ rhs = <<>>
    /\ res = "equivalent" => lhs = <<>> /\ rhs = <<>>

CInv == SpanInv /\ SharedInv /\ ControlInv /\ ResultInv

-----------------------------------------------------------------------------
(* Lemmas on byte sequences and the reference order.                     *)

(* A byte sequence has a natural length, natural bytes, and is empty     *)
(* exactly when its length is zero.                                       *)
LEMMA SeqNat ==
    ASSUME NEW s \in Seq(Nat)
    PROVE  /\ Len(s) \in Nat
           /\ \A i \in 1..Len(s) : s[i] \in Nat
           /\ s = <<>> <=> Len(s) = 0
<1>1. Len(s) \in Nat /\ s \in [1..Len(s) -> Nat]
  BY LenProperties
<1>2. s = <<>> <=> Len(s) = 0
  BY <1>1, EmptySeq
<1>. QED BY <1>1, <1>2

(* Two sequences equal on their first k bytes and different at byte k+1 *)
(* are ordered by that byte, and are not equal.                           *)
LEMMA LexDiffAt ==
    ASSUME NEW a \in Seq(Nat), NEW b \in Seq(Nat), NEW k \in Nat,
           k < Len(a), k < Len(b),
           \A i \in 1..k : a[i] = b[i],
           a[k + 1] # b[k + 1]
    PROVE  /\ LexRef(a, b) = IF a[k + 1] < b[k + 1] THEN "less" ELSE "greater"
           /\ ~TypeEq(a, b)
<1>0. Len(a) \in Nat /\ Len(b) \in Nat
  BY SeqNat
<1>1. k + 1 \in Diff(a, b)
  BY <1>0 DEF Diff
<1>2. \A j \in Diff(a, b) : k + 1 <= j
  BY <1>0 DEF Diff
<1>3. FirstDiff(a, b) = k + 1
  <2>1. Diff(a, b) \subseteq Nat
    BY <1>0 DEF Diff
  <2>2. /\ FirstDiff(a, b) \in Diff(a, b)
        /\ \A m \in Diff(a, b) : FirstDiff(a, b) <= m
    BY <1>1, <1>2 DEF FirstDiff
  <2>. QED BY <1>1, <1>2, <2>1, <2>2
<1>4. LexRef(a, b) = IF a[k + 1] < b[k + 1] THEN "less" ELSE "greater"
  <2>1. Diff(a, b) # {}
    BY <1>1
  <2>. QED BY <2>1, <1>3 DEF LexRef
<1>5. ~TypeEq(a, b)
  BY <1>0 DEF TypeEq
<1>. QED BY <1>4, <1>5

(* Two sequences that agree up to the end of the shorter one are equal   *)
(* exactly when their lengths are, and otherwise the shorter is smaller.  *)
LEMMA LexPrefix ==
    ASSUME NEW a \in Seq(Nat), NEW b \in Seq(Nat), NEW k \in Nat,
           k = Len(a) \/ k = Len(b), k <= Len(a), k <= Len(b),
           \A i \in 1..k : a[i] = b[i]
    PROVE  /\ TypeEq(a, b) <=> Len(a) = Len(b)
           /\ Len(a) < Len(b) => LexRef(a, b) = "less"
           /\ Len(a) > Len(b) => LexRef(a, b) = "greater"
<1>0. Len(a) \in Nat /\ Len(b) \in Nat
  BY SeqNat
<1>1. Diff(a, b) = {}
  BY <1>0 DEF Diff
<1>2. TypeEq(a, b) <=> Len(a) = Len(b)
  BY <1>0 DEF TypeEq
<1>3. /\ Len(a) < Len(b) => LexRef(a, b) = "less"
      /\ Len(a) > Len(b) => LexRef(a, b) = "greater"
  BY <1>0, <1>1 DEF LexRef
<1>. QED BY <1>2, <1>3

-----------------------------------------------------------------------------
(* The inductive invariant.                                               *)

LEMMA InitCInv == CompareInit => CInv
<1> SUFFICES ASSUME CompareInit PROVE CInv
  OBVIOUS
<1>1. PICK a, b \in Seq(Nat) : CompareStart(a, b)
  BY DEF CompareInit
<1>2. Len(a) \in Nat /\ Len(b) \in Nat
  BY SeqNat
<1>3. SpanInv
  BY <1>1, <1>2 DEF CompareStart, SpanInv, Consumed
<1>4. SharedInv
  BY <1>1 DEF CompareStart, SharedInv
<1>5. ControlInv /\ ResultInv
  BY <1>1 DEF CompareStart, ControlInv, ResultInv, Orderings
<1>. QED BY <1>3, <1>4, <1>5 DEF CInv

(* No step of the comparison changes its operands.                       *)
LEMMA OperandsFixed ==
    CompareNext => /\ lhs0' = lhs0 /\ rhs0' = rhs0 /\ shared' = shared
BY DEF CompareNext, compare_fast_path, compare_enter, compare_step,
       compare_exit

LEMMA NextCInv == CInv /\ [CompareNext]_cvars => CInv'
<1> SUFFICES ASSUME CInv, [CompareNext]_cvars PROVE CInv'
  OBVIOUS
<1>0. /\ Len(lhs0) \in Nat /\ Len(rhs0) \in Nat
      /\ Len(lhs) \in Nat /\ Len(rhs) \in Nat
      /\ lhs = <<>> <=> Len(lhs) = 0
      /\ rhs = <<>> <=> Len(rhs) = 0
      /\ \A i \in 1..Len(lhs) : lhs[i] \in Nat
      /\ \A i \in 1..Len(rhs) : rhs[i] \in Nat
      /\ Len(lhs) <= Len(lhs0)
      /\ Len(rhs0) - Len(rhs) = Len(lhs0) - Len(lhs)
  BY SeqNat DEF CInv, SpanInv, Consumed
<1>1. CASE UNCHANGED cvars
  BY <1>1 DEF cvars, CInv, SpanInv, SharedInv, ControlInv, ResultInv,
              Consumed
<1>2. CASE CompareNext
  <2>0. lhs0' = lhs0 /\ rhs0' = rhs0
    BY <1>2, OperandsFixed
  <2>1. SharedInv'
    <3>1. shared' = shared
      BY <1>2, OperandsFixed
    <3>. QED BY <2>0, <3>1 DEF CInv, SharedInv
  <2>2. CASE compare_fast_path
    <3>1. /\ pc = "entry" /\ pc' = "done" /\ res' = "equal"
          /\ lhs' = lhs /\ rhs' = rhs
          /\ shared
      BY <2>2 DEF compare_fast_path
    <3>2. lhs0 = rhs0
      BY <3>1 DEF CInv, SharedInv
    <3>3. SpanInv'
      BY <2>0, <3>1 DEF CInv, SpanInv, Consumed
    <3>4. ControlInv' /\ ResultInv'
      BY <2>0, <3>1, <3>2 DEF ControlInv, ResultInv, Orderings
    <3>. QED BY <2>1, <3>3, <3>4 DEF CInv
  <2>3. CASE compare_enter
    <3>1. /\ pc = "entry" /\ pc' = "loop" /\ res' = res
          /\ lhs' = lhs /\ rhs' = rhs
      BY <2>3 DEF compare_enter
    <3>2. SpanInv'
      BY <2>0, <3>1 DEF CInv, SpanInv, Consumed
    <3>3. ControlInv' /\ ResultInv'
      BY <2>0, <3>1 DEF CInv, ControlInv, ResultInv
    <3>. QED BY <2>1, <3>2, <3>3 DEF CInv
  <2>4. CASE compare_step
    <3>1. /\ lhs # <<>> /\ rhs # <<>> /\ pc = "loop"
          /\ lhs[1] \in Nat /\ rhs[1] \in Nat
      BY <1>0, <2>4 DEF compare_step
    <3>2. CASE lhs[1] # rhs[1]
      <4>1. /\ lhs' = lhs /\ rhs' = rhs /\ pc' = "done"
            /\ res' = IF lhs[1] < rhs[1] THEN "less" ELSE "greater"
        BY <2>4, <3>1, <3>2 DEF compare_step
      <4>2. SpanInv'
        BY <2>0, <4>1 DEF CInv, SpanInv, Consumed
      <4>3. ControlInv'
        BY <4>1 DEF ControlInv, Orderings
      <4>4. ResultInv'
        BY <3>1, <3>2, <4>1 DEF ResultInv
      <4>. QED BY <2>1, <4>2, <4>3, <4>4 DEF CInv
    <3>3. CASE lhs[1] = rhs[1]
      <4>1. /\ lhs' = Tail(lhs) /\ rhs' = Tail(rhs)
            /\ pc' = pc /\ res' = res
        BY <2>4, <3>1, <3>3 DEF compare_step
      <4>2. /\ Tail(lhs) \in Seq(Nat) /\ Len(Tail(lhs)) = Len(lhs) - 1
            /\ \A i \in 1..Len(Tail(lhs)) : Tail(lhs)[i] = lhs[i + 1]
            /\ Tail(rhs) \in Seq(Nat) /\ Len(Tail(rhs)) = Len(rhs) - 1
            /\ \A i \in 1..Len(Tail(rhs)) : Tail(rhs)[i] = rhs[i + 1]
        BY <3>1, HeadTailProperties DEF CInv, SpanInv
      <4>3. /\ Len(lhs) > 0 /\ Len(rhs) > 0
            /\ Consumed \in Nat
            /\ Consumed' = Consumed + 1
            /\ Len(lhs') <= Len(lhs0')
            /\ Len(rhs0') - Len(rhs') = Consumed'
        BY <1>0, <2>0, <3>1, <4>1, <4>2 DEF Consumed
      <4>4. /\ \A i \in 1..Len(lhs) : lhs[i] = lhs0[Consumed + i]
            /\ \A i \in 1..Len(rhs) : rhs[i] = rhs0[Consumed + i]
            /\ \A i \in 1..Consumed : lhs0[i] = rhs0[i]
        BY DEF CInv, SpanInv
      <4>5. \A i \in 1..Consumed' : lhs0'[i] = rhs0'[i]
        <5>1. lhs0[Consumed + 1] = rhs0[Consumed + 1]
          <6>1. 1 \in 1..Len(lhs) /\ 1 \in 1..Len(rhs)
            BY <1>0, <4>3
          <6>. QED BY <3>3, <4>4, <6>1
        <5>. QED BY <2>0, <4>3, <4>4, <5>1
      <4>6. /\ \A i \in 1..Len(lhs') : lhs'[i] = lhs0'[Consumed' + i]
            /\ \A i \in 1..Len(rhs') : rhs'[i] = rhs0'[Consumed' + i]
        <5>1. \A i \in 1..Len(lhs') : i + 1 \in 1..Len(lhs) /\ lhs'[i] = lhs[i + 1]
          BY <1>0, <4>1, <4>2
        <5>2. \A i \in 1..Len(rhs') : i + 1 \in 1..Len(rhs) /\ rhs'[i] = rhs[i + 1]
          BY <1>0, <4>1, <4>2
        <5>. QED BY <2>0, <4>3, <4>4, <5>1, <5>2
      <4>8. SpanInv'
        BY <2>0, <4>1, <4>2, <4>3, <4>5, <4>6 DEF CInv, SpanInv
      <4>9. ControlInv' /\ ResultInv'
        BY <3>1, <4>1 DEF CInv, ControlInv, ResultInv
      <4>. QED BY <2>1, <4>8, <4>9 DEF CInv
    <3>. QED BY <3>2, <3>3
  <2>5. CASE compare_exit
    <3>1. /\ pc = "loop" /\ (lhs = <<>> \/ rhs = <<>>)
          /\ lhs' = lhs /\ rhs' = rhs /\ pc' = "done"
          /\ res' = IF lhs # <<>> THEN "greater"
                    ELSE IF rhs # <<>> THEN "less"
                    ELSE "equivalent"
      BY <2>5 DEF compare_exit
    <3>2. SpanInv'
      BY <2>0, <3>1 DEF CInv, SpanInv, Consumed
    <3>3. res' \in {"greater", "less", "equivalent"}
          /\ (res' = "greater" => lhs # <<>> /\ rhs = <<>>)
          /\ (res' = "less" => lhs = <<>> /\ rhs # <<>>)
          /\ (res' = "equivalent" => lhs = <<>> /\ rhs = <<>>)
      BY <3>1
    <3>4. ControlInv' /\ ResultInv'
      BY <3>1, <3>3 DEF ControlInv, ResultInv, Orderings
    <3>. QED BY <2>1, <3>2, <3>4 DEF CInv
  <2>. QED BY <1>2, <2>2, <2>3, <2>4, <2>5 DEF CompareNext
<1>. QED BY <1>1, <1>2

(* The result the invariant records is the reference's.                  *)
LEMMA CInvCorrect == CInv => CompareMatchesReference
<1> SUFFICES ASSUME CInv, pc = "done"
             PROVE  /\ res \in {"equal", "equivalent"} <=> TypeEq(lhs0, rhs0)
                    /\ res \in {"less", "greater"} => res = LexRef(lhs0, rhs0)
  BY DEF CompareMatchesReference
<1>0. /\ lhs0 \in Seq(Nat) /\ rhs0 \in Seq(Nat)
      /\ lhs \in Seq(Nat) /\ rhs \in Seq(Nat)
      /\ \A i \in 1..Consumed : lhs0[i] = rhs0[i]
      /\ \A i \in 1..Len(lhs) : lhs[i] = lhs0[Consumed + i]
      /\ \A i \in 1..Len(rhs) : rhs[i] = rhs0[Consumed + i]
  BY DEF CInv, SpanInv
<1>1. /\ Len(lhs0) \in Nat /\ Len(rhs0) \in Nat
      /\ Len(lhs) \in Nat /\ Len(rhs) \in Nat
      /\ lhs = <<>> <=> Len(lhs) = 0
      /\ rhs = <<>> <=> Len(rhs) = 0
      /\ \A i \in 1..Len(lhs) : lhs[i] \in Nat
      /\ \A i \in 1..Len(rhs) : rhs[i] \in Nat
  BY <1>0, SeqNat
<1>2. /\ Consumed \in Nat
      /\ Consumed = Len(lhs0) - Len(lhs)
      /\ Consumed = Len(rhs0) - Len(rhs)
      /\ Consumed <= Len(lhs0) /\ Consumed <= Len(rhs0)
  <2>1. Len(lhs) <= Len(lhs0) /\ Len(rhs0) - Len(rhs) = Consumed
    BY DEF CInv, SpanInv
  <2>. QED BY <1>1, <2>1 DEF Consumed
<1>3. res \in {"equal", "equivalent", "less", "greater"}
  BY DEF CInv, ControlInv, Orderings
<1>4. ResultInv
  BY DEF CInv
(* When a span is used up, the operands agree up to the shorter length. *)
<1>5. ASSUME lhs = <<>> \/ rhs = <<>>
      PROVE  /\ TypeEq(lhs0, rhs0) <=> Len(lhs0) = Len(rhs0)
             /\ Len(lhs0) < Len(rhs0) => LexRef(lhs0, rhs0) = "less"
             /\ Len(lhs0) > Len(rhs0) => LexRef(lhs0, rhs0) = "greater"
  <2>1. Consumed = Len(lhs0) \/ Consumed = Len(rhs0)
    BY <1>1, <1>2, <1>5
  <2>. QED BY <1>0, <1>2, <2>1, LexPrefix
<1>6. CASE res = "equal"
  <2>1. lhs0 = rhs0
    BY <1>4, <1>6 DEF ResultInv
  <2>. QED BY <1>6, <2>1, <1>1 DEF TypeEq
<1>7. CASE res = "equivalent"
  <2>1. lhs = <<>> /\ rhs = <<>>
    BY <1>4, <1>7 DEF ResultInv
  <2>2. Len(lhs0) = Len(rhs0)
    BY <1>1, <1>2, <2>1
  <2>. QED BY <1>5, <1>7, <2>1, <2>2
<1>8. CASE res \in {"less", "greater"}
           /\ lhs # <<>> /\ rhs # <<>> /\ lhs[1] # rhs[1]
  <2>1. /\ Consumed < Len(lhs0) /\ Consumed < Len(rhs0)
        /\ lhs[1] = lhs0[Consumed + 1] /\ rhs[1] = rhs0[Consumed + 1]
        /\ lhs[1] \in Nat /\ rhs[1] \in Nat
    <3>1. 1 \in 1..Len(lhs) /\ 1 \in 1..Len(rhs)
      BY <1>1, <1>8
    <3>2. Consumed < Len(lhs0) /\ Consumed < Len(rhs0)
      BY <1>1, <1>2, <3>1
    <3>. QED BY <1>0, <1>1, <3>1, <3>2
  <2>2. /\ LexRef(lhs0, rhs0)
             = IF lhs0[Consumed + 1] < rhs0[Consumed + 1]
               THEN "less" ELSE "greater"
        /\ ~TypeEq(lhs0, rhs0)
    <3>1. lhs0[Consumed + 1] # rhs0[Consumed + 1]
      BY <1>8, <2>1
    <3>. QED BY <1>0, <1>2, <2>1, <3>1, LexDiffAt
  <2>3. res = "less" <=> lhs[1] < rhs[1]
    BY <1>4, <1>8, <2>1 DEF ResultInv
  <2>. QED BY <1>8, <2>1, <2>2, <2>3
<1>9. CASE res \in {"less", "greater"}
           /\ ~(lhs # <<>> /\ rhs # <<>> /\ lhs[1] # rhs[1])
  <2>1. /\ res = "less" => lhs = <<>> /\ rhs # <<>>
        /\ res = "greater" => lhs # <<>> /\ rhs = <<>>
    <3>1. lhs # <<>> /\ rhs # <<>> => lhs[1] \in Nat /\ rhs[1] \in Nat
      BY <1>1
    <3>. QED BY <1>4, <1>9, <3>1 DEF ResultInv
  <2>2. /\ res = "less" => Len(lhs0) < Len(rhs0)
        /\ res = "greater" => Len(lhs0) > Len(rhs0)
    BY <1>1, <1>2, <2>1
  <2>. QED BY <1>5, <1>9, <2>1, <2>2
<1>. QED BY <1>3, <1>6, <1>7, <1>8, <1>9

(* operator<=> returns the lexicographic order of the bytes and          *)
(* equal/equivalent exactly when operator== holds, for all byte spans.    *)
THEOREM CompareCorrect == CompareSpec => []CompareMatchesReference
<1>1. CompareSpec => []CInv
  BY InitCInv, NextCInv, PTL DEF CompareSpec
<1>. QED BY <1>1, CInvCorrect, PTL

=============================================================================
