---------------------------- MODULE ByteCompare ----------------------------
(***************************************************************************)
(* operator<=>(const type&, const type&) of src/libvast/src/type.cpp as a  *)
(* state machine over the two byte spans as_bytes returns: the            *)
(* shared-buffer fast path, then one step per iteration of the while loop *)
(* and the length tie-break after it.  The operands are any byte          *)
(* sequences; TypeCompare supplies the bytes of two types.                *)
(***************************************************************************)
EXTENDS Integers, Sequences, ByteOrder

VARIABLES
    lhs0, rhs0,     \* as_bytes(lhs) and as_bytes(rhs)
    shared,         \* lhs_bytes.data() == rhs_bytes.data()
    lhs, rhs,       \* the remaining spans lhs_bytes and rhs_bytes
    pc,             \* "entry", "loop" or "done"
    res             \* the strong_ordering returned, "none" before

cvars == <<lhs0, rhs0, shared, lhs, rhs, pc, res>>

Orderings == {"none", "less", "greater", "equal", "equivalent"}

\* Entry with operands of bytes a and b.  Two spans share a data pointer
\* only when they are views of one buffer, so their bytes are equal.
CompareStart(a, b) ==
    /\ lhs0 = a
    /\ rhs0 = b
    /\ shared \in IF a = b THEN BOOLEAN ELSE {FALSE}
    /\ lhs = a
    /\ rhs = b
    /\ pc = "entry"
    /\ res = "none"

CompareInit == \E a, b \in Seq(Nat) : CompareStart(a, b)

\* Same data pointer and size: equal without looking at the bytes.
compare_fast_path ==
    /\ pc = "entry"
    /\ shared /\ Len(lhs) = Len(rhs)
    /\ pc' = "done"
    /\ res' = "equal"
    /\ UNCHANGED <<lhs0, rhs0, shared, lhs, rhs>>

compare_enter ==
    /\ pc = "entry"
    /\ ~(shared /\ Len(lhs) = Len(rhs))
    /\ pc' = "loop"
    /\ UNCHANGED <<lhs0, rhs0, shared, lhs, rhs, res>>

\* Mutant of compare_step: `<=` in the first test, so equal bytes stop the
\* loop with less.
compare_step_le ==
    /\ pc = "loop"
    /\ lhs # <<>> /\ rhs # <<>>
    /\ \/ /\ lhs[1] <= rhs[1]
          /\ res' = "less" /\ pc' = "done" /\ UNCHANGED <<lhs, rhs>>
       \/ /\ lhs[1] > rhs[1]
          /\ res' = "greater" /\ pc' = "done" /\ UNCHANGED <<lhs, rhs>>
    /\ UNCHANGED <<lhs0, rhs0, shared>>

\* One iteration of the while loop: the first bytes decide, or both spans
\* drop their first byte (subspan(1)).
compare_step ==
    /\ pc = "loop"
    /\ lhs # <<>> /\ rhs # <<>>
    /\ \/ /\ lhs[1] < rhs[1]
          /\ res' = "less" /\ pc' = "done" /\ UNCHANGED <<lhs, rhs>>
       \/ /\ lhs[1] > rhs[1]
          /\ res' = "greater" /\ pc' = "done" /\ UNCHANGED <<lhs, rhs>>
       \/ /\ lhs[1] = rhs[1]
          /\ lhs' = Tail(lhs) /\ rhs' = Tail(rhs)
          /\ UNCHANGED <<pc, res>>
    /\ UNCHANGED <<lhs0, rhs0, shared>>

\* Mutant of compare_exit: the tie of two emptied spans is reported as
\* unordered, as a partial ordering would.
compare_exit_unordered ==
    /\ pc = "loop"
    /\ lhs = <<>> \/ rhs = <<>>
    /\ res' = IF lhs # <<>> THEN "greater"
              ELSE IF rhs # <<>> THEN "less"
              ELSE "unordered"
    /\ pc' = "done"
    /\ UNCHANGED <<lhs0, rhs0, shared, lhs, rhs>>

\* The loop ends when a span is empty; the longer one is greater.
compare_exit ==
    /\ pc = "loop"
    /\ lhs = <<>> \/ rhs = <<>>
    /\ res' = IF lhs # <<>> THEN "greater"
              ELSE IF rhs # <<>> THEN "less"
              ELSE "equivalent"
    /\ pc' = "done"
    /\ UNCHANGED <<lhs0, rhs0, shared, lhs, rhs>>

CompareNext == compare_fast_path \/ compare_enter \/ compare_step \/ compare_exit

CompareSpec == CompareInit /\ [][CompareNext]_cvars

-----------------------------------------------------------------------------
\* operator<=> agrees with the lexicographic order on the bytes, and reports
\* equal/equivalent exactly when operator== holds: the fast path, the loop
\* and the length tie-break after it together give a strong ordering.
CompareMatchesReference ==
    pc = "done" =>
        /\ res \in {"equal", "equivalent"} <=> TypeEq(lhs0, rhs0)
        /\ res \in {"less", "greater"} => res = LexRef(lhs0, rhs0)

=============================================================================
