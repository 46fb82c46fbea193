---------------------------- MODULE TypeCompare ----------------------------
(***************************************************************************)
(* operator<=>(const type&, const type&) of src/libvast/src/type.cpp on  *)
(* the bytes of two types: the loop of ByteCompare, with operands the     *)
(* bytes of two trees of TypeEncoding, so the same run also checks the    *)
(* readers (table, type_index, name, operator bool, value_type) on the    *)
(* left operand.                                                          *)
(***************************************************************************)
EXTENDS TypeEncoding, ByteCompare

VARIABLES
    ltree, rtree    \* the types compared, as trees

vars == <<ltree, rtree, lhs0, rhs0, shared, lhs, rhs, pc, res>>

\* Any two types of the instance, compared by their bytes.
Init ==
    /\ ltree \in Trees
    /\ rtree \in Trees
    /\ CompareStart(Encode(ltree), Encode(rtree))

Next == CompareNext /\ UNCHANGED <<ltree, rtree>>

Spec == Init /\ [][Next]_vars

-----------------------------------------------------------------------------
TypeOK ==
    /\ ltree \in Trees /\ rtree \in Trees
    /\ shared \in BOOLEAN
    /\ lhs0 \in Seq(Nat) /\ rhs0 \in Seq(Nat)
    /\ lhs \in Seq(Nat) /\ rhs \in Seq(Nat)
    /\ pc \in {"entry", "loop", "done"}
    /\ res \in Orderings

\* The readers of type.cpp recover the structure from the bytes: type_index
\* and operator bool see through every alias, name reads the root only, and
\* value_type of a list is the bytes of its value type.
DecodeFaithful ==
    LET b == Encode(ltree)
        s == Stripped(ltree)
    IN /\ type_index(b) = TypeTag[s.kind]
       /\ TypeBool(b) <=> s.kind # "none"
       /\ name(b) = RefName(ltree)
       /\ s.kind = "list" => ListValue(b) = Encode(s.inner)
=============================================================================
