--------------------------- MODULE TypeEncoding ---------------------------
(***************************************************************************)
(* The byte representation of vast::type (src/libvast/src/type.cpp).       *)
(*                                                                         *)
(* A type is the byte span as_bytes returns: a FlatBuffers table whose     *)
(* union tag says which kind it is.  The model keeps what the code reads  *)
(* of those bytes and abstracts the FlatBuffers layout:                   *)
(*   - a basic type is its tag;                                           *)
(*   - a list type is the list tag, then its nested value type as a       *)
(*     length-prefixed vector;                                            *)
(*   - an alias type is the alias tag, then a length-prefixed name, then  *)
(*     the nested type as a length-prefixed vector.                       *)
(* Every byte is a natural number, and byte-wise comparison is done on    *)
(* these sequences, as operator<=> does on the buffers.                   *)
(***************************************************************************)
EXTENDS Integers, Sequences, ByteOrder

CONSTANTS
    AliasNames,   \* the names an alias may carry (non-empty byte sequences)
    BasicKinds,   \* the basic kinds the instance builds types from
    MaxDepth      \* nesting bound of list and alias types

\* The vast.fbs.Type union tags, in the order of the switch in type::table
\* and type::name; the T::type_index functions return these values.
TypeTag == [none |-> 0, bool |-> 1, integer |-> 2, count |-> 3, real |-> 4,
            duration |-> 5, time |-> 6, string |-> 7, list |-> 8, alias |-> 9]

AllBasicKinds ==
    {"none", "bool", "integer", "count", "real", "duration", "time", "string"}

ASSUME TypeEncodingAssumption ==
    /\ BasicKinds \subseteq AllBasicKinds
    /\ AliasNames \subseteq Seq(Nat) \ {<<>>}
    /\ MaxDepth \in Nat

(***************************************************************************)
(* Constructors: the bytes each as_bytes / constructor produces.           *)
(***************************************************************************)

\* as_bytes(T) for a basic kind T: a static buffer holding only the tag.
BasicBytes(k) == <<TypeTag[k]>>

\* none_type_representation(): what as_bytes returns for a type{} without
\* a table, the same bytes as as_bytes(none_type{}).
NoneRepr == BasicBytes("none")

\* list_type(value_type): the list tag and the value type's bytes as a vector.
ListType(v) == <<TypeTag.list, Len(v)>> \o v

\* Mutant of NamedType: the empty-name special case dropped.
NamedType_always_alias(name, nested) ==
    <<TypeTag.alias, Len(name)>> \o name \o <<Len(nested)>> \o nested

\* type(name, nested): an empty name yields nested itself, otherwise an alias
\* table with the name and the nested bytes.
NamedType(name, nested) ==
    IF name = <<>> THEN nested
    ELSE <<TypeTag.alias, Len(name)>> \o name \o <<Len(nested)>> \o nested

(***************************************************************************)
(* Readers of the bytes.                                                   *)
(***************************************************************************)

\* root->type_type(): the union tag of the root table.
Tag(b) == b[1]

\* type_as_alias_type_v0()->name().
AliasName(b) == SubSeq(b, 3, 2 + b[2])

\* type_as_alias_type_v0()->type_nested_root().
AliasNested(b) ==
    LET o == 3 + b[2] IN SubSeq(b, o + 1, o + b[o])

\* Mutant of table: an `if` instead of the `while`, unwrapping one alias only.
table_single_unwrap(b, transparent) ==
    IF transparent /\ Tag(b) = TypeTag.alias THEN AliasNested(b) ELSE b

\* type::table(transparent): with transparent::yes every alias is unwrapped
\* until a non-alias table is reached; with transparent::no the root itself.
RECURSIVE table(_, _)
table(b, transparent) ==
    IF transparent /\ Tag(b) = TypeTag.alias
    THEN table(AliasNested(b), TRUE)
    ELSE b

\* type::type_index(): the tag of the transparent table.
type_index(b) == Tag(table(b, TRUE))

\* type::operator bool(): the transparent table is not NONE.
TypeBool(b) == type_index(b) # TypeTag.none

\* The kind whose tag is t.
KindOf(t) == CHOOSE k \in DOMAIN TypeTag : TypeTag[k] = t

\* type::name(): the kind's name for a basic or list root, the alias's own
\* name for an alias root (no unwrapping).
name(b) ==
    IF Tag(b) = TypeTag.alias THEN <<"alias", AliasName(b)>>
    ELSE <<"kind", KindOf(Tag(b))>>

\* list_type::value_type(): the slice of the table holding the value type.
ListValue(b) == SubSeq(table(b, TRUE), 3, 2 + table(b, TRUE)[2])

(***************************************************************************)
(* The structure the bytes stand for, as the reference the readers are     *)
(* checked against: a tree of [kind], [kind, inner] and [kind, name, inner]*)
(* records.                                                                *)
(***************************************************************************)
TreeSet[d \in Nat] ==
    LET leaves == {[kind |-> k] : k \in BasicKinds}
    IN IF d = 0 THEN leaves
       ELSE leaves
            \cup {[kind |-> "list", inner |-> t] : t \in TreeSet[d - 1]}
            \cup {[kind |-> "alias", name |-> n, inner |-> t] :
                    n \in AliasNames, t \in TreeSet[d - 1]}

Trees == TreeSet[MaxDepth]

\* The bytes of a tree, built with the constructors above.
RECURSIVE Encode(_)
Encode(t) ==
    CASE t.kind = "list"  -> ListType(Encode(t.inner))
      [] t.kind = "alias" -> NamedType(t.name, Encode(t.inner))
      [] OTHER            -> BasicBytes(t.kind)

\* A tree with its outer aliases removed.
RECURSIVE Stripped(_)
Stripped(t) == IF t.kind = "alias" THEN Stripped(t.inner) ELSE t

\* The name a tree's root carries.
RefName(t) ==
    IF t.kind = "alias" THEN <<"alias", t.name>> ELSE <<"kind", t.kind>>

=============================================================================
