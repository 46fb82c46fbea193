-------------------------- MODULE LegacyConversion --------------------------
(***************************************************************************)
(* type::type(const legacy_type&) of src/libvast/src/type.cpp: a visitor   *)
(* over the legacy type that assigns *this the converted type.  A legacy   *)
(* type is a tree of [kind, name] and [kind, name, inner] records; its     *)
(* name may be empty.  One step converts one legacy type.                  *)
(***************************************************************************)
EXTENDS TypeEncoding

CONSTANTS
    LegacyKinds,  \* the legacy kinds the instance builds legacy types from
    LegacyNames   \* the names a legacy type may carry, <<>> among them

\* The kinds the visitor has no handler for (its TODO list).
UnsupportedKinds == {"pattern", "address", "subnet", "enumeration", "map", "record"}

ASSUME LegacyConversionAssumption ==
    /\ LegacyKinds \subseteq AllBasicKinds \cup {"list", "alias"} \cup UnsupportedKinds
    /\ LegacyNames \subseteq Seq(Nat)

LegacyTreeSet[d \in Nat] ==
    LET leaves == {[kind |-> k, name |-> n] :
                     k \in LegacyKinds \ {"list", "alias"}, n \in LegacyNames}
    IN IF d = 0 THEN leaves
       ELSE leaves \cup {[kind |-> k, name |-> n, inner |-> t] :
                           k \in LegacyKinds \cap {"list", "alias"},
                           n \in LegacyNames, t \in LegacyTreeSet[d - 1]}

LegacyTrees == LegacyTreeSet[MaxDepth]

\* The visitor: a basic legacy type becomes type{name, T{}}, a list becomes
\* type{name, list_type{type{value_type}}}.  The alias handler builds
\* type{name, type{value_type}} and returns it instead of assigning it, and
\* the catch-all handler does nothing, so *this keeps its default value.
RECURSIVE FromLegacy(_)
FromLegacy(l) ==
    CASE l.kind \in AllBasicKinds -> NamedType(l.name, BasicBytes(l.kind))
      [] l.kind = "list" -> NamedType(l.name, ListType(FromLegacy(l.inner)))
      [] OTHER           -> NoneRepr

VARIABLES
    leg,    \* the legacy type converted
    out,    \* the bytes of *this
    done    \* the constructor has returned

vars == <<leg, out, done>>

\* *this starts default-constructed: no table, the none representation.
Init ==
    /\ leg \in LegacyTrees
    /\ out = NoneRepr
    /\ done = FALSE

convert ==
    /\ ~done
    /\ out' = FromLegacy(leg)
    /\ done' = TRUE
    /\ UNCHANGED leg

Next == convert

Spec == Init /\ [][Next]_vars

-----------------------------------------------------------------------------
\* A legacy type none of whose parts is of a kind the visitor leaves to TODO.
RECURSIVE Supported(_)
Supported(l) ==
    /\ l.kind \notin UnsupportedKinds
    /\ l.kind \in {"list", "alias"} => Supported(l.inner)

RECURSIVE LegacyStripped(_)
LegacyStripped(l) == IF l.kind = "alias" THEN LegacyStripped(l.inner) ELSE l

RECURSIVE LegacyName(_)
LegacyName(l) ==
    CASE l.name # <<>>    -> <<"alias", l.name>>
      [] l.kind = "alias" -> LegacyName(l.inner)
      [] OTHER            -> <<"kind", l.kind>>

\* Converting a supported legacy type keeps its meaning, as the readers of
\* the new type see it: type_index is the kind under all legacy aliases,
\* name is the legacy name (or the kind's for an unnamed type), and the
\* value type of a list is the conversion of the legacy value type.
LegacyConversionFaithful ==
    done /\ Supported(leg) =>
        LET s == LegacyStripped(leg)
        IN /\ type_index(out) = TypeTag[s.kind]
           /\ name(out) = LegacyName(leg)
           /\ s.kind = "list" => ListValue(out) = FromLegacy(s.inner)
=============================================================================
