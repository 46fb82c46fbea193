\* Conversion of every legacy type of depth <= 2 over basic kinds, lists and
\* one unsupported kind, named and unnamed.
CONSTANTS
    AliasNames <- MCAliasNames
    BasicKinds <- MCBasicKinds
    LegacyKinds <- MCLegacyKinds
    LegacyNames <- MCLegacyNames
    MaxDepth = 2
SPECIFICATION Spec
CHECK_DEADLOCK FALSE
INVARIANTS
    LegacyConversionFaithful
