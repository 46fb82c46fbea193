\* Legacy alias types: the alias handler returns the converted type instead
\* of assigning it, so the conversion yields the none type.
CONSTANTS
    AliasNames <- MCAliasNames
    BasicKinds <- MCBasicKinds
    LegacyKinds <- MCLegacyKindsWithAlias
    LegacyNames <- MCLegacyNames
    MaxDepth = 2
SPECIFICATION Spec
CHECK_DEADLOCK FALSE
INVARIANTS
    LegacyConversionFaithful
