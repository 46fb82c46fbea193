\* operator<=> and the type readers on all types of nesting depth <= 2 over
\* three basic kinds and two alias names.
CONSTANTS
    AliasNames <- MCAliasNames
    BasicKinds <- MCBasicKinds
    MaxDepth = 2
SPECIFICATION Spec
CHECK_DEADLOCK FALSE
INVARIANTS
    TypeOK
    CompareMatchesReference
    DecodeFaithful
