--------------------------- MODULE MC_TypeCompare ---------------------------
EXTENDS TypeCompare

MCAliasNames == {<<1>>, <<2, 1>>}
MCBasicKinds == {"none", "bool", "string"}
=============================================================================
