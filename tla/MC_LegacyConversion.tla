------------------------ MODULE MC_LegacyConversion ------------------------
EXTENDS LegacyConversion

MCAliasNames == {<<1>>}
MCBasicKinds == {"none"}
MCLegacyKinds == {"none", "bool", "count", "list", "pattern"}
MCLegacyKindsWithAlias == MCLegacyKinds \cup {"alias"}
MCLegacyNames == {<<>>, <<1>>, <<2, 1>>}
=============================================================================
