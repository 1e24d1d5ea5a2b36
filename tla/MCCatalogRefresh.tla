--------------------------- MODULE MCCatalogRefresh ---------------------------
(* A small instance of CatalogRefresh for TLC. *)
EXTENDS CatalogRefresh

CONSTANTS c1, c2, tools, resources

TwoCallers == {c1, c2}
TwoFamilies == {tools, resources}
=============================================================================
