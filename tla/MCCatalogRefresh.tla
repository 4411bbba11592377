--------------------------- MODULE MCCatalogRefresh ---------------------------
(* An instance of CatalogRefresh for TLC: two hosts with a harness each.    *)
EXTENDS CatalogRefresh, TLC

CONSTANTS a, b, x, y

HostOfXY == (x :> a) @@ (y :> b)

Configurations == {[k \in {x, y} |-> "on"], (x :> "on") @@ (y :> "off"), (x :> "on") @@ (y :> "absent")}

=============================================================================
