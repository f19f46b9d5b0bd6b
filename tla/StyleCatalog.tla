--------------------------- MODULE StyleCatalog ---------------------------
(***************************************************************************)
(* What the configuration route and the learned styles promise together:   *)
(* a catalog of style definitions, and for each style at most one learned  *)
(* definition the container works with.  The catalog is replaced only      *)
(* while nothing is known, so a style is known only by the definition that *)
(* is in force.  Styles.tla is shown to implement it.                      *)
(***************************************************************************)
CONSTANTS StyleIds, Defs, NoDef

VARIABLES catalog, known

Catalogs == [StyleIds -> Defs \cup {NoDef}]
Nothing == [s \in StyleIds |-> NoDef]

CatalogInit == catalog = Nothing /\ known = Nothing

\* A replacement begins: everything learned is out of use.
Suspend == known' = Nothing /\ UNCHANGED catalog

\* The new catalog is put in place.
Replace == known = Nothing /\ catalog' \in Catalogs /\ UNCHANGED known

\* The replacement ends: the styles of K, learned before, are back in use.
Recall ==
    /\ known = Nothing
    /\ \E K \in SUBSET StyleIds :
          known' = [s \in StyleIds |-> IF s \in K THEN catalog[s] ELSE NoDef]
    /\ UNCHANGED catalog

\* A style is learned from its upstream document.
Learn ==
    /\ \E s \in StyleIds : catalog[s] # NoDef /\ known' = [known EXCEPT ![s] = catalog[s]]
    /\ UNCHANGED catalog

\* The process starts again.
Reset == catalog' = Nothing /\ known' = Nothing

CatalogNext == Suspend \/ Replace \/ Recall \/ Learn \/ Reset
CatalogSpec == CatalogInit /\ [][CatalogNext]_<<catalog, known>>
=============================================================================
