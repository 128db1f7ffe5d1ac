------------------------------ MODULE MCCatalog ------------------------------
(* The instances of Catalog that TLC checks.                                *)
EXTENDS Catalog, TLC

(* The commands treat all names alike.             *)
Alike == Permutations(PartNames) \cup Permutations(SegNames)
=============================================================================
