------------------------------ MODULE MCCatalog ------------------------------
(***************************************************************************)
(* Small instances of Catalog for TLC: two tasks, one index deleted and    *)
(* created again, one system index.                                        *)
(***************************************************************************)
EXTENDS Catalog

CONSTANTS t1, t2
=============================================================================
