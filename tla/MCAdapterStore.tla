--------------------------- MODULE MCAdapterStore ---------------------------
(* Instances of AdapterStore for TLC.                                      *)
EXTENDS AdapterStore, TLC

CatalogueSymmetry == Permutations(Slots)
=============================================================================
