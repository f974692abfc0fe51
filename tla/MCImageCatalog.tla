--------------------------- MODULE MCImageCatalog ---------------------------
(***************************************************************************)
(* Instance of ImageCatalog for TLC. The names of the working set are      *)
(* interchangeable, and so are the contents; the default image is not. The *)
(* properties are invariants and an action property that are symmetric.    *)
(***************************************************************************)
EXTENDS ImageCatalog, TLC

CONSTANTS w, v, d, n1, i1, i2

Symmetry == Permutations(Mine) \cup Permutations(Ids)
=============================================================================
