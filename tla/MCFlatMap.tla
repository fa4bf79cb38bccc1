----------------------------- MODULE MCFlatMap -----------------------------
(***************************************************************************)
(* A small flat_map: four or eight buckets, keys whose homes collide, and  *)
(* one whose home is where the others wrap round the end, so that it gives *)
(* way to them.  There are two fingerprints.                               *)
(***************************************************************************)
EXTENDS FlatMap, TLC

CONSTANTS k1, k2, k3, k4

SmallHome  == k1 :> 7 @@ k2 :> 7 @@ k3 :> 3 @@ k4 :> 0
SmallPrint == k1 :> 0 @@ k2 :> 1 @@ k3 :> 0 @@ k4 :> 1
=============================================================================
