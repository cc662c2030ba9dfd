-------------------------- MODULE MCParallelConvert --------------------------
(* A small bag for ParallelConvert: two workers with two slots each; one     *)
(* message yields two clouds, two yield none, and two topics owe a trailing  *)
(* scan.  "raw" is copied; "stray" is a topic the metadata does not name.    *)
EXTENDS ParallelConvert

FourSlots == <<"a", "b", "c", "d">>
FourBag == <<"stray", "a", "c", "b", "raw", "a", "d">>
FourClouds == <<0, 1, 1, 0, 0, 2, 1>>
FourTrailing == {"b", "c"}
=============================================================================
