------------------------- MODULE MCSequentialConvert -------------------------
(* A small bag for ReportedConvert: four topics whose messages alternate,   *)
(* three of which owe a trailing scan, a copied topic and a stray one.       *)
EXTENDS ReportedConvert

SomeSlots == <<"a", "b", "c", "d">>
SomeBag == <<"raw", "a", "b", "a", "stray", "c", "raw", "d", "b", "a">>
SomeClouds == <<0, 1, 2, 0, 0, 1, 0, 0, 1, 1>>
SomeTrailing == {"a", "c", "d"}
=============================================================================
