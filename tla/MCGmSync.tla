------------------------------ MODULE MCGmSync ------------------------------
(***************************************************************************)
(* GmSync with two ports; clocks 1 and 2 are better than this clock, 3.    *)
(***************************************************************************)
EXTENDS GmSync

ThreeClocks == {1, 2, 3}
=============================================================================
