---------------------------- MODULE MCPdelayReq ----------------------------
(***************************************************************************)
(* An instance of PdelayReq for TLC.                                       *)
(***************************************************************************)
EXTENDS PdelayReq

SeqOne == {1}

=============================================================================
