--------------------------- MODULE MCNconfServer ---------------------------
(***************************************************************************)
(* Two handles, and every kind of request.                                 *)
(***************************************************************************)
EXTENDS NconfServer

AllKinds == {"get", "edit", "silent", "refused", "close", "kill", "unknown"}
=============================================================================
