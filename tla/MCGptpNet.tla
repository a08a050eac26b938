----------------------------- MODULE MCGptpNet -----------------------------
(***************************************************************************)
(* A ring of two slots that three event messages go through.               *)
(***************************************************************************)
EXTENDS GptpNet

BothSources == {"CPTS", "PHY"}
=============================================================================
