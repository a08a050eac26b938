----------------------------- MODULE MCSimpleDb -----------------------------
(***************************************************************************)
(* Three keys: one is a prefix of another, one is beyond what is saved.    *)
(***************************************************************************)
EXTENDS SimpleDb

ThreeKeys == {<<0>>, <<0, 1>>, <<8>>}
LastRw == <<7>>
=============================================================================
