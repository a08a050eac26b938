----------------------------- MODULE PdelayLink -----------------------------
(***************************************************************************)
(* What the two ends of a peer delay measurement share: the frames.        *)
(*                                                                         *)
(* A timestamp is reduced to the sequence number of the frame it was taken *)
(* of, so that a computation can be asked whether its four timestamps      *)
(* belong together.                                                        *)
(***************************************************************************)
EXTENDS Integers

CONSTANT SeqMod     \* sequence numbers are 0..SeqMod-1 (2^16 in the code)

ASSUME LinkAssumption == SeqMod \in Nat \ {0}

Seqs == 0..(SeqMod - 1)

NextSeq(s) == (s + 1) % SeqMod

PrevSeqSigned(s) == s - 1

PrevSeq(s) == (s + SeqMod - 1) % SeqMod

\* A Pdelay_Resp names the request it answers; rcpt is the request whose
\* receipt time (t2) it carries.
Resp == [kind : {"resp"}, seq : Seqs, rcpt : Seqs]

\* egress: the Pdelay_Resp whose transmit time (t3) the frame carries.
Fup == [kind : {"fup"}, seq : Seqs, egress : Seqs]

=============================================================================
