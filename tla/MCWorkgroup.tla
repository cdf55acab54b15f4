----------------------------- MODULE MCWorkgroup -----------------------------
(* Four lanes stand for the 256 of a real workgroup: a tree of two levels,   *)
(* and rows shorter and longer than the workgroup.                           *)
EXTENDS Workgroup

\* Every kernel whose barriers are in place, and one whose are not.
SoundPrograms == {"rms_norm", "l2_inplace", "pq2_rowsum", "pq2_rowsum_n", "pq2_matvec_fused"}
SoftmaxPrograms == {"softmax_row"}
=============================================================================
