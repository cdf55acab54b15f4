-------------------------------- MODULE MCFiles --------------------------------
(* What is stored in bytes and rows, in one run: the model files (GgufFile),   *)
(* the way from a name to a tensor's rows (TensorLookup), the split of those   *)
(* rows over threads (RowPartition) and the packed rows of the K/V cache       *)
(* (KvPack).  They share no state: a behaviour is one of them, and the others  *)
(* are idle in it.                                                             *)
EXTENDS RowPartition, KvPack, MCGgufFile, MCTensorLookup

\* Small matrices on up to five cores: with 5 rows on 4 cores, or 7 on 5, a range
\* begins behind the last row, as 1025 rows do on 64 cores.
MCRows == 0..7
MCCores == 1..5

\* Lengths that end inside a byte, at one, and at a word; every width of the device's
\* rows, each but the narrowest of two words or more; rows of ones and rows in which
\* neighbouring indices differ.
RowLengths == {1, 2, 3, 6, 8, 9, 16, 32}
PackedOnDevice == {<<32, 1>>, <<32, 2>>, <<32, 3>>, <<16, 4>>, <<32, 5>>, <<16, 6>>, <<32, 7>>, <<8, 8>>}
BitsOf(v) == {k \in 0..7 : (v \div 2^k) % 2 = 1}
RowPatterns == {[i \in 0..31 |-> BitsOf((a * i + b) % 256)] : a \in {0, 1, 37}, b \in {1, 255}}

VARIABLE part   \* the one that runs

RowsIdle ==
  /\ nRows = 0 /\ nTok = 1 /\ nCores = 1 /\ fits = FALSE /\ room = FALSE
  /\ pc = "refused" /\ next = 0 /\ rest = 0
  /\ off = [w \in Workers |-> 0] /\ done = [w \in Workers |-> 0] /\ col = [w \in Workers |-> 0]
  /\ y = [p \in Places |-> Stale]

FilesInit ==
  \/ part = "rows" /\ Init /\ KvIdle /\ GgufIdle /\ LkIdle
  \/ part = "pack" /\ RowsIdle /\ KvInit /\ GgufIdle /\ LkIdle
  \/ part = "file" /\ RowsIdle /\ KvIdle /\ GgufInit /\ LkIdle
  \/ part = "lookup" /\ RowsIdle /\ KvIdle /\ GgufIdle /\ LkInit

Ended ==
  \/ part = "rows" /\ pc \in {"returned", "refused", "panicked"}
  \/ part = "pack" /\ kvAt = "stored"
  \/ part = "file" /\ phase \in {"done", "failed", "refused"}
  \/ part = "lookup" /\ lkAt \in {"refused", "panicked"}

FilesNext ==
  /\ \/ part = "rows" /\ Next /\ UNCHANGED <<kvVars, ggufVars, lkVars>>
     \/ part = "pack" /\ KvNext /\ UNCHANGED <<vars, ggufVars, lkVars>>
     \/ part = "file" /\ GgufNext /\ UNCHANGED <<vars, kvVars, lkVars>>
     \/ part = "lookup" /\ LkNext /\ UNCHANGED <<vars, kvVars, ggufVars>>
     \/ Ended /\ UNCHANGED <<vars, kvVars, ggufVars, lkVars>>
  /\ UNCHANGED part

FilesSpec ==
  /\ FilesInit /\ [][FilesNext]_<<part, vars, kvVars, ggufVars, lkVars>>
  /\ Fairness
=============================================================================
