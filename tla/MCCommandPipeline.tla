------------------------- MODULE MCCommandPipeline --------------------------
(* CommandPipeline on small rings; replay sequences and restore points lie    *)
(* below and at the end of the sequence domain.                               *)
EXTENDS CommandPipeline

MCReplaySequences == {1}
MCRestorePoints == {2}
=============================================================================
