------------------------------- MODULE MCWal --------------------------------
(* Wal with two batch limits: nothing, and less than the ring holds.          *)
EXTENDS Wal

MCBatchSizes == {0, 2}
=============================================================================
