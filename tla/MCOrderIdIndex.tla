--------------------------- MODULE MCOrderIdIndex ---------------------------
(* OrderIdIndex for TLC: clusters that wrap around the end of the table.     *)
EXTENDS OrderIdIndex, TLC

MCIds == 1 .. 5

\* Three ids share the last bucket, the other two follow it.
MCHome == (1 :> Buckets - 1) @@ (2 :> Buckets - 1) @@ (3 :> Buckets - 1)
            @@ (4 :> 0) @@ (5 :> 1)
=============================================================================
