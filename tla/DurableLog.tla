----------------------------- MODULE DurableLog -----------------------------
(***************************************************************************)
(* What the write-ahead log promises to the three roles that use it, with   *)
(* no ring, no frontiers and no file.  Records are accepted in order, made  *)
(* durable in order and in batches, and delivered in order, each one only   *)
(* after it is durable.  At most Capacity accepted records are waiting for  *)
(* delivery.  The k-th record accepted in a session carries the payload     *)
(* k - 1: payloads are distinct, so a lost, repeated, reordered or          *)
(* overwritten record is visible in what is delivered.                      *)
(***************************************************************************)
EXTENDS Integers, Sequences

CONSTANTS Capacity,   \* blocks of the bounded buffer
          MaxRecords  \* records that have a physical sequence number

VARIABLES isOpen,     \* a session is running
          accepted,   \* records accepted from the producer
          disk,       \* payloads that are durable, oldest first
          delivered,  \* payloads handed to the consumer, oldest first
          broken      \* durability has failed for good

vars == <<isOpen, accepted, disk, delivered, broken>>

Init == /\ isOpen = FALSE
        /\ accepted = 0
        /\ disk = <<>>
        /\ delivered = <<>>
        /\ broken = FALSE

Start == /\ ~isOpen
         /\ isOpen' = TRUE
         /\ broken' = FALSE
         /\ UNCHANGED <<accepted, disk, delivered>>

Accept == /\ isOpen
          /\ accepted < MaxRecords
          /\ accepted - Len(delivered) < Capacity
          /\ accepted' = accepted + 1
          /\ UNCHANGED <<isOpen, disk, delivered, broken>>

Harden == /\ isOpen
          /\ ~broken
          /\ \E n \in 1 .. accepted - Len(disk) :
               disk' = disk \o [i \in 1 .. n |-> Len(disk) + i - 1]
          /\ UNCHANGED <<isOpen, accepted, delivered, broken>>

Break == /\ isOpen
         /\ broken' = TRUE
         /\ UNCHANGED <<isOpen, accepted, disk, delivered>>

Deliver == /\ isOpen
           /\ Len(delivered) < Len(disk)
           /\ delivered' = Append(delivered, disk[Len(delivered) + 1])
           /\ UNCHANGED <<isOpen, accepted, disk, broken>>

\* A session ends only when everything durable was delivered, and, unless
\* durability failed, only when everything accepted is durable.
Finish == /\ isOpen
          /\ delivered = disk
          /\ ~broken => Len(disk) = accepted
          /\ isOpen' = FALSE
          /\ accepted' = 0
          /\ disk' = <<>>
          /\ delivered' = <<>>
          /\ UNCHANGED broken

Next == Start \/ Accept \/ Harden \/ Break \/ Deliver \/ Finish

Spec == Init /\ [][Next]_vars
=============================================================================
