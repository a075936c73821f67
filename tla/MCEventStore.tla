---------------------------- MODULE MCEventStore ----------------------------
(* Small ledgers for EventStore.                                           *)
EXTENDS EventStore

(* Batches that overlap, so that a retry and a rival can collide.          *)
MCBatches == {{1, 2}, {2}, {3}}

SmallBatches == {{1, 2}, {2}}
=============================================================================
