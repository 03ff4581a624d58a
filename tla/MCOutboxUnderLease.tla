-------------------------- MODULE MCOutboxUnderLease --------------------------
(* The worker process and the web process, one cycle of the consumer each,  *)
(* or two cycles of the worker process.                                     *)
EXTENDS OutboxUnderLease, TLC

CONSTANTS c1, c2, worker, web

OneEach == (c1 :> worker) @@ (c2 :> web)
=============================================================================
