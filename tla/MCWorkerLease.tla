---------------------------- MODULE MCWorkerLease ----------------------------
(***************************************************************************)
(* Small deployments for TLC. The cycles of the dedicated worker process   *)
(* all use its one holderId; the web process and the cron route give every *)
(* cycle an id of its own.                                                 *)
(***************************************************************************)
EXTENDS WorkerLease, TLC

CONSTANTS a1, a2, a3, worker, web

\* Two cycles of the worker process and one of the web process.
WorkerAndWeb == (a1 :> worker) @@ (a2 :> worker) @@ (a3 :> web)
=============================================================================
