------------------------------- MODULE MCOutbox -------------------------------
(* Small outboxes for TLC.                                                  *)
EXTENDS Outbox, TLC

Symmetry == Permutations(Workers) \cup Permutations(Requeuers)
=============================================================================
