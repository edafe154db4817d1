---------------------------- MODULE MCRustWorker ----------------------------
(* Instances of RustWorker for TLC. *)
EXTENDS RustWorker, TLC

MCBackoff == <<1>>

Option(retries, prio, lifetime, wait) ==
  [max_retries |-> retries, priority |-> prio, ttl |-> lifetime,
   retry_backoff |-> (wait = NULL), retry_delay |-> wait, webhook |-> FALSE]

MCPlain   == {Option(2, 0, NULL, NULL)}
MCWithTtl == {Option(2, 0, 1, NULL)}

MCSymmetry == Permutations(Workers)
=============================================================================
