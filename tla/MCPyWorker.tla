----------------------------- MODULE MCPyWorker -----------------------------
(* Instances of PyWorker for TLC. *)
EXTENDS PyWorker, TLC

MCBackoff == <<1>>

Option(retries, prio, lifetime, hook) ==
  [max_retries |-> retries, priority |-> prio, ttl |-> lifetime, retry_backoff |-> FALSE,
   retry_delay |-> 1, webhook |-> hook]

MCWithTtl == {Option(2, 0, 1, TRUE)}
MCPlain   == {Option(2, 0, NULL, FALSE)}

MCSymmetry == Permutations(Workers)
=============================================================================
