------------------------------ MODULE MCStorage ------------------------------
(* Instances of StorageAPI for TLC. *)
EXTENDS StorageAPI, TLC

MCBackoff == <<1, 2>>

MCOptions ==
  {[max_retries |-> 0, priority |-> 0, ttl |-> 1, retry_backoff |-> TRUE,
    retry_delay |-> NULL, webhook |-> FALSE],
   [max_retries |-> 2, priority |-> 1, ttl |-> NULL, retry_backoff |-> FALSE,
    retry_delay |-> NULL, webhook |-> FALSE]}

MCSymmetry == Permutations(Workers) \cup Permutations(Callers)
=============================================================================
