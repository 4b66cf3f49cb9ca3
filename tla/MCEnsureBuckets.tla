--------------------------- MODULE MCEnsureBuckets ---------------------------
(* Three provisioners: one of two buckets, one of a bucket they share, and   *)
(* one that is not told where the store is.                                  *)
EXTENDS EnsureBuckets

CONSTANTS init, pod, stray, mlflow, other

MCArgv ==
  [p \in {init, pod, stray} |-> CASE p = init -> <<mlflow, other>>
                                  [] p = pod -> <<mlflow>>
                                  [] p = stray -> <<mlflow>>]
MCRuns == [p \in {init, pod, stray} |-> IF p = stray THEN 1 ELSE 2]
MCConfigured == [p \in {init, pod, stray} |-> p # stray]
=============================================================================
