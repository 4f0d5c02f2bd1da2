----------------------------- MODULE MCLogQueue -----------------------------
(***************************************************************************)
(* LogQueue with a batch size within the bound of the queue, as deployed,  *)
(* and with the bound below the batch size, as its tests configure it.     *)
(***************************************************************************)
EXTENDS LogQueue

MCConfigs ==
  { [batchSize |-> 2, maxPending |-> 4], [batchSize |-> 3, maxPending |-> 3],
    [batchSize |-> 4, maxPending |-> 2] }
=============================================================================
