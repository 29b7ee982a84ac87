-------------------------- MODULE MCBatchExecution --------------------------
(* Batches of one to three rows for BatchExecution.                         *)
EXTENDS BatchExecution

MCBatches == {<<1>>, <<2>>, <<1, 2>>, <<1, 1, 2>>}
=============================================================================
