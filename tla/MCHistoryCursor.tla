---------------------------- MODULE MCHistoryCursor ----------------------------
(* Histories for the cursor: none, batches cut by their number of events, batches
   cut by their bytes, and an event too large for any batch.                *)
EXTENDS HistoryCursor

MCHistories == {<<>>, <<1, 1, 1>>, <<2, 2>>, <<1, 4>>}
=============================================================================
