------------------------ MODULE MCMarketDataWorker ------------------------
(* Two attempts, batches of two quotes, two strategies, two runs of the process. *)
EXTENDS MarketDataWorkerProps
MCFaults == {"poll", "quote", "strategy"}
=============================================================================
