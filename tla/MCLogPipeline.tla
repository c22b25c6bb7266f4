--------------------------- MODULE MCLogPipeline -----------------------------
(***************************************************************************)
(* LogPipeline with a channel and batches of two, and enough entries to    *)
(* fill both while a flush is running.                                     *)
(***************************************************************************)
EXTENDS LogPipeline

=============================================================================
