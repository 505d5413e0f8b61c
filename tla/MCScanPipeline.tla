--------------------------- MODULE MCScanPipeline ---------------------------
(***************************************************************************)
(* Values for the constants of ScanPipeline: tables whose last buffer is   *)
(* full, partly filled and of a single page.                               *)
(***************************************************************************)
EXTENDS ScanPipeline

MCPageCounts == <<7, 1, 4>>
=============================================================================
