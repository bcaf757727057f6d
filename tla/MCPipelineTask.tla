--------------------------- MODULE MCPipelineTask ---------------------------
(***************************************************************************)
(* Small instances of PipelineTask for TLC.                                *)
(***************************************************************************)
EXTENDS PipelineTask

(* Data, a CancelFrame that the client queues itself, and a graceful stop. *)
Call == <<"Text", "Cancel", "End">>

(* The least that fills a lane and stops the task. *)
Brief == <<"Text", "End">>
=============================================================================
