-------------------------- MODULE MCClickPipeline --------------------------
(* An instance of ClickPipeline for TLC. *)
EXTENDS ClickPipeline
=============================================================================
