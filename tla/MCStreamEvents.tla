----------------------------- MODULE MCStreamEvents -----------------------------
(* Streams of one attempt, for TLC. *)
EXTENDS StreamEvents
=============================================================================
