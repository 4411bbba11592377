--------------------------- MODULE MCTranscriptPages ---------------------------
(* Instances of TranscriptPages for TLC. *)
EXTENDS TranscriptPages

\* One block at a time, and two that may be more than the bytes allow.
Limits == {[blocks |-> 1, bytes |-> 1], [blocks |-> 2, bytes |-> 2]}

=============================================================================
