--------------------------- MODULE MCTranscriptFeed ---------------------------
(* Instances of TranscriptFeed for TLC. *)
EXTENDS TranscriptFeed

CONSTANTS p1, p2  \* two panes of one agent in one directory

\* One reference is valid; the other is left out or not valid.  Between two listings
\* both are as if left out.
Reported == {[p \in {p1, p2} |-> IF p = p1 THEN "good" ELSE "absent"],
             [p \in {p1, p2} |-> IF p = p1 THEN "good" ELSE "invalid"]}

=============================================================================
