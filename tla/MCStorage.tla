------------------------------- MODULE MCStorage -------------------------------
(* Messages for TLC: named by a number. *)
EXTENDS Storage

\* One message per millisecond.
MCTimestamp == [m \in Message |-> m]
=============================================================================
