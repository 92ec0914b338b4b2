--------------------------- MODULE MCStatusStream ---------------------------
(* Small instances of StatusStream for TLC. *)
EXTENDS StatusStream, TLC

CONSTANTS a1, a2

\* One group of two alerts, an entry that is none between them.
MCPayload == [g \in Groups |-> <<a1, NotADict, a2>>]
=============================================================================
