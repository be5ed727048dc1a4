----------------------------- MODULE MCSpanLinks -----------------------------
(* Two mappings of different ages, each cut into spans. *)
EXTENDS SpanLinks

MCAge == [s \in Spans |-> (s * 2) % 3]
=============================================================================
