--------------------------- MODULE MCTailSampling ---------------------------
(***************************************************************************)
(* A trace whose spans are a failing one and two that are slow only        *)
(* together, a span that the SDK does not sample, and a metric.  Times are *)
(* in seconds, limits are cut down.                                        *)
(***************************************************************************)
EXTENDS TailSampling

MCTraceOf == [s \in Spans |-> IF s = "other" THEN "unsampled" ELSE "request"]

MCNodeOf == [i \in Items |-> "node"]
MCStartAt == [s \in Spans |-> IF s = "ends" THEN 1 ELSE 0]
MCEndAt == [s \in Spans |-> IF s = "ends" THEN 2 ELSE 1]
=============================================================================
