----------------------------- MODULE MCDelivery -----------------------------
(***************************************************************************)
(* The sinks of SinkConfig with stages and retries cut down to one, and    *)
(* events that are wanted where the transforms of SignalRouting let them   *)
(* through.                                                                *)
(***************************************************************************)
EXTENDS Delivery

Configured == INSTANCE SinkConfig

\* Its operators only: the variables of the transforms are not used here.
Transforms == INSTANCE SignalRouting WITH
    DropOnError <- FALSE, ProjectId <- TRUE, MaxWords <- 0,
    emitted <- {}, handled <- {}

LogOf(e) ==
    [kind |-> "Log", text |-> TRUE, words |-> {}, auth |-> FALSE, region |-> "eu",
     level |-> IF e = "error" THEN "ERROR" ELSE "INFO",
     tier |-> "unset"]

\* The destination behind customer_siem is declared with severityMin ERROR
\* (nodes.js:847); the sink itself (804) would take everything.
MCWanted ==
    [e \in Events |->
        UNION {{s \in Sinks : s = "customer_siem" => Transforms!Severe(f)} :
                 f \in Transforms!PiiAndEnrich(LogOf(e))}]

AtMostOne(n) == IF n = 0 THEN 0 ELSE 1

\* The memory stage of siem_otlp is taken up by what came before.
MCMemoryMax == [s \in Sinks |-> IF s = "siem_otlp" THEN 0
                               ELSE AtMostOne(Configured!Config[s].memory)]
MCDiskMax == [s \in Sinks |-> AtMostOne(Configured!Config[s].disk)]
MCWhenFull == [s \in Sinks |-> Configured!Config[s].whenFull]
MCRetryMax == [s \in Sinks |-> AtMostOne(Configured!Config[s].retries)]
=============================================================================
