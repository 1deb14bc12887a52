---------------------------- MODULE TailSampling ----------------------------
(***************************************************************************)
(* From the SDK to the router in nodes.js: the SDK samples traces by their *)
(* id, an OpenTelemetry collector on every node refuses data when its      *)
(* memory is full, holds the spans of a trace until it can tell whether    *)
(* the trace is worth keeping, batches and exports, and retries for a      *)
(* while.  Metrics and logs go the same way without the sampling.          *)
(*                                                                         *)
(* The configurations are from nodes.js; the SDK and the collector that    *)
(* run them are external.                                                  *)
(***************************************************************************)
EXTENDS Integers, FiniteSets

CONSTANTS
    Nodes, Traces, Spans,
    Records,        \* metrics and log records
    NodeOf,         \* NodeOf[i]: where the application runs that emits i
    TraceOf,        \* TraceOf[s]: the trace of span s
    Errors,         \* spans with status ERROR
    StartAt, EndAt, \* when a span starts and ends
    HeadSampled,    \* traces that TraceIDRatioBased(0.1) lets through
    ThresholdMs,    \* latency.threshold_ms
    DecisionWait,   \* tail_sampling.decision_wait
    MemoryLimit,    \* memory_limiter: the items a collector may hold
    BatchSize,      \* batch.send_batch_size
    MaxElapsed,     \* retry_on_failure.max_elapsed_time
    Crashing        \* bound: collectors that crash, once each

Items == Spans \cup Records

ASSUME ItemsAssumption ==
    /\ Spans \cap Records = {}
    /\ NodeOf \in [Items -> Nodes] /\ TraceOf \in [Spans -> Traces]
    /\ StartAt \in [Spans -> Int] /\ EndAt \in [Spans -> Int]
    /\ Errors \subseteq Spans /\ HeadSampled \subseteq Traces
    /\ Crashing \subseteq Nodes

ASSUME SettingsAssumption ==
    /\ ThresholdMs \in Int /\ DecisionWait \in Nat /\ MemoryLimit \in Nat
    /\ BatchSize \in Nat /\ MaxElapsed \in Nat

VARIABLES
    place,          \* place[i]: where item i is, or what became of it
    verdict,        \* verdict[n][t]: what the collector on n decided about t
    age,            \* age[n][t]: how long it has held spans of t
    elapsed,        \* elapsed[n]: how long it has tried to send its batch
    crashed,        \* collectors that have crashed
    routerUp,       \* does the router answer?
    received        \* items that reached the router

vars == <<place, verdict, age, elapsed, crashed, routerUp, received>>

-----------------------------------------------------------------------------
\* Held in tail_sampling, in the batch processor, in the exporter.
Inside == {"sampling", "queued", "sending"}

\* Sampled out, sent, given up, lost in a crash.
Ended == {"discarded", "exported", "abandoned", "lost"}

Places == {"open", "unsampled", "app", "refused"} \cup Inside \cup Ended

At(n, p) == {i \in Items : NodeOf[i] = n /\ place[i] = p}

SpansAt(n, t) == {s \in Spans : NodeOf[s] = n /\ TraceOf[s] = t}

Held(n, t) == SpansAt(n, t) \cap At(n, "sampling")

Used(n) == {i \in Items : NodeOf[i] = n /\ place[i] \in Inside}

Move(S, p) == place' = [i \in Items |-> IF i \in S THEN p ELSE place[i]]

\* Mutant of Policy: every span must have an error.
Policy_AllErrors(S) == \/ S \subseteq Errors
                       \/ \E a, b \in S : EndAt[a] - StartAt[b] >= ThresholdMs

\* errors-policy or slow-traces: one span with an error, or more than the
\* threshold between the first start and the last end.
Policy(S) == \/ S \cap Errors # {}
             \/ \E a, b \in S : EndAt[a] - StartAt[b] >= ThresholdMs

-----------------------------------------------------------------------------
(* The application and its SDK. *)

\* The sampler goes by the trace id, so that all services agree.
EndSpan(s) ==
    /\ place[s] = "open"
    /\ Move({s}, IF TraceOf[s] \in HeadSampled THEN "app" ELSE "unsampled")
    /\ UNCHANGED <<verdict, age, elapsed, crashed, routerUp, received>>

EmitRecord(r) ==
    /\ place[r] = "open"
    /\ Move({r}, "app")
    /\ UNCHANGED <<verdict, age, elapsed, crashed, routerUp, received>>

\* The collector refuses, and in the end the SDK stops trying.
DropRefused(i) ==
    /\ place[i] = "app"
    /\ Cardinality(Used(NodeOf[i])) >= MemoryLimit
    /\ Move({i}, "refused")
    /\ UNCHANGED <<verdict, age, elapsed, crashed, routerUp, received>>

-----------------------------------------------------------------------------
(* The collector on a node. *)

\* Mutant of PlaceFor: a late span is held for a verdict of its own.
PlaceFor_HeldAgain(s) == "sampling"

\* A span of a trace with a verdict follows it.
PlaceFor(s) == CASE verdict[NodeOf[s]][TraceOf[s]] = "none" -> "sampling"
                 [] verdict[NodeOf[s]][TraceOf[s]] = "keep" -> "queued"
                 [] verdict[NodeOf[s]][TraceOf[s]] = "drop" -> "discarded"

\* Mutant of Accept: tail_sampling is not among the processors.
Accept_NoSampling(i) ==
    /\ place[i] = "app"
    /\ Cardinality(Used(NodeOf[i])) < MemoryLimit
    /\ Move({i}, "queued")
    /\ UNCHANGED <<verdict, age, elapsed, crashed, routerUp, received>>

\* Mutant of Accept: no memory_limiter.
Accept_NoLimiter(i) ==
    /\ place[i] = "app"
    /\ Move({i}, IF i \in Spans THEN PlaceFor(i) ELSE "queued")
    /\ UNCHANGED <<verdict, age, elapsed, crashed, routerUp, received>>

\* memory_limiter, k8sattributes, then tail_sampling for spans.
Accept(i) ==
    /\ place[i] = "app"
    /\ Cardinality(Used(NodeOf[i])) < MemoryLimit
    /\ Move({i}, IF i \in Spans THEN PlaceFor(i) ELSE "queued")
    /\ UNCHANGED <<verdict, age, elapsed, crashed, routerUp, received>>

Decide(n, t) ==
    LET keep == Policy(Held(n, t))
    IN  /\ Held(n, t) # {} /\ age[n][t] = DecisionWait
        /\ Move(Held(n, t), IF keep THEN "queued" ELSE "discarded")
        /\ verdict' = [verdict EXCEPT ![n][t] = IF keep THEN "keep" ELSE "drop"]
        /\ age' = [age EXCEPT ![n][t] = 0]
        /\ UNCHANGED <<elapsed, crashed, routerUp, received>>

\* Mutant of TakeBatch: no timeout, so that a batch has to be full.
TakeBatch_OnlyFull(n) ==
    /\ At(n, "sending") = {}
    /\ \E pipeline \in {Spans, Records} :
         \E B \in SUBSET (At(n, "queued") \cap pipeline) :
             Cardinality(B) = BatchSize /\ Move(B, "sending")
    /\ elapsed' = [elapsed EXCEPT ![n] = 0]
    /\ UNCHANGED <<verdict, age, crashed, routerUp, received>>

\* A full batch, or all there is after the timeout; each pipeline has its own.
TakeBatch(n) ==
    /\ At(n, "sending") = {}
    /\ \E pipeline \in {Spans, Records} :
         LET ready == At(n, "queued") \cap pipeline
         IN  \E B \in SUBSET ready \ {{}} :
               /\ \/ Cardinality(B) = BatchSize
                  \/ B = ready /\ Cardinality(B) < BatchSize
               /\ Move(B, "sending")
    /\ elapsed' = [elapsed EXCEPT ![n] = 0]
    /\ UNCHANGED <<verdict, age, crashed, routerUp, received>>

Export(n) ==
    /\ At(n, "sending") # {} /\ routerUp
    /\ received' = received \cup At(n, "sending")
    /\ Move(At(n, "sending"), "exported")
    /\ UNCHANGED <<verdict, age, elapsed, crashed, routerUp>>

\* The router has the batch, but the collector does not know.
LostAnswer(n) ==
    /\ At(n, "sending") # {} /\ routerUp
    /\ received' = received \cup At(n, "sending")
    /\ UNCHANGED <<place, verdict, age, elapsed, crashed, routerUp>>

GiveUp(n) ==
    /\ At(n, "sending") # {} /\ elapsed[n] = MaxElapsed
    /\ Move(At(n, "sending"), "abandoned")
    /\ UNCHANGED <<verdict, age, elapsed, crashed, routerUp, received>>

\* All that a collector holds, and what it decided, is in memory.
Crash(n) ==
    /\ n \in Crashing \ crashed
    /\ crashed' = crashed \cup {n}
    /\ Move(Used(n), "lost")
    /\ verdict' = [verdict EXCEPT ![n] = [t \in Traces |-> "none"]]
    /\ age' = [age EXCEPT ![n] = [t \in Traces |-> 0]]
    /\ UNCHANGED <<elapsed, routerUp, received>>

-----------------------------------------------------------------------------
(* Time and the router. *)

\* Mutant of Older: ages go on growing.
Older_Unbounded(x, limit) == x + 1

Older(x, limit) == IF x < limit THEN x + 1 ELSE x

Tick ==
    /\ age' = [n \in Nodes |-> [t \in Traces |->
                 IF Held(n, t) = {} THEN age[n][t]
                 ELSE Older(age[n][t], DecisionWait)]]
    /\ elapsed' = [n \in Nodes |-> IF At(n, "sending") = {} THEN elapsed[n]
                                   ELSE Older(elapsed[n], MaxElapsed)]
    /\ UNCHANGED <<place, verdict, crashed, routerUp, received>>

RouterChanges ==
    /\ routerUp' = ~routerUp
    /\ UNCHANGED <<place, verdict, age, elapsed, crashed, received>>

-----------------------------------------------------------------------------
Init ==
    /\ place = [i \in Items |-> "open"]
    /\ verdict = [n \in Nodes |-> [t \in Traces |-> "none"]]
    /\ age = [n \in Nodes |-> [t \in Traces |-> 0]]
    /\ elapsed = [n \in Nodes |-> 0]
    /\ crashed = {}
    /\ routerUp = TRUE
    /\ received = {}

Next ==
    \/ \E s \in Spans : EndSpan(s)
    \/ \E r \in Records : EmitRecord(r)
    \/ \E i \in Items : Accept(i) \/ DropRefused(i)
    \/ \E n \in Nodes, t \in Traces : Decide(n, t)
    \/ \E n \in Nodes : \/ TakeBatch(n) \/ Export(n) \/ LostAnswer(n)
                        \/ GiveUp(n) \/ Crash(n)
    \/ Tick \/ RouterChanges

Spec == Init /\ [][Next]_vars

\* The clock runs, a collector does what is due, and its exporter goes on until
\* an answer or the deadline ends the batch.
Fairness ==
    /\ WF_vars(Tick)
    /\ \A n \in Nodes : /\ \A t \in Traces : WF_vars(Decide(n, t))
                        /\ WF_vars(TakeBatch(n))
                        /\ SF_vars(Export(n) \/ GiveUp(n))

FairSpec == Spec /\ Fairness

-----------------------------------------------------------------------------
(* Properties. *)

TypeOK ==
    /\ place \in [Items -> Places]
    /\ verdict \in [Nodes -> [Traces -> {"none", "keep", "drop"}]]
    /\ age \in [Nodes -> [Traces -> 0..DecisionWait]]
    /\ elapsed \in [Nodes -> 0..MaxElapsed]
    /\ crashed \subseteq Nodes
    /\ routerUp \in BOOLEAN
    /\ received \subseteq Items

\* Spans of t that have reached the collector on n.
Accepted(n, t) == {s \in SpansAt(n, t) : place[s] \in Inside \cup Ended}

\* "Only keep traces with errors or > 1s duration" (nodes.js:276): the router
\* gets a span only if the collector it came through has seen a reason.
OnlyNotableTraces ==
    \A s \in received \cap Spans : Policy(Accepted(NodeOf[s], TraceOf[s]))

\* The collector keeps the span, or the router has it.
Kept(s) == place[s] \in {"queued", "sending", "exported", "abandoned"}

\* A collector that has not crashed treats the spans of a trace alike, the ones
\* that come after its verdict, too (nodes.js:246, 277-285).
OneVerdict ==
    \A n \in Nodes \ crashed, t \in Traces :
        ~(\E a, b \in SpansAt(n, t) : Kept(a) /\ place[b] = "discarded")

\* A collector holds no more than it may: what it refuses stays with the SDK
\* (nodes.js:265-267).
MemoryBounded == \A n \in Nodes : Cardinality(Used(n)) <= MemoryLimit

\* A span with an error that comes before the verdict gets to the router, unless
\* the collector crashes or the router is away for max_elapsed_time
\* (nodes.js:277-294).
ErrorsArrive ==
    \A s \in Errors : place[s] = "sampling" ~>
        s \in received \/ place[s] \in {"abandoned", "lost"}

\* Nothing stays in a collector for ever.
AllSettle == \A i \in Items : place[i] \in Inside ~> place[i] \in Ended
=============================================================================
