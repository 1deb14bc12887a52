------------------------ MODULE SignalRouting_proofs ------------------------
(***************************************************************************)
(* Theorems of SignalRouting.  They rest on what may be seen at a port     *)
(* (Fits) and where it has come from (ComesFrom): what a sink holds is     *)
(* what pii_and_enrich made of a log that otlp_in let in.                  *)
(***************************************************************************)
EXTENDS SignalRouting, TLAPS

Fits(p, e) ==
    /\ p \in Ports /\ e \in Event
    /\ p = "otlp_in" => e.kind \in {"Log", "Metric", "Trace"}
    /\ p \in {"route_signals.logs", "pii_and_enrich"} => e \in Log
    /\ p = "route_signals.metrics" => e \in Metric
    /\ p = "route_signals.traces" => e \in Span
    /\ p = "k8s_logs" => e \in Container
    /\ p \in {"platform_audit", "source_audit"} => e \in Audit
    /\ p = "audit_filter" => e.type = "audit" /\ e.region = "eu"

ComesFrom(p, e) ==
    /\ p = "route_signals.logs" => <<"otlp_in", e>> \in emitted
    /\ p = "pii_and_enrich" =>
          \E d : <<"route_signals.logs", d>> \in emitted /\ e \in PiiAndEnrich(d)
    /\ p = "route_by_severity.errors" =>
          <<"pii_and_enrich", e>> \in emitted /\ Severe(e)
    /\ p = "route_by_severity.all_to_s3" => <<"pii_and_enrich", e>> \in emitted

\* Only one event comes in.
OneIn == \A d, e : <<"otlp_in", d>> \in emitted /\ <<"otlp_in", e>> \in emitted
                      => d = e

IInv == /\ TypeOK
        /\ \A p, e : <<p, e>> \in emitted => Fits(p, e) /\ ComesFrom(p, e)
        /\ OneIn

-----------------------------------------------------------------------------
(* What the VRL programs make of an event. *)

LEMMA EventKinds ==
    ASSUME NEW e \in Event
    PROVE  /\ e.kind = "Log" => e \in Log
           /\ e.kind = "Metric" => e \in Metric
           /\ e.kind = "Trace" => e \in Span
BY DEF Event, Log, Metric, Span, Container, Audit

\* Scrubbing leaves no address but those at a host without a dot, and what still
\* says "error" afterwards is not an address at a domain.
LEMMA Scrubbed ==
    ASSUME NEW W \in SUBSET Words
    PROVE  /\ Scrub(W) \subseteq Words
           /\ Scrub(W) \cap Addresses \subseteq DotlessEmails
           /\ Mentions(Scrub(W), "error") =>
                 W \cap (SayError \ DomainEmails) # {}
<1>1. ASSUME NEW w \in Words
      PROVE  /\ MaskIp(MaskEmail(w)) \in Words
             /\ MaskIp(MaskEmail(w)) \in Addresses
                   => MaskIp(MaskEmail(w)) \in DotlessEmails
             /\ MaskIp(MaskEmail(w)) \in SayError
                   => w \in SayError \ DomainEmails
  BY DEF MaskIp, MaskEmail, Words, Addresses, Masks, DomainEmails, NumericEmails,
         DotlessEmails, SayError
<1> QED
  BY <1>1 DEF Scrub, Mentions

\* A log after the whole of the program.
LEMMA Enriched ==
    ASSUME NEW e \in Log
    PROVE  LET f == Enrich(e)
           IN  /\ f \in Log /\ ~f.auth /\ f.level # "unset"
               /\ f.region = e.region
               /\ f.words \cap Addresses \subseteq DotlessEmails
               /\ Severe(f) => \/ Severe(e)
                              \/ /\ e.level = "unset"
                                 /\ e.words \cap (SayError \ DomainEmails) # {}
<1>1. e.words \in SUBSET Words /\ e.level \in Levels
  BY DEF Log
<1>2. /\ Scrub(e.words) \subseteq Words
      /\ Scrub(e.words) \cap Addresses \subseteq DotlessEmails
      /\ Mentions(Scrub(e.words), "error") =>
            e.words \cap (SayError \ DomainEmails) # {}
  BY <1>1, Scrubbed
<1>3. /\ Derive(Scrub(e.words)) \in {"ERROR", "WARN", "INFO"}
      /\ Derive(Scrub(e.words)) = "ERROR" =>
            e.words \cap (SayError \ DomainEmails) # {}
  BY <1>2 DEF Derive
<1> DEFINE f == Enrich(e)
<1>4. /\ f \in Log /\ ~f.auth /\ f.region = e.region
      /\ f.words = Scrub(e.words)
      /\ f.level = IF e.level = "unset" THEN Derive(Scrub(e.words)) ELSE e.level
  BY <1>2, <1>3 DEF Enrich, Log, Levels
<1> HIDE DEF f
<1>5. f.level # "unset"
  BY <1>3, <1>4
<1>6. Severe(f) => \/ Severe(e)
                   \/ /\ e.level = "unset"
                      /\ e.words \cap (SayError \ DomainEmails) # {}
  BY <1>3, <1>4 DEF Severe
<1>7. f.words \cap Addresses \subseteq DotlessEmails
  BY <1>2, <1>4
<1> QED
  BY <1>4, <1>5, <1>6, <1>7 DEF f

\* What pii_and_enrich lets through is clean or has not been touched.
LEMMA LetThrough ==
    ASSUME NEW e \in Log, NEW f \in PiiAndEnrich(e)
    PROVE  /\ f \in Log
           /\ Clean(f) \/ (~DropOnError /\ ~f.text /\ f = e)
           /\ Severe(f) => ReportsError(e) \/ ~e.text
<1>1. CASE e.text
  <2>1. /\ f = Enrich(e) /\ f.region = "eu" /\ f.level \notin {"DEBUG", "TRACE"}
    BY <1>1 DEF PiiAndEnrich
  <2>2. /\ f \in Log /\ ~f.auth /\ f.level # "unset"
        /\ f.region = e.region
        /\ f.words \cap Addresses \subseteq DotlessEmails
        /\ Severe(f) => \/ Severe(e)
                       \/ /\ e.level = "unset"
                          /\ e.words \cap (SayError \ DomainEmails) # {}
    BY <2>1, Enriched
  <2>3. Clean(f)
    BY <2>1, <2>2 DEF Clean
  <2>4. e.kind = "Log"
    BY DEF Log
  <2> QED
    BY <1>1, <2>1, <2>2, <2>3, <2>4 DEF ReportsError
<1>2. CASE ~e.text
  BY <1>2 DEF PiiAndEnrich, OnError
<1> QED
  BY <1>1, <1>2

LEMMA ProcessedTyped ==
    ASSUME NEW e PROVE /\ e \in Log => ProcessLog(e) \cup SinkTier(e) \subseteq Log
                       /\ e \in Metric =>
                             ProcessMetric(e) \cup EnrichMetric(e) \subseteq Metric
                       /\ e \in Span => ProcessSpan(e) \subseteq Span
                       /\ e \in Container => K8sEnrich(e) \subseteq Container
<1>1. ASSUME e \in Log PROVE ProcessLog(e) \subseteq Log
  BY <1>1 DEF Log, ProcessLog, OnError, Words, Masks
<1>2. ASSUME e \in Log PROVE SinkTier(e) \subseteq Log
  BY <1>2 DEF Log, SinkTier
<1>3. ASSUME e \in Metric PROVE ProcessMetric(e) \subseteq Metric
  BY <1>3 DEF Metric, ProcessMetric, OnError
<1>4. ASSUME e \in Metric PROVE EnrichMetric(e) \subseteq Metric
  BY <1>4 DEF Metric, EnrichMetric, UniqueIds, Labels
<1>5. ASSUME e \in Container PROVE K8sEnrich(e) \subseteq Container
  BY <1>5 DEF Container, K8sEnrich, OnError
<1>6. ProcessSpan(e) \subseteq {e}
  BY DEF ProcessSpan
<1> QED
  BY <1>1, <1>2, <1>3, <1>4, <1>5, <1>6

LEMMA AuditTyped ==
    ASSUME NEW e \in Audit
    PROVE  /\ NormaliseAudit(e) \subseteq Audit
           /\ AuditFilter(e) \subseteq {f \in Audit : f.type = "audit" /\ f.region = "eu"}
BY DEF Audit, NormaliseAudit, AuditFilter, OnError

-----------------------------------------------------------------------------
(* Ports. *)

LEMMA OnPort ==
    ASSUME TypeOK, NEW p, NEW e
    PROVE  e \in On(p) <=> <<p, e>> \in emitted
<1>1. \A m \in emitted : m = <<m[1], m[2]>>
  BY DEF TypeOK
<1> QED
  BY <1>1 DEF On

\* What a transform finds at its input.
LEMMA ReadFits ==
    ASSUME IInv, NEW t, NEW p, NEW e \in Unread(t, p)
    PROVE  <<p, e>> \in emitted /\ Fits(p, e)
<1>1. e \in On(p)
  BY DEF Unread
<1> QED
  BY <1>1, OnPort DEF IInv

LEMMA SourceStep ==
    ASSUME IInv, NEW p, NEW S, Receive(p, S),
           \A e \in S : Fits(p, e),
           p \in {"otlp_in", "platform_audit", "k8s_logs", "source_audit"}
    PROVE  IInv'
<1>1. PICK e \in S : emitted' = {<<p, e>>} /\ handled' = handled
  BY DEF Receive, To
<1>2. TypeOK'
  BY <1>1 DEF IInv, TypeOK, Fits
<1>3. \A q, f : <<q, f>> \in emitted' => q = p /\ f = e
  BY <1>1
<1>4. \A q, f : <<q, f>> \in emitted' => Fits(q, f) /\ ComesFrom(q, f)'
  BY <1>3 DEF ComesFrom
<1> QED
  BY <1>2, <1>3, <1>4 DEF IInv, OneIn, Fits

LEMMA TransformStep ==
    ASSUME IInv, NEW t \in Readers, NEW e \in Event, NEW M, Write(t, e, M),
           \A m \in M : m = <<m[1], m[2]>>,
           \A p, f : <<p, f>> \in M =>
              Fits(p, f) /\ ComesFrom(p, f) /\ p # "otlp_in"
    PROVE  IInv'
<1>1. handled' = handled \cup {<<t, e>>} /\ emitted' = emitted \cup M
  BY DEF Write
<1>2. TypeOK'
  BY <1>1 DEF IInv, TypeOK, Fits
<1>3. \A p, f : ComesFrom(p, f) => ComesFrom(p, f)'
  BY <1>1 DEF ComesFrom
<1>4. \A p, f : <<p, f>> \in emitted' => Fits(p, f) /\ ComesFrom(p, f)'
  BY <1>1, <1>3 DEF IInv
<1>5. OneIn'
  BY <1>1 DEF IInv, OneIn
<1> QED
  BY <1>2, <1>4, <1>5 DEF IInv, Fits

\* The messages of a transform that writes to one port.
LEMMA OnePortStep ==
    ASSUME IInv, NEW t \in Readers, NEW e \in Event, NEW p, NEW S,
           Write(t, e, To(p, S)), p # "otlp_in",
           \A f \in S : Fits(p, f) /\ ComesFrom(p, f)
    PROVE  IInv'
<1> DEFINE M == To(p, S)
<1>1. /\ \A m \in M : m = <<m[1], m[2]>>
      /\ \A q, f : <<q, f>> \in M => q = p /\ f \in S
  BY DEF To
<1>2. \A q, f : <<q, f>> \in M => Fits(q, f) /\ ComesFrom(q, f) /\ q # "otlp_in"
  BY <1>1
<1> HIDE DEF M
<1>3. Write(t, e, M)
  BY DEF M
<1> QED
  BY <1>1, <1>2, <1>3, TransformStep

-----------------------------------------------------------------------------
(* Every source and every transform keeps IInv. *)

LEMMA NewEvents ==
    /\ NewLog \subseteq Log /\ NewMetric \subseteq Metric
    /\ NewContainer \subseteq Container /\ NewAudit \subseteq Audit
<1>1. NewLog \subseteq Log
  BY DEF NewLog, Log, Bodies
<1>2. NewMetric \subseteq Metric /\ NewContainer \subseteq Container
  BY DEF NewMetric, Metric, NewContainer, Container
<1>3. NewAudit \subseteq Audit
  BY DEF NewAudit, Audit
<1> QED
  BY <1>1, <1>2, <1>3

LEMMA SourcesKeep == IInv /\ Sources => IInv'
<1> SUFFICES ASSUME IInv, Sources PROVE IInv'
  OBVIOUS
<1>1. CASE otlp_in
  <2>1. \A e \in NewLog \cup NewMetric \cup Span :
           e \in Event /\ e.kind \in {"Log", "Metric", "Trace"}
    BY NewEvents DEF Event, Log, Metric, Span
  <2>2. \A e \in NewLog \cup NewMetric \cup Span : Fits("otlp_in", e)
    BY <2>1 DEF Fits, Ports
  <2> QED
    BY <1>1, <2>2, SourceStep DEF otlp_in
<1>2. \A p \in {"platform_audit", "source_audit"}, e \in NewAudit : Fits(p, e)
  BY NewEvents DEF Fits, Ports, Event
<1>3. CASE platform_audit \/ source_audit
  BY <1>2, <1>3, SourceStep DEF platform_audit, source_audit
<1>4. CASE k8s_logs
  <2>1. \A e \in NewContainer : Fits("k8s_logs", e)
    BY NewEvents DEF Fits, Ports, Event
  <2> QED
    BY <1>4, <2>1, SourceStep DEF k8s_logs
<1> QED
  BY <1>1, <1>3, <1>4 DEF Sources

LEMMA RouteSignalsKeeps == IInv /\ route_signals => IInv'
<1> SUFFICES ASSUME IInv, route_signals PROVE IInv'
  OBVIOUS
<1>1. PICK e \in Unread("route_signals", "otlp_in") :
        Write("route_signals", e,
          CASE e.kind = "Log" -> To("route_signals.logs", {e})
            [] e.kind = "Metric" -> To("route_signals.metrics", {e})
            [] e.kind = "Trace" -> To("route_signals.traces", {e}))
  BY DEF route_signals
<1>2. /\ <<"otlp_in", e>> \in emitted /\ e \in Event
      /\ e.kind \in {"Log", "Metric", "Trace"}
  BY ReadFits DEF Fits
<1>3. "route_signals" \in Readers
  BY DEF Readers
<1>4. CASE e.kind = "Log"
  <2>1. Fits("route_signals.logs", e) /\ ComesFrom("route_signals.logs", e)
    BY <1>2, <1>4, EventKinds DEF Fits, ComesFrom, Ports
  <2>2. Write("route_signals", e, To("route_signals.logs", {e}))
    BY <1>1, <1>4
  <2> QED
    BY <1>2, <1>3, <2>1, <2>2, OnePortStep
<1>5. CASE e.kind = "Metric"
  <2>1. Fits("route_signals.metrics", e) /\ ComesFrom("route_signals.metrics", e)
    BY <1>2, <1>5, EventKinds DEF Fits, ComesFrom, Ports
  <2>2. Write("route_signals", e, To("route_signals.metrics", {e}))
    BY <1>1, <1>5
  <2> QED
    BY <1>2, <1>3, <2>1, <2>2, OnePortStep
<1>6. CASE e.kind = "Trace"
  <2>1. Fits("route_signals.traces", e) /\ ComesFrom("route_signals.traces", e)
    BY <1>2, <1>6, EventKinds DEF Fits, ComesFrom, Ports
  <2>2. Write("route_signals", e, To("route_signals.traces", {e}))
    BY <1>1, <1>6
  <2> QED
    BY <1>2, <1>3, <2>1, <2>2, OnePortStep
<1> QED
  BY <1>2, <1>4, <1>5, <1>6

LEMMA RouteBySeverityKeeps == IInv /\ route_by_severity => IInv'
<1> SUFFICES ASSUME IInv, route_by_severity PROVE IInv'
  OBVIOUS
<1> DEFINE M(e) == To("route_by_severity.errors", {f \in {e} : Severe(f)})
                     \cup To("route_by_severity.all_to_s3", {e})
<1>1. PICK e \in Unread("route_by_severity", "pii_and_enrich") :
        Write("route_by_severity", e, M(e))
  BY DEF route_by_severity
<1>2. <<"pii_and_enrich", e>> \in emitted /\ e \in Event
  BY ReadFits DEF Fits
<1>3. \A m \in M(e) : m = <<m[1], m[2]>>
  BY DEF To
<1>4. \A p, f : <<p, f>> \in M(e) =>
         /\ p \in {"route_by_severity.errors", "route_by_severity.all_to_s3"}
         /\ f = e
         /\ p = "route_by_severity.errors" => Severe(e)
  BY DEF To
<1>5. \A p, f : <<p, f>> \in M(e) => Fits(p, f) /\ ComesFrom(p, f) /\ p # "otlp_in"
  BY <1>2, <1>4 DEF Fits, ComesFrom, Ports
<1> HIDE DEF M
<1> QED
  BY <1>1, <1>2, <1>3, <1>5, TransformStep DEF Readers

LEMMA PiiAndEnrichKeeps == IInv /\ pii_and_enrich => IInv'
<1> SUFFICES ASSUME IInv, pii_and_enrich PROVE IInv'
  OBVIOUS
<1>1. PICK e \in Unread("pii_and_enrich", "route_signals.logs") :
        Write("pii_and_enrich", e, To("pii_and_enrich", PiiAndEnrich(e)))
  BY DEF pii_and_enrich
<1>2. <<"route_signals.logs", e>> \in emitted /\ e \in Event /\ e \in Log
  BY ReadFits DEF Fits
<1>3. \A f \in PiiAndEnrich(e) :
         Fits("pii_and_enrich", f) /\ ComesFrom("pii_and_enrich", f)
  BY <1>2, LetThrough DEF Fits, ComesFrom, Ports, Event
<1> QED
  BY <1>1, <1>2, <1>3, OnePortStep DEF Readers

\* The transforms whose output no sink reads.
LEMMA DeadEndKeeps ==
    ASSUME IInv, NEW t \in Readers, NEW p, NEW e \in Unread(t, p), NEW S,
           S \subseteq Event,
           t \notin {"route_signals", "pii_and_enrich", "route_by_severity"},
           t = "audit_filter" => \A f \in S : f.type = "audit" /\ f.region = "eu",
           Write(t, e, To(t, S))
    PROVE  IInv'
<1>1. e \in Event
  BY ReadFits DEF Fits
<1>2. \A f \in S : Fits(t, f) /\ ComesFrom(t, f)
  BY DEF Fits, ComesFrom, Ports, Readers
<1>3. t # "otlp_in"
  BY DEF Readers
<1> QED
  BY <1>1, <1>2, <1>3, OnePortStep

LEMMA OthersKeep ==
    ASSUME IInv,
           \/ process_logs \/ process_metrics \/ process_traces \/ enrich_metrics
           \/ drop_on_pressure \/ k8s_enrich \/ normalise_audit \/ audit_filter
    PROVE  IInv'
<1> USE DEF Event
<1>1. CASE process_logs
  BY <1>1, ReadFits, ProcessedTyped, DeadEndKeeps DEF process_logs, Fits, Readers
<1>2. CASE process_metrics
  BY <1>2, ReadFits, ProcessedTyped, DeadEndKeeps DEF process_metrics, Fits, Readers
<1>3. CASE process_traces
  BY <1>3, ReadFits, ProcessedTyped, DeadEndKeeps DEF process_traces, Fits, Readers
<1>4. CASE enrich_metrics
  BY <1>4, ReadFits, ProcessedTyped, DeadEndKeeps DEF enrich_metrics, Fits, Readers
<1>5. CASE drop_on_pressure
  BY <1>5, ReadFits, ProcessedTyped, DeadEndKeeps DEF drop_on_pressure, Fits, Readers
<1>6. CASE k8s_enrich
  BY <1>6, ReadFits, ProcessedTyped, DeadEndKeeps DEF k8s_enrich, Fits, Readers
<1>7. CASE normalise_audit
  BY <1>7, ReadFits, AuditTyped, DeadEndKeeps DEF normalise_audit, Fits, Readers
<1>8. CASE audit_filter
  BY <1>8, ReadFits, AuditTyped, DeadEndKeeps DEF audit_filter, Fits, Readers
<1> QED
  BY <1>1, <1>2, <1>3, <1>4, <1>5, <1>6, <1>7, <1>8

LEMMA InitIInv == Init => IInv
BY DEF Init, IInv, TypeOK, OneIn

LEMMA NextIInv == IInv /\ [Next]_vars => IInv'
<1> SUFFICES ASSUME IInv, [Next]_vars PROVE IInv'
  OBVIOUS
<1>1. CASE UNCHANGED vars
  BY <1>1 DEF vars, IInv, TypeOK, ComesFrom, OneIn
<1> QED
  BY <1>1, SourcesKeep, RouteSignalsKeeps, PiiAndEnrichKeeps,
     RouteBySeverityKeeps, OthersKeep
  DEF Next, Transforms

-----------------------------------------------------------------------------
(* What the sinks hold. *)

\* What a sink holds is what pii_and_enrich made of a log from otlp_in.
LEMMA StoredFrom ==
    ASSUME IInv, NEW e \in Stored
    PROVE  \E d \in Log : d \in On("otlp_in") /\ e \in PiiAndEnrich(d)
<1>1. TypeOK /\ \A p, f : <<p, f>> \in emitted => Fits(p, f) /\ ComesFrom(p, f)
  BY DEF IInv
<1>2. argus = {}
  <2>1. ASSUME NEW p, p \notin Ports PROVE On(p) = {}
    <3>1. \A f : f \notin On(p)
      BY <1>1, <2>1, OnPort DEF Fits
    <3> QED
      BY <3>1
  <2>2. /\ "route_by_severity.logs" \notin Ports
        /\ "route_by_severity.traces" \notin Ports
        /\ "route_by_severity.metrics" \notin Ports
    BY DEF Ports
  <2> QED
    BY <2>1, <2>2 DEF argus
<1>3. \/ e \in On("pii_and_enrich") \/ e \in On("route_by_severity.errors")
      \/ e \in On("route_by_severity.all_to_s3")
  BY <1>2 DEF Stored, siem, archive, siem_otlp, s3_archive, customer_siem,
              compliance_archive, logme_opensearch
<1>4. <<"pii_and_enrich", e>> \in emitted
  BY <1>1, <1>3, OnPort DEF ComesFrom
<1>5. PICK d : <<"route_signals.logs", d>> \in emitted /\ e \in PiiAndEnrich(d)
  BY <1>1, <1>4 DEF ComesFrom
<1>6. d \in Log /\ d \in On("otlp_in")
  BY <1>1, <1>5, OnPort DEF Fits, ComesFrom
<1> QED
  BY <1>5, <1>6

\* The state is well formed, whatever the engine does with failing events.
THEOREM Typed == Spec => []TypeOK
<1>1. IInv => TypeOK
  BY DEF IInv
<1> QED
  BY <1>1, InitIInv, NextIInv, PTL DEF Spec

\* No sink ever holds a log that is half scrubbed, for bodies with any number
\* of words, and with drop_on_error none that is not scrubbed.
THEOREM Scrubs == Spec => []OnlyCleanLogsStored
<1>1. ASSUME IInv, NEW e \in Stored
      PROVE  /\ e.kind = "Log"
             /\ Clean(e) \/ (~DropOnError /\ ~e.text /\ e \in On("otlp_in"))
  <2>1. PICK d \in Log : d \in On("otlp_in") /\ e \in PiiAndEnrich(d)
    BY <1>1, StoredFrom
  <2>2. e \in Log /\ (Clean(e) \/ (~DropOnError /\ ~e.text /\ e = d))
    BY <2>1, LetThrough
  <2> QED
    BY <2>1, <2>2 DEF Log
<1>2. IInv => OnlyCleanLogsStored
  BY <1>1 DEF OnlyCleanLogsStored
<1> QED
  BY <1>2, InitIInv, NextIInv, PTL DEF Spec

\* The SIEM gets what says it is an error, by its level or by a word that is not
\* masked as a whole, or what cannot be read, whatever the body.
THEOREM Errors == Spec => []SiemOnlyErrors
<1>1. ASSUME IInv, NEW e \in On("otlp_in"), siem # {}
      PROVE  ReportsError(e) \/ ~e.text
  <2>1. PICK f : f \in On("route_by_severity.errors")
    BY <1>1 DEF siem
  <2>2. f \in Stored /\ Severe(f)
    BY <1>1, <2>1, OnPort DEF IInv, ComesFrom, Stored, siem
  <2>3. PICK d \in Log : d \in On("otlp_in") /\ f \in PiiAndEnrich(d)
    BY <1>1, <2>2, StoredFrom
  <2>4. d = e
    BY <1>1, <2>3, OnPort DEF IInv, OneIn
  <2> QED
    BY <2>2, <2>3, <2>4, LetThrough
<1>2. IInv => SiemOnlyErrors
  BY <1>1 DEF SiemOnlyErrors
<1> QED
  BY <1>2, InitIInv, NextIInv, PTL DEF Spec

\* Nothing but audit events from the EU leaves audit_filter, whether or not
\* events on which it fails are dropped.
THEOREM Sovereign == Spec => []SovereignAudit
<1>1. ASSUME IInv, NEW e \in On("audit_filter") PROVE Fits("audit_filter", e)
  BY <1>1, OnPort DEF IInv
<1>2. \A e : Fits("audit_filter", e) => e.type = "audit" /\ e.region = "eu"
  BY DEF Fits
<1>3. IInv => SovereignAudit
  BY <1>1, <1>2 DEF SovereignAudit
<1> QED
  BY <1>3, InitIInv, NextIInv, PTL DEF Spec
=============================================================================
