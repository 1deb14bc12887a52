---------------------------- MODULE SignalRouting ----------------------------
(***************************************************************************)
(* The transform stage of the reference pipeline in nodes.js: its sources, *)
(* its route and remap transforms with their VRL programs, and what its    *)
(* sinks read.  Components are joined by the ports their `inputs` name: a  *)
(* transform called t writes to port t, a route r to ports r.x.            *)
(*                                                                         *)
(* A VRL program maps an event to a set: the event it leaves, or {} when   *)
(* it aborts.  The engine is external: an aborted event is dropped, and    *)
(* an event on which a program fails is dropped only with drop_on_error.   *)
(***************************************************************************)
EXTENDS Naturals, FiniteSets

CONSTANTS
    DropOnError,    \* drop_on_error, which no configuration sets: FALSE
    ProjectId,      \* is PROJECT_ID set in Vector's environment?
    MaxWords        \* bound: words of interest in one log body

ASSUME SwitchesAssumption == DropOnError \in BOOLEAN /\ ProjectId \in BOOLEAN

VARIABLES
    emitted,        \* pairs <<port, event>>: what went through each port
    handled         \* pairs <<transform, event>>: what each transform has read

vars == <<emitted, handled>>

-----------------------------------------------------------------------------
(* Events.  A body is a string (`text`) of which only these words matter:  *)
(* an IP address, mail addresses at a domain, at a numeric host and at one *)
(* without a dot (localhost), each with and without "error" in its local   *)
(* part, and words that hint at a severity; or it is structured.           *)

DomainEmails == {"email", "errorEmail"}
NumericEmails == {"numericEmail", "errorNumericEmail"}
DotlessEmails == {"dotlessEmail", "errorDotlessEmail"}
Addresses == DomainEmails \cup NumericEmails \cup DotlessEmails \cup {"ip"}
Masks == {"[EMAIL]", "[IP]", "user@[IP]", "error@[IP]"}
Words == Addresses \cup Masks \cup {"error", "warn"}
Levels == {"unset", "TRACE", "DEBUG", "INFO", "WARN", "ERROR", "FATAL"}
Regions == {"eu", "other", "missing"}
UniqueIds == {"user_id", "request_id", "trace_id"}
Labels == {"env", "service", "project_id"}

Log == [kind : {"Log"}, text : BOOLEAN, words : SUBSET Words, auth : BOOLEAN,
        region : Regions, level : Levels,
        tier : {"unset", "premium", "archive_only"}]
Metric == [kind : {"Metric"}, tags : SUBSET (UniqueIds \cup Labels),
           project : BOOLEAN]
Span == [kind : {"Trace"}, health : BOOLEAN]
Container == [kind : {"Container"}, text : BOOLEAN, health : BOOLEAN,
              service : BOOLEAN]
Audit == [kind : {"Audit"}, type : {"audit", "service_log", "unset"},
          region : Regions, time : BOOLEAN, outcome : {"success", "failure"},
          siem : {"unset", "HIGH", "LOW"}]

Event == Log \cup Metric \cup Span \cup Container \cup Audit

\* Events as they come in.
Bodies == {W \in SUBSET (Words \ Masks) : Cardinality(W) <= MaxWords}
NewLog == {e \in [kind : {"Log"}, text : BOOLEAN, words : Bodies,
                  auth : BOOLEAN, region : Regions, level : Levels,
                  tier : {"unset"}] : e.text \/ e.words = {}}
NewMetric == [kind : {"Metric"}, tags : SUBSET UniqueIds, project : {FALSE}]
NewContainer == [kind : {"Container"}, text : BOOLEAN, health : BOOLEAN,
                 service : {FALSE}]
NewAudit == [kind : {"Audit"}, type : {"audit", "service_log", "unset"},
             region : Regions, time : BOOLEAN,
             outcome : {"success", "failure"}, siem : {"unset"}]

-----------------------------------------------------------------------------
(* The engine. *)

OnError(e) == IF DropOnError THEN {} ELSE {e}

On(port) == {m[2] : m \in {m \in emitted : m[1] = port}}

\* Events on the port that the transform has not read.
Unread(transform, port) ==
    {e \in On(port) : <<transform, e>> \notin handled}

\* The transform has read the event and written these events to these ports.
Write(transform, e, messages) ==
    /\ handled' = handled \cup {<<transform, e>>}
    /\ emitted' = emitted \cup messages

To(port, events) == {port} \X events

\* Bound: one event comes in.
Receive(port, events) ==
    /\ emitted = {}
    /\ \E e \in events : emitted' = To(port, {e})
    /\ UNCHANGED handled

-----------------------------------------------------------------------------
(* The VRL programs. *)

\* [\w.+-]+@[\w.-]+\.[a-zA-Z]{2,} wants a dot, and letters after the last one.
MaskEmail(w) == IF w \in DomainEmails THEN "[EMAIL]" ELSE w

\* An address at a numeric host loses the host only.
MaskIp(w) == CASE w = "ip" -> "[IP]"
               [] w = "numericEmail" -> "user@[IP]"
               [] w = "errorNumericEmail" -> "error@[IP]"
               [] OTHER -> w

\* The body after both replacements.
Scrub(words) == {MaskIp(MaskEmail(w)) : w \in words}

\* The words in which the pattern error|exception|fatal is found.
SayError == {"error", "errorEmail", "errorNumericEmail", "errorDotlessEmail",
             "error@[IP]"}

Mentions(words, hint) ==
    IF hint = "error" THEN words \cap SayError # {} ELSE hint \in words

\* Mutant of Derive: warnings are looked for first.
Derive_WarnFirst(words) == IF Mentions(words, "warn") THEN "WARN"
                           ELSE IF Mentions(words, "error") THEN "ERROR"
                           ELSE "INFO"

\* The level if none is set.
Derive(words) == IF Mentions(words, "error") THEN "ERROR"
                 ELSE IF Mentions(words, "warn") THEN "WARN" ELSE "INFO"

\* Mutant of Enrich: the level is derived from the body as it came in.
Enrich_LevelFirst(e) ==
    [e EXCEPT !.words = Scrub(e.words), !.auth = FALSE,
              !.level = IF @ = "unset" THEN Derive(e.words) ELSE @]

Enrich(e) ==
    LET words == Scrub(e.words)
    IN  [e EXCEPT !.words = words, !.auth = FALSE,
                  !.level = IF @ = "unset" THEN Derive(words) ELSE @]

\* Mutant of PiiAndEnrich: a missing region passes for one in the EU.
PiiAndEnrich_MissingPasses(e) ==
    IF e.text
    THEN {f \in {Enrich(e)} :
            f.region # "other" /\ f.level \notin {"DEBUG", "TRACE"}}
    ELSE OnError(e)

\* string!(.body) fails, before anything is done, when the body is no string.
PiiAndEnrich(e) ==
    IF e.text
    THEN {f \in {Enrich(e)} :
            f.region = "eu" /\ f.level \notin {"DEBUG", "TRACE"}}
    ELSE OnError(e)

\* [\w.]+@[\w.]+ takes any host.
ProcessLog(e) ==
    IF e.text
    THEN {[e EXCEPT !.words =
             {IF w \in Addresses \ {"ip"} THEN "[EMAIL]" ELSE w : w \in @}]}
    ELSE OnError(e)

ProcessMetric(e) == IF ProjectId THEN {[e EXCEPT !.project = TRUE]}
                    ELSE OnError(e)

ProcessSpan(e) == IF e.health THEN {} ELSE {e}

Severe(e) == e.level \in {"ERROR", "FATAL"}

\* Mutant of SinkTier: a tier that nobody knows.
SinkTier_Renamed(e) ==
    {[e EXCEPT !.tier = IF Severe(e) THEN "premium" ELSE "archive"]}

SinkTier(e) ==
    {[e EXCEPT !.tier = IF Severe(e) THEN "premium" ELSE "archive_only"]}

EnrichMetric(e) == {[e EXCEPT !.tags = (@ \cup Labels) \ UniqueIds]}

K8sEnrich(e) ==
    IF ~e.text THEN OnError(e)
    ELSE IF e.health THEN {} ELSE {[e EXCEPT !.service = TRUE]}

\* assert! fails like any other call: the event may go on, untagged.
NormaliseAudit(e) ==
    IF e.region = "eu" THEN {[e EXCEPT !.type = "audit"]} ELSE OnError(e)

\* Mutant of AuditFilter: the call that can fail comes first.
AuditFilter_ConvertFirst(e) ==
    IF ~e.time THEN OnError(e)
    ELSE IF e.type # "audit" \/ e.region # "eu" THEN {}
    ELSE {[e EXCEPT !.siem = IF e.outcome = "failure" THEN "HIGH" ELSE "LOW"]}

\* The checks come before the call that can fail.
AuditFilter(e) ==
    IF e.type # "audit" \/ e.region # "eu" THEN {}
    ELSE IF e.time
    THEN {[e EXCEPT !.siem = IF e.outcome = "failure" THEN "HIGH" ELSE "LOW"]}
    ELSE OnError(e)

-----------------------------------------------------------------------------
(* The sources. *)

otlp_in == Receive("otlp_in", NewLog \cup NewMetric \cup Span)

platform_audit == Receive("platform_audit", NewAudit)

k8s_logs == Receive("k8s_logs", NewContainer)

\* Named by audit_filter and declared by no configuration: what feeds it is
\* external.
source_audit == Receive("source_audit", NewAudit)

-----------------------------------------------------------------------------
(* The transforms. *)

route_signals == \E e \in Unread("route_signals", "otlp_in") :
    Write("route_signals", e,
          CASE e.kind = "Log" -> To("route_signals.logs", {e})
            [] e.kind = "Metric" -> To("route_signals.metrics", {e})
            [] e.kind = "Trace" -> To("route_signals.traces", {e}))

process_logs == \E e \in Unread("process_logs", "route_signals.logs") :
    Write("process_logs", e, To("process_logs", ProcessLog(e)))

process_metrics == \E e \in Unread("process_metrics", "route_signals.metrics") :
    Write("process_metrics", e, To("process_metrics", ProcessMetric(e)))

process_traces == \E e \in Unread("process_traces", "route_signals.traces") :
    Write("process_traces", e, To("process_traces", ProcessSpan(e)))

pii_and_enrich == \E e \in Unread("pii_and_enrich", "route_signals.logs") :
    Write("pii_and_enrich", e, To("pii_and_enrich", PiiAndEnrich(e)))

\* Mutant of route_by_severity: only the first route that matches is taken.
route_by_severity_FirstMatch ==
    \E e \in Unread("route_by_severity", "pii_and_enrich") :
        Write("route_by_severity", e,
              IF Severe(e) THEN To("route_by_severity.errors", {e})
              ELSE To("route_by_severity.all_to_s3", {e}))

route_by_severity == \E e \in Unread("route_by_severity", "pii_and_enrich") :
    Write("route_by_severity", e,
          To("route_by_severity.errors", {f \in {e} : Severe(f)})
            \cup To("route_by_severity.all_to_s3", {e}))

enrich_metrics == \E e \in Unread("enrich_metrics", "route_signals.metrics") :
    Write("enrich_metrics", e, To("enrich_metrics", EnrichMetric(e)))

drop_on_pressure == \E e \in Unread("drop_on_pressure", "route_signals.logs") :
    Write("drop_on_pressure", e, To("drop_on_pressure", SinkTier(e)))

k8s_enrich == \E e \in Unread("k8s_enrich", "k8s_logs") :
    Write("k8s_enrich", e, To("k8s_enrich", K8sEnrich(e)))

normalise_audit == \E e \in Unread("normalise_audit", "platform_audit") :
    Write("normalise_audit", e, To("normalise_audit", NormaliseAudit(e)))

audit_filter == \E e \in Unread("audit_filter", "source_audit") :
    Write("audit_filter", e, To("audit_filter", AuditFilter(e)))

-----------------------------------------------------------------------------
(* The sinks: what has reached each of them. *)

siem == On("route_by_severity.errors")
archive == On("route_by_severity.all_to_s3")
siem_otlp == On("pii_and_enrich")
s3_archive == On("pii_and_enrich")
customer_siem == On("pii_and_enrich")
compliance_archive == On("pii_and_enrich")
logme_opensearch == On("pii_and_enrich")

\* The three read outputs that route_by_severity does not have.
argus == On("route_by_severity.logs") \cup On("route_by_severity.traces")
           \cup On("route_by_severity.metrics")

Stored == siem \cup archive \cup siem_otlp \cup s3_archive \cup customer_siem
            \cup compliance_archive \cup logme_opensearch \cup argus

-----------------------------------------------------------------------------
Sources == otlp_in \/ platform_audit \/ k8s_logs \/ source_audit

Transforms ==
    \/ route_signals \/ process_logs \/ process_metrics \/ process_traces
    \/ pii_and_enrich \/ route_by_severity \/ enrich_metrics
    \/ drop_on_pressure \/ k8s_enrich \/ normalise_audit \/ audit_filter

Init == emitted = {} /\ handled = {}

Next == Sources \/ Transforms

Spec == Init /\ [][Next]_vars /\ WF_vars(Transforms)
-----------------------------------------------------------------------------
(* Properties. *)

Ports == {"otlp_in", "platform_audit", "k8s_logs", "source_audit",
          "route_signals.logs", "route_signals.metrics", "route_signals.traces",
          "process_logs", "process_metrics", "process_traces",
          "pii_and_enrich", "route_by_severity.errors",
          "route_by_severity.all_to_s3", "enrich_metrics", "drop_on_pressure",
          "k8s_enrich", "normalise_audit", "audit_filter"}

Readers == {"route_signals", "process_logs", "process_metrics",
            "process_traces", "pii_and_enrich", "route_by_severity",
            "enrich_metrics", "drop_on_pressure", "k8s_enrich",
            "normalise_audit", "audit_filter"}

TypeOK == emitted \subseteq Ports \X Event /\ handled \subseteq Readers \X Event

\* What a log looks like after the whole of pii_and_enrich, which knows no mail
\* address at a host without a dot.
Clean(e) ==
    /\ e.region = "eu"
    /\ ~e.auth
    /\ e.words \cap Addresses \subseteq DotlessEmails
    /\ e.level \notin {"unset", "DEBUG", "TRACE"}

\* A sink holds a log that went through the whole program, or one on which the
\* program failed, and that one exactly as it came in: never a half-scrubbed
\* one, nor one from outside the EU whose body is a string
\* (nodes.js:598-614, "never reaches a sink").
OnlyCleanLogsStored ==
    \A e \in Stored :
        /\ e.kind = "Log"
        /\ Clean(e) \/ (~DropOnError /\ ~e.text /\ e \in On("otlp_in"))

\* The log says it is an error: by its level, or else by a word that is not
\* replaced as a whole (nodes.js:600-603).  A mail address at a domain is; one at
\* a numeric host or at a host without a dot keeps its local part and counts.
ReportsError(e) ==
    /\ e.kind = "Log" /\ e.text /\ e.region = "eu"
    /\ \/ Severe(e)
       \/ /\ e.level = "unset"
          /\ e.words \cap (SayError \ DomainEmails) # {}

\* "SIEM only gets errors" (nodes.js:648), by the level the log came with or by
\* what its text still says when the level is derived from it (nodes.js:621-622):
\* never because of a mail address that has been masked by then.
SiemOnlyErrors ==
    \A e \in On("otlp_in") : siem # {} => ReportsError(e) \/ ~e.text

\* No event from outside the EU, and none that is not an audit event, leaves
\* audit_filter, not even one on which the program fails (nodes.js:375-385).
SovereignAudit ==
    \A e \in On("audit_filter") : e.type = "audit" /\ e.region = "eu"

\* An error from within the EU reaches the SIEM and the archive
\* (nodes.js:640-646).
ErrorsReachSiem ==
    (\E e \in On("otlp_in") : ReportsError(e)) ~> (siem # {} /\ siem = archive)

\* "S3 gets everything" (nodes.js:654): what any destination gets, the archive
\* behind the route gets, too.
ArchiveGetsAll == (siem_otlp # {}) ~> (archive = siem_otlp)
=============================================================================
