----------------------------- MODULE SinkConfig -----------------------------
(***************************************************************************)
(* The sinks of nodes.js that read pii_and_enrich and have a buffer of     *)
(* their own.  `memory` is in events and `disk` in GiB, 0 for a stage they *)
(* do not have; `whenFull` is that of the last stage, `block` where it is  *)
(* not set; `retries` is request.retry_attempts, 0 where it is not set:    *)
(* no limit.                                                               *)
(***************************************************************************)
siem_otlp == [memory |-> 50000, disk |-> 10, whenFull |-> "drop_newest",
              retries |-> 0]

s3_archive == [memory |-> 0, disk |-> 50, whenFull |-> "block", retries |-> 0]

customer_siem == [memory |-> 100000, disk |-> 10, whenFull |-> "block",
                  retries |-> 10]

compliance_archive == [memory |-> 0, disk |-> 50, whenFull |-> "block",
                       retries |-> 0]

logme_opensearch == [memory |-> 50000, disk |-> 5, whenFull |-> "block",
                     retries |-> 0]

Config == [siem_otlp |-> siem_otlp, s3_archive |-> s3_archive,
           customer_siem |-> customer_siem,
           compliance_archive |-> compliance_archive,
           logme_opensearch |-> logme_opensearch]
=============================================================================
