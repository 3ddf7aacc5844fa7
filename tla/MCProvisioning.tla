--------------------------- MODULE MCProvisioning ---------------------------
(* Small instances of Provisioning for TLC.                                *)
EXTENDS ProvisioningRefinement

CONSTANTS w1, w2, u1, u2, u3

Plain == [images |-> {"webImage"}, host |-> "NONE", cluster |-> FALSE,
          logs |-> FALSE, keepLogs |-> FALSE, liveness |-> FALSE,
          readiness |-> FALSE, notJWS |-> FALSE]

Clustering == [Plain EXCEPT !.cluster = TRUE]
Logging    == [Plain EXCEPT !.logs = TRUE, !.keepLogs = TRUE, !.host = "plain"]
Everything == [images |-> {"webImage"}, host |-> "tls", cluster |-> TRUE,
               logs |-> TRUE, keepLogs |-> FALSE, liveness |-> TRUE,
               readiness |-> TRUE, notJWS |-> TRUE]
Refused    == [Everything EXCEPT !.images = {"webImageStream"}]

(* One WebServer logs or clusters, the other clusters.                     *)
MCSpecs == [w \in Names |-> IF w = w1 THEN {Clustering, Logging}
                                      ELSE {Clustering}]

(* Everything at once, or nothing at all (an image stream on Kubernetes).  *)
MCRich == [w \in Names |-> {Everything, Refused}]

(* Both WebServers log.                                                    *)
MCBothLog == [w \in Names |-> {Logging}]
=============================================================================
