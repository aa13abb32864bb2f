---------------------------- MODULE MCMonitoring ----------------------------
(* Instances of Monitoring for TLC. *)
EXTENDS Monitoring

\* Metrics that violate no rule, and metrics that do.
MCLoud == {[e \in Exprs |-> 0], [e \in Exprs |-> 1]}
=============================================================================
