-------------------------- MODULE MCVertexDomainDrift --------------------------
(* An instance of VertexDomainDrift for TLC. *)
EXTENDS VertexDomainDrift, TLC

CONSTANTS f1, f2

\* Pods as the webhook prepares them.
Created == {[label |-> TRUE, fqdn |-> f1]}

\* The annotation is changed or the label removed.
Changed == {[label |-> TRUE, fqdn |-> f2], [label |-> FALSE, fqdn |-> f1]}

\* The label is removed.
Unlabelled == {[label |-> FALSE, fqdn |-> f1]}

=============================================================================
