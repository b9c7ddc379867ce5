---------------------------- MODULE MCVertexDomain ----------------------------
(* Instances of VertexDomain for TLC. *)
EXTENDS VertexDomain, TLC

\* Pods with every FQDN or none, and one without the label.
MixedTemplate == [label: {TRUE}, fqdn: FQDNs \cup {None}] \cup [label: {FALSE}, fqdn: {None}]

\* Only Pods the webhook has prepared.
WebhookTemplate == [label: {TRUE}, fqdn: FQDNs]

=============================================================================
