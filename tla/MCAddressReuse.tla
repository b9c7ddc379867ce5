---------------------------- MODULE MCAddressReuse ----------------------------
(* An instance of AddressReuse for TLC. *)
EXTENDS AddressReuse, TLC

\* Only Pods the webhook has prepared.
WebhookTemplate == [label: {TRUE}, fqdn: FQDNs]

\* Pod names are interchangeable.
PodSymmetry == Permutations(Pods)

=============================================================================
