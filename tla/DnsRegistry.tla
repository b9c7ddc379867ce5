------------------------------ MODULE DnsRegistry ------------------------------
(***************************************************************************)
(* What the vertexDomain manager promises to users of the DNS zone, with   *)
(* Pods reduced to names that hold at most one FQDN at a time: a record is *)
(* written only under the FQDN its Pod holds, it disappears only when that *)
(* Pod is going away or the store loses everything, and a Pod gives up its *)
(* FQDN only when none of its records is left.                             *)
(***************************************************************************)
CONSTANTS Pods, FQDNs, IPs, None

VARIABLES
  holds,    \* [Pods -> FQDNs \cup {None}], the FQDN a Pod is held back for
  leaving,  \* [Pods -> BOOLEAN], the Pod that holds it is being deleted
  rec       \* [FQDNs \X Pods -> IPs \cup {None}]

vars == <<holds, leaving, rec>>

Init ==
  /\ holds = [p \in Pods |-> None]
  /\ leaving = [p \in Pods |-> FALSE]
  /\ rec = [k \in FQDNs \X Pods |-> None]

\* Pod p takes the FQDN f.
Acquire(p, f) ==
  /\ holds[p] = None
  /\ holds' = [holds EXCEPT ![p] = f]
  /\ UNCHANGED <<leaving, rec>>

\* A record of p is created or refreshed.
Register(p, ip) ==
  /\ holds[p] # None
  /\ rec' = [rec EXCEPT ![<<holds[p], p>>] = ip]
  /\ UNCHANGED <<holds, leaving>>

\* The deletion of p begins.
Leave(p) ==
  /\ holds[p] # None
  /\ ~leaving[p]
  /\ leaving' = [leaving EXCEPT ![p] = TRUE]
  /\ UNCHANGED <<holds, rec>>

\* The record of a Pod that is leaving is removed.
Deregister(p) ==
  /\ leaving[p]
  /\ rec' = [rec EXCEPT ![<<holds[p], p>>] = None]
  /\ UNCHANGED <<holds, leaving>>

\* A Pod without records gives up its FQDN.
Release(p) ==
  /\ leaving[p]
  /\ \A f \in FQDNs : rec[<<f, p>>] = None
  /\ holds' = [holds EXCEPT ![p] = None]
  /\ leaving' = [leaving EXCEPT ![p] = FALSE]
  /\ UNCHANGED rec

\* The store loses its content.
Wipe ==
  /\ rec' = [k \in FQDNs \X Pods |-> None]
  /\ UNCHANGED <<holds, leaving>>

Next ==
  \/ \E p \in Pods, f \in FQDNs : Acquire(p, f)
  \/ \E p \in Pods, ip \in IPs : Register(p, ip)
  \/ \E p \in Pods : Leave(p) \/ Deregister(p) \/ Release(p)
  \/ Wipe

Spec == Init /\ [][Next]_vars

=============================================================================
