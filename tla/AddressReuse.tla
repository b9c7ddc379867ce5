----------------------------- MODULE AddressReuse -----------------------------
(***************************************************************************)
(* The vertexDomain manager together with the address pool its records     *)
(* come from.  VertexDomain lets a claim hold any address; here an address *)
(* is published because the IPAM webhook reserved it for that claim, and   *)
(* goes back to the pool when the driver releases the claim, which the     *)
(* reconciler is not told about.  A released address is free for the next  *)
(* claim while the old record may still be in the zone.                    *)
(***************************************************************************)
EXTENDS VertexDomain

VARIABLES
  pool,   \* [Claims -> address or None], the reservations of the NumaNetwork's range
  ended   \* <<name, uid>> of the Pods that failed or were evicted, deleted or not

reuseVars == <<vars, pool, ended>>

ReuseInit ==
  /\ Init
  /\ pool = [c \in Claims |-> None]
  /\ ended = {}

\* The Pod of claim c runs: it exists, is not being deleted and has not ended.
Running(c) == /\ Api(c[1]).uid = c[2]
              /\ ~Api(c[1]).dt
              /\ <<c[1], c[2]>> \notin ended

\* The kubelet has unprepared every claim of the Pod, or prepared none.
Unprepared(p) == \A i \in 1..NumClaims, u \in {Api(p).uid} \ {0} : pool[<<p, u, i>>] = None

\* getProfileConfig answers with a free address and the driver publishes it in
\* the claim.  When the range is exhausted there is none, and the Pod waits.
Prepare(p, i, ip) ==
  LET c == <<p, Api(p).uid, i>>
  IN  /\ \A d \in Claims : pool[d] # ip
      /\ PublishIP(p, i, ip)
      /\ claims[c] = None
      /\ Running(c)
      /\ pool' = [pool EXCEPT ![c] = ip]
      /\ ended' = ended

\* releaseProfileConfig: the kubelet unprepares a Pod that no longer runs, also
\* when a forced deletion has removed it already.  The claim keeps its status.
Release(c) ==
  /\ pool[c] # None
  /\ ~Running(c)
  /\ pool' = [pool EXCEPT ![c] = None]
  /\ UNCHANGED <<vars, ended>>

\* A Pod with an address fails or is evicted.  Reconcile does not look at the
\* Pod's phase, so its record stays.
EndPod(p) ==
  /\ Running(<<p, Api(p).uid>>)
  /\ ~Unprepared(p)
  /\ ended' = ended \cup {<<p, Api(p).uid>>}
  /\ UNCHANGED <<vars, pool>>

\* Every other step is one of VertexDomain that publishes nothing; the grace
\* period of a Pod does not end before its claims are unprepared.
ReuseNext ==
  \/ /\ UNCHANGED <<claims, pool, ended>>
     /\ Next
     /\ \A p \in Pods : KubeletDone(p) => Unprepared(p)
  \/ \E p \in Pods, i \in 1..NumClaims, ip \in IPs : Prepare(p, i, ip)
  \/ \E c \in Claims : Release(c)
  \/ \E p \in Pods : EndPod(p)

ReuseSpec == ReuseInit /\ [][ReuseNext]_reuseVars

-----------------------------------------------------------------------------
(* Properties *)

\* A record gives an address that the pool holds for a claim of that very Pod,
\* unless the Pod is being deleted or has ended.  So whatever is re-used and
\* however stale the manager's view is, two records never send the senders of
\* two running Pods to one address: a record that shares its address with
\* another Pod's is one of a Pod on its way out.
RecordBacked ==
  \A f \in FQDNs, p \in Pods :
    rec[<<f, p>>] # None =>
      \/ Api(p).dt
      \/ <<p, Api(p).uid>> \in ended
      \/ \E c \in Claims : /\ c[1] = p
                           /\ c[2] = Api(p).uid
                           /\ pool[c] = rec[<<f, p>>]

=============================================================================
