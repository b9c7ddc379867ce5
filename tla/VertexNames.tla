----------------------------- MODULE VertexNames -----------------------------
(***************************************************************************)
(* From a direct binding to the addresses that a vertex program resolves:  *)
(* VertexDomainMutator gives Pods an FQDN and the FQDNs of the vertices    *)
(* they send to, EtcdStore turns an FQDN into a key, and the SDK looks up  *)
(* what the keys below it hold.  A name is the sequence of its labels; a   *)
(* key is the sequence of its parts, and since Get ends its prefix with a  *)
(* slash a prefix of the key's text is a prefix of its parts.              *)
(*                                                                         *)
(* When records are written and removed is the subject of VertexDomain.    *)
(***************************************************************************)
EXTENDS Naturals, Sequences, SequencesExt

CONSTANTS
  Vertices,    \* names of vertices; <<>> is the empty name
  Pipelines,   \* Pipelines: namespace and name
  Annotations, \* lists of bindings that Pipelines carry
  Suffix,      \* vertexDomainSuffix
  Pods,        \* Pods
  PodNames,    \* names of Pods, unique within a namespace only
  IPs

ASSUME NamesAssumption ==
  /\ Vertices \subseteq Seq(STRING)
  /\ Pipelines \subseteq Seq(STRING) \X Seq(STRING)
  /\ Suffix \in Seq(STRING) /\ Len(Suffix) >= 2
  /\ PodNames \subseteq STRING
  /\ \A list \in Annotations : \A b \in ToSet(list) : {b.from, b.to} \subseteq Vertices

VARIABLES
  bindings,  \* [Pipelines -> the list of the annotation]
  pods,      \* [Pods -> the Pod or NoPod]
  store      \* etcd: a set of key and address pairs

vars == <<bindings, pods, store>>

NoPod == [ns |-> <<>>, name |-> "none", pipeline |-> <<>>, vertex |-> <<>>, fqdn |-> <<>>,
          targets |-> {}, sends |-> {}, ip |-> {}]

-----------------------------------------------------------------------------
(* Names and keys *)

\* Mutant: names are not checked for characters that DNS labels cannot have.
BuildUnchecked(vertex, pipeline, ns) == vertex \o pipeline \o ns \o Suffix

\* BuildVertexDomain: <<>> is the error.  The regular expression lets only a
\* single, nonempty label pass for each part.
BuildVertexDomain(vertex, pipeline, ns) ==
  IF \A part \in {vertex, pipeline, ns} : Len(part) = 1
  THEN vertex \o pipeline \o ns \o Suffix ELSE <<>>

FQDNToEtcdKey(fqdn) == <<"skydns">> \o Reverse(fqdn)

\* FQDNToEtcdKey returns an error for fewer than two labels.
HasKey(fqdn) == Len(fqdn) >= 2

RecordKey(fqdn, pod) == Append(FQDNToEtcdKey(fqdn), pod)

\* Store.Put, Store.Delete and Store.Get.
Put(fqdn, pod, ip) ==
  {r \in store : r[1] # RecordKey(fqdn, pod)} \cup {<<RecordKey(fqdn, pod), ip>>}

Delete(fqdn, pod) == {r \in store : r[1] # RecordKey(fqdn, pod)}

Get(fqdn) == {r[2] : r \in {r \in store : IsPrefix(FQDNToEtcdKey(fqdn), r[1])}}

\* The SDK: CoreDNS answers with what Get returns.
Resolve(fqdn) == Get(fqdn)

\* A name without records raises an exception, which resolve_targets lets pass.
ResolveTargets(targets) ==
  IF \E f \in targets : Resolve(f) = {} THEN [ok |-> FALSE, ips |-> {}]
  ELSE [ok |-> TRUE, ips |-> UNION {Resolve(f) : f \in targets}]

-----------------------------------------------------------------------------
(* The Pod webhook *)

\* vertexInDirectBindings.
VertexInDirectBindings(vertex, list) ==
  \E b \in ToSet(list) : b.type = "direct" /\ vertex \in {b.from, b.to}

\* The bindings by which the vertex sends.
Outgoing(vertex, list) == {b \in ToSet(list) : b.type = "direct" /\ b.from = vertex}

\* Mutant: only the first binding of the vertex is looked at.
CollectFirstTarget(vertex, list, pipeline, ns) ==
  LET from == SelectSeq(list, LAMBDA b : b \in Outgoing(vertex, list))
  IN  IF from = <<>> THEN {} ELSE {BuildVertexDomain(from[1].to, pipeline, ns)}

\* collectTargetFQDNs, without the order, which nobody looks at; an error for one
\* target is one for all.
CollectTargetFQDNs(vertex, list, pipeline, ns) ==
  {BuildVertexDomain(b.to, pipeline, ns) : b \in Outgoing(vertex, list)}

\* The Pod as created, before the webhook.
Plain(ns, name, pipeline, vertex) ==
  [NoPod EXCEPT !.ns = ns, !.name = name, !.pipeline = pipeline, !.vertex = vertex]

\* VertexDomainMutator.Handle, when it has something to add.
Mutated(ns, name, pipeline, vertex) ==
  LET list == bindings[<<ns, pipeline>>]
  IN  [Plain(ns, name, pipeline, vertex) EXCEPT
         !.fqdn = BuildVertexDomain(vertex, pipeline, ns),
         !.targets = CollectTargetFQDNs(vertex, list, pipeline, ns),
         !.sends = {b.to : b \in Outgoing(vertex, list)}]

Concerned(ns, pipeline, vertex) ==
  /\ <<>> \notin {pipeline, vertex}
  /\ VertexInDirectBindings(vertex, bindings[<<ns, pipeline>>])

NameFree(ns, name) == \A p \in Pods : <<pods[p].ns, pods[p].name>> # <<ns, name>>

\* The webhook lets the Pod pass as it is: no vertex Pod, no direct binding, or
\* the Pipeline could not be read.
AdmitPlain(p, ns, name, pipeline, vertex) ==
  /\ pods[p] = NoPod
  /\ NameFree(ns, name)
  /\ pods' = [pods EXCEPT ![p] = Plain(ns, name, pipeline, vertex)]
  /\ UNCHANGED <<bindings, store>>

\* The webhook adds FQDN and targets; a Pod with a name that BuildVertexDomain
\* refuses is not created.
AdmitMutated(p, ns, name, pipeline, vertex) ==
  LET pod == Mutated(ns, name, pipeline, vertex)
  IN  /\ pods[p] = NoPod
      /\ NameFree(ns, name)
      /\ Concerned(ns, pipeline, vertex)
      /\ pod.fqdn # <<>> /\ <<>> \notin pod.targets
      /\ pods' = [pods EXCEPT ![p] = pod]
      /\ UNCHANGED <<bindings, store>>

-----------------------------------------------------------------------------
(* Users, and the reconciler reduced to its effect on the store *)

\* A user sets or edits the annotation of a Pipeline.
Annotate(pl, list) ==
  /\ bindings[pl] # list
  /\ bindings' = [bindings EXCEPT ![pl] = list]
  /\ UNCHANGED <<pods, store>>

\* The Pod's address is registered, or replaced.
Register(p, ip) ==
  /\ HasKey(pods[p].fqdn)
  /\ pods[p].ip # {ip}
  /\ pods' = [pods EXCEPT ![p].ip = {ip}]
  /\ store' = Put(pods[p].fqdn, pods[p].name, ip)
  /\ UNCHANGED bindings

\* The Pod goes away, its record first.
Deregister(p) ==
  /\ pods[p] # NoPod
  /\ pods' = [pods EXCEPT ![p] = NoPod]
  /\ store' = IF HasKey(pods[p].fqdn) THEN Delete(pods[p].fqdn, pods[p].name) ELSE store
  /\ UNCHANGED bindings

-----------------------------------------------------------------------------
Init ==
  /\ bindings = [pl \in Pipelines |-> <<>>]
  /\ pods = [p \in Pods |-> NoPod]
  /\ store = {}

Next ==
  \/ \E pl \in Pipelines, list \in Annotations : Annotate(pl, list)
  \/ \E p \in Pods, name \in PodNames, pl \in Pipelines, vertex \in Vertices :
       \/ AdmitPlain(p, pl[1], name, pl[2], vertex)
       \/ AdmitMutated(p, pl[1], name, pl[2], vertex)
  \/ \E p \in Pods, ip \in IPs : Register(p, ip)
  \/ \E p \in Pods : Deregister(p)

Spec == Init /\ [][Next]_vars

-----------------------------------------------------------------------------
(* Properties *)

\* Type invariant: an FQDN that the webhook hands out is vertex, Pipeline,
\* namespace and suffix, one label for each of the first three.
NamesTypeOK ==
  /\ \A p \in Pods : /\ pods[p].fqdn = <<>> \/ Len(pods[p].fqdn) = 3 + Len(Suffix)
                     /\ \A f \in pods[p].targets : Len(f) = 3 + Len(Suffix)
                     /\ pods[p].ip \subseteq IPs
  /\ \A r \in store : Len(r[1]) = 5 + Len(Suffix) /\ r[2] \in IPs

\* The addresses of the registered Pods of one vertex.
Registered(ns, pipeline, vertex) ==
  UNION {pods[p].ip : p \in {p \in Pods :
    pods[p].ns = ns /\ pods[p].pipeline = pipeline /\ pods[p].vertex = vertex}}

\* Store.Get of the FQDN of a Pod returns the addresses of the Pods of its vertex
\* and no other: no two vertices, Pipelines or namespaces share an FQDN, no key
\* is a prefix of another vertex's, and neither the records of the Pods of one
\* vertex nor those of Pods of one name in two namespaces replace or remove each
\* other.
LookupExact ==
  \A p \in Pods : pods[p].fqdn # <<>> =>
    Get(pods[p].fqdn) = Registered(pods[p].ns, pods[p].pipeline, pods[p].vertex)

\* From the targets that VertexDomainMutator gave a Pod, resolve_targets returns
\* the addresses of exactly the vertices to which the Pipeline bound it directly
\* when the Pod was created, in its own Pipeline and namespace, and it raises an
\* exception exactly when one of them has no registered Pod.
TargetsReachPeers ==
  \A p \in Pods :
    LET answer == ResolveTargets(pods[p].targets)
        peers == {Registered(pods[p].ns, pods[p].pipeline, to) : to \in pods[p].sends}
    IN  /\ answer.ok <=> {} \notin peers
        /\ answer.ok => answer.ips = UNION peers

=============================================================================
