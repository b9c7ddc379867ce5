# TLA+ specifications of gpu-direct-comm

gpu-direct-comm extends Numaflow with secondary NICs: a `NumaNetwork` declares a
network, Pipelines bind edges to it in an annotation, vertex Pods get a NIC and
an address through DRA, dranet and whereabouts, and a DNS zone kept in etcd maps
vertices to these addresses. This directory holds models of its controllers,
webhooks and IPAM server, TLC runs over small instances of them, and TLAPS proofs
of their safety properties.

## The system and its models

| Part | Source | Modules |
|---|---|---|
| vertexDomain controller: one DNS record per labelled Pod | `internal/controller/vertexdomain_controller.go` | `VertexDomain`, abstract: `DnsRegistry` |
| the same with the address pool behind it | and `internal/ipam/handler.go` | `AddressReuse`, extends `VertexDomain` |
| the same with edited Pods and work that outlives its worker | and `internal/dns/etcd_store.go`, `cmd/main.go` | `VertexDomainDrift`, extends `VertexDomain` |
| DNS record store | `internal/dns/etcd_store.go` | calls in `VertexDomain`, late calls in `VertexDomainDrift`, keys in `VertexNames` |
| NumaNetwork controller: finalizer and ResourceClaimTemplate (RCT) | `internal/controller/numanetwork_controller.go` | `NumaNetwork` |
| IPAM webhook provider: addresses through whereabouts | `internal/ipam/`, `cmd/webhook-whereabouts-numanetwork` | `IpAllocation`, extends `NumaNetwork` |
| Pipeline webhooks: claim injection and validation | `internal/webhook/v1alpha1/pipeline_*.go`, `binding.go` | `PipelineAdmission` |
| Pod webhook: label, FQDN, targets | `internal/webhook/v1alpha1/vertex_domain*.go` | `VertexNames` |
| Python SDK | `sdk/python/vertexdomain/resolver.py` | `VertexNames` |
| Manager process | `cmd/main.go` | the `Restart` actions, the leftover worker of `VertexDomainDrift` |

The parts meet in the API server. The Pipeline webhooks wait for the RCT that the
NumaNetwork controller makes; claims made from it ask the IPAM provider for an
address; the Pod webhook labels the Pods; the vertexDomain controller registers
the address of the claim; the SDK looks it up. `PROJECT.json` maps each
definition to its source lines and lists components, hazards and findings.
`MC*` modules give the constants of the runs; `*Proofs`, `VertexDomainRecords` and
`VertexDomainDriftInv` hold theorems and lemmas.

### How the controllers are modelled

A controller reads through informer caches and writes to the API server. For an
object, the model keeps the *sequence of states the informer has not consumed*:
its head is what the cache holds and its last element is what the API server
holds. A write appends, a watch event drops the head, a relist or a restart
keeps only the last. An `Update` succeeds only if the worker's copy is the last
element (optimistic concurrency). One reconcile is a chain of steps, one per
call that can fail or can be overtaken (`w.pc`); `CallFails` is the call that
returns an error without effect, `Continue` the one that takes effect and either
returns or loses its reply. Each controller has one worker
(`MaxConcurrentReconciles` is left at its default).

* **VertexDomain.** Pods come and go under the same name with new uids; a name's
  claims are bound and get addresses in any order; the etcd content is
  `rec[<<fqdn, pod>>]` and can be lost (the deployment uses an `emptyDir`).
  `published` is a history variable. Pods are those of one namespace, since the
  etcd key holds the bare Pod name.
* **DnsRegistry.** What users of the zone may rely on: a record is written only
  under the FQDN its Pod holds, disappears only when the Pod is leaving or the
  store is lost, and a Pod gives up its FQDN only without records. `VertexDomain`
  maps to it with `holds` and `leaving` computed from the API server's Pod.
* **AddressReuse.** An address is published only when the pool had it free, and
  returns to the pool when the kubelet has unprepared a Pod that no longer runs.
  The reconciler is told of neither. A Pod may also end (fail, be evicted)
  without being deleted.
* **VertexDomainDrift.** Users may change the label and the FQDN annotation of a
  Pod once. A store call past its deadline, a request sent by a process that
  died, and a former leader that has not noticed yet are all one *leftover
  worker* (`old`), an instance of `VertexDomain`'s own steps, which may go on or
  stop anywhere; what it puts back in its queue is lost, and the next worker that
  is given up takes its place. `excused` is a history variable.
* **NumaNetwork.** One name, used several times. The RCT is reduced to what
  `reconcileRCT` compares: owner uid, device class, label. It may also be made,
  edited or controlled by somebody else. `SpecImmutable` says whether the API
  server refuses changes of an RCT's spec: Kubernetes does, the fake client of the
  unit tests does not.
* **IpAllocation.** A request reads the NumaNetwork uncached and then runs the
  plugin, as two steps. `CutOff` is the driver's deadline, `Shutdown` the end of
  the server; either leaves the plugin in `late`, from where it may still take
  effect while the next request of the same claim is served (`Land`). `pool` is
  the set of whereabouts reservations; `missed` is a history variable of releases
  that could not reach their reservation.
* **PipelineAdmission.** A user and numaflow have a request each in flight
  through mutator, validator and API server. Templates carry a network's label
  and are the reconciler's own or foreign, so a list can have none, one or more.
  The mutator's loop is one step per binding: skip it, use a template resolved
  before, or list the templates; the latter two queue the template for both ends.
  The `resourceClaims` of a vertex are counts, so that duplicates show.
* **VertexNames.** Names are sequences of labels and keys sequences of parts,
  because the properties are about how they are put together. When records are
  written is reduced to `Register` and `Deregister`.

## Runs

`tlc -config <run>.cfg MC<module>`; state counts are distinct states.

| Run | States | Checks | Bounds |
|---|---|---|---|
| `VertexDomainReuse` | 251,146 | `TypeOK`, `NoOrphanRecord`, `RecordIsOwn`, `ImplementsRegistry`, `EventuallyRegistered`, `EventuallyDeleted` | 1 Pod name used twice, 2 FQDNs (1 malformed), 2 addresses, 1 fault |
| `VertexDomainResync` | 164,288 | `ImplementsRegistry`, `EventuallyCurrent` | 1 Pod, 2 claims, 2 addresses, 1 fault, 1 loss of the store |
| `AddressReuse` | 1,326,642 | `RecordBacked`, `NoPrematureDeregistration` | 2 Pods under 1 FQDN, 1 address, 1 fault |
| `VertexDomainDriftEdits` | 82,835 | `OrphanHasCause`, `RegisteredUnlessTaken`, `DeletionUnblocked` | 1 Pod edited once (FQDN or label), 2 FQDNs, 2 addresses, 1 fault |
| `VertexDomainDriftLate` | 547,247 | `OrphanHasCause`, `DeregistrationHasCause`, `RegisteredUnlessTaken`, `EventuallyCurrent` | 1 Pod name used twice, each Pod edited once (label), 1 FQDN, 1 address, 1 fault |
| `NumaNetworkTemplate` | 310,614 | `NetworkTypeOK`, `TemplateForHeldNetwork`, `ForeignTemplateKept`, `EventuallyRestored`, `EventuallyRemoved` | name used twice, 2 device classes, immutable specs, 1 edit by hand, 1 fault |
| `NumaNetworkSpecRefused` | | `EventuallyTemplated`, **violated** | name used once, 2 device classes, immutable specs, 1 edit, no fault |
| `IpAllocation` | 482,469 | `IpTypeOK`, `LeakHasCause`, `PreparedIsReserved`, `TeardownCompletes` | 1 claim, 2 ranges, 1 edit, 2 faults |
| `IpAllocationTeardown` | | `AddressesReleasable`, **violated** | 1 claim, no fault |
| `PipelineAdmission` | 49,974 | `AdmissionTypeOK`, `StoredIsInjected`, `NoDuplicateClaims`, `OnlyBoundClaimsAdded`, `EventuallyAnswered`, `DeletionPassesValidator` | 3 vertices, 2 networks, 3 annotations, 2 revisions, 1 network deleted or foreign template, 1 fault |
| `PipelineAdmissionDeletion` | | `DeletionCompletes`, **violated** | 1 network, no fault |
| `VertexNamesLookup` | 128,576 | `NamesTypeOK`, `LookupExact`, `TargetsReachPeers` | 2 Pods, 2 Pod names, 3 Pipelines in 2 namespaces, names of 0 to 2 labels |

What they show, beyond the names:

* `VertexDomainReuse`, `VertexDomainResync`: with re-created Pods, stale caches and
  a fault anywhere, no record is orphaned or inherited, and a Pod with an address
  is registered without relying on resyncs. After a loss of etcd or a rewritten
  address, the record is repaired if the informer resyncs.
* `AddressReuse`: no record of a running Pod gives an address that the pool holds
  for another, although the record of a leaving or ended Pod may.
* `VertexDomainDriftEdits`, `VertexDomainDriftLate`: exactly which guarantees edits
  and late calls cost. A record can be orphaned only by changing its Pod's FQDN or
  by a late `Put`, and a live Pod can lose its record only to a late `Delete` or
  with the whole store. In `VertexDomainDriftLate` a leftover of the first Pod of a
  name meets the second, and `EventuallyRegistered` is false: the late `Delete`
  takes the record of a registered Pod, and nothing puts the Pod in the queue
  again. `RegisteredUnlessTaken` shows that this is the only way to stay
  unregistered, `EventuallyCurrent` that a resync repairs it.
  Two further instances, not kept as runs, found no violation either:
  names used twice together with edits of the FQDN (1,941,904 states;
  `OrphanHasCause`, `DeregistrationHasCause`, `RegisteredUnlessTaken`), and names used
  twice with two addresses and no edits (224,389 states), where `EventuallyCurrent`
  also repairs the wrong address of a late `Put`.
* `NumaNetworkTemplate`: whatever users do to it, the RCT converges, up to its
  device class. `NumaNetworkSpecRefused` shows what happens to the device class on
  an API server that refuses changes of the spec. On one that accepts them
  (`SpecImmutable = FALSE`, name used twice, 2 edits, 1 fault) `EventuallyTemplated`
  holds, in 485,476 states.
* `IpAllocation`: an address leaks only when the release found no NumaNetwork or
  another range, or when a killed ADD took effect after the release.
* `VertexNamesLookup`: no two vertices share a name or a key prefix, even though
  Pipeline names may contain dots and Pod names repeat across namespaces.

The bounds are chosen so that the races happen: two incarnations of a name give
every stale read of a predecessor, two Pods with one address every re-use of it,
one fault a crash, lost reply or failure at any single point, and two faults a
request cut off and its successor failing. The theorems below cover any number. In
`AddressReuse` each name is used once, for the sake of two Pods; what
a stale work item of an earlier Pod of a name could do is `ImplementsRegistry` in `VertexDomainReuse` and the theorems
`NoEarlyDeregistration` and `RecordsAreBacked`. In `PipelineAdmission` a single
annotation passes the validator, sent again with and without the claims injected
before; changes from one valid annotation to another, or to none, are left to the
theorems.
Deadlock is not checked: with the bounds used up and nothing left to do, the
systems rightly stop.

### Fairness

* A worker finishes its reconcile and the queue is served: weak fairness of
  `WorkerStep`; strong fairness of `Dequeue(p)` in `VertexDomain`, because the
  workqueue is first-in first-out and a Pod that is queued again and again is
  taken again and again. Failures of calls are bounded by `MaxFaults`.
* Watches deliver, kubelets finish, garbage is collected (`NumaNetwork`).
* The informer's periodic resync, whose period the manager leaves at
  controller-runtime's default (hours), is assumed nowhere but in the premise of
  `EventuallyCurrent`. Without it a record would not be repaired after a loss of
  etcd until the Pod changes or the manager restarts.
* `IpFairSpec`: the server answers, kubelet and driver carry the removal of every
  Pod through.
* `PipelineAdmission`: a request is answered, numaflow retries the removal of its
  finalizer, the reconciler makes the templates of networks that stay. Garbage
  collection of templates is not assumed there.
* Nothing is assumed of users, of a leftover worker or of a killed plugin.

### Findings

1. `IpAllocationTeardown`: the NumaNetwork controller counts the claims in its
   cache and removes the finalizer in a later call. A claim that appears in
   between, or that the cache has not seen, gets an address that can no longer be
   released, which the comment at `numanetwork_controller.go:66` means to prevent.
2. `PipelineAdmissionDeletion`: `PipelineMutator.Handle` has no counterpart of the
   deletion guard in `PipelineValidator.Handle` (`pipeline_webhook.go:52`). When
   the RCT went with its NumaNetwork, the update that removes the Pipeline's
   finalizer is refused at every try. `DeletionPassesValidator` shows that the
   validator's guard does its part.
3. `NumaNetworkSpecRefused`: where an RCT exists with another device class,
   `reconcileRCT` tries to change its spec (`numanetwork_controller.go:162`), which
   Kubernetes refuses: the reconcile fails for ever, and the owner reference and
   label that the same `Update` carries are not restored either.
   `TestReconcile_RCTSpecUpdatedOnChange` (`numanetwork_controller_test.go:323`) says
   that "reconcile should update it"; it runs on a fake client that accepts the
   `Update`. That RCT specs are immutable is known of Kubernetes; nothing under
   `src/` says so.

Other limits show up in the properties rather than as findings, because nothing
in the repository states the contrary:

* `LeakHasCause`: editing `ipRange` between ADD and DEL leaks the address, since
  DEL uses the new range; so does a killed ADD that takes effect after the release.
* `RecordBacked`: a Pod that failed or was evicted keeps its record until it is
  deleted, although its address may already be another Pod's.
* `OrphanHasCause`, `DeregistrationHasCause`, `RegisteredUnlessTaken`: the reconciler
  does not remember the FQDN it registered, and store calls carry no uid or
  revision; a Pod whose record a late `Delete` took waits for the next resync.
* `DeletionUnblocked`, `EventuallyDeleted`: a Pod that lost its label or FQDN, or
  whose FQDN has no key, keeps its finalizer.

## Proofs

The theorems hold for all values of the constants that satisfy the assumption of
the module, which TLC evaluates in its runs: `ConstantsAssumption` (malformed names
are FQDNs, Pod templates are typed, `None` is no value, bounds are natural
numbers), `EditsAssumption` (edits are typed), `NumaNetworkAssumption` (likewise),
`AdmissionAssumption` (annotations hold lists of bindings, bounds are natural
numbers), `NamesAssumption` (names are sequences of strings, the suffix has at
least two labels, bindings name vertices).

| Module | Theorem | Statement |
|---|---|---|
| `VertexDomainProofs` | `TypeCorrect` | `Spec => []TypeOK` |
| | `Invariance` | `Spec => []IInv` |
| | `NoOrphans` | `Spec => []NoOrphanRecord` |
| `VertexDomainRecords` | `RecordsAreOwn` | `Spec => []RecordIsOwn` |
| | `RecordsAreBacked` | `ReuseSpec => []RecordBacked` |
| | `NoEarlyDeregistration` | `Spec => NoPrematureDeregistration` |
| | `Refinement` | `Spec => ImplementsRegistry` |
| `VertexDomainDriftProofs` | `DriftInvariance` | `DriftSpec => []DriftInv` |
| | `OrphansHaveCauses` | `DriftSpec => []OrphanHasCause` |
| | `DeregistrationsHaveCauses` | `DriftSpec => DeregistrationHasCause` |
| `NumaNetworkProofs` | `TypeCorrect` | `Spec => []NetworkTypeOK` |
| | `Invariance` | `Spec => []IInv` |
| | `TemplatesServeHeldNetworks` | `Spec => TemplateForHeldNetwork` |
| | `ForeignTemplatesKept` | `Spec => ForeignTemplateKept` |
| `IpAllocationProofs` | `IpInvariance` | `IpSpec => []IpInv` |
| | `IpTypeCorrect` | `IpSpec => []IpTypeOK` |
| | `LeaksHaveCauses` | `IpSpec => []LeakHasCause` |
| | `PreparedStaysReserved` | `IpSpec => []PreparedIsReserved` |
| `PipelineAdmissionProofs` | `AdmissionInvariance` | `Spec => []AdmissionInv` |
| | `AdmissionTypeCorrect` | `Spec => []AdmissionTypeOK` |
| | `StoredAreInjected` | `Spec => []StoredIsInjected` |
| | `ClaimsAreUnique` | `Spec => []NoDuplicateClaims` |
| | `AddedClaimsAreBound` | `Spec => OnlyBoundClaimsAdded` |
| `VertexNamesProofs` | `NamesInvariance` | `Spec => []NamesInv` |
| | `NamesTypeCorrect` | `Spec => []NamesTypeOK` |
| | `LookupsAreExact` | `Spec => []LookupExact` |
| | `TargetsAreExact` | `Spec => []TargetsReachPeers` |

None of the properties is inductive as it stands.

**VertexDomain.** Whether `Put` and `RemoveFinalizer` are safe depends on what a
stale snapshot still says about the present. `IInv` adds

* `HistoryInv`, about the snapshots on their way to the cache: uids were handed
  out; the states of one Pod are consecutive and its deletion timestamp stays;
  while the API server's Pod carries the finalizer, the cache already shows that
  very Pod; a live snapshot with the finalizer is a promise that the Pod still has
  it. The third holds because only a worker that read the Pod from the cache adds
  the finalizer.
* `WorkerInv`, about the worker's copy: between `extractIP` and `put` the API
  server's Pod is that Pod with its finalizer; in `delete` and `removeFinalizer` it
  is not a successor with a finalizer, and every state of it from here on is
  being deleted; in `removeFinalizer` its record is gone.

`WriteInv` and `SuffixInv` show that `HistoryInv` survives a write and a dropped
prefix; `WorkerStepInv` and `ClusterInv` treat the actions one by one. The
refinement maps each worker step to a step of `DnsRegistry` or a stutter
(`WorkerStepMaps`), each cluster step likewise (`ClusterMaps`).

**VertexDomainDrift.** `WorkerInv` no longer holds when a Pod may lose its FQDN
under the worker's hands and a second worker acts on an older snapshot. `DriftInv`
(module `VertexDomainDriftInv`) splits it:

* `Sound(v)`, for either worker, is what no step of anybody else takes back: one
  that adds the finalizer holds the only Pod that the informer knows, if that is
  still the API server's; one that deregisters holds a Pod whose every later state
  is being deleted; in `removeFinalizer` its record is gone or excused.
* `CurrentInv` is what holds of the current worker only: the Pod it registers keeps
  the finalizer, and the one it deregisters has no successor with a finalizer.
* `LeftoverInv` relates the two. The leftover read the cache first; so it never
  deregisters the Pod that the current worker registers, and it adds the finalizer
  only to the Pod that the current worker holds.
* `HeldInv` is `HistoryInv` up to the FQDNs that were edited away.

Every step of a worker is a `Call`, what a worker's step may change, proved once
for both workers; every cluster step consumes from histories, appends one
state, or leaves them alone (`QuietInv`, `DriftWriteInv`). The leftover's steps get
the lemmas of `VertexDomainProofs` through the instance `OldProofs`. `DriftInv` was
checked with TLC first, also with two faults and a loss of the store.

**AddressReuse.** `OwnInv` says that the address in any claim, cached or not, is an
earlier Pod's or was published for the newest one under the name (`Known`), and so
is what the worker is about to put. `ReuseInv` adds that every published address is
still in a claim of the newest Pod, and that the pool holds what the claims of a
running Pod say.

**NumaNetwork.** `HistoryInv` and `WorkerInv` are the same argument for one object:
a NumaNetwork once seen live with its finalizer is still there, because the
finalizer comes off only what was seen being deleted. `updateRCT` never holds a
copy that another object controls, and a successful update means that the copy is
current.

**IpAllocation.** `CallInv` ties the driver's state to the pool and to the plugins
left over: before the first request there is neither; after an answered release a
reservation is in `missed`; a leftover DEL exists only once the release has begun,
so it cannot take the address of a prepared claim.

**PipelineAdmission.** `RequestInv` follows the mutator's loop: at binding `i`, what
is queued covers the direct bindings before `i` and comes from them. After the
loop the same is true of the object itself (`Covered`), since injection keeps what
is there and adds what is queued. The API server stores an object only over the
Pipeline it was made from, so a request that was overtaken adds nothing. Removing
all claims and sending the Pipeline again is covered too: the loop runs on every
write.

**VertexNames.** `NamedParts`: a name tells vertex, Pipeline and namespace, which
rests on the check for single labels in `BuildVertexDomain`. `PrefixIsName`: among
names of one length, a key is a prefix of a record's key only if the names are
equal. `NamesInv` says that the store holds the records of the Pods and no other,
and that a Pod carries its own name and those of the vertices it sends to.

Only model-checked: all liveness properties (the prover does not treat fairness and
`ENABLED`): `EventuallyRegistered`, `EventuallyDeleted`, `EventuallyCurrent`,
`RegisteredUnlessTaken`, `DeletionUnblocked`, `EventuallyRestored`, `EventuallyRemoved`,
`TeardownCompletes`, `EventuallyAnswered`, `DeletionPassesValidator`. Every safety invariant and action property that a passing
run checks is proved.

## Not modelled

* More than one edit of a Pod and more than one leftover worker at a time; FQDN
  annotations written by hand outside the webhook's form in `VertexNames`.
* `resourceClaims` entries that users write into a Pipeline themselves. The mutator
  recognises an entry by its name, the model by its template; for the entries that
  the mutator wrote the two are the same, and the model has no others.
* Whereabouts itself: `pool` is what its ADD and DEL promise. In `IpAllocation`
  ranges do not run out; in `AddressReuse` they do.
* Parsing of profile names, addresses, annotations and plugin output.
* TLS, flags, metrics, health endpoints, the CRD's schema, generated code.

## Plan

What remains: one model of Pipeline admission and the NumaNetwork controller, in
which templates come from the steps of the latter.
