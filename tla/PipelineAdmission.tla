-------------------------- MODULE PipelineAdmission --------------------------
(***************************************************************************)
(* The Pipeline webhooks.  Every create or update of a Pipeline goes       *)
(* through PipelineMutator, which waits for the ResourceClaimTemplates of  *)
(* the networks bound to its edges and injects them into the vertices, and *)
(* then through PipelineValidator.  A user writes the annotation, numaflow *)
(* adds and removes its finalizer, and both requests may be in flight at   *)
(* once.  NumaNetworks and templates come and go, and the webhooks see     *)
(* them through the manager's caches.                                      *)
(***************************************************************************)
EXTENDS Naturals, Sequences, FiniteSets

CONSTANTS
  Vertices,     \* vertices of the Pipeline (spec.vertices)
  Edges,        \* spec.edges, pairs of vertices
  Networks,     \* NumaNetwork names
  Annotations,  \* the values users give to the numa-network-edges annotation
  MaxRevs,      \* bound: user writes start only below this many stored states
  MaxChanges,   \* bound: NumaNetworks deleted and foreign templates created
  MaxFaults     \* bound: calls that fail by themselves

\* One entry of the annotation's list.  The ends may be empty or no vertices of
\* the Pipeline; a connection type other than direct is reserved.
EdgeNumaNetworkBinding ==
  [from: Vertices \cup {""}, to: Vertices \cup {""}, net: Networks,
   type: {"direct", "multi-isbsvc"}]

\* An annotation is absent, does not parse, or is a list of bindings.
ASSUME AdmissionAssumption ==
  /\ Annotations \subseteq [kind: {"absent", "bad", "ok"}, list: Seq(EdgeNumaNetworkBinding)]
  /\ MaxRevs \in Nat /\ MaxChanges \in Nat /\ MaxFaults \in Nat

VARIABLES
  pipe,      \* the stored Pipeline; rev 0 when there is none
  revs,      \* Pipeline states stored so far, the source of resourceVersions
  req,       \* [Clients -> the admission request in flight]
  nets,      \* NumaNetworks in the API server
  netCache,  \* NumaNetworks in the manager's cache
  rcts,      \* the templates in the API server that carry a network's label
  rctCache,  \* the same in the manager's cache
  changes,
  faults

vars == <<pipe, revs, req, nets, netCache, rcts, rctCache, changes, faults>>

cluster == <<nets, netCache, rcts, rctCache, changes>>

Clients == {"user", "numaflow"}

\* A template that carries the label of a network: the reconciler's, or one that
\* somebody else labelled so.
Templates == Networks \X {"own", "foreign"}

Labelled(n) == {t \in rctCache : t[1] = n}

\* The resourceClaims of the vertices: how often each template is listed.  Their
\* order is left out.
ResourceClaims == [Vertices -> [Templates -> Nat]]

NoClaims == [v \in Vertices |-> [t \in Templates |-> 0]]

NoPipe == [rev |-> 0, dt |-> FALSE, fin |-> FALSE, ann |-> [kind |-> "absent", list |-> <<>>],
           claims |-> NoClaims]

Pipeline == [rev: Nat, dt: BOOLEAN, fin: BOOLEAN, ann: Annotations \cup {NoPipe.ann},
             claims: ResourceClaims]

Request == [pc: {"idle", "resolve", "validate", "store"}, base: Pipeline, obj: Pipeline,
            i: Nat \ {0}, resolved: SUBSET Templates, toInject: ResourceClaims]

\* i, resolved and toInject are the mutator's position in the bindings and its maps.
NoRequest == [pc |-> "idle", base |-> NoPipe, obj |-> NoPipe, i |-> 1, resolved |-> {},
              toInject |-> NoClaims]

Fault == /\ faults < MaxFaults
         /\ faults' = faults + 1

-----------------------------------------------------------------------------
(* The mutating webhook *)

\* The client sends obj, made from the stored base.
Send(c, base, obj) ==
  req' = [req EXCEPT ![c] = [NoRequest EXCEPT !.pc = "resolve", !.base = base, !.obj = obj]]

Reject(c) == req' = [req EXCEPT ![c] = NoRequest]

\* ParseBindings succeeds on the annotation.
Parses(obj) == obj.ann.kind = "ok"

\* The bindings that the mutator goes through: none when it has nothing to parse.
Bindings(obj) == IF Parses(obj) THEN obj.ann.list ELSE <<>>

\* The mutator is at binding Binding(r) of the request.
InLoop(r) == r.pc = "resolve" /\ r.i <= Len(Bindings(r.obj))

Binding(r) == Bindings(r.obj)[r.i]

\* Mutant: every vertex gets the template, not only the ends of the edge.
QueueEverywhere(r, t) ==
  [r EXCEPT !.i = @ + 1, !.resolved = @ \cup {t},
            !.toInject = [v \in Vertices |-> [r.toInject[v] EXCEPT ![t] = 1]]]

\* The end of an iteration: template t is queued for both ends of the binding,
\* once for each vertex.
Queue(r, t) ==
  [r EXCEPT !.i = @ + 1, !.resolved = @ \cup {t},
            !.toInject = [v \in Vertices |-> IF v \in {Binding(r).from, Binding(r).to}
                                             THEN [r.toInject[v] EXCEPT ![t] = 1]
                                             ELSE r.toInject[v]]]

\* Mutant: entries that exist already are not looked at.
InjectDuplicates(obj, toInject) ==
  [obj EXCEPT !.claims = [v \in Vertices |-> [t \in Templates |->
     obj.claims[v][t] + toInject[v][t]]]]

\* injectResourceClaims: existing entries are kept, duplicates skipped.
InjectResourceClaims(obj, toInject) ==
  [obj EXCEPT !.claims = [v \in Vertices |-> [t \in Templates |->
     IF obj.claims[v][t] > 0 THEN obj.claims[v][t] ELSE toInject[v][t]]]]

\* The mutator is at a binding whose network it has yet to look up.
Resolving(r) ==
  /\ InLoop(r)
  /\ Binding(r).type = "direct"
  /\ \A t \in r.resolved : t[1] # Binding(r).net

\* Mutant: the loop does not end at the last binding.
SkipBindingPastEnd(c) ==
  /\ req[c].pc = "resolve"
  /\ ~InLoop(req[c]) \/ Binding(req[c]).type # "direct"
  /\ req' = [req EXCEPT ![c].i = @ + 1]
  /\ UNCHANGED <<pipe, revs, cluster, faults>>

\* A binding that is not direct.
SkipBinding(c) ==
  /\ InLoop(req[c])
  /\ Binding(req[c]).type # "direct"
  /\ req' = [req EXCEPT ![c].i = @ + 1]
  /\ UNCHANGED <<pipe, revs, cluster, faults>>

\* A binding whose network is resolved already.
UseResolved(c) ==
  /\ InLoop(req[c])
  /\ Binding(req[c]).type = "direct"
  /\ \E t \in req[c].resolved : /\ t[1] = Binding(req[c]).net
                                /\ req' = [req EXCEPT ![c] = Queue(@, t)]
  /\ UNCHANGED <<pipe, revs, cluster, faults>>

\* resolveRCTName lists the labelled templates: one is the answer, several are
\* an error.
ResolveRCTName(c) ==
  LET found == Labelled(Binding(req[c]).net)
  IN  /\ Resolving(req[c])
      /\ \/ \E t \in found : found = {t} /\ req' = [req EXCEPT ![c] = Queue(@, t)]
         \/ Cardinality(found) > 1 /\ Reject(c)
      /\ UNCHANGED <<pipe, revs, cluster, faults>>

\* Mutant: the mutator goes on without the template it could not find.
ResolveSkipped(c) ==
  /\ Resolving(req[c])
  /\ Labelled(Binding(req[c]).net) = {}
  /\ req' = [req EXCEPT ![c].pc = "validate"]
  /\ UNCHANGED <<pipe, revs, cluster, faults>>

\* Mutant: it polls without a deadline.
ResolveForever(c) == Resolving(req[c]) /\ UNCHANGED vars

\* It polls while there is none, until rctResolveTimeout refuses the request.
ResolveTimeout(c) ==
  /\ Resolving(req[c])
  /\ Labelled(Binding(req[c]).net) = {}
  /\ Reject(c)
  /\ UNCHANGED <<pipe, revs, cluster, faults>>

\* Every binding is resolved: the mutated object goes to the validator.
Mutate(c) ==
  /\ req[c].pc = "resolve"
  /\ req[c].i > Len(Bindings(req[c].obj))
  /\ req' = [req EXCEPT ![c].pc = "validate", ![c].obj = InjectResourceClaims(@, req[c].toInject)]
  /\ UNCHANGED <<pipe, revs, cluster, faults>>

-----------------------------------------------------------------------------
(* The validating webhook and the API server *)

ValidateBindings(bindings) ==
  \A i \in DOMAIN bindings : /\ "" \notin {bindings[i].from, bindings[i].to}
                             /\ bindings[i].type = "direct"
                             /\ <<bindings[i].from, bindings[i].to>> \in Edges

\* Mutant: a Pipeline that is being deleted is validated like any other.
ValidAlways(obj) ==
  \/ obj.ann.kind = "absent"
  \/ /\ Parses(obj)
     /\ ValidateBindings(obj.ann.list)
     /\ \A i \in DOMAIN obj.ann.list : obj.ann.list[i].net \in netCache

\* PipelineValidator.Handle: a Pipeline that is being deleted passes.
Valid(obj) ==
  \/ obj.dt
  \/ obj.ann.kind = "absent"
  \/ /\ Parses(obj)
     /\ ValidateBindings(obj.ann.list)
     /\ \A i \in DOMAIN obj.ann.list : obj.ann.list[i].net \in netCache

Validate(c) ==
  /\ req[c].pc = "validate"
  /\ IF Valid(req[c].obj) THEN req' = [req EXCEPT ![c].pc = "store"] ELSE Reject(c)
  /\ UNCHANGED <<pipe, revs, cluster, faults>>

\* The API server stores the object unless the Pipeline has changed meanwhile;
\* it drops one that is being deleted and has no finalizer.
Store(c) ==
  LET obj == req[c].obj
  IN  /\ req[c].pc = "store"
      /\ Reject(c)
      /\ IF pipe # req[c].base THEN UNCHANGED <<pipe, revs>>
         ELSE /\ revs' = revs + 1
              /\ pipe' = IF obj.dt /\ ~obj.fin THEN NoPipe ELSE [obj EXCEPT !.rev = revs + 1]
      /\ UNCHANGED <<cluster, faults>>

\* A webhook call or a read of it fails: failurePolicy is Fail.
AdmissionFails(c) ==
  /\ req[c].pc \in {"resolve", "validate"}
  /\ Fault
  /\ Reject(c)
  /\ UNCHANGED <<pipe, revs, cluster>>

-----------------------------------------------------------------------------
(* The clients *)

\* A user creates the Pipeline or edits its annotation; a write that replaces
\* spec.vertices drops the claims injected before.
Apply(a) ==
  /\ req["user"].pc = "idle"
  /\ revs < MaxRevs
  /\ \E claims \in {pipe.claims, NoPipe.claims} :
       Send("user", pipe, [pipe EXCEPT !.ann = a, !.claims = claims])
  /\ UNCHANGED <<pipe, revs, cluster, faults>>

\* The numaflow controller puts its finalizer on a new Pipeline.
AddFinalizer ==
  /\ req["numaflow"].pc = "idle"
  /\ pipe.rev # 0 /\ ~pipe.fin /\ ~pipe.dt
  /\ Send("numaflow", pipe, [pipe EXCEPT !.fin = TRUE])
  /\ UNCHANGED <<pipe, revs, cluster, faults>>

\* It has cleaned up after a Pipeline that is being deleted.
RemoveFinalizer ==
  /\ req["numaflow"].pc = "idle"
  /\ pipe.dt /\ pipe.fin
  /\ Send("numaflow", pipe, [pipe EXCEPT !.fin = FALSE])
  /\ UNCHANGED <<pipe, revs, cluster, faults>>

\* A user deletes the Pipeline; the webhooks are not called for a DELETE.
DeletePipeline ==
  /\ pipe.rev # 0 /\ ~pipe.dt
  /\ revs' = revs + 1
  /\ pipe' = IF pipe.fin THEN [pipe EXCEPT !.rev = revs + 1, !.dt = TRUE] ELSE NoPipe
  /\ UNCHANGED <<req, cluster, faults>>

-----------------------------------------------------------------------------
(* NumaNetworks, their templates, and the caches *)

CreateNetwork(n) ==
  /\ n \notin nets
  /\ nets' = nets \cup {n}
  /\ UNCHANGED <<pipe, revs, req, netCache, rcts, rctCache, changes, faults>>

Change == /\ changes < MaxChanges
          /\ changes' = changes + 1

DeleteNetwork(n) ==
  /\ n \in nets
  /\ Change
  /\ nets' = nets \ {n}
  /\ UNCHANGED <<pipe, revs, req, netCache, rcts, rctCache, faults>>

\* NumaNetworkReconciler makes the template; the garbage collector removes it.
MakeTemplate(n) ==
  /\ n \in nets
  /\ <<n, "own">> \notin rcts
  /\ rcts' = rcts \cup {<<n, "own">>}
  /\ UNCHANGED <<pipe, revs, req, nets, netCache, rctCache, changes, faults>>

CollectTemplate(n) ==
  /\ n \notin nets
  /\ <<n, "own">> \in rcts
  /\ rcts' = rcts \ {<<n, "own">>}
  /\ UNCHANGED <<pipe, revs, req, nets, netCache, rctCache, changes, faults>>

\* Somebody creates a template with the label of the network.
LabelForeign(n) ==
  /\ <<n, "foreign">> \notin rcts
  /\ Change
  /\ rcts' = rcts \cup {<<n, "foreign">>}
  /\ UNCHANGED <<pipe, revs, req, nets, netCache, rctCache, faults>>

DeliverNetworks ==
  /\ netCache # nets
  /\ netCache' = nets
  /\ UNCHANGED <<pipe, revs, req, nets, rcts, rctCache, changes, faults>>

DeliverTemplates ==
  /\ rctCache # rcts
  /\ rctCache' = rcts
  /\ UNCHANGED <<pipe, revs, req, nets, netCache, rcts, changes, faults>>

-----------------------------------------------------------------------------
Init ==
  /\ pipe = NoPipe
  /\ revs = 0
  /\ req = [c \in Clients |-> NoRequest]
  /\ nets = {}
  /\ netCache = {}
  /\ rcts = {}
  /\ rctCache = {}
  /\ changes = 0
  /\ faults = 0

AdmissionStep(c) ==
  \/ SkipBinding(c) \/ UseResolved(c) \/ ResolveRCTName(c) \/ ResolveTimeout(c)
  \/ Mutate(c) \/ Validate(c) \/ Store(c) \/ AdmissionFails(c)

Next ==
  \/ \E c \in Clients : AdmissionStep(c)
  \/ \E a \in Annotations : Apply(a)
  \/ AddFinalizer \/ RemoveFinalizer \/ DeletePipeline
  \/ \E n \in Networks : CreateNetwork(n) \/ DeleteNetwork(n) \/ MakeTemplate(n)
                         \/ CollectTemplate(n) \/ LabelForeign(n)
  \/ DeliverNetworks \/ DeliverTemplates

Spec == Init /\ [][Next]_vars

\* The webhooks answer, numaflow tries again until its finalizer is off, the
\* reconciler makes the templates of networks that stay, and the caches follow.
FairSpec ==
  /\ Spec
  /\ \A c \in Clients : WF_vars(AdmissionStep(c))
  /\ WF_vars(RemoveFinalizer)
  /\ \A n \in Networks : WF_vars(MakeTemplate(n))
  /\ WF_vars(DeliverNetworks)
  /\ WF_vars(DeliverTemplates)

-----------------------------------------------------------------------------
(* Properties *)

\* Type invariant of the stored Pipeline, the requests in flight and the caches;
\* the mutator's position stays within the bindings of its request.
AdmissionTypeOK ==
  /\ pipe \in Pipeline
  /\ revs \in Nat /\ pipe.rev <= revs
  /\ req \in [Clients -> Request]
  /\ \A c \in Clients : req[c].i <= Len(Bindings(req[c].obj)) + 1
  /\ nets \subseteq Networks /\ netCache \subseteq Networks
  /\ rcts \subseteq Templates /\ rctCache \subseteq Templates
  /\ changes \in 0..MaxChanges
  /\ faults \in 0..MaxFaults

\* Whatever Pipeline PipelineMutator let through and the API server stored, both
\* ends of each direct binding of its annotation claim a template of the network
\* bound there, however late the template appeared.
StoredIsInjected ==
  \A i \in DOMAIN Bindings(pipe) :
    LET b == Bindings(pipe)[i]
    IN  b.type = "direct" =>
          \A v \in Vertices \cap {b.from, b.to} :
            \E t \in Templates : t[1] = b.net /\ pipe.claims[v][t] > 0

\* injectResourceClaims on what was mutated before never claims a template twice, in
\* whatever order the requests of user and numaflow are admitted.
NoDuplicateClaims == \A v \in Vertices, t \in Templates : pipe.claims[v][t] <= 1

\* injectResourceClaims never takes an entry back, so those of a binding that was
\* removed or of a template that was replaced stay.  But none comes from nowhere:
\* a stored write adds to a vertex only templates of networks that the annotation
\* stored with it binds directly to that vertex, not those of an annotation that
\* another request replaced meanwhile.
OnlyBoundClaimsAdded ==
  [][\A v \in Vertices, t \in Templates :
       pipe.claims[v][t] = 0 /\ pipe'.claims[v][t] > 0 =>
         \E i \in DOMAIN Bindings(pipe') :
           LET b == Bindings(pipe')[i]
           IN  b.type = "direct" /\ b.net = t[1] /\ v \in {b.from, b.to}]_vars

\* PipelineMutator answers every request, also when resolveRCTName never finds
\* the template.
EventuallyAnswered == \A c \in Clients : req[c].pc # "idle" ~> req[c].pc = "idle"

\* The networks that the stored annotation binds directly all have exactly one
\* template in the cache.
TemplatesThere ==
  \A i \in DOMAIN Bindings(pipe) :
    Bindings(pipe)[i].type = "direct" => Cardinality(Labelled(Bindings(pipe)[i].net)) = 1

\* While its templates are there, the deletion of a Pipeline completes, although
\* its NumaNetworks may be gone: the validator lets the finalizer removal pass.
DeletionPassesValidator == <>[]TemplatesThere => (pipe.dt ~> ~pipe.dt)

\* The deletion of a Pipeline completes, although its NumaNetworks may be gone,
\* as the comment on PipelineValidator.Handle's deletion guard intends; templates
\* that carry the label of a network are the reconciler's own.
DeletionCompletes ==
  [](rcts \subseteq Networks \X {"own"}) => (pipe.dt ~> ~pipe.dt)

=============================================================================
