----------------------- MODULE PipelineAdmissionProofs -----------------------
(***************************************************************************)
(* Proofs about PipelineAdmission for any Pipeline, networks, annotations  *)
(* and numbers of writes, changes and faults.                              *)
(***************************************************************************)
EXTENDS PipelineAdmission, TLAPS

-----------------------------------------------------------------------------
(* The inductive invariant *)

\* Binding i of obj is direct and has v as one of its ends.
Binds(obj, i, v) == /\ Bindings(obj)[i].type = "direct"
                    /\ v \in {Bindings(obj)[i].from, Bindings(obj)[i].to}

\* Among the claims of v is a template of network n.
Claimed(claims, v, n) == \E t \in Templates : t[1] = n /\ claims[v][t] > 0

\* The claims cover the bindings of obj before position k.
CoveredBefore(obj, claims, k) ==
  \A i \in 1..Len(Bindings(obj)), v \in Vertices :
    i < k /\ Binds(obj, i, v) => Claimed(claims, v, Bindings(obj)[i].net)

\* The claims cover all bindings of obj.
Covered(obj) == CoveredBefore(obj, obj.claims, Len(Bindings(obj)) + 1)

\* Some direct binding of obj gives v the network of t.
BoundTo(obj, v, t) ==
  \E i \in 1..Len(Bindings(obj)) : Binds(obj, i, v) /\ Bindings(obj)[i].net = t[1]

AtMostOnce(claims) == \A v \in Vertices, t \in Templates : claims[v][t] <= 1

\* While the mutator resolves, what it has queued covers the bindings it has been
\* through and comes from them; afterwards the same is true of the object, which
\* has kept what it had.
RequestInv(r) ==
  /\ AtMostOnce(r.obj.claims)
  /\ AtMostOnce(r.toInject)
  /\ r.pc = "resolve" =>
       /\ CoveredBefore(r.obj, r.toInject, r.i)
       /\ \A v \in Vertices, t \in Templates :
            /\ r.toInject[v][t] > 0 => BoundTo(r.obj, v, t)
            /\ r.obj.claims[v][t] > 0 => r.base.claims[v][t] > 0
  /\ r.pc \in {"validate", "store"} =>
       /\ Covered(r.obj)
       /\ \A v \in Vertices, t \in Templates :
            r.obj.claims[v][t] > 0 /\ r.base.claims[v][t] = 0 => BoundTo(r.obj, v, t)

PipeInv == AtMostOnce(pipe.claims) /\ Covered(pipe)

AdmissionInv ==
  /\ AdmissionTypeOK
  /\ PipeInv
  /\ \A c \in Clients : RequestInv(req[c])

-----------------------------------------------------------------------------
(* Types *)

\* What a list of bindings looks like; without an annotation there is none.
LEMMA BindingsType ==
  ASSUME NEW obj \in Pipeline
  PROVE  /\ Len(Bindings(obj)) \in Nat
         /\ DOMAIN Bindings(obj) = 1..Len(Bindings(obj))
<1>1. obj.ann \in Annotations \cup {NoPipe.ann}
  BY DEF Pipeline
<1>2. NoPipe.ann.kind # "ok"
  BY DEF NoPipe
<1>3. CASE Parses(obj)
  <2>1. obj.ann \in Annotations
    BY <1>1, <1>2, <1>3 DEF Parses
  <2>2. obj.ann.list \in Seq(EdgeNumaNetworkBinding)
    BY <2>1, AdmissionAssumption
  <2> QED
    BY <1>3, <2>2 DEF Bindings
<1>4. CASE ~Parses(obj)
  BY <1>4 DEF Bindings
<1> QED
  BY <1>3, <1>4

\* The bindings of an object are those of its annotation.
LEMMA SameBindings ==
  ASSUME NEW obj, NEW o, o.ann = obj.ann
  PROVE  Bindings(o) = Bindings(obj)
  BY DEF Bindings, Parses

\* No claims, no Pipeline and no request.
LEMMA EmptyTypes ==
  /\ NoClaims \in ResourceClaims
  /\ \A v \in Vertices, t \in Templates : NoClaims[v][t] = 0
  /\ NoPipe \in Pipeline /\ NoPipe.rev = 0 /\ NoPipe.claims = NoClaims
  /\ Bindings(NoPipe) = <<>>
  /\ NoRequest \in Request /\ NoRequest.pc = "idle" /\ NoRequest.i = 1
  /\ NoRequest.obj = NoPipe /\ NoRequest.toInject = NoClaims
<1>1. NoClaims \in ResourceClaims /\ \A v \in Vertices, t \in Templates : NoClaims[v][t] = 0
  BY DEF NoClaims, ResourceClaims
<1>2. NoPipe \in Pipeline /\ NoPipe.rev = 0 /\ NoPipe.claims = NoClaims
  BY <1>1 DEF NoPipe, Pipeline
<1>3. Bindings(NoPipe) = <<>>
  BY DEF Bindings, Parses, NoPipe
<1>4. /\ NoRequest \in Request /\ NoRequest.pc = "idle" /\ NoRequest.i = 1
      /\ NoRequest.obj = NoPipe /\ NoRequest.toInject = NoClaims
  BY <1>1, <1>2 DEF NoRequest, Request
<1> QED
  BY <1>1, <1>2, <1>3, <1>4

\* What it means to queue a template for the ends of the current binding.
LEMMA QueueFacts ==
  ASSUME NEW r \in Request, NEW t \in Templates
  PROVE  /\ Queue(r, t) \in Request
         /\ Queue(r, t).pc = r.pc /\ Queue(r, t).obj = r.obj /\ Queue(r, t).base = r.base
         /\ Queue(r, t).i = r.i + 1
         /\ \A v \in Vertices, u \in Templates :
              Queue(r, t).toInject[v][u] =
                IF u = t /\ v \in {Binding(r).from, Binding(r).to} THEN 1 ELSE r.toInject[v][u]
<1> DEFINE q == [v \in Vertices |-> IF v \in {Binding(r).from, Binding(r).to}
                                    THEN [r.toInject[v] EXCEPT ![t] = 1]
                                    ELSE r.toInject[v]]
<1>1. r.toInject \in [Vertices -> [Templates -> Nat]]
  BY DEF Request, ResourceClaims
<1>2. /\ q \in [Vertices -> [Templates -> Nat]]
      /\ \A v \in Vertices, u \in Templates :
           q[v][u] = IF u = t /\ v \in {Binding(r).from, Binding(r).to}
                     THEN 1 ELSE r.toInject[v][u]
  BY <1>1
<1>3. Queue(r, t) = [r EXCEPT !.i = @ + 1, !.resolved = @ \cup {t}, !.toInject = q]
  BY DEF Queue
<1> HIDE DEF q
<1>4. Queue(r, t) = [pc |-> r.pc, base |-> r.base, obj |-> r.obj, i |-> r.i + 1,
                     resolved |-> r.resolved \cup {t}, toInject |-> q]
  BY <1>3 DEF Request
<1> QED
  BY <1>2, <1>4 DEF Request, ResourceClaims

\* Injection keeps the entries that exist and adds the others.
LEMMA InjectFacts ==
  ASSUME NEW obj \in Pipeline, NEW toInject \in ResourceClaims
  PROVE  /\ InjectResourceClaims(obj, toInject) \in Pipeline
         /\ InjectResourceClaims(obj, toInject).ann = obj.ann
         /\ \A v \in Vertices, t \in Templates :
              InjectResourceClaims(obj, toInject).claims[v][t] =
                IF obj.claims[v][t] > 0 THEN obj.claims[v][t] ELSE toInject[v][t]
<1> DEFINE q == [v \in Vertices |-> [t \in Templates |->
                   IF obj.claims[v][t] > 0 THEN obj.claims[v][t] ELSE toInject[v][t]]]
<1>1. obj.claims \in [Vertices -> [Templates -> Nat]]
  BY DEF Pipeline, ResourceClaims
<1>2. toInject \in [Vertices -> [Templates -> Nat]]
  BY DEF ResourceClaims
<1>3. /\ q \in [Vertices -> [Templates -> Nat]]
      /\ \A v \in Vertices, t \in Templates :
           q[v][t] = IF obj.claims[v][t] > 0 THEN obj.claims[v][t] ELSE toInject[v][t]
  BY <1>1, <1>2
<1>4. InjectResourceClaims(obj, toInject) = [obj EXCEPT !.claims = q]
  BY DEF InjectResourceClaims
<1> HIDE DEF q
<1>5. InjectResourceClaims(obj, toInject) = [rev |-> obj.rev, dt |-> obj.dt, fin |-> obj.fin,
                                             ann |-> obj.ann, claims |-> q]
  BY <1>4 DEF Pipeline
<1> QED
  BY <1>3, <1>5 DEF Pipeline, ResourceClaims

-----------------------------------------------------------------------------
(* Requests *)

\* A request that has just been sent.
LEMMA SendFacts ==
  ASSUME NEW base \in Pipeline, NEW obj \in Pipeline, AtMostOnce(obj.claims),
         \A v \in Vertices, t \in Templates : obj.claims[v][t] > 0 => base.claims[v][t] > 0,
         NEW r, r = [NoRequest EXCEPT !.pc = "resolve", !.base = base, !.obj = obj]
  PROVE  r \in Request /\ r.i <= Len(Bindings(r.obj)) + 1 /\ RequestInv(r)
<1>1. r = [pc |-> "resolve", base |-> base, obj |-> obj, i |-> 1, resolved |-> {},
           toInject |-> NoClaims]
  BY DEF NoRequest
<1>2. /\ r \in Request /\ r.pc = "resolve" /\ r.i = 1 /\ r.obj = obj /\ r.base = base
      /\ r.toInject = NoClaims
  BY <1>1, EmptyTypes DEF Request
<1>3. Len(Bindings(obj)) \in Nat
  BY BindingsType
<1>4. AtMostOnce(r.toInject)
  BY <1>2, EmptyTypes DEF AtMostOnce
<1>5. CoveredBefore(r.obj, r.toInject, r.i)
  BY <1>2, <1>3 DEF CoveredBefore
<1>6. \A v \in Vertices, t \in Templates : ~(r.toInject[v][t] > 0)
  BY <1>2, EmptyTypes
<1> QED
  BY <1>2, <1>3, <1>4, <1>5, <1>6 DEF RequestInv

\* An idle client.
LEMMA IdleFacts ==
  NoRequest.i <= Len(Bindings(NoRequest.obj)) + 1 /\ RequestInv(NoRequest)
<1>1. Len(Bindings(NoPipe)) = 0
  BY EmptyTypes
<1>2. AtMostOnce(NoClaims)
  BY EmptyTypes DEF AtMostOnce
<1> QED
  BY <1>1, <1>2, EmptyTypes DEF RequestInv

\* The mutator passes a binding that is not direct.
LEMMA SkipFacts ==
  ASSUME NEW r \in Request, RequestInv(r), InLoop(r), Binding(r).type # "direct",
         NEW q, q = [r EXCEPT !.i = @ + 1]
  PROVE  q \in Request /\ q.i <= Len(Bindings(q.obj)) + 1 /\ RequestInv(q)
<1>1. /\ q \in Request /\ q.pc = r.pc /\ q.obj = r.obj /\ q.base = r.base
      /\ q.toInject = r.toInject /\ q.i = r.i + 1 /\ r.i \in Nat \ {0} /\ r.obj \in Pipeline
  BY DEF Request
<1>2. Len(Bindings(r.obj)) \in Nat /\ r.i <= Len(Bindings(r.obj)) /\ r.pc = "resolve"
  BY <1>1, BindingsType DEF InLoop
<1>3. CoveredBefore(q.obj, q.toInject, q.i)
  <2> SUFFICES ASSUME NEW i \in 1..Len(Bindings(r.obj)), NEW v \in Vertices,
                      i < r.i + 1, Binds(r.obj, i, v)
               PROVE  Claimed(r.toInject, v, Bindings(r.obj)[i].net)
    BY <1>1 DEF CoveredBefore
  <2>1. i # r.i
    BY DEF Binds, Binding
  <2>2. i < r.i
    BY <1>1, <2>1
  <2> QED
    BY <1>2, <2>2 DEF RequestInv, CoveredBefore
<1> QED
  BY <1>1, <1>2, <1>3 DEF RequestInv

\* The mutator queues a template of the network of a direct binding.
LEMMA QueueInv ==
  ASSUME NEW r \in Request, RequestInv(r), InLoop(r), Binding(r).type = "direct",
         NEW t \in Templates, t[1] = Binding(r).net
  PROVE  /\ Queue(r, t) \in Request
         /\ Queue(r, t).i <= Len(Bindings(Queue(r, t).obj)) + 1
         /\ RequestInv(Queue(r, t))
<1> DEFINE q == Queue(r, t)
           ends == {Binding(r).from, Binding(r).to}
<1>1. /\ q \in Request /\ q.pc = r.pc /\ q.obj = r.obj /\ q.base = r.base /\ q.i = r.i + 1
      /\ \A v \in Vertices, u \in Templates :
           q.toInject[v][u] = IF u = t /\ v \in ends THEN 1 ELSE r.toInject[v][u]
  BY QueueFacts
<1>2. r.i \in Nat \ {0} /\ r.obj \in Pipeline /\ r.toInject \in [Vertices -> [Templates -> Nat]]
  BY DEF Request, ResourceClaims
<1>3. Len(Bindings(r.obj)) \in Nat /\ r.i <= Len(Bindings(r.obj)) /\ r.pc = "resolve"
  BY <1>2, BindingsType DEF InLoop
<1>4. \A v \in Vertices : Binds(r.obj, r.i, v) <=> v \in ends
  BY DEF Binds, Binding
<1> HIDE DEF q, ends
<1>5. AtMostOnce(q.toInject)
  BY <1>1, <1>2 DEF RequestInv, AtMostOnce
<1>6. CoveredBefore(q.obj, q.toInject, q.i)
  <2> SUFFICES ASSUME NEW i \in 1..Len(Bindings(r.obj)), NEW v \in Vertices,
                      i < r.i + 1, Binds(r.obj, i, v)
               PROVE  Claimed(q.toInject, v, Bindings(r.obj)[i].net)
    BY <1>1 DEF CoveredBefore
  <2>1. CASE i = r.i
    <3>1. q.toInject[v][t] = 1
      BY <1>1, <1>4, <2>1
    <3> QED
      BY <2>1, <3>1 DEF Claimed, Binding
  <2>2. CASE i # r.i
    <3>1. Claimed(r.toInject, v, Bindings(r.obj)[i].net)
      BY <1>2, <1>3, <2>2 DEF RequestInv, CoveredBefore
    <3> QED
      BY <1>1, <3>1 DEF Claimed
  <2> QED
    BY <2>1, <2>2
<1>7. ASSUME NEW v \in Vertices, NEW u \in Templates, q.toInject[v][u] > 0
      PROVE  BoundTo(r.obj, v, u)
  <2>1. CASE u = t /\ v \in ends
    BY <1>2, <1>3, <1>4, <2>1 DEF BoundTo, Binding
  <2>2. CASE ~(u = t /\ v \in ends)
    BY <1>1, <1>3, <1>7, <2>2 DEF RequestInv
  <2> QED
    BY <2>1, <2>2
<1>8. RequestInv(q)
  BY <1>1, <1>3, <1>5, <1>6, <1>7 DEF RequestInv
<1> QED
  BY <1>1, <1>2, <1>3, <1>8 DEF q

\* The mutator is through and injects what it has queued.
LEMMA MutateInv ==
  ASSUME NEW r \in Request, RequestInv(r), r.pc = "resolve", r.i > Len(Bindings(r.obj)),
         r.i <= Len(Bindings(r.obj)) + 1,
         NEW q, q = [r EXCEPT !.pc = "validate", !.obj = InjectResourceClaims(@, r.toInject)]
  PROVE  q \in Request /\ q.i <= Len(Bindings(q.obj)) + 1 /\ RequestInv(q)
<1> DEFINE o == InjectResourceClaims(r.obj, r.toInject)
<1>1. /\ r.i \in Nat \ {0} /\ r.obj \in Pipeline /\ r.toInject \in ResourceClaims
      /\ r.base \in Pipeline
  BY DEF Request
<1>2. /\ o \in Pipeline /\ o.ann = r.obj.ann
      /\ \A v \in Vertices, t \in Templates :
           o.claims[v][t] = IF r.obj.claims[v][t] > 0 THEN r.obj.claims[v][t]
                                                      ELSE r.toInject[v][t]
  BY <1>1, InjectFacts
<1>3. q = [r EXCEPT !.pc = "validate", !.obj = o]
  OBVIOUS
<1> HIDE DEF o
<1>4. /\ q \in Request /\ q.pc = "validate" /\ q.obj = o /\ q.base = r.base /\ q.i = r.i
      /\ q.toInject = r.toInject
  BY <1>2, <1>3 DEF Request
<1>5. Bindings(o) = Bindings(r.obj)
  BY <1>2, SameBindings
<1>6. Len(Bindings(r.obj)) \in Nat /\ r.i = Len(Bindings(r.obj)) + 1
  BY <1>1, BindingsType
<1>7. /\ r.obj.claims \in [Vertices -> [Templates -> Nat]]
      /\ r.toInject \in [Vertices -> [Templates -> Nat]]
  BY <1>1 DEF Pipeline, ResourceClaims
<1>8. AtMostOnce(o.claims)
  BY <1>2, <1>7 DEF RequestInv, AtMostOnce
<1>9. Covered(o)
  <2> SUFFICES ASSUME NEW i \in 1..Len(Bindings(r.obj)), NEW v \in Vertices,
                      Binds(r.obj, i, v)
               PROVE  Claimed(o.claims, v, Bindings(r.obj)[i].net)
    BY <1>5 DEF Covered, CoveredBefore, Binds
  <2>1. Claimed(r.toInject, v, Bindings(r.obj)[i].net)
    BY <1>6 DEF RequestInv, CoveredBefore
  <2> QED
    BY <1>2, <1>7, <2>1 DEF Claimed
<1>10. ASSUME NEW v \in Vertices, NEW t \in Templates,
              o.claims[v][t] > 0, r.base.claims[v][t] = 0
       PROVE  BoundTo(o, v, t)
  <2>1. ~(r.obj.claims[v][t] > 0)
    BY <1>10 DEF RequestInv
  <2>2. r.toInject[v][t] > 0
    BY <1>2, <1>10, <2>1
  <2>3. BoundTo(r.obj, v, t)
    BY <2>2 DEF RequestInv
  <2> QED
    BY <1>5, <2>3 DEF BoundTo, Binds
<1> QED
  BY <1>4, <1>5, <1>6, <1>8, <1>9, <1>10 DEF RequestInv

\* The validator lets the request pass.
LEMMA ValidateInv ==
  ASSUME NEW r \in Request, RequestInv(r), r.pc = "validate",
         r.i <= Len(Bindings(r.obj)) + 1, NEW q, q = [r EXCEPT !.pc = "store"]
  PROVE  q \in Request /\ q.i <= Len(Bindings(q.obj)) + 1 /\ RequestInv(q)
<1>1. /\ q \in Request /\ q.pc = "store" /\ q.obj = r.obj /\ q.base = r.base /\ q.i = r.i
      /\ q.toInject = r.toInject
  BY DEF Request
<1> QED
  BY <1>1 DEF RequestInv

-----------------------------------------------------------------------------
(* Steps *)

\* What the invariant says of the requests in flight.
RequestsInv == \A c \in Clients : /\ req[c] \in Request
                                  /\ req[c].i <= Len(Bindings(req[c].obj)) + 1
                                  /\ RequestInv(req[c])

\* One request changes, and the new one satisfies the invariant.
LEMMA ReplaceRequest ==
  ASSUME req \in [Clients -> Request], RequestsInv, NEW c \in Clients, NEW r \in Request,
         r.i <= Len(Bindings(r.obj)) + 1, RequestInv(r), req' = [req EXCEPT ![c] = r]
  PROVE  req' \in [Clients -> Request] /\ RequestsInv'
<1>1. req' \in [Clients -> Request] /\ req'[c] = r /\ \A d \in Clients \ {c} : req'[d] = req[d]
  OBVIOUS
<1>2. ASSUME NEW d \in Clients
      PROVE  /\ req'[d] \in Request
             /\ req'[d].i <= Len(Bindings(req'[d].obj)) + 1
             /\ RequestInv(req'[d])
  BY <1>1 DEF RequestsInv
<1> QED
  BY <1>1, <1>2 DEF RequestsInv

\* A step of the webhooks, or the answer of the API server, preserves what the
\* invariant says of the requests.
LEMMA WebhookStep ==
  ASSUME AdmissionInv, NEW c \in Clients, AdmissionStep(c)
  PROVE  req' \in [Clients -> Request] /\ RequestsInv'
<1>1. /\ req \in [Clients -> Request] /\ RequestsInv
      /\ rctCache \subseteq Templates
  BY DEF AdmissionInv, AdmissionTypeOK, RequestsInv
<1>2. /\ req[c] \in Request /\ RequestInv(req[c])
      /\ req[c].i <= Len(Bindings(req[c].obj)) + 1
  BY <1>1 DEF RequestsInv
<1>3. ASSUME Reject(c) PROVE req' \in [Clients -> Request] /\ RequestsInv'
  BY <1>1, <1>3, EmptyTypes, IdleFacts, ReplaceRequest DEF Reject
<1>4. CASE SkipBinding(c)
  <2> DEFINE q == [req[c] EXCEPT !.i = @ + 1]
  <2>1. req' = [req EXCEPT ![c] = q] /\ InLoop(req[c]) /\ Binding(req[c]).type # "direct"
    BY <1>4 DEF SkipBinding
  <2>2. q \in Request /\ q.i <= Len(Bindings(q.obj)) + 1 /\ RequestInv(q)
    BY <1>2, <2>1, SkipFacts
  <2> HIDE DEF q
  <2> QED
    BY <1>1, <2>1, <2>2, ReplaceRequest
<1>5. ASSUME NEW t \in Templates, req' = [req EXCEPT ![c] = Queue(@, t)], InLoop(req[c]),
             Binding(req[c]).type = "direct", t[1] = Binding(req[c]).net
      PROVE  req' \in [Clients -> Request] /\ RequestsInv'
  <2>1. /\ Queue(req[c], t) \in Request
        /\ Queue(req[c], t).i <= Len(Bindings(Queue(req[c], t).obj)) + 1
        /\ RequestInv(Queue(req[c], t))
    BY <1>2, <1>5, QueueInv
  <2> QED
    BY <1>1, <1>5, <2>1, ReplaceRequest
<1>6. CASE UseResolved(c)
  <2>1. req[c].resolved \subseteq Templates
    BY <1>2 DEF Request
  <2> QED
    BY <1>5, <1>6, <2>1 DEF UseResolved
<1>7. CASE ResolveRCTName(c)
  <2>1. \A t \in Labelled(Binding(req[c]).net) : t \in Templates /\ t[1] = Binding(req[c]).net
    BY <1>1 DEF Labelled
  <2> QED
    BY <1>3, <1>5, <1>7, <2>1 DEF ResolveRCTName, Resolving
<1>8. CASE Mutate(c)
  <2> DEFINE q == [req[c] EXCEPT !.pc = "validate",
                                 !.obj = InjectResourceClaims(@, req[c].toInject)]
  <2>1. /\ req' = [req EXCEPT ![c] = q] /\ req[c].pc = "resolve"
        /\ req[c].i > Len(Bindings(req[c].obj))
    BY <1>8 DEF Mutate
  <2>2. q \in Request /\ q.i <= Len(Bindings(q.obj)) + 1 /\ RequestInv(q)
    BY <1>2, <2>1, MutateInv
  <2> HIDE DEF q
  <2> QED
    BY <1>1, <2>1, <2>2, ReplaceRequest
<1>9. CASE Validate(c)
  <2> DEFINE q == [req[c] EXCEPT !.pc = "store"]
  <2>1. req[c].pc = "validate" /\ (req' = [req EXCEPT ![c] = q] \/ Reject(c))
    BY <1>9 DEF Validate
  <2>2. q \in Request /\ q.i <= Len(Bindings(q.obj)) + 1 /\ RequestInv(q)
    BY <1>2, <2>1, ValidateInv
  <2> HIDE DEF q
  <2> QED
    BY <1>1, <1>3, <2>1, <2>2, ReplaceRequest
<1>10. CASE ResolveTimeout(c) \/ Store(c) \/ AdmissionFails(c)
  BY <1>3, <1>10 DEF ResolveTimeout, Store, AdmissionFails
<1> QED
  BY <1>4, <1>6, <1>7, <1>8, <1>9, <1>10 DEF AdmissionStep

\* A client sends a request made from the stored Pipeline.
LEMMA ClientStep ==
  ASSUME AdmissionInv, NEW c \in Clients, NEW obj \in Pipeline, Send(c, pipe, obj),
         obj.claims \in {pipe.claims, NoClaims}
  PROVE  req' \in [Clients -> Request] /\ RequestsInv'
<1> DEFINE r == [NoRequest EXCEPT !.pc = "resolve", !.base = pipe, !.obj = obj]
<1>1. req \in [Clients -> Request] /\ RequestsInv /\ pipe \in Pipeline /\ AtMostOnce(pipe.claims)
  BY DEF AdmissionInv, AdmissionTypeOK, RequestsInv, PipeInv
<1>2. AtMostOnce(obj.claims)
  BY <1>1, EmptyTypes DEF AtMostOnce
<1>3. \A v \in Vertices, t \in Templates : obj.claims[v][t] > 0 => pipe.claims[v][t] > 0
  BY EmptyTypes
<1>4. r \in Request /\ r.i <= Len(Bindings(r.obj)) + 1 /\ RequestInv(r)
  BY <1>1, <1>2, <1>3, SendFacts
<1>5. req' = [req EXCEPT ![c] = r]
  BY DEF Send
<1> HIDE DEF r
<1> QED
  BY <1>1, <1>4, <1>5, ReplaceRequest

\* What is stored, or left after a Pipeline is gone, is as the invariant says.
LEMMA StoredInv ==
  ASSUME NEW obj \in Pipeline, AtMostOnce(obj.claims), Covered(obj),
         pipe'.ann = obj.ann, pipe'.claims = obj.claims
  PROVE  PipeInv'
<1>1. Bindings(pipe') = Bindings(obj)
  BY SameBindings
<1> QED
  BY <1>1 DEF PipeInv, AtMostOnce, Covered, CoveredBefore, Binds, Claimed

\* No Pipeline.
LEMMA NoPipeInv == AtMostOnce(NoPipe.claims) /\ Covered(NoPipe)
<1>1. AtMostOnce(NoPipe.claims)
  BY EmptyTypes DEF AtMostOnce
<1>2. Len(Bindings(NoPipe)) = 0
  BY EmptyTypes
<1> QED
  BY <1>1, <1>2 DEF Covered, CoveredBefore

\* What a step may do to the stored Pipeline.
StoredStep ==
  /\ pipe' \in Pipeline /\ revs' \in Nat /\ pipe'.rev <= revs'
  /\ PipeInv'
  /\ \A v \in Vertices, t \in Templates :
       pipe.claims[v][t] = 0 /\ pipe'.claims[v][t] > 0 => BoundTo(pipe, v, t)'

\* A step that leaves the stored Pipeline alone.
LEMMA StoredUnchanged ==
  ASSUME pipe \in Pipeline, revs \in Nat, pipe.rev <= revs, PipeInv, UNCHANGED <<pipe, revs>>
  PROVE  StoredStep
<1>1. pipe' = pipe /\ revs' = revs
  OBVIOUS
<1>2. \A v \in Vertices, t \in Templates : ~(pipe.claims[v][t] = 0 /\ pipe'.claims[v][t] > 0)
  BY <1>1
<1>3. PipeInv'
  BY <1>1 DEF PipeInv
<1> QED
  BY <1>1, <1>2, <1>3, ZenonT(30) DEF StoredStep

\* The API server stores what has passed both webhooks, if nobody else has.
LEMMA StoreStep ==
  ASSUME AdmissionInv, NEW c \in Clients, Store(c)
  PROVE  StoredStep
<1> DEFINE obj == req[c].obj
<1>1. /\ req[c] \in Request /\ RequestInv(req[c]) /\ req[c].pc = "store"
      /\ pipe \in Pipeline /\ revs \in Nat /\ pipe.rev <= revs /\ PipeInv
  BY DEF AdmissionInv, AdmissionTypeOK, Store
<1>2. obj \in Pipeline
  BY <1>1 DEF Request
<1>3. /\ AtMostOnce(obj.claims) /\ Covered(obj)
      /\ \A v \in Vertices, t \in Templates :
           obj.claims[v][t] > 0 /\ req[c].base.claims[v][t] = 0 => BoundTo(obj, v, t)
  BY <1>1 DEF RequestInv
<1>4. CASE UNCHANGED <<pipe, revs>>
  BY <1>1, <1>4, StoredUnchanged, ZenonT(30)
<1>5. CASE pipe = req[c].base /\ revs' = revs + 1 /\ pipe' = NoPipe
  <2>1. pipe' \in Pipeline /\ pipe'.rev = 0 /\ \A v \in Vertices, t \in Templates :
                                                 pipe'.claims[v][t] = 0
    BY <1>5, EmptyTypes
  <2>2. PipeInv'
    BY <1>5, EmptyTypes, NoPipeInv, StoredInv
  <2> QED
    BY <1>1, <1>5, <2>1, <2>2 DEF StoredStep
<1>6. CASE pipe = req[c].base /\ revs' = revs + 1 /\ pipe' = [obj EXCEPT !.rev = revs + 1]
  <2>1. revs + 1 \in Nat
    BY <1>1
  <2>2. /\ pipe' \in Pipeline /\ pipe'.rev = revs + 1 /\ pipe'.ann = obj.ann
        /\ pipe'.claims = obj.claims
    BY <1>2, <1>6, <2>1 DEF Pipeline
  <2>3. PipeInv'
    BY <1>2, <1>3, <2>2, StoredInv
  <2>4. Bindings(pipe)' = Bindings(obj)
    BY <2>2 DEF Bindings, Parses
  <2>5. \A v \in Vertices, t \in Templates : BoundTo(obj, v, t) => BoundTo(pipe, v, t)'
    BY <2>4 DEF BoundTo, Binds
  <2> QED
    BY <1>1, <1>3, <1>6, <2>1, <2>2, <2>3, <2>5 DEF StoredStep
<1> QED
  BY <1>4, <1>5, <1>6 DEF Store

\* A step adds to the stored Pipeline nothing that its annotation does not bind.
LEMMA PipeStep ==
  ASSUME AdmissionInv, Next
  PROVE  StoredStep
<1>1. pipe \in Pipeline /\ revs \in Nat /\ pipe.rev <= revs /\ PipeInv
  BY DEF AdmissionInv, AdmissionTypeOK
<1>2. CASE UNCHANGED <<pipe, revs>>
  BY <1>1, <1>2, StoredUnchanged, ZenonT(30)
<1>3. CASE DeletePipeline
  <2>1. revs' = revs + 1 /\ revs + 1 \in Nat
    BY <1>1, <1>3 DEF DeletePipeline
  <2>2. CASE pipe' = NoPipe
    <3>1. pipe' \in Pipeline /\ pipe'.rev = 0 /\ \A v \in Vertices, t \in Templates :
                                                   pipe'.claims[v][t] = 0
      BY <2>2, EmptyTypes
    <3>2. PipeInv'
      BY <2>2, EmptyTypes, NoPipeInv, StoredInv
    <3> QED
      BY <1>1, <2>1, <3>1, <3>2 DEF StoredStep
  <2>3. CASE pipe' = [pipe EXCEPT !.rev = revs + 1, !.dt = TRUE]
    <3>1. /\ pipe' \in Pipeline /\ pipe'.rev = revs + 1 /\ pipe'.ann = pipe.ann
          /\ pipe'.claims = pipe.claims
      BY <1>1, <2>1, <2>3 DEF Pipeline
    <3>2. PipeInv'
      BY <1>1, <3>1, StoredInv DEF PipeInv
    <3> QED
      BY <1>1, <2>1, <3>1, <3>2 DEF StoredStep
  <2> QED
    BY <1>3, <2>2, <2>3 DEF DeletePipeline
<1>4. ASSUME NEW c \in Clients, AdmissionStep(c) PROVE StoredStep
  <2>1. CASE Store(c)
    BY <2>1, StoreStep
  <2>2. CASE ~Store(c)
    BY <1>2, <1>4, <2>2 DEF AdmissionStep, SkipBinding, UseResolved, ResolveRCTName,
                            ResolveTimeout, Mutate, Validate, AdmissionFails
  <2> QED
    BY <2>1, <2>2
<1>5. ASSUME NEW a \in Annotations, Apply(a) PROVE StoredStep
  BY <1>2, <1>5 DEF Apply
<1>6. CASE AddFinalizer \/ RemoveFinalizer \/ DeliverNetworks \/ DeliverTemplates
  BY <1>2, <1>6 DEF AddFinalizer, RemoveFinalizer, DeliverNetworks, DeliverTemplates
<1>7. ASSUME NEW n \in Networks,
             \/ CreateNetwork(n) \/ DeleteNetwork(n) \/ MakeTemplate(n)
             \/ CollectTemplate(n) \/ LabelForeign(n)
      PROVE  StoredStep
  BY <1>2, <1>7 DEF CreateNetwork, DeleteNetwork, MakeTemplate, CollectTemplate, LabelForeign
<1> QED
  BY <1>3, <1>4, <1>5, <1>6, <1>7 DEF Next

\* A step keeps the requests as the invariant says.
LEMMA RequestsStep ==
  ASSUME AdmissionInv, Next
  PROVE  req' \in [Clients -> Request] /\ RequestsInv'
<1>1. pipe \in Pipeline /\ pipe.claims \in ResourceClaims
  BY DEF AdmissionInv, AdmissionTypeOK, Pipeline
<1>2. req \in [Clients -> Request] /\ RequestsInv
  BY DEF AdmissionInv, AdmissionTypeOK, RequestsInv
<1>3. CASE UNCHANGED req
  BY <1>2, <1>3 DEF RequestsInv
<1>4. ASSUME NEW c \in Clients, AdmissionStep(c)
      PROVE  req' \in [Clients -> Request] /\ RequestsInv'
  BY <1>4, WebhookStep
<1>5. ASSUME NEW a \in Annotations, Apply(a)
      PROVE  req' \in [Clients -> Request] /\ RequestsInv'
  <2>1. PICK k \in {pipe.claims, NoPipe.claims} :
                Send("user", pipe, [pipe EXCEPT !.ann = a, !.claims = k])
    BY <1>5 DEF Apply
  <2>2. k \in ResourceClaims /\ k \in {pipe.claims, NoClaims}
    <3>1. NoPipe.claims = NoClaims /\ NoClaims \in ResourceClaims
      BY EmptyTypes
    <3> QED
      BY <1>1, <3>1
  <2> DEFINE obj == [pipe EXCEPT !.ann = a, !.claims = k]
  <2>3. obj = [pipe EXCEPT !.ann = a, !.claims = k] /\ Send("user", pipe, obj)
    BY <2>1
  <2> HIDE DEF obj
  <2>4. obj \in Pipeline /\ obj.claims = k
    BY <1>1, <2>2, <2>3 DEF Pipeline
  <2>5. "user" \in Clients
    BY DEF Clients
  <2> QED
    BY <2>2, <2>3, <2>4, <2>5, ClientStep, ZenonT(30)
<1>6. CASE AddFinalizer
  <2> DEFINE obj == [pipe EXCEPT !.fin = TRUE]
  <2>1. Send("numaflow", pipe, obj)
    BY <1>6 DEF AddFinalizer
  <2>2. obj \in Pipeline /\ obj.claims = pipe.claims
    BY <1>1 DEF Pipeline
  <2> HIDE DEF obj
  <2>3. "numaflow" \in Clients
    BY DEF Clients
  <2> QED
    BY <2>1, <2>2, <2>3, ClientStep
<1>7. CASE RemoveFinalizer
  <2> DEFINE obj == [pipe EXCEPT !.fin = FALSE]
  <2>1. Send("numaflow", pipe, obj)
    BY <1>7 DEF RemoveFinalizer
  <2>2. obj \in Pipeline /\ obj.claims = pipe.claims
    BY <1>1 DEF Pipeline
  <2> HIDE DEF obj
  <2>3. "numaflow" \in Clients
    BY DEF Clients
  <2> QED
    BY <2>1, <2>2, <2>3, ClientStep
<1>8. CASE DeletePipeline \/ DeliverNetworks \/ DeliverTemplates
  BY <1>3, <1>8 DEF DeletePipeline, DeliverNetworks, DeliverTemplates
<1>9. ASSUME NEW n \in Networks,
             \/ CreateNetwork(n) \/ DeleteNetwork(n) \/ MakeTemplate(n)
             \/ CollectTemplate(n) \/ LabelForeign(n)
      PROVE  req' \in [Clients -> Request] /\ RequestsInv'
  BY <1>3, <1>9 DEF CreateNetwork, DeleteNetwork, MakeTemplate, CollectTemplate, LabelForeign
<1> QED
  BY <1>4, <1>5, <1>6, <1>7, <1>8, <1>9 DEF Next

\* The types of the NumaNetworks, the templates, the caches and the counters.
ClusterTypeOK ==
  /\ nets \subseteq Networks /\ netCache \subseteq Networks
  /\ rcts \subseteq Templates /\ rctCache \subseteq Templates
  /\ changes \in 0..MaxChanges
  /\ faults \in 0..MaxFaults

\* A step keeps them.
LEMMA ClusterStep ==
  ASSUME ClusterTypeOK, Next
  PROVE  ClusterTypeOK'
<1> USE AdmissionAssumption DEF ClusterTypeOK
<1>1. ASSUME NEW c \in Clients, AdmissionStep(c) PROVE ClusterTypeOK'
  <2>1. UNCHANGED cluster /\ (faults' = faults \/ Fault)
    BY <1>1 DEF AdmissionStep, SkipBinding, UseResolved, ResolveRCTName, ResolveTimeout, Mutate,
                Validate, Store, AdmissionFails
  <2> QED
    BY <2>1 DEF cluster, Fault
<1>2. ASSUME NEW a \in Annotations, Apply(a) PROVE ClusterTypeOK'
  BY <1>2 DEF Apply, cluster
<1>3. CASE AddFinalizer \/ RemoveFinalizer \/ DeletePipeline
  BY <1>3 DEF AddFinalizer, RemoveFinalizer, DeletePipeline, cluster
<1>4. CASE DeliverNetworks \/ DeliverTemplates
  BY <1>4 DEF DeliverNetworks, DeliverTemplates
<1>5. ASSUME NEW n \in Networks, CreateNetwork(n) \/ DeleteNetwork(n) PROVE ClusterTypeOK'
  BY <1>5 DEF CreateNetwork, DeleteNetwork, Change
<1>6. ASSUME NEW n \in Networks, MakeTemplate(n) \/ CollectTemplate(n) \/ LabelForeign(n)
      PROVE  ClusterTypeOK'
  BY <1>6 DEF MakeTemplate, CollectTemplate, LabelForeign, Change, Templates
<1> QED
  BY <1>1, <1>2, <1>3, <1>4, <1>5, <1>6 DEF Next

-----------------------------------------------------------------------------
(* The theorems *)

\* A step, or none, preserves the invariant.
LEMMA AdmissionInvStep ==
  ASSUME AdmissionInv, [Next]_vars
  PROVE  AdmissionInv'
<1>1. CASE Next
  <2>1. ClusterTypeOK'
    BY <1>1, ClusterStep DEF AdmissionInv, AdmissionTypeOK, ClusterTypeOK
  <2>2. req' \in [Clients -> Request] /\ RequestsInv'
    BY <1>1, RequestsStep
  <2>3. StoredStep
    BY <1>1, PipeStep
  <2> QED
    BY <2>1, <2>2, <2>3 DEF AdmissionInv, AdmissionTypeOK, ClusterTypeOK, RequestsInv, StoredStep
<1>2. CASE UNCHANGED vars
  <2>1. UNCHANGED <<pipe, revs, req, nets, netCache, rcts, rctCache, changes, faults>>
    BY <1>2 DEF vars
  <2>2. AdmissionTypeOK'
    BY <2>1 DEF AdmissionInv, AdmissionTypeOK
  <2>3. PipeInv'
    BY <2>1 DEF AdmissionInv, PipeInv
  <2>4. (\A c \in Clients : RequestInv(req[c]))'
    BY <2>1 DEF AdmissionInv
  <2> QED
    BY <2>2, <2>3, <2>4 DEF AdmissionInv
<1> QED
  BY <1>1, <1>2

\* The invariant holds at the start.
LEMMA AdmissionInvInit ==
  ASSUME Init
  PROVE  AdmissionInv
<1>1. pipe = NoPipe /\ revs = 0 /\ req = [c \in Clients |-> NoRequest]
  BY DEF Init
<1>2. PipeInv
  BY <1>1, NoPipeInv DEF PipeInv
<1>3. \A c \in Clients : req[c] = NoRequest
  BY <1>1
<1>4. \A c \in Clients : RequestInv(req[c])
  BY <1>3, IdleFacts
<1>5. req \in [Clients -> Request]
  BY <1>1, EmptyTypes
<1>6. \A c \in Clients : req[c].i <= Len(Bindings(req[c].obj)) + 1
  BY <1>3, IdleFacts
<1>7. pipe \in Pipeline /\ revs \in Nat /\ pipe.rev <= revs
  BY <1>1, EmptyTypes
<1> QED
  BY <1>2, <1>4, <1>5, <1>6, <1>7, AdmissionAssumption DEF Init, AdmissionInv, AdmissionTypeOK

\* In every reachable state the stored Pipeline claims what it should, and every
\* request in flight is as far as the mutator's maps say.
THEOREM AdmissionInvariance == Spec => []AdmissionInv
<1>1. Init => AdmissionInv
  BY AdmissionInvInit
<1>2. AdmissionInv /\ [Next]_vars => AdmissionInv'
  BY AdmissionInvStep
<1> QED
  BY <1>1, <1>2, PTL DEF Spec

\* The stored Pipeline, the requests and the caches keep their types, and the
\* mutator's loop stays within the bindings of its request.
THEOREM AdmissionTypeCorrect == Spec => []AdmissionTypeOK
<1>1. AdmissionInv => AdmissionTypeOK
  BY DEF AdmissionInv
<1> QED
  BY <1>1, AdmissionInvariance, PTL

\* PipelineMutator lets nothing through that misses a template: whatever the
\* annotation binds directly, the stored vertices claim, for every Pipeline.
THEOREM StoredAreInjected == Spec => []StoredIsInjected
<1>1. AdmissionInv => StoredIsInjected
  <2> SUFFICES ASSUME AdmissionInv, NEW i \in DOMAIN Bindings(pipe),
                      Bindings(pipe)[i].type = "direct",
                      NEW v \in Vertices \cap {Bindings(pipe)[i].from, Bindings(pipe)[i].to}
               PROVE  Claimed(pipe.claims, v, Bindings(pipe)[i].net)
    BY DEF StoredIsInjected, Claimed
  <2>1. pipe \in Pipeline /\ Covered(pipe)
    BY DEF AdmissionInv, AdmissionTypeOK, PipeInv
  <2>2. Len(Bindings(pipe)) \in Nat /\ i \in 1..Len(Bindings(pipe))
    BY <2>1, BindingsType
  <2> QED
    BY <2>1, <2>2 DEF Covered, CoveredBefore, Binds
<1> QED
  BY <1>1, AdmissionInvariance, PTL

\* injectResourceClaims never lists a template twice, however often the same
\* Pipeline goes through the mutator.
THEOREM ClaimsAreUnique == Spec => []NoDuplicateClaims
<1>1. AdmissionInv => NoDuplicateClaims
  BY DEF AdmissionInv, PipeInv, AtMostOnce, NoDuplicateClaims
<1> QED
  BY <1>1, AdmissionInvariance, PTL

\* No stored write adds a template that the annotation stored with it does not
\* bind to that vertex, whichever requests were admitted at the same time.
THEOREM AddedClaimsAreBound == Spec => OnlyBoundClaimsAdded
<1> DEFINE Step == \A v \in Vertices, t \in Templates :
                     pipe.claims[v][t] = 0 /\ pipe'.claims[v][t] > 0 =>
                       \E i \in DOMAIN Bindings(pipe') :
                         LET b == Bindings(pipe')[i]
                         IN  b.type = "direct" /\ b.net = t[1] /\ v \in {b.from, b.to}
<1>1. AdmissionInv /\ [Next]_vars => [Step]_vars
  <2> SUFFICES ASSUME AdmissionInv, Next PROVE Step
    OBVIOUS
  <2>1. StoredStep
    BY PipeStep
  <2>2. Bindings(pipe)' = Bindings(pipe')
    BY DEF Bindings, Parses
  <2>3. DOMAIN Bindings(pipe') = 1..Len(Bindings(pipe'))
    BY <2>1, BindingsType DEF StoredStep
  <2> QED
    BY <2>1, <2>2, <2>3 DEF StoredStep, BoundTo, Binds
<1> QED
  BY <1>1, AdmissionInvariance, PTL DEF Spec, OnlyBoundClaimsAdded

=============================================================================
