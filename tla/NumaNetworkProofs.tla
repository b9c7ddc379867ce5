--------------------------- MODULE NumaNetworkProofs ---------------------------
(***************************************************************************)
(* Proofs about NumaNetwork for any classes, ranges, claims and bounds,    *)
(* whether or not the API server lets template specs change.               *)
(***************************************************************************)
EXTENDS NumaNetwork, TLAPS

-----------------------------------------------------------------------------
(* Facts about objects and histories *)

AnyNetwork == Network \cup {NoNetwork}

AnyTemplate == Template \cup {NoTemplate}

\* Only NoNetwork has uid 0, and it is neither held nor being deleted.
LEMMA NetworkFacts ==
  /\ NoNetwork \in AnyNetwork
  /\ NoNetwork.uid = 0 /\ ~NoNetwork.dt /\ ~NoNetwork.fin
  /\ \A s \in AnyNetwork : s.uid # 0 \/ s.dt \/ s.fin => s \in Network
  /\ \A s \in Network : s.uid \in 1..MaxIncarnations /\ s.class \in Classes /\ s.range \in Ranges
  /\ \A s \in AnyNetwork : s.uid \in 0..MaxIncarnations
  BY NumaNetworkAssumption DEF AnyNetwork, Network, NoNetwork

\* NoTemplate has no owner; what BuildResourceClaimTemplate makes has one.
LEMMA TemplateFacts ==
  /\ NoTemplate \in AnyTemplate
  /\ NoTemplate.owner = 0
  /\ \A t \in AnyTemplate : t # NoTemplate => t \in Template
  /\ \A t \in AnyTemplate : Owned(t) => t \in Template
  /\ \A t \in Template : t.owner \in 0..Other /\ t.class \in Classes /\ t.label \in BOOLEAN
  /\ \A s \in Network : Desired(s).owner = s.uid
  BY NumaNetworkAssumption DEF AnyTemplate, Template, NoTemplate, Owned, Other, Network, Desired

\* Every element of a history is an object, the first and the last included.
LEMMA Histories ==
  ASSUME NetworkTypeOK
  PROVE  /\ nn \in Seq(AnyNetwork) /\ Len(nn) \in Nat \ {0}
         /\ \A i \in 1..Len(nn) : nn[i] \in AnyNetwork
         /\ nn[1] \in AnyNetwork /\ ApiNetwork \in AnyNetwork
         /\ rct \in Seq(AnyTemplate) /\ Len(rct) \in Nat \ {0}
         /\ rct[1] \in AnyTemplate /\ ApiTemplate \in AnyTemplate
<1>1. /\ nn \in Seq(AnyNetwork) /\ Len(nn) > 0
      /\ rct \in Seq(AnyTemplate) /\ Len(rct) > 0
  BY DEF NetworkTypeOK, AnyNetwork, AnyTemplate
<1> QED
  BY <1>1 DEF ApiNetwork, ApiTemplate, Last

\* Dropping the head of a history, or all but its last element, keeps the last.
LEMMA SuffixFacts ==
  ASSUME NetworkTypeOK
  PROVE  /\ Len(nn) > 1 /\ nn' = Tail(nn) =>
              /\ nn' \in Seq(AnyNetwork) /\ Len(nn') = Len(nn) - 1
              /\ \A i \in 1..Len(nn') : nn'[i] = nn[i + 1]
              /\ ApiNetwork' = ApiNetwork
         /\ nn' = <<ApiNetwork>> =>
              /\ nn' \in Seq(AnyNetwork) /\ Len(nn') = 1
              /\ \A i \in 1..Len(nn') : nn'[i] = nn[i + Len(nn) - 1]
              /\ ApiNetwork' = ApiNetwork
         /\ Len(rct) > 1 /\ rct' = Tail(rct) =>
              /\ rct' \in Seq(AnyTemplate) /\ Len(rct') > 0
              /\ ApiTemplate' = ApiTemplate
         /\ rct' = <<ApiTemplate>> =>
              /\ rct' \in Seq(AnyTemplate) /\ Len(rct') > 0
              /\ ApiTemplate' = ApiTemplate
<1>1. /\ nn \in Seq(AnyNetwork) /\ Len(nn) \in Nat \ {0}
      /\ rct \in Seq(AnyTemplate) /\ Len(rct) \in Nat \ {0}
  BY Histories
<1>2. ASSUME Len(nn) > 1, nn' = Tail(nn)
      PROVE  /\ nn' \in Seq(AnyNetwork) /\ Len(nn') = Len(nn) - 1
             /\ \A i \in 1..Len(nn') : nn'[i] = nn[i + 1]
             /\ ApiNetwork' = ApiNetwork
  BY <1>1, <1>2 DEF ApiNetwork, Last
<1>3. ASSUME nn' = <<ApiNetwork>>
      PROVE  /\ nn' \in Seq(AnyNetwork) /\ Len(nn') = 1
             /\ \A i \in 1..Len(nn') : nn'[i] = nn[i + Len(nn) - 1]
             /\ ApiNetwork' = ApiNetwork
  <2>1. nn' = <<nn[Len(nn)]>> /\ nn[Len(nn)] \in AnyNetwork
    BY <1>1, <1>3 DEF ApiNetwork, Last
  <2> QED
    BY <1>1, <2>1 DEF ApiNetwork, Last
<1>4. ASSUME Len(rct) > 1, rct' = Tail(rct)
      PROVE  /\ rct' \in Seq(AnyTemplate) /\ Len(rct') > 0
             /\ ApiTemplate' = ApiTemplate
  BY <1>1, <1>4 DEF ApiTemplate, Last
<1>5. ASSUME rct' = <<ApiTemplate>>
      PROVE  /\ rct' \in Seq(AnyTemplate) /\ Len(rct') > 0
             /\ ApiTemplate' = ApiTemplate
  <2>1. rct' = <<rct[Len(rct)]>> /\ rct[Len(rct)] \in AnyTemplate
    BY <1>1, <1>5 DEF ApiTemplate, Last
  <2> QED
    BY <1>1, <2>1 DEF ApiTemplate, Last
<1> QED
  BY <1>2, <1>3, <1>4, <1>5

\* The state that WriteNetwork stores, and the one that WriteTemplate stores.
LEMMA WriteTypes ==
  ASSUME NetworkTypeOK
  PROVE  /\ \A s \in Network : WriteNetwork(s) =>
              /\ nn' \in Seq(AnyNetwork) /\ Len(nn') > 0
              /\ nn' = Append(nn, ApiNetwork')
              /\ ApiNetwork' = IF s.dt /\ ~s.fin THEN NoNetwork ELSE s
         /\ \A t \in [rev: Nat, owner: 0..Other, class: Classes, label: BOOLEAN] :
              WriteTemplate(t) =>
                /\ revs' \in Nat
                /\ rct' \in Seq(AnyTemplate) /\ Len(rct') > 0
                /\ ApiTemplate' = [t EXCEPT !.rev = revs + 1]
<1>1. /\ nn \in Seq(AnyNetwork) /\ Len(nn) \in Nat \ {0}
      /\ rct \in Seq(AnyTemplate) /\ Len(rct) \in Nat \ {0}
      /\ revs \in Nat
  BY Histories DEF NetworkTypeOK
<1>2. ASSUME NEW s \in Network, WriteNetwork(s)
      PROVE  /\ nn' \in Seq(AnyNetwork) /\ Len(nn') > 0
             /\ nn' = Append(nn, ApiNetwork')
             /\ ApiNetwork' = IF s.dt /\ ~s.fin THEN NoNetwork ELSE s
  <2> DEFINE v == IF s.dt /\ ~s.fin THEN NoNetwork ELSE s
  <2>1. v \in AnyNetwork
    BY DEF AnyNetwork
  <2>2. nn' = Append(nn, v)
    BY <1>2 DEF WriteNetwork
  <2> HIDE DEF v
  <2>3. nn' \in Seq(AnyNetwork) /\ Len(nn') = Len(nn) + 1 /\ Last(nn') = v
    BY <1>1, <2>1, <2>2 DEF Last
  <2>4. ApiNetwork' = v
    BY <2>3 DEF ApiNetwork
  <2> QED
    BY <1>1, <2>2, <2>3, <2>4 DEF v
<1>3. ASSUME NEW t \in [rev: Nat, owner: 0..Other, class: Classes, label: BOOLEAN],
             WriteTemplate(t)
      PROVE  /\ revs' \in Nat
             /\ rct' \in Seq(AnyTemplate) /\ Len(rct') > 0
             /\ ApiTemplate' = [t EXCEPT !.rev = revs + 1]
  <2> DEFINE v == [t EXCEPT !.rev = revs + 1]
  <2>1. v \in AnyTemplate
    BY <1>1, SMTT(30) DEF AnyTemplate, Template
  <2>2. rct' = Append(rct, v) /\ revs' = revs + 1
    BY <1>3 DEF WriteTemplate
  <2> HIDE DEF v
  <2>3. rct' \in Seq(AnyTemplate) /\ Len(rct') = Len(rct) + 1 /\ Last(rct') = v
    BY <1>1, <2>1, <2>2 DEF Last
  <2>4. ApiTemplate' = v
    BY <2>3 DEF ApiTemplate
  <2> QED
    BY <1>1, <2>2, <2>3, <2>4 DEF v
<1> QED
  BY <1>2, <1>3

\* RCT states that reconcileRCT and users write.
LEMMA WrittenTypes ==
  /\ \A s \in Network : Desired(s) \in [rev: Nat, owner: 0..Other, class: Classes, label: BOOLEAN]
  /\ \A t \in Template : t \in [rev: Nat, owner: 0..Other, class: Classes, label: BOOLEAN]
  BY NumaNetworkAssumption, SMTT(30) DEF Desired, Network, Template, Other

\* What users write is an object again.
LEMMA EditTypes ==
  /\ \A s \in Network, class \in Classes, range \in Ranges :
       [s EXCEPT !.gen = @ + 1, !.class = class, !.range = range] \in Network
  /\ \A t \in Template : /\ [t EXCEPT !.owner = 0] \in Template
                         /\ [t EXCEPT !.label = FALSE] \in Template
<1>1. ASSUME NEW s \in Network, NEW class \in Classes, NEW range \in Ranges
      PROVE  [s EXCEPT !.gen = @ + 1, !.class = class, !.range = range] \in Network
  <2>1. s.gen + 1 \in Nat
    BY DEF Network
  <2>2. [s EXCEPT !.gen = s.gen + 1] \in Network
    BY <2>1 DEF Network
  <2> QED
    BY <2>2 DEF Network
<1>2. ASSUME NEW t \in Template
      PROVE  [t EXCEPT !.owner = 0] \in Template /\ [t EXCEPT !.label = FALSE] \in Template
  <2>1. 0 \in 0..Other
    BY NumaNetworkAssumption DEF Other
  <2> QED
    BY <2>1 DEF Template
<1> QED
  BY <1>1, <1>2, ZenonT(60)

-----------------------------------------------------------------------------
(* Type correctness *)

WorkerType == [pc: Steps, obj: AnyNetwork, tmpl: AnyTemplate]

\* The part of the type invariant that is about the worker and its counters.
WorkerTypeOK ==
  /\ queued \in BOOLEAN
  /\ w \in WorkerType
  /\ w.pc # "idle" => w.obj \in Network
  /\ w.pc = "updateRCT" => w.tmpl \in Template
  /\ faults \in 0..MaxFaults

\* An idle worker, and one that goes on, have the worker's type, however a call ends.
LEMMA ContinueType ==
  ASSUME NetworkTypeOK,
         NEW v \in WorkerType, v.pc # "idle" => v.obj \in Network,
         v.pc = "updateRCT" => v.tmpl \in Template,
         Continue(v)
  PROVE  WorkerTypeOK'
<1>1. Idle \in WorkerType /\ Idle.pc = "idle"
  BY NetworkFacts, TemplateFacts DEF Idle, WorkerType, Steps
<1>2. queued \in BOOLEAN /\ faults \in 0..MaxFaults
  BY DEF NetworkTypeOK
<1>3. queued' \in BOOLEAN /\ (w' = v \/ w' = Idle)
  BY <1>2 DEF Continue, Requeue
<1>4. faults' \in 0..MaxFaults
  BY <1>2, NumaNetworkAssumption DEF Continue, Fault
<1> QED
  BY <1>1, <1>3, <1>4 DEF WorkerTypeOK

\* So does a worker that has compared an RCT with the desired one.
LEMMA CompareType ==
  ASSUME NetworkTypeOK, w.pc # "idle", NEW t \in Template, Compare(t), faults' = faults
  PROVE  WorkerTypeOK'
<1>1. Idle \in WorkerType /\ Idle.pc = "idle"
  BY NetworkFacts, TemplateFacts DEF Idle, WorkerType, Steps
<1>2. w \in WorkerType /\ w.obj \in Network /\ queued \in BOOLEAN /\ faults \in 0..MaxFaults
  BY DEF NetworkTypeOK, WorkerType, AnyNetwork, AnyTemplate
<1> DEFINE v == [w EXCEPT !.pc = "updateRCT", !.tmpl = t]
<1>3. v \in WorkerType /\ v.obj = w.obj /\ v.tmpl = t
  BY <1>2 DEF WorkerType, Steps, AnyTemplate
<1>4. (w' = Idle \/ w' = v) /\ queued' \in BOOLEAN
  BY <1>2 DEF Compare, Requeue
<1> HIDE DEF v
<1> QED
  BY <1>1, <1>2, <1>3, <1>4 DEF WorkerTypeOK

\* The rest of the type invariant.
ObjectsTypeOK ==
  /\ nn \in Seq(AnyNetwork) /\ Len(nn) > 0
  /\ rct \in Seq(AnyTemplate) /\ Len(rct) > 0
  /\ uids \in 0..MaxIncarnations
  /\ revs \in Nat
  /\ claims \in [Claims -> {"unborn", "live", "gone"}]
  /\ claimCache \subseteq Claims
  /\ edits \in 0..MaxEdits

\* The two parts make the whole.
LEMMA TypeParts ==
  /\ NetworkTypeOK => ObjectsTypeOK /\ WorkerTypeOK
  /\ ObjectsTypeOK' /\ WorkerTypeOK' => NetworkTypeOK'
  BY DEF NetworkTypeOK, ObjectsTypeOK, WorkerTypeOK, WorkerType, AnyNetwork, AnyTemplate

\* A step of the worker preserves the types.
LEMMA WorkerStepType ==
  ASSUME NetworkTypeOK, WorkerStep
  PROVE  NetworkTypeOK'
<1>1. ObjectsTypeOK /\ WorkerTypeOK
  BY TypeParts
<1>2. w.pc # "idle" /\ w.obj \in Network /\ w \in WorkerType
  BY <1>1 DEF WorkerTypeOK, WorkerStep, AddFinalizer, GetRCT, CreateRCT, CreateRefused, GetAgain,
              UpdateRCT, CountClaims, RemoveFinalizer, CallFails
<1>3. Idle \in WorkerType /\ Idle.pc = "idle"
  BY NetworkFacts, TemplateFacts DEF Idle, WorkerType, Steps
<1>4. ASSUME NEW pc \in Steps \ {"updateRCT"}
      PROVE  /\ [w EXCEPT !.pc = pc] \in WorkerType
             /\ [w EXCEPT !.pc = pc].obj = w.obj
             /\ [w EXCEPT !.pc = pc].pc = pc
  BY <1>2 DEF WorkerType
<1>5. CASE AddFinalizer
  <2> DEFINE s == [w.obj EXCEPT !.fin = TRUE]
             v == [w EXCEPT !.pc = "getRCT", !.obj = s]
  <2>1. s \in Network
    BY <1>2 DEF Network
  <2>2. v \in WorkerType /\ v.obj = s /\ v.pc = "getRCT"
    BY <1>2, <2>1 DEF WorkerType, Steps, AnyNetwork
  <2>3. WriteNetwork(s) /\ Continue(v)
    BY <1>5 DEF AddFinalizer
  <2> HIDE DEF s, v
  <2>4. WorkerTypeOK'
    BY <2>1, <2>2, <2>3, ContinueType
  <2>5. nn' \in Seq(AnyNetwork) /\ Len(nn') > 0
    BY <2>1, <2>3, WriteTypes
  <2>6. ObjectsTypeOK'
    BY <1>1, <1>5, <2>5 DEF AddFinalizer, ObjectsTypeOK
  <2> QED
    BY <2>4, <2>6, TypeParts
<1>6. ASSUME UNCHANGED <<nn, rct, uids, revs, claims, claimCache, edits>>
      PROVE  ObjectsTypeOK'
  BY <1>1, <1>6 DEF ObjectsTypeOK
<1>7. CASE GetRCT
  <2>1. CASE rct[1] = NoTemplate
    <3>1. w' = [w EXCEPT !.pc = "createRCT"] /\ queued' = queued /\ faults' = faults
      BY <1>7, <2>1 DEF GetRCT
    <3>2. w' \in WorkerType /\ w'.obj = w.obj /\ w'.pc = "createRCT"
      BY <1>4, <3>1 DEF Steps
    <3>3. WorkerTypeOK'
      BY <1>1, <1>2, <3>1, <3>2 DEF WorkerTypeOK
    <3> QED
      BY <1>6, <1>7, <3>3, TypeParts DEF GetRCT
  <2>2. CASE rct[1] # NoTemplate
    <3>1. rct[1] \in Template /\ Compare(rct[1]) /\ faults' = faults
      BY <1>7, <2>2, Histories, TemplateFacts DEF GetRCT
    <3>2. WorkerTypeOK'
      BY <1>2, <3>1, CompareType
    <3> QED
      BY <1>6, <1>7, <3>2, TypeParts DEF GetRCT
  <2> QED
    BY <2>1, <2>2
<1>8. ASSUME WriteTemplate(Desired(w.obj)), Continue(Idle),
             UNCHANGED <<nn, uids, claims, claimCache, edits>>
      PROVE  NetworkTypeOK'
  <2>1. WorkerTypeOK'
    BY <1>3, <1>8, ContinueType
  <2>2. revs' \in Nat /\ rct' \in Seq(AnyTemplate) /\ Len(rct') > 0
    BY <1>2, <1>8, WriteTypes, WrittenTypes
  <2>3. ObjectsTypeOK'
    BY <1>1, <1>8, <2>2 DEF ObjectsTypeOK
  <2> QED
    BY <2>1, <2>3, TypeParts
<1>9. CASE CreateRCT
  BY <1>8, <1>9 DEF CreateRCT
<1>10. CASE CreateRefused
  <2>1. w' = [w EXCEPT !.pc = "getAgain"] /\ queued' = queued /\ faults' = faults
    BY <1>10 DEF CreateRefused
  <2>2. w' \in WorkerType /\ w'.obj = w.obj /\ w'.pc = "getAgain"
    BY <1>4, <2>1 DEF Steps
  <2>3. WorkerTypeOK'
    BY <1>1, <1>2, <2>1, <2>2 DEF WorkerTypeOK
  <2> QED
    BY <1>6, <1>10, <2>3, TypeParts DEF CreateRefused
<1>11. ASSUME Requeue, faults' \in 0..MaxFaults PROVE WorkerTypeOK'
  <2>1. queued' \in BOOLEAN /\ w' = Idle
    BY <1>11 DEF Requeue
  <2> QED
    BY <1>3, <1>11, <2>1 DEF WorkerTypeOK
<1>12. faults \in 0..MaxFaults
  BY <1>1 DEF WorkerTypeOK
<1>13. CASE GetAgain
  <2>1. CASE rct[1] = NoTemplate
    BY <1>6, <1>11, <1>12, <1>13, <2>1, TypeParts DEF GetAgain
  <2>2. CASE rct[1] # NoTemplate
    <3>1. rct[1] \in Template /\ Compare(rct[1]) /\ faults' = faults
      BY <1>13, <2>2, Histories, TemplateFacts DEF GetAgain
    <3>2. WorkerTypeOK'
      BY <1>2, <3>1, CompareType
    <3> QED
      BY <1>6, <1>13, <3>2, TypeParts DEF GetAgain
  <2> QED
    BY <2>1, <2>2
<1>14. CASE UpdateRCT
  BY <1>8, <1>14 DEF UpdateRCT
<1>15. CASE CountClaims
  <2>1. CASE claimCache # {}
    BY <1>6, <1>11, <1>12, <1>15, <2>1, TypeParts DEF CountClaims
  <2>2. CASE claimCache = {}
    <3>1. w' = [w EXCEPT !.pc = "removeFinalizer"] /\ queued' = queued /\ faults' = faults
      BY <1>15, <2>2 DEF CountClaims
    <3>2. w' \in WorkerType /\ w'.obj = w.obj /\ w'.pc = "removeFinalizer"
      BY <1>4, <3>1 DEF Steps
    <3>3. WorkerTypeOK'
      BY <1>1, <1>2, <3>1, <3>2 DEF WorkerTypeOK
    <3> QED
      BY <1>6, <1>15, <3>3, TypeParts DEF CountClaims
  <2> QED
    BY <2>1, <2>2
<1>16. CASE RemoveFinalizer
  <2> DEFINE s == [w.obj EXCEPT !.fin = FALSE]
  <2>1. s \in Network
    BY <1>2 DEF Network
  <2>2. WriteNetwork(s) /\ Continue(Idle)
    BY <1>16 DEF RemoveFinalizer
  <2> HIDE DEF s
  <2>3. WorkerTypeOK'
    BY <1>3, <2>2, ContinueType
  <2>4. nn' \in Seq(AnyNetwork) /\ Len(nn') > 0
    BY <2>1, <2>2, WriteTypes
  <2>5. ObjectsTypeOK'
    BY <1>1, <1>16, <2>4 DEF RemoveFinalizer, ObjectsTypeOK
  <2> QED
    BY <2>3, <2>5, TypeParts
<1>17. CASE CallFails
  <2>1. faults' \in 0..MaxFaults
    BY <1>12, <1>17, NumaNetworkAssumption DEF CallFails, Fault
  <2> QED
    BY <1>6, <1>11, <1>17, <2>1, TypeParts DEF CallFails
<1> QED
  BY <1>5, <1>7, <1>9, <1>10, <1>13, <1>14, <1>15, <1>16, <1>17 DEF WorkerStep

\* The manager's other steps and the cluster's preserve the types.
LEMMA ClusterType ==
  ASSUME NetworkTypeOK, Next, ~WorkerStep
  PROVE  NetworkTypeOK'
<1>1. ObjectsTypeOK /\ WorkerTypeOK
  BY TypeParts
<1>2. Idle \in WorkerType /\ Idle.pc = "idle"
  BY NetworkFacts, TemplateFacts DEF Idle, WorkerType, Steps
<1>3. ASSUME UNCHANGED <<w, faults>>, queued' \in BOOLEAN PROVE WorkerTypeOK'
  BY <1>1, <1>3 DEF WorkerTypeOK
<1>4. queued \in BOOLEAN
  BY <1>1 DEF WorkerTypeOK
<1>5. CASE Dequeue
  <2> DEFINE v == [Idle EXCEPT !.pc = FirstStep(nn[1]), !.obj = nn[1]]
  <2>1. nn[1] \in AnyNetwork
    BY Histories
  <2>2. FirstStep(nn[1]) # "idle" => nn[1] \in Network /\ FirstStep(nn[1]) # "updateRCT"
    BY <2>1, NetworkFacts DEF FirstStep
  <2>3. v \in WorkerType /\ v.pc = FirstStep(nn[1]) /\ v.obj = nn[1]
    BY <2>1, TemplateFacts DEF Idle, WorkerType, FirstStep, Steps
  <2>4. /\ w' = Idle \/ (w' = v /\ FirstStep(nn[1]) # "idle")
        /\ queued' \in BOOLEAN
        /\ faults' = faults
    BY <1>5 DEF Dequeue
  <2> HIDE DEF v
  <2>5. WorkerTypeOK'
    BY <1>1, <1>2, <2>2, <2>3, <2>4 DEF WorkerTypeOK
  <2>6. ObjectsTypeOK'
    BY <1>1, <1>5 DEF Dequeue, ObjectsTypeOK
  <2> QED
    BY <2>5, <2>6, TypeParts
<1>6. CASE DeliverNetwork
  <2>1. nn' \in Seq(AnyNetwork) /\ Len(nn') > 0
    BY <1>6, Histories, SuffixFacts DEF DeliverNetwork
  <2>2. ObjectsTypeOK'
    BY <1>1, <1>6, <2>1 DEF DeliverNetwork, ObjectsTypeOK
  <2>3. WorkerTypeOK'
    BY <1>3, <1>6 DEF DeliverNetwork
  <2> QED
    BY <2>2, <2>3, TypeParts
<1>7. CASE DeliverTemplate
  <2>1. rct' \in Seq(AnyTemplate) /\ Len(rct') > 0
    BY <1>7, SuffixFacts DEF DeliverTemplate
  <2>2. ObjectsTypeOK'
    BY <1>1, <1>7, <2>1 DEF DeliverTemplate, ObjectsTypeOK
  <2>3. queued' \in BOOLEAN
    BY <1>7 DEF DeliverTemplate
  <2>4. WorkerTypeOK'
    BY <1>3, <1>7, <2>3 DEF DeliverTemplate
  <2> QED
    BY <2>2, <2>4, TypeParts
<1>8. ASSUME NEW c \in Claims, DeliverClaim(c) PROVE NetworkTypeOK'
  <2>1. ObjectsTypeOK'
    BY <1>1, <1>8 DEF DeliverClaim, ObjectsTypeOK
  <2>2. WorkerTypeOK'
    BY <1>3, <1>4, <1>8 DEF DeliverClaim
  <2> QED
    BY <2>1, <2>2, TypeParts
<1>9. CASE Restart
  <2>1. /\ nn' \in Seq(AnyNetwork) /\ Len(nn') > 0
        /\ rct' \in Seq(AnyTemplate) /\ Len(rct') > 0
    BY <1>9, SuffixFacts DEF Restart
  <2>2. ObjectsTypeOK'
    BY <1>1, <1>9, <2>1 DEF Restart, ObjectsTypeOK
  <2>3. queued' \in BOOLEAN
    BY <1>9 DEF Restart
  <2>4. faults' \in 0..MaxFaults
    BY <1>1, <1>9, NumaNetworkAssumption DEF Restart, Fault, WorkerTypeOK
  <2>5. w' = Idle
    BY <1>9 DEF Restart
  <2>6. WorkerTypeOK'
    BY <1>2, <2>3, <2>4, <2>5 DEF WorkerTypeOK
  <2> QED
    BY <2>2, <2>6, TypeParts
<1>10. ASSUME NEW s \in Network, WriteNetwork(s),
              uids' \in 0..MaxIncarnations, edits' \in 0..MaxEdits,
              UNCHANGED <<rct, revs, claims, claimCache, queued, w, faults>>
       PROVE  NetworkTypeOK'
  <2>1. nn' \in Seq(AnyNetwork) /\ Len(nn') > 0
    BY <1>10, WriteTypes
  <2>2. ObjectsTypeOK'
    BY <1>1, <1>10, <2>1 DEF ObjectsTypeOK
  <2> QED
    BY <1>3, <1>4, <1>10, <2>2, TypeParts
<1>11. edits \in 0..MaxEdits /\ uids \in 0..MaxIncarnations /\ (Edit => edits' \in 0..MaxEdits)
  BY <1>1, NumaNetworkAssumption DEF ObjectsTypeOK, Edit
<1>12. ApiNetwork \in AnyNetwork /\ ApiTemplate \in AnyTemplate
  BY Histories
<1>13. ASSUME NEW class \in Classes, NEW range \in Ranges, CreateNetwork(class, range)
       PROVE  NetworkTypeOK'
  <2> DEFINE s == [NoNetwork EXCEPT !.uid = uids + 1, !.class = class, !.range = range]
  <2>1. uids + 1 \in 1..MaxIncarnations /\ uids' = uids + 1
    BY <1>11, <1>13, NumaNetworkAssumption DEF CreateNetwork
  <2>2. s \in Network
    BY <2>1, NumaNetworkAssumption DEF NoNetwork, Network
  <2>3. WriteNetwork(s)
    BY <1>13 DEF CreateNetwork
  <2> HIDE DEF s
  <2> QED
    BY <1>10, <1>11, <1>13, <2>1, <2>2, <2>3 DEF CreateNetwork
<1>14. ASSUME NEW class \in Classes, NEW range \in Ranges, EditNetwork(class, range)
       PROVE  NetworkTypeOK'
  <2> DEFINE s == [ApiNetwork EXCEPT !.gen = @ + 1, !.class = class, !.range = range]
  <2>1. ApiNetwork \in Network
    BY <1>12, <1>14, NetworkFacts DEF EditNetwork
  <2>2. s \in Network
    BY <2>1, EditTypes, ZenonT(60)
  <2>3. WriteNetwork(s)
    BY <1>14 DEF EditNetwork
  <2> HIDE DEF s
  <2> QED
    BY <1>10, <1>11, <1>14, <2>2, <2>3 DEF EditNetwork
<1>15. CASE DeleteNetwork
  <2> DEFINE s == [ApiNetwork EXCEPT !.dt = TRUE]
  <2>1. ApiNetwork \in Network
    BY <1>12, <1>15, NetworkFacts DEF DeleteNetwork
  <2>2. s \in Network
    BY <2>1 DEF Network
  <2>3. WriteNetwork(s)
    BY <1>15 DEF DeleteNetwork
  <2> HIDE DEF s
  <2> QED
    BY <1>10, <1>11, <1>15, <2>2, <2>3 DEF DeleteNetwork
<1>16. ASSUME NEW t \in [rev: Nat, owner: 0..Other, class: Classes, label: BOOLEAN],
              WriteTemplate(t), Edit, UNCHANGED <<nn, uids, claims, claimCache, queued, w, faults>>
       PROVE  NetworkTypeOK'
  <2>1. revs' \in Nat /\ rct' \in Seq(AnyTemplate) /\ Len(rct') > 0
    BY <1>16, WriteTypes
  <2>2. ObjectsTypeOK'
    BY <1>1, <1>11, <1>16, <2>1 DEF ObjectsTypeOK
  <2> QED
    BY <1>3, <1>4, <1>16, <2>2, TypeParts
<1>17. ASSUME NEW class \in Classes, NEW owner \in {0, Other}, PlantTemplate(class, owner)
       PROVE  NetworkTypeOK'
  <2> DEFINE t == [rev |-> 0, owner |-> owner, class |-> class, label |-> TRUE]
  <2>1. t \in [rev: Nat, owner: 0..Other, class: Classes, label: BOOLEAN]
    BY NumaNetworkAssumption DEF Other
  <2>2. WriteTemplate(t)
    BY <1>17 DEF PlantTemplate
  <2> HIDE DEF t
  <2> QED
    BY <1>16, <1>17, <2>1, <2>2 DEF PlantTemplate
<1>18. CASE StripTemplate
  <2>1. ApiTemplate \in Template
    BY <1>12, <1>18, TemplateFacts DEF StripTemplate
  <2>2. PICK t \in {[ApiTemplate EXCEPT !.owner = 0], [ApiTemplate EXCEPT !.label = FALSE]} :
          WriteTemplate(t)
    BY <1>18 DEF StripTemplate
  <2>3. t \in [rev: Nat, owner: 0..Other, class: Classes, label: BOOLEAN]
    BY <2>1, EditTypes, WrittenTypes, ZenonT(60)
  <2> QED
    BY <1>16, <1>18, <2>2, <2>3 DEF StripTemplate
<1>19. ASSUME rct' = Append(rct, NoTemplate), edits' \in 0..MaxEdits,
              UNCHANGED <<nn, uids, revs, claims, claimCache, queued, w, faults>>
       PROVE  NetworkTypeOK'
  <2>1. rct' \in Seq(AnyTemplate) /\ Len(rct') > 0
    BY <1>19, Histories, TemplateFacts
  <2>2. ObjectsTypeOK'
    BY <1>1, <1>19, <2>1 DEF ObjectsTypeOK
  <2> QED
    BY <1>3, <1>4, <1>19, <2>2, TypeParts
<1>20. CASE DeleteTemplate
  BY <1>11, <1>19, <1>20 DEF DeleteTemplate
<1>21. CASE CollectTemplate
  BY <1>11, <1>19, <1>21 DEF CollectTemplate
<1>22. ASSUME NEW c \in Claims, CreateClaim(c) \/ DeleteClaim(c) PROVE NetworkTypeOK'
  <2>1. claims' \in [Claims -> {"unborn", "live", "gone"}]
    BY <1>1, <1>22 DEF CreateClaim, DeleteClaim, ObjectsTypeOK
  <2>2. ObjectsTypeOK'
    BY <1>1, <1>22, <2>1 DEF CreateClaim, DeleteClaim, ObjectsTypeOK
  <2> QED
    BY <1>3, <1>4, <1>22, <2>2, TypeParts DEF CreateClaim, DeleteClaim
<1> QED
  BY <1>5, <1>6, <1>7, <1>8, <1>9, <1>13, <1>14, <1>15, <1>17, <1>18, <1>20, <1>21, <1>22
  DEF Next, ControlStep

\* The initial state has its types.
LEMMA TypeCorrectInit ==
  ASSUME Init
  PROVE  NetworkTypeOK
<1>1. w \in [pc: Steps, obj: AnyNetwork, tmpl: AnyTemplate] /\ w.pc = "idle"
  BY NetworkFacts, TemplateFacts DEF Init, Idle, Steps
<1>2. nn \in Seq(AnyNetwork) /\ Len(nn) > 0 /\ rct \in Seq(AnyTemplate) /\ Len(rct) > 0
  BY NetworkFacts, TemplateFacts DEF Init
<1>3. queued \in BOOLEAN
  BY DEF Init
<1>4. claims \in [Claims -> {"unborn", "live", "gone"}] /\ claimCache \subseteq Claims
  BY DEF Init
<1>5. /\ uids \in 0..MaxIncarnations /\ revs \in Nat
      /\ edits \in 0..MaxEdits /\ faults \in 0..MaxFaults
  BY NumaNetworkAssumption DEF Init
<1>6. (w.pc # "idle" => w.obj \in Network) /\ (w.pc = "updateRCT" => w.tmpl \in Template)
  BY <1>1
<1> QED
  BY <1>1, <1>2, <1>3, <1>4, <1>5, <1>6 DEF NetworkTypeOK, AnyNetwork, AnyTemplate

\* A step, or none, preserves the types.
LEMMA TypeStep ==
  ASSUME NetworkTypeOK, [Next]_nnVars
  PROVE  NetworkTypeOK'
<1>1. ASSUME UNCHANGED nnVars PROVE NetworkTypeOK'
  BY <1>1 DEF nnVars, NetworkTypeOK
<1> QED
  BY <1>1, WorkerStepType, ClusterType

\* Every state of NumaNetworkReconciler, its caches and the objects it works on is
\* of its type; in particular a worker that acts holds a NumaNetwork that existed.
THEOREM TypeCorrect == Spec => []NetworkTypeOK
<1>1. Init => NetworkTypeOK
  BY TypeCorrectInit
<1>2. NetworkTypeOK /\ [Next]_nnVars => NetworkTypeOK'
  BY TypeStep
<1> QED
  BY <1>1, <1>2, PTL DEF Spec

-----------------------------------------------------------------------------
(* The inductive invariant *)

\* Snapshots carry uids that were handed out, the deletion timestamp of a
\* NumaNetwork stays, and one that was seen live with the finalizer is still
\* there and has it.
HistoryInv ==
  \A i \in 1..Len(nn) :
    /\ nn[i].uid <= uids
    /\ \A j \in i..Len(nn) : nn[i].uid = nn[j].uid /\ nn[i].dt => nn[j].dt
    /\ nn[i].fin /\ ~nn[i].dt => ApiNetwork.uid = nn[i].uid /\ ApiNetwork.fin

Reconciling == {"getRCT", "createRCT", "getAgain", "updateRCT"}

Removing == {"countClaims", "removeFinalizer"}

\* What stays true of the worker's snapshot, however old it is.
WorkerInv ==
  w.pc # "idle" =>
    /\ w.obj.uid <= uids
    /\ w.pc = "addFinalizer" => ~w.obj.fin /\ ~w.obj.dt
    /\ w.pc \in Reconciling => ApiNetwork.uid = w.obj.uid /\ ApiNetwork.fin
    /\ w.pc \in Removing =>
         \A i \in 1..Len(nn) : nn[i].uid = w.obj.uid => nn[i].dt
    /\ w.pc = "updateRCT" => w.tmpl.owner # Other

IInv == NetworkTypeOK /\ HistoryInv /\ WorkerInv

\* A write keeps the history in order when it advances the NumaNetwork, removes
\* it or creates a new one, and does not break the promise of a finalizer.
LEMMA WriteInv ==
  ASSUME IInv, NetworkTypeOK', nn' = Append(nn, ApiNetwork'),
         uids <= uids', ApiNetwork'.uid <= uids',
         \/ ApiNetwork'.uid = ApiNetwork.uid /\ (ApiNetwork.dt => ApiNetwork'.dt)
         \/ ApiNetwork' = NoNetwork
         \/ ApiNetwork'.uid > uids,
         \/ ApiNetwork.fin => ApiNetwork'.uid = ApiNetwork.uid /\ ApiNetwork'.fin
         \/ \A i \in 1..Len(nn) : nn[i].fin => nn[i].dt
  PROVE  /\ HistoryInv'
         /\ \A u \in 1..uids :
              (\A i \in 1..Len(nn) : nn[i].uid = u => nn[i].dt) =>
                \A i \in 1..Len(nn') : nn'[i].uid = u => nn'[i].dt
<1> DEFINE n == Len(nn)
           v == ApiNetwork'
<1>1. /\ n \in Nat \ {0} /\ v \in AnyNetwork /\ ApiNetwork = nn[n]
      /\ uids \in Nat /\ uids' \in Nat
      /\ \A i \in 1..n : nn[i] \in AnyNetwork
  <2>1. nn' \in Seq(AnyNetwork) /\ Len(nn') > 0
    BY DEF NetworkTypeOK, AnyNetwork
  <2>2. v \in AnyNetwork
    BY <2>1 DEF ApiNetwork, Last
  <2> QED
    BY <2>2, Histories, NumaNetworkAssumption DEF IInv, NetworkTypeOK, ApiNetwork, Last
<1>2. Len(nn') = n + 1 /\ nn'[n + 1] = v /\ \A i \in 1..n : nn'[i] = nn[i]
  BY Histories DEF IInv
<1>3. \A s \in AnyNetwork : s.uid \in Nat /\ (s.uid = 0 => ~s.dt /\ ~s.fin)
  BY NetworkFacts, NumaNetworkAssumption
<1>4. NoNetwork.uid = 0
  BY NetworkFacts
<1>5. /\ \A i \in 1..n : nn[i].uid <= uids
      /\ \A i \in 1..n : \A j \in i..n : nn[i].uid = nn[j].uid /\ nn[i].dt => nn[j].dt
      /\ \A i \in 1..n : nn[i].fin /\ ~nn[i].dt => ApiNetwork.uid = nn[i].uid /\ ApiNetwork.fin
  BY DEF IInv, HistoryInv
<1> HIDE DEF n, v
<1>6. ASSUME NEW i \in 1..n, nn[i].uid = v.uid, nn[i].dt PROVE v.dt
  <2>1. nn[i].uid # 0 /\ nn[i].uid \in Nat
    BY <1>1, <1>3, <1>6
  <2>2. v.uid = ApiNetwork.uid /\ (ApiNetwork.dt => v.dt)
    BY <1>1, <1>3, <1>4, <1>5, <1>6, <2>1 DEF v
  <2> QED
    BY <1>1, <1>5, <1>6, <2>2
<1>7. ASSUME NEW i \in 1..Len(nn')
      PROVE  /\ nn'[i].uid <= uids'
             /\ \A j \in i..Len(nn') : nn'[i].uid = nn'[j].uid /\ nn'[i].dt => nn'[j].dt
             /\ nn'[i].fin /\ ~nn'[i].dt => v.uid = nn'[i].uid /\ v.fin
  <2>1. CASE i = n + 1
    BY <1>1, <1>2, <2>1 DEF v
  <2>2. CASE i \in 1..n
    <3>1. nn'[i] = nn[i] /\ nn[i].uid <= uids /\ nn[i].uid \in Nat
      BY <1>1, <1>2, <1>3, <1>5, <2>2
    <3>2. \A j \in i..Len(nn') : nn'[i].uid = nn'[j].uid /\ nn'[i].dt => nn'[j].dt
      BY <1>1, <1>2, <1>5, <1>6, <2>2
    <3>3. nn[i].fin /\ ~nn[i].dt => v.uid = nn[i].uid /\ v.fin
      BY <1>5, <2>2 DEF v, n
    <3> QED
      BY <1>1, <3>1, <3>2, <3>3, SMTT(30)
  <2> QED
    BY <1>1, <1>2, <2>1, <2>2
<1>8. HistoryInv'
  BY <1>7 DEF HistoryInv, v
<1>9. ASSUME NEW u \in 1..uids, \A i \in 1..n : nn[i].uid = u => nn[i].dt,
             NEW i \in 1..Len(nn'), nn'[i].uid = u
      PROVE  nn'[i].dt
  <2>1. CASE i \in 1..n
    BY <1>2, <1>9, <2>1
  <2>2. CASE i = n + 1
    <3>1. v.uid = ApiNetwork.uid /\ (ApiNetwork.dt => v.dt)
      BY <1>1, <1>2, <1>4, <1>9, <2>2 DEF v
    <3> QED
      BY <1>1, <1>2, <1>9, <2>2, <3>1
  <2> QED
    BY <1>1, <1>2, <2>1, <2>2
<1> QED
  BY <1>8, <1>9 DEF n

\* Events that reach the cache, and lists, only shorten the history.
LEMMA SuffixInv ==
  ASSUME IInv, NEW k \in Nat, Len(nn') = Len(nn) - k, Len(nn') \in Nat \ {0},
         \A i \in 1..Len(nn') : nn'[i] = nn[i + k],
         ApiNetwork' = ApiNetwork, uids' = uids, w' = w \/ w' = Idle
  PROVE  HistoryInv' /\ WorkerInv'
<1>1. ASSUME NEW i \in 1..Len(nn')
      PROVE  i + k \in 1..Len(nn) /\ nn'[i] = nn[i + k]
  BY Histories DEF IInv
<1>2. HistoryInv'
  <2> SUFFICES ASSUME NEW i \in 1..Len(nn')
               PROVE  /\ nn'[i].uid <= uids'
                      /\ \A j \in i..Len(nn') : nn'[i].uid = nn'[j].uid /\ nn'[i].dt => nn'[j].dt
                      /\ nn'[i].fin /\ ~nn'[i].dt =>
                           ApiNetwork'.uid = nn'[i].uid /\ ApiNetwork'.fin
    BY DEF HistoryInv
  <2>1. ASSUME NEW j \in i..Len(nn') PROVE nn'[j] = nn[j + k] /\ j + k \in (i + k)..Len(nn)
    BY <1>1, Histories DEF IInv
  <2> QED
    BY <1>1, <2>1, SMTT(30) DEF IInv, HistoryInv
<1>3. WorkerInv'
  <2>1. CASE w' = Idle
    BY <2>1 DEF WorkerInv, Idle
  <2>2. CASE w' = w
    BY <1>1, <2>2 DEF IInv, WorkerInv
  <2> QED
    BY <2>1, <2>2
<1> QED
  BY <1>2, <1>3

\* A write by somebody else leaves what the worker relies on in force.
LEMMA OverwriteInv ==
  ASSUME IInv, NetworkTypeOK', nn' = Append(nn, ApiNetwork'), w' = w,
         uids <= uids', ApiNetwork'.uid <= uids',
         \/ ApiNetwork'.uid = ApiNetwork.uid /\ (ApiNetwork.dt => ApiNetwork'.dt)
         \/ ApiNetwork' = NoNetwork
         \/ ApiNetwork'.uid > uids,
         ApiNetwork.fin => ApiNetwork'.uid = ApiNetwork.uid /\ ApiNetwork'.fin
  PROVE  HistoryInv' /\ WorkerInv'
<1>1. /\ HistoryInv'
      /\ \A u \in 1..uids :
           (\A i \in 1..Len(nn) : nn[i].uid = u => nn[i].dt) =>
             \A i \in 1..Len(nn') : nn'[i].uid = u => nn'[i].dt
  BY WriteInv
<1>2. WorkerInv'
  <2> SUFFICES ASSUME w.pc # "idle"
               PROVE  /\ w.obj.uid <= uids'
                      /\ w.pc = "addFinalizer" => ~w.obj.fin /\ ~w.obj.dt
                      /\ w.pc \in Reconciling => ApiNetwork'.uid = w.obj.uid /\ ApiNetwork'.fin
                      /\ w.pc \in Removing =>
                           \A i \in 1..Len(nn') : nn'[i].uid = w.obj.uid => nn'[i].dt
                      /\ w.pc = "updateRCT" => w.tmpl.owner # Other
    BY DEF WorkerInv
  <2>1. w.obj.uid \in 1..uids /\ uids \in Nat /\ uids' \in Nat
    <3>1. w.obj \in Network /\ w.obj.uid <= uids
      BY DEF IInv, NetworkTypeOK, WorkerInv
    <3>2. w.obj.uid \in 1..MaxIncarnations
      BY <3>1, NetworkFacts
    <3> QED
      BY <3>1, <3>2, NumaNetworkAssumption DEF IInv, NetworkTypeOK
  <2>2. w.obj.uid <= uids'
    BY <2>1
  <2>3. w.pc \in Removing => \A i \in 1..Len(nn') : nn'[i].uid = w.obj.uid => nn'[i].dt
    BY <1>1, <2>1, SMTT(30) DEF IInv, WorkerInv
  <2> QED
    BY <2>2, <2>3 DEF IInv, WorkerInv
<1> QED
  BY <1>1, <1>2

\* A step that writes no NumaNetwork preserves the invariant when it leaves the
\* worker alone or ends its reconcile.
LEMMA QuietInv ==
  ASSUME IInv, UNCHANGED <<nn, uids>>, w' = w \/ w' = Idle
  PROVE  HistoryInv' /\ WorkerInv'
<1>1. ApiNetwork' = ApiNetwork
  BY DEF ApiNetwork
<1>2. HistoryInv'
  BY <1>1 DEF IInv, HistoryInv
<1>3. CASE w' = Idle
  BY <1>2, <1>3 DEF WorkerInv, Idle
<1>4. CASE w' = w
  BY <1>1, <1>2, <1>4 DEF IInv, WorkerInv
<1> QED
  BY <1>3, <1>4

\* The informers, the users and the garbage collector preserve the invariant.
LEMMA ClusterInv ==
  ASSUME IInv, Next, ~WorkerStep
  PROVE  HistoryInv' /\ WorkerInv'
<1>1. NetworkTypeOK /\ NetworkTypeOK'
  BY ClusterType DEF IInv
<1>2. /\ ApiNetwork \in AnyNetwork /\ uids \in Nat
      /\ nn \in Seq(AnyNetwork) /\ Len(nn) \in Nat \ {0} /\ ApiNetwork = nn[Len(nn)]
  BY <1>1, Histories, NumaNetworkAssumption DEF NetworkTypeOK, ApiNetwork, Last
<1>3. ApiNetwork.uid \in Nat /\ ApiNetwork.uid <= uids
  BY <1>2, NetworkFacts, NumaNetworkAssumption DEF IInv, HistoryInv
<1>4. CASE Dequeue
  <2>1. UNCHANGED <<nn, uids>> /\ ApiNetwork' = ApiNetwork
    BY <1>4 DEF Dequeue, ApiNetwork
  <2>2. CASE FirstStep(nn[1]) = "idle"
    BY <1>4, <2>1, <2>2, QuietInv DEF Dequeue
  <2>3. CASE FirstStep(nn[1]) # "idle"
    <3>1. w'.pc = FirstStep(nn[1]) /\ w'.obj = nn[1] /\ w'.pc # "updateRCT"
      BY <1>4, <2>3 DEF Dequeue, FirstStep, Idle
    <3>2. HistoryInv'
      BY <2>1 DEF IInv, HistoryInv
    <3>3. 1 \in 1..Len(nn)
      BY <1>2
    <3>4. nn[1].uid <= uids
      BY <3>3 DEF IInv, HistoryInv
    <3>5. w'.pc = "addFinalizer" => ~nn[1].fin /\ ~nn[1].dt
      BY <3>1 DEF FirstStep
    <3>6. w'.pc \in Reconciling => ApiNetwork.uid = nn[1].uid /\ ApiNetwork.fin
      <4>1. w'.pc \in Reconciling => nn[1].fin /\ ~nn[1].dt
        BY <3>1 DEF FirstStep, Reconciling
      <4> QED
        BY <3>3, <4>1 DEF IInv, HistoryInv
    <3>7. w'.pc \in Removing => \A i \in 1..Len(nn) : nn[i].uid = nn[1].uid => nn[i].dt
      <4>1. w'.pc \in Removing => nn[1].dt
        BY <3>1 DEF FirstStep, Removing
      <4> QED
        BY <3>3, <4>1 DEF IInv, HistoryInv
    <3>8. WorkerInv'
      BY <2>1, <3>1, <3>4, <3>5, <3>6, <3>7 DEF WorkerInv
    <3> QED
      BY <3>2, <3>8
  <2> QED
    BY <2>2, <2>3
<1>5. CASE DeliverNetwork
  <2>1. Len(nn) > 1 /\ nn' = Tail(nn) /\ w' = w /\ uids' = uids
    BY <1>5 DEF DeliverNetwork
  <2>2. /\ Len(nn') = Len(nn) - 1 /\ ApiNetwork' = ApiNetwork
        /\ \A i \in 1..Len(nn') : nn'[i] = nn[i + 1]
    BY <1>1, <2>1, SuffixFacts
  <2>3. Len(nn') \in Nat \ {0} /\ 1 \in Nat
    BY <1>2, <2>1, <2>2
  <2> QED
    BY <2>1, <2>2, <2>3, SuffixInv
<1>6. CASE Restart
  <2>1. nn' = <<ApiNetwork>> /\ w' = Idle /\ uids' = uids
    BY <1>6 DEF Restart
  <2> DEFINE k == Len(nn) - 1
  <2>2. /\ Len(nn') = 1 /\ ApiNetwork' = ApiNetwork
        /\ \A i \in 1..Len(nn') : nn'[i] = nn[i + Len(nn) - 1]
    BY <1>1, <2>1, SuffixFacts
  <2>3. k \in Nat /\ Len(nn') = Len(nn) - k /\ Len(nn') \in Nat \ {0}
    BY <1>2, <2>2
  <2>4. \A i \in 1..Len(nn') : nn'[i] = nn[i + k]
    BY <1>2, <2>2
  <2> HIDE DEF k
  <2> QED
    BY <2>1, <2>2, <2>3, <2>4, SuffixInv
<1>7. ASSUME NEW class \in Classes, NEW range \in Ranges, CreateNetwork(class, range)
      PROVE  HistoryInv' /\ WorkerInv'
  <2> DEFINE s == [NoNetwork EXCEPT !.uid = uids + 1, !.class = class, !.range = range]
  <2>1. /\ WriteNetwork(s) /\ ApiNetwork.uid = 0
        /\ uids' = uids + 1 /\ w' = w /\ uids + 1 \in 1..MaxIncarnations
    BY <1>1, <1>7, NumaNetworkAssumption DEF CreateNetwork, NetworkTypeOK
  <2>2. s \in Network /\ s.uid = uids + 1 /\ ~s.dt
    BY <2>1, ZenonT(60) DEF NoNetwork, Network
  <2> HIDE DEF s
  <2>3. nn' = Append(nn, ApiNetwork') /\ ApiNetwork' = s
    BY <1>1, <2>1, <2>2, WriteTypes
  <2>4. ~ApiNetwork.fin
    BY <1>2, <2>1, NetworkFacts
  <2>5. uids <= uids' /\ s.uid <= uids' /\ s.uid > uids
    BY <1>2, <2>1, <2>2
  <2> QED
    BY <1>1, <2>1, <2>3, <2>4, <2>5, OverwriteInv
<1>8. ASSUME NEW s \in Network, WriteNetwork(s), w' = w, uids' = uids,
             s.uid = ApiNetwork.uid, s.fin = ApiNetwork.fin, ApiNetwork.dt => s.dt
      PROVE  HistoryInv' /\ WorkerInv'
  <2>1. /\ nn' = Append(nn, ApiNetwork')
        /\ ApiNetwork' = IF s.dt /\ ~s.fin THEN NoNetwork ELSE s
    BY <1>1, <1>8, WriteTypes
  <2>2. ApiNetwork'.uid <= uids' /\ uids <= uids'
    BY <1>2, <1>3, <1>8, <2>1, NetworkFacts
  <2>3. ApiNetwork.fin => ApiNetwork' = s
    BY <1>8, <2>1
  <2>4. \/ ApiNetwork'.uid = ApiNetwork.uid /\ (ApiNetwork.dt => ApiNetwork'.dt)
        \/ ApiNetwork' = NoNetwork
    BY <1>8, <2>1
  <2> QED
    BY <1>1, <1>8, <2>1, <2>2, <2>3, <2>4, OverwriteInv
<1>9. ASSUME NEW class \in Classes, NEW range \in Ranges, EditNetwork(class, range)
      PROVE  HistoryInv' /\ WorkerInv'
  <2> DEFINE s == [ApiNetwork EXCEPT !.gen = @ + 1, !.class = class, !.range = range]
  <2>1. ApiNetwork \in Network /\ WriteNetwork(s) /\ w' = w /\ uids' = uids
    BY <1>2, <1>9, NetworkFacts, SMTT(30) DEF EditNetwork
  <2>2. s \in Network
    BY <2>1, EditTypes, ZenonT(60)
  <2>3. s.uid = ApiNetwork.uid /\ s.fin = ApiNetwork.fin /\ s.dt = ApiNetwork.dt
    BY <2>1 DEF Network
  <2> HIDE DEF s
  <2> QED
    BY <1>8, <2>1, <2>2, <2>3
<1>10. CASE DeleteNetwork
  <2> DEFINE s == [ApiNetwork EXCEPT !.dt = TRUE]
  <2>1. ApiNetwork \in Network /\ WriteNetwork(s) /\ w' = w /\ uids' = uids
    BY <1>2, <1>10, NetworkFacts DEF DeleteNetwork
  <2>2. s \in Network /\ s.uid = ApiNetwork.uid /\ s.fin = ApiNetwork.fin /\ s.dt
    BY <2>1 DEF Network
  <2> HIDE DEF s
  <2> QED
    BY <1>8, <2>1, <2>2
<1>11. CASE \/ DeliverTemplate
            \/ \E c \in Claims : DeliverClaim(c) \/ CreateClaim(c) \/ DeleteClaim(c)
            \/ \E class \in Classes, owner \in {0, Other} : PlantTemplate(class, owner)
            \/ StripTemplate \/ DeleteTemplate \/ CollectTemplate
  <2>1. UNCHANGED <<nn, uids>> /\ w' = w
    BY <1>11 DEF DeliverTemplate, DeliverClaim, CreateClaim, DeleteClaim, PlantTemplate,
                 StripTemplate, DeleteTemplate, CollectTemplate
  <2> QED
    BY <2>1, QuietInv
<1> QED
  BY <1>4, <1>5, <1>6, <1>7, <1>9, <1>10, <1>11 DEF Next, ControlStep

\* A step of the worker preserves the invariant.
LEMMA WorkerStepInv ==
  ASSUME IInv, WorkerStep
  PROVE  HistoryInv' /\ WorkerInv'
<1>1. NetworkTypeOK /\ NetworkTypeOK'
  BY WorkerStepType DEF IInv
<1>2. /\ uids \in Nat /\ Len(nn) \in Nat \ {0} /\ ApiNetwork = nn[Len(nn)]
      /\ ApiNetwork \in AnyNetwork
  BY <1>1, Histories, NumaNetworkAssumption DEF NetworkTypeOK, ApiNetwork, Last
<1>3. w.pc # "idle" /\ w.obj \in Network /\ w \in WorkerType
  BY <1>1 DEF NetworkTypeOK, WorkerType, AnyNetwork, AnyTemplate, WorkerStep, AddFinalizer,
              GetRCT, CreateRCT, CreateRefused, GetAgain, UpdateRCT, CountClaims,
              RemoveFinalizer, CallFails
<1>4. w.obj.uid \in Nat /\ w.obj.uid <= uids
  BY <1>3, NetworkFacts, NumaNetworkAssumption DEF IInv, WorkerInv
<1>5. CASE AddFinalizer
  <2> DEFINE s == [w.obj EXCEPT !.fin = TRUE]
             v == [w EXCEPT !.pc = "getRCT", !.obj = s]
  <2>1. /\ w.pc = "addFinalizer" /\ ApiNetwork = w.obj /\ WriteNetwork(s)
        /\ Continue(v) /\ uids' = uids
    BY <1>5 DEF AddFinalizer
  <2>2. ~w.obj.fin /\ ~w.obj.dt
    BY <2>1 DEF IInv, WorkerInv
  <2>3. s \in Network /\ s.uid = w.obj.uid /\ s.fin /\ ~s.dt
    BY <1>3, <2>2 DEF Network
  <2>4. v.pc = "getRCT" /\ v.obj = s
    BY <1>3 DEF WorkerType
  <2> HIDE DEF s, v
  <2>5. nn' = Append(nn, ApiNetwork') /\ ApiNetwork' = s
    BY <1>1, <2>1, <2>3, WriteTypes
  <2>6. HistoryInv'
    BY <1>1, <1>2, <1>4, <2>1, <2>2, <2>3, <2>5, WriteInv
  <2>7. w' = v \/ w' = Idle
    BY <2>1 DEF Continue, Requeue
  <2>8. CASE w' = v
    BY <1>4, <2>1, <2>3, <2>4, <2>5, <2>6, <2>8 DEF WorkerInv, Reconciling, Removing
  <2>9. CASE w' = Idle
    BY <2>6, <2>9 DEF WorkerInv, Idle
  <2> QED
    BY <2>7, <2>8, <2>9
<1>6. CASE RemoveFinalizer
  <2> DEFINE s == [w.obj EXCEPT !.fin = FALSE]
  <2>1. /\ w.pc = "removeFinalizer" /\ ApiNetwork = w.obj /\ WriteNetwork(s)
        /\ Continue(Idle) /\ uids' = uids
    BY <1>6 DEF RemoveFinalizer
  <2>2. \A i \in 1..Len(nn) : nn[i].uid = ApiNetwork.uid => nn[i].dt
    BY <2>1 DEF IInv, WorkerInv, Removing
  <2>3. s \in Network /\ s.dt /\ ~s.fin
    <3>1. Len(nn) \in 1..Len(nn)
      BY <1>2
    <3>2. w.obj.dt
      BY <1>2, <2>1, <2>2, <3>1
    <3> QED
      BY <1>3, <3>2 DEF Network
  <2> HIDE DEF s
  <2>4. nn' = Append(nn, ApiNetwork') /\ ApiNetwork' = NoNetwork
    BY <1>1, <2>1, <2>3, WriteTypes
  <2>5. \A i \in 1..Len(nn) : nn[i].fin => nn[i].dt
    BY <2>2 DEF IInv, HistoryInv
  <2>6. ApiNetwork'.uid <= uids' /\ uids <= uids'
    BY <1>2, <2>1, <2>4, NetworkFacts
  <2>7. HistoryInv'
    BY <1>1, <2>4, <2>5, <2>6, WriteInv
  <2>8. w' = Idle
    BY <2>1 DEF Continue, Requeue
  <2> QED
    BY <2>7, <2>8 DEF WorkerInv, Idle
<1>7. ASSUME UNCHANGED <<nn, uids>>, w'.obj = w.obj, w.pc \in Reconciling, w'.pc \in Reconciling,
             w'.pc = "updateRCT" => w'.tmpl.owner # Other
      PROVE  HistoryInv' /\ WorkerInv'
  <2>1. ApiNetwork' = ApiNetwork
    BY <1>7 DEF ApiNetwork
  <2>2. HistoryInv'
    BY <1>7, <2>1 DEF IInv, HistoryInv
  <2> QED
    BY <1>7, <2>1, <2>2 DEF IInv, WorkerInv, Reconciling, Removing
<1>8. ASSUME Compare(rct[1]), UNCHANGED <<nn, uids>>, w.pc \in Reconciling
      PROVE  HistoryInv' /\ WorkerInv'
  <2>1. CASE w' = Idle
    BY <1>8, <2>1, QuietInv
  <2>2. CASE w' # Idle
    <3>1. w' = [w EXCEPT !.pc = "updateRCT", !.tmpl = rct[1]] /\ rct[1].owner # Other
      BY <1>8, <2>2 DEF Compare, Requeue
    <3>2. w'.pc = "updateRCT" /\ w'.obj = w.obj /\ w'.tmpl = rct[1]
      BY <1>3, <3>1 DEF WorkerType
    <3> QED
      BY <1>7, <1>8, <3>1, <3>2 DEF Reconciling
  <2> QED
    BY <2>1, <2>2
<1>9. CASE GetRCT
  <2>1. UNCHANGED <<nn, uids>> /\ w.pc \in Reconciling
    BY <1>9 DEF GetRCT, Reconciling
  <2>2. CASE rct[1] = NoTemplate
    <3>1. w' = [w EXCEPT !.pc = "createRCT"]
      BY <1>9, <2>2 DEF GetRCT
    <3>2. w'.pc = "createRCT" /\ w'.obj = w.obj
      BY <1>3, <3>1 DEF WorkerType
    <3> QED
      BY <1>7, <2>1, <3>2 DEF Reconciling
  <2>3. CASE rct[1] # NoTemplate
    BY <1>8, <1>9, <2>1, <2>3 DEF GetRCT
  <2> QED
    BY <2>2, <2>3
<1>10. CASE CreateRefused
  <2>1. /\ w' = [w EXCEPT !.pc = "getAgain"] /\ UNCHANGED <<nn, uids>>
        /\ w.pc \in Reconciling
    BY <1>10 DEF CreateRefused, Reconciling
  <2>2. w'.pc = "getAgain" /\ w'.obj = w.obj
    BY <1>3, <2>1 DEF WorkerType
  <2> QED
    BY <1>7, <2>1, <2>2 DEF Reconciling
<1>11. CASE GetAgain
  <2>1. UNCHANGED <<nn, uids>> /\ w.pc \in Reconciling
    BY <1>11 DEF GetAgain, Reconciling
  <2>2. CASE rct[1] = NoTemplate
    BY <1>11, <2>1, <2>2, QuietInv DEF GetAgain, Requeue
  <2>3. CASE rct[1] # NoTemplate
    BY <1>8, <1>11, <2>1, <2>3 DEF GetAgain
  <2> QED
    BY <2>2, <2>3
<1>12. CASE CountClaims
  <2>1. UNCHANGED <<nn, uids>> /\ w.pc = "countClaims"
    BY <1>12 DEF CountClaims
  <2>2. CASE w' = Idle
    BY <2>1, <2>2, QuietInv
  <2>3. CASE w' # Idle
    <3>1. w' = [w EXCEPT !.pc = "removeFinalizer"]
      BY <1>12, <2>3 DEF CountClaims, Requeue
    <3>2. w'.pc = "removeFinalizer" /\ w'.obj = w.obj
      BY <1>3, <3>1 DEF WorkerType
    <3>3. ApiNetwork' = ApiNetwork
      BY <2>1 DEF ApiNetwork
    <3>4. HistoryInv'
      BY <2>1, <3>3 DEF IInv, HistoryInv
    <3> QED
      BY <2>1, <3>2, <3>3, <3>4 DEF IInv, WorkerInv, Reconciling, Removing
  <2> QED
    BY <2>2, <2>3
<1>13. CASE CreateRCT \/ UpdateRCT \/ CallFails
  <2>1. UNCHANGED <<nn, uids>> /\ w' = Idle
    BY <1>13 DEF CreateRCT, UpdateRCT, CallFails, Continue, Requeue
  <2> QED
    BY <2>1, QuietInv
<1> QED
  BY <1>5, <1>6, <1>9, <1>10, <1>11, <1>12, <1>13 DEF WorkerStep

\* A step, or none, preserves the invariant.
LEMMA InvStep ==
  ASSUME IInv, [Next]_nnVars
  PROVE  IInv'
<1>1. NetworkTypeOK'
  BY TypeStep DEF IInv
<1>2. CASE UNCHANGED nnVars
  BY <1>1, <1>2, QuietInv DEF nnVars, IInv
<1>3. CASE Next
  BY <1>1, <1>3, WorkerStepInv, ClusterInv DEF IInv
<1> QED
  BY <1>2, <1>3

\* Whatever the reconciler's caches still show, what HistoryInv and WorkerInv say
\* about the NumaNetwork in the API server is true.
THEOREM Invariance == Spec => []IInv
<1>1. Init => IInv
  <2> SUFFICES ASSUME Init PROVE IInv
    OBVIOUS
  <2>1. NetworkTypeOK
    BY TypeCorrectInit
  <2>2. Len(nn) = 1 /\ nn[1] = NoNetwork /\ uids = 0 /\ w.pc = "idle"
    BY DEF Init, Idle
  <2>3. HistoryInv
    BY <2>2, NetworkFacts DEF HistoryInv
  <2> QED
    BY <2>1, <2>2, <2>3 DEF IInv, WorkerInv
<1>2. IInv /\ [Next]_nnVars => IInv'
  BY InvStep
<1> QED
  BY <1>1, <1>2, PTL DEF Spec

-----------------------------------------------------------------------------
(* What the invariant is for *)

\* What happens to the owner of the template in one step: reconcileRCT gives it to
\* the NumaNetwork it holds, unless another object has it, and nobody else makes
\* the NumaNetwork its owner.
LEMMA OwnerStep ==
  ASSUME IInv, Next
  PROVE  \/ ApiTemplate' = ApiTemplate
         \/ ApiTemplate'.owner \in {0, Other}
         \/ ApiTemplate'.owner = ApiTemplate.owner
         \/ /\ ApiTemplate.owner # Other
            /\ ApiTemplate'.owner = ApiNetwork.uid /\ ApiNetwork.fin
<1>1. /\ NetworkTypeOK /\ ApiTemplate \in AnyTemplate
      /\ rct \in Seq(AnyTemplate) /\ Len(rct) \in Nat \ {0}
  BY Histories DEF IInv
<1> DEFINE Written == [rev: Nat, owner: 0..Other, class: Classes, label: BOOLEAN]
<1>2. ASSUME NEW t \in Written, WriteTemplate(t)
      PROVE  ApiTemplate'.owner = t.owner
  <2>1. ApiTemplate' = [t EXCEPT !.rev = revs + 1]
    BY <1>1, <1>2, WriteTypes
  <2> QED
    BY <2>1
<1>3. ASSUME rct' = Append(rct, NoTemplate)
      PROVE  ApiTemplate'.owner = 0
  <2>1. ApiTemplate' = NoTemplate
    BY <1>1, <1>3, TemplateFacts DEF ApiTemplate, Last
  <2> QED
    BY <2>1, TemplateFacts
<1>4. ASSUME WriteTemplate(Desired(w.obj)), w.pc \in Reconciling, ApiTemplate.owner # Other
      PROVE  /\ ApiTemplate.owner # Other
             /\ ApiTemplate'.owner = ApiNetwork.uid /\ ApiNetwork.fin
  <2>1. w.obj \in Network /\ ApiNetwork.uid = w.obj.uid /\ ApiNetwork.fin
    BY <1>4 DEF IInv, NetworkTypeOK, WorkerInv, Reconciling
  <2>2. ApiTemplate'.owner = w.obj.uid
    BY <1>2, <1>4, <2>1, WrittenTypes, TemplateFacts
  <2> QED
    BY <1>4, <2>1, <2>2
<1>5. CASE CreateRCT
  <2>1. ApiTemplate.owner # Other
    BY <1>5, TemplateFacts, NumaNetworkAssumption DEF CreateRCT, Other
  <2> QED
    BY <1>4, <1>5, <2>1, SMTT(30) DEF CreateRCT, Reconciling
<1>6. CASE UpdateRCT
  <2>1. ApiTemplate.owner # Other
    BY <1>6 DEF UpdateRCT, Accepts, IInv, WorkerInv
  <2> QED
    BY <1>4, <1>6, <2>1 DEF UpdateRCT, Reconciling
<1>7. ASSUME NEW class \in Classes, NEW owner \in {0, Other}, PlantTemplate(class, owner)
      PROVE  ApiTemplate'.owner \in {0, Other}
  <2> DEFINE t == [rev |-> 0, owner |-> owner, class |-> class, label |-> TRUE]
  <2>1. t \in Written /\ t.owner = owner /\ WriteTemplate(t)
    BY <1>7, NumaNetworkAssumption DEF PlantTemplate, Other
  <2> HIDE DEF t
  <2> QED
    BY <1>2, <2>1
<1>8. CASE StripTemplate
  <2>1. ApiTemplate \in Template
    BY <1>1, <1>8, TemplateFacts DEF StripTemplate
  <2>2. /\ [ApiTemplate EXCEPT !.owner = 0] \in Written
        /\ [ApiTemplate EXCEPT !.owner = 0].owner = 0
        /\ [ApiTemplate EXCEPT !.label = FALSE] \in Written
        /\ [ApiTemplate EXCEPT !.label = FALSE].owner = ApiTemplate.owner
    <3>1. /\ [ApiTemplate EXCEPT !.owner = 0] \in Template
          /\ [ApiTemplate EXCEPT !.label = FALSE] \in Template
      BY <2>1, EditTypes, ZenonT(60)
    <3>2. /\ [ApiTemplate EXCEPT !.owner = 0].owner = 0
          /\ [ApiTemplate EXCEPT !.label = FALSE].owner = ApiTemplate.owner
      BY <2>1 DEF Template
    <3> QED
      BY <3>1, <3>2, WrittenTypes, SMTT(30)
  <2> QED
    BY <1>2, <1>8, <2>2 DEF StripTemplate
<1>9. CASE DeleteTemplate \/ CollectTemplate
  BY <1>3, <1>9 DEF DeleteTemplate, CollectTemplate
<1>10. CASE DeliverTemplate \/ Restart
  BY <1>1, <1>10, SuffixFacts, SMTT(30) DEF DeliverTemplate, Restart
<1>11. ASSUME rct' = rct PROVE ApiTemplate' = ApiTemplate
  BY <1>11 DEF ApiTemplate
<1>12. CASE \/ Dequeue \/ AddFinalizer \/ GetRCT \/ CreateRefused \/ GetAgain \/ CountClaims
            \/ RemoveFinalizer \/ CallFails \/ DeliverNetwork \/ DeleteNetwork
            \/ \E c \in Claims : DeliverClaim(c) \/ CreateClaim(c) \/ DeleteClaim(c)
            \/ \E class \in Classes, range \in Ranges :
                 CreateNetwork(class, range) \/ EditNetwork(class, range)
  <2>1. rct' = rct
    BY <1>12, ZenonT(60) DEF Dequeue, AddFinalizer, GetRCT, CreateRefused, GetAgain, CountClaims,
                 RemoveFinalizer, CallFails, DeliverNetwork, DeleteNetwork, DeliverClaim,
                 CreateClaim, DeleteClaim, CreateNetwork, EditNetwork
  <2> QED
    BY <1>11, <2>1
<1> QED
  BY <1>5, <1>6, <1>7, <1>8, <1>9, <1>10, <1>12 DEF Next, ControlStep, WorkerStep

\* reconcileRCT makes a template for a NumaNetwork, or hands one to it, only while
\* the API server holds that NumaNetwork with its finalizer.
THEOREM TemplatesServeHeldNetworks == Spec => TemplateForHeldNetwork
<1>1. ASSUME IInv, [Next]_nnVars
      PROVE  [Owned(ApiTemplate)' /\ ApiTemplate'.owner # ApiTemplate.owner =>
                ApiNetwork.uid = ApiTemplate'.owner /\ ApiNetwork.fin]_nnVars
  <2>1. CASE Next
    <3>1. ASSUME Owned(ApiTemplate)' PROVE ApiTemplate'.owner \notin {0, Other}
      BY <3>1, NumaNetworkAssumption DEF Owned, Other
    <3> QED
      BY <1>1, <2>1, <3>1, OwnerStep
  <2> QED
    BY <1>1, <2>1
<1> QED
  BY <1>1, Invariance, PTL DEF Spec, TemplateForHeldNetwork

\* reconcileRCT never takes a template from another object that controls it.
THEOREM ForeignTemplatesKept == Spec => ForeignTemplateKept
<1>1. ASSUME IInv, [Next]_nnVars
      PROVE  [ApiTemplate.owner = Other => ApiTemplate'.owner \in {0, Other}]_nnVars
  <2>1. CASE Next
    BY <1>1, <2>1, OwnerStep
  <2> QED
    BY <1>1, <2>1
<1> QED
  BY <1>1, Invariance, PTL DEF Spec, ForeignTemplateKept

=============================================================================
