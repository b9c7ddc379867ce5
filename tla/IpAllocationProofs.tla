-------------------------- MODULE IpAllocationProofs --------------------------
(***************************************************************************)
(* Proofs about IpAllocation for any claims, ranges and numbers of faults. *)
(***************************************************************************)
EXTENDS IpAllocation, NumaNetworkProofs

\* What the profile server and the driver do leaves the NumaNetwork controller
\* alone, but for the count of faults.
LEMMA FaultsType ==
  ASSUME NetworkTypeOK, UNCHANGED <<nn, rct, uids, revs, claims, claimCache, queued, w, edits>>,
         faults' = faults \/ Fault
  PROVE  NetworkTypeOK'
<1>1. faults' \in 0..MaxFaults
  BY NumaNetworkAssumption DEF NetworkTypeOK, Fault
<1> QED
  BY <1>1 DEF NetworkTypeOK

\* A step of the composition keeps the types of the controller.
LEMMA ControllerType ==
  ASSUME NetworkTypeOK, [IpNext]_vars
  PROVE  NetworkTypeOK'
<1>1. CASE ControlStep
  BY <1>1, TypeStep DEF Next
<1>2. CASE UNCHANGED nnVars
  BY <1>2, TypeStep
<1>3. ASSUME NEW c \in Claims, Finish(c) PROVE NetworkTypeOK'
  BY <1>3, TypeStep DEF Finish, Next
<1>4. ASSUME NEW c \in Claims, StartAdd(c) \/ Add(c) \/ Del(c) PROVE NetworkTypeOK'
  BY <1>4, FaultsType DEF StartAdd, Add, Del
<1>5. ASSUME NEW cs, CutOff(cs) PROVE NetworkTypeOK'
  BY <1>5, FaultsType DEF CutOff
<1> QED
  BY <1>1, <1>2, <1>3, <1>4, <1>5 DEF IpNext, Shutdown, StartDel, Land, vars

\* What the state of the driver says about reservations and plugins of claim c.
CallInv(c) ==
  /\ call[c].pc = "none" =>
       /\ \A r \in Ranges : <<r, c>> \notin pool
       /\ \A l \in late : l.claim # c
  /\ call[c].pc = "released" => \A r \in Ranges : <<r, c>> \in pool => c \in missed
  /\ call[c].pc = "prepared" => \E r \in Ranges : <<r, c>> \in pool
  /\ claims[c] = "gone" => call[c].pc \in {"none", "released"}
  /\ \A l \in late : l.claim = c /\ l.cmd = "del" =>
                       call[c].pc \in {"del", "releasing", "released"}

IpInv == NetworkTypeOK /\ IpTypeOK /\ \A c \in Claims : CallInv(c)

\* The answer to a request, and the start of one, have their types.
LEMMA CallTypes ==
  ASSUME IpTypeOK, NEW c \in Claims
  PROVE  /\ \A pc \in {"tried", "prepared", "releasing", "released"} :
              Ends(c, pc) => /\ call' \in [Claims -> Call]
                             /\ call'[c] = [pc |-> pc, range |-> None]
                             /\ \A d \in Claims \ {c} : call'[d] = call[d]
         /\ \A pc \in {"add", "del"}, r \in Ranges :
              call' = [call EXCEPT ![c] = [pc |-> pc, range |-> r]] =>
                /\ call' \in [Claims -> Call]
                /\ call'[c] = [pc |-> pc, range |-> r]
                /\ \A d \in Claims \ {c} : call'[d] = call[d]
<1>1. call \in [Claims -> Call]
  BY DEF IpTypeOK
<1>2. /\ \A pc \in {"tried", "prepared", "releasing", "released"} : [pc |-> pc, range |-> None] \in Call
      /\ \A pc \in {"add", "del"}, r \in Ranges : [pc |-> pc, range |-> r] \in Call
  BY DEF Call
<1> QED
  BY <1>1, <1>2 DEF Ends

\* The NumaNetwork that the server reads has a range.
LEMMA RangeRead ==
  ASSUME NetworkTypeOK, ApiNetwork.uid # 0
  PROVE  BuildConfFromNuma(ApiNetwork) \in Ranges
  BY Histories, NetworkFacts DEF BuildConfFromNuma


\* A step that is about other claims preserves the invariant of d.
LEMMA OtherClaim ==
  ASSUME NEW d \in Claims, CallInv(d),
         call'[d] = call[d], claims'[d] = claims[d], missed \subseteq missed',
         \A r \in Ranges : <<r, d>> \in pool' <=> <<r, d>> \in pool,
         \A l \in late' : l.claim = d => l \in late
  PROVE  CallInv(d)'
  BY DEF CallInv

\* The requests of the driver preserve types and invariant.
LEMMA RequestInv ==
  ASSUME IpInv, NEW c \in Claims, StartAdd(c) \/ Add(c) \/ StartDel(c) \/ Del(c)
  PROVE  IpTypeOK' /\ \A d \in Claims : CallInv(d)'
<1>1. IpTypeOK /\ NetworkTypeOK /\ \A d \in Claims : CallInv(d)
  BY DEF IpInv
<1>2. claims' = claims /\ late' = late
  BY DEF StartAdd, Add, StartDel, Del, nnVars
<1>3. ASSUME call' \in [Claims -> Call], call'[c].pc \in {"add", "del"} => call'[c].range \in Ranges,
             \A d \in Claims \ {c} : call'[d] = call[d],
             pool' \subseteq Ranges \X Claims, missed \subseteq missed', missed' \subseteq Claims,
             \A d \in Claims \ {c} : \A r \in Ranges : <<r, d>> \in pool' <=> <<r, d>> \in pool,
             CallInv(c)'
      PROVE  IpTypeOK' /\ \A d \in Claims : CallInv(d)'
  <2>1. IpTypeOK'
    BY <1>1, <1>2, <1>3 DEF IpTypeOK
  <2>2. ASSUME NEW d \in Claims \ {c} PROVE CallInv(d)'
    BY <1>1, <1>2, <1>3, OtherClaim
  <2> QED
    BY <1>3, <2>1, <2>2
<1>4. CallInv(c)
  BY <1>1
<1>5. CASE StartAdd(c)
  <2>1. /\ claims[c] = "live" /\ call[c].pc \in {"none", "tried", "prepared"}
        /\ pool' = pool /\ missed' = missed
    BY <1>5 DEF StartAdd
  <2>2. /\ call' \in [Claims -> Call] /\ \A d \in Claims \ {c} : call'[d] = call[d]
        /\ call'[c].pc \in {"add", "tried"}
        /\ call'[c].pc \in {"add", "del"} => call'[c].range \in Ranges
    <3>1. CASE ApiNetwork.uid = 0
      BY <1>1, <1>5, <3>1, CallTypes DEF StartAdd
    <3>2. CASE ApiNetwork.uid # 0
      <4> DEFINE r == BuildConfFromNuma(ApiNetwork)
      <4>1. r \in Ranges
        BY <1>1, <3>2, RangeRead
      <4>2. call' = [call EXCEPT ![c] = [pc |-> "add", range |-> r]]
        BY <1>5, <3>2 DEF StartAdd
      <4> HIDE DEF r
      <4>3. /\ call' \in [Claims -> Call] /\ call'[c] = [pc |-> "add", range |-> r]
            /\ \A d \in Claims \ {c} : call'[d] = call[d]
        BY <1>1, <4>1, <4>2, CallTypes
      <4> QED
        BY <4>1, <4>3
    <3> QED
      BY <3>1, <3>2
  <2>3. CallInv(c)'
    BY <1>2, <1>4, <2>1, <2>2 DEF CallInv
  <2> QED
    BY <1>1, <1>3, <2>1, <2>2, <2>3 DEF IpTypeOK
<1>6. CASE Add(c)
  <2>1. call[c].pc = "add" /\ call[c].range \in Ranges /\ missed' = missed
    BY <1>1, <1>6 DEF Add, IpTypeOK
  <2>2. /\ pool' = pool \/ pool' = pool \cup {<<call[c].range, c>>}
        /\ \/ Ends(c, "prepared") /\ pool' = pool \cup {<<call[c].range, c>>}
           \/ Ends(c, "tried")
    BY <1>6 DEF Add
  <2>3. /\ call' \in [Claims -> Call] /\ \A d \in Claims \ {c} : call'[d] = call[d]
        /\ call'[c].pc \in {"prepared", "tried"}
        /\ call'[c].pc = "prepared" => pool' = pool \cup {<<call[c].range, c>>}
    BY <1>1, <2>2, CallTypes
  <2>4. CallInv(c)'
    BY <1>2, <1>4, <2>1, <2>3 DEF CallInv
  <2>5. /\ pool' \subseteq Ranges \X Claims
        /\ \A d \in Claims \ {c} : \A r \in Ranges : <<r, d>> \in pool' <=> <<r, d>> \in pool
    BY <1>1, <2>1, <2>2 DEF IpTypeOK
  <2> QED
    BY <1>1, <1>3, <2>1, <2>3, <2>4, <2>5 DEF IpTypeOK
<1>7. CASE StartDel(c)
  <2>1. /\ claims[c] = "live" /\ pool' = pool
        /\ missed \subseteq missed' /\ missed' \subseteq Claims
    BY <1>1, <1>7 DEF StartDel, IpTypeOK
  <2>2. /\ call' \in [Claims -> Call] /\ \A d \in Claims \ {c} : call'[d] = call[d]
        /\ call'[c].pc \in {"del", "released"}
        /\ call'[c].pc \in {"add", "del"} => call'[c].range \in Ranges
        /\ call'[c].pc = "released" => c \in missed'
    <3>1. CASE ApiNetwork.uid = 0
      BY <1>1, <1>7, <3>1, CallTypes DEF StartDel
    <3>2. CASE ApiNetwork.uid # 0
      <4> DEFINE r == BuildConfFromNuma(ApiNetwork)
      <4>1. r \in Ranges
        BY <1>1, <3>2, RangeRead
      <4>2. call' = [call EXCEPT ![c] = [pc |-> "del", range |-> r]]
        BY <1>7, <3>2 DEF StartDel
      <4> HIDE DEF r
      <4>3. /\ call' \in [Claims -> Call] /\ call'[c] = [pc |-> "del", range |-> r]
            /\ \A d \in Claims \ {c} : call'[d] = call[d]
        BY <1>1, <4>1, <4>2, CallTypes
      <4> QED
        BY <4>1, <4>3
    <3> QED
      BY <3>1, <3>2
  <2>3. CallInv(c)'
    BY <1>2, <1>4, <2>1, <2>2 DEF CallInv
  <2> QED
    BY <1>1, <1>3, <2>1, <2>2, <2>3 DEF IpTypeOK
<1>8. CASE Del(c)
  <2> DEFINE r == call[c].range
  <2>1. /\ call[c].pc = "del" /\ r \in Ranges
        /\ missed' = IF \E s \in Ranges \ {r} : <<s, c>> \in pool THEN missed \cup {c} ELSE missed
    BY <1>1, <1>8 DEF Del, IpTypeOK
  <2>2. \/ pool' = pool \ {<<r, c>>} /\ Ends(c, "released")
        \/ pool' = pool /\ Ends(c, "releasing")
    BY <1>8 DEF Del
  <2> HIDE DEF r
  <2>3. /\ call' \in [Claims -> Call] /\ \A d \in Claims \ {c} : call'[d] = call[d]
        /\ call'[c].pc \in {"released", "releasing"}
        /\ call'[c].pc = "released" => pool' = pool \ {<<r, c>>}
    BY <1>1, <2>2, CallTypes
  <2>4. claims[c] # "gone"
    BY <1>4, <2>1 DEF CallInv
  <2>5. CallInv(c)'
    <3>1. ASSUME call'[c].pc = "released", NEW s \in Ranges, <<s, c>> \in pool' PROVE c \in missed'
      BY <2>1, <2>3, <3>1
    <3> QED
      BY <1>2, <2>3, <2>4, <3>1 DEF CallInv
  <2>6. /\ pool' \subseteq Ranges \X Claims
        /\ \A d \in Claims \ {c} : \A s \in Ranges : <<s, d>> \in pool' <=> <<s, d>> \in pool
    BY <1>1, <2>2 DEF IpTypeOK
  <2>7. missed \subseteq missed' /\ missed' \subseteq Claims
    BY <1>1, <2>1 DEF IpTypeOK
  <2> QED
    BY <1>3, <2>3, <2>5, <2>6, <2>7
<1> QED
  BY <1>5, <1>6, <1>7, <1>8

\* So does cutting requests off.
LEMMA CutOffInv ==
  ASSUME IpInv, NEW cs, CutOff(cs)
  PROVE  IpTypeOK' /\ \A d \in Claims : CallInv(d)'
<1> DEFINE Cut(c) == [cmd |-> call[c].pc, range |-> call[c].range, claim |-> c]
<1>1. /\ cs \subseteq Claims /\ \A c \in cs : call[c].pc \in {"add", "del"}
      /\ late' = late \cup {Cut(c) : c \in cs}
      /\ call' = [c \in Claims |-> IF c \in cs THEN [pc |-> Unanswered(call[c].pc), range |-> None]
                                   ELSE call[c]]
      /\ claims' = claims /\ pool' = pool /\ missed' = missed
  BY DEF CutOff, InFlight
<1>2. IpTypeOK /\ \A d \in Claims : CallInv(d)
  BY DEF IpInv
<1>3. ASSUME NEW c \in cs
      PROVE  /\ Cut(c) \in Run /\ Cut(c).claim = c /\ Cut(c).cmd = call[c].pc
             /\ call'[c].pc = Unanswered(call[c].pc) /\ call'[c] \in Call
             /\ call'[c].pc \in {"tried", "releasing"}
             /\ call'[c].pc = "tried" => call[c].pc = "add"
  BY <1>1, <1>2, SMTT(30) DEF IpTypeOK, Run, Call, Unanswered
<1>4. \A d \in Claims \ cs : call'[d] = call[d]
  BY <1>1
<1>5. \A l \in late' : l \in late \/ \E c \in cs : l = Cut(c)
  BY <1>1
<1> HIDE DEF Cut
<1>6. IpTypeOK'
  <2>1. call' \in [Claims -> Call]
    BY <1>1, <1>2, <1>3, <1>4, SMTT(30) DEF IpTypeOK
  <2>2. late' \subseteq Run
    BY <1>2, <1>3, <1>5 DEF IpTypeOK
  <2>3. \A d \in Claims : call'[d].pc \in {"add", "del"} => call'[d].range \in Ranges
    BY <1>2, <1>3, <1>4 DEF IpTypeOK
  <2> QED
    BY <1>1, <1>2, <2>1, <2>2, <2>3 DEF IpTypeOK
<1>7. ASSUME NEW d \in Claims \ cs PROVE CallInv(d)'
  <2>1. \A l \in late' : l.claim = d => l \in late
    BY <1>3, <1>5, <1>7
  <2>2. /\ CallInv(d) /\ call'[d] = call[d] /\ claims'[d] = claims[d] /\ missed \subseteq missed'
        /\ \A r \in Ranges : <<r, d>> \in pool' <=> <<r, d>> \in pool
    BY <1>1, <1>2, <1>4
  <2> QED
    BY <2>1, <2>2, OtherClaim
<1>8. ASSUME NEW c \in cs PROVE CallInv(c)'
  <2>1. claims[c] # "gone"
    BY <1>1, <1>2, <1>8 DEF CallInv
  <2>2. ASSUME NEW l \in late', l.claim = c, l.cmd = "del" PROVE call'[c].pc = "releasing"
    <3>1. CASE l \in late
      BY <1>1, <1>2, <1>3, <1>8, <2>2, <3>1, SMTT(30) DEF CallInv
    <3>2. CASE l \notin late
      BY <1>3, <1>5, <2>2, <3>2
    <3> QED
      BY <3>1, <3>2
  <2> QED
    BY <1>1, <1>3, <2>1, <2>2, SMTT(30) DEF CallInv
<1> QED
  BY <1>6, <1>7, <1>8

\* So does a killed plugin that takes effect.
LEMMA LandInv ==
  ASSUME IpInv, NEW l \in late, Land(l)
  PROVE  IpTypeOK' /\ \A d \in Claims : CallInv(d)'
<1>1. IpTypeOK /\ \A d \in Claims : CallInv(d)
  BY DEF IpInv
<1> DEFINE c == l.claim
           r == l.range
<1>2. l \in Run /\ c \in Claims /\ r \in Ranges
  BY <1>1 DEF IpTypeOK, Run
<1>3. /\ call' = call /\ claims' = claims /\ late' = late \ {l}
      /\ \/ /\ l.cmd = "add" /\ pool' = pool \cup {<<r, c>>}
            /\ missed' = IF call[c].pc = "released" THEN missed \cup {c} ELSE missed
         \/ l.cmd = "del" /\ pool' = pool \ {<<r, c>>} /\ missed' = missed
  BY DEF Land, nnVars
<1>4. CallInv(c) /\ call[c].pc # "none" /\ (l.cmd = "del" => call[c].pc # "prepared")
  BY <1>1, <1>2 DEF CallInv
<1> HIDE DEF c, r
<1>5. missed \subseteq missed' /\ missed' \subseteq Claims /\ pool' \subseteq Ranges \X Claims
  BY <1>1, <1>2, <1>3 DEF IpTypeOK
<1>6. IpTypeOK'
  BY <1>1, <1>3, <1>5 DEF IpTypeOK
<1>7. ASSUME NEW d \in Claims \ {c} PROVE CallInv(d)'
  <2>1. \A s \in Ranges : <<s, d>> \in pool' <=> <<s, d>> \in pool
    BY <1>3
  <2> QED
    BY <1>1, <1>3, <1>5, <2>1, OtherClaim
<1>8. CallInv(c)'
  <2>1. CASE l.cmd = "add"
    BY <1>3, <1>4, <1>5, <2>1 DEF CallInv
  <2>2. CASE l.cmd = "del"
    BY <1>3, <1>4, <1>5, <2>2 DEF CallInv
  <2> QED
    BY <1>3, <2>1, <2>2
<1> QED
  BY <1>6, <1>7, <1>8

\* And so does every other step.
LEMMA IpStep ==
  ASSUME IpInv, [IpNext]_vars
  PROVE  IpInv'
<1>1. NetworkTypeOK' /\ NetworkTypeOK
  BY ControllerType DEF IpInv
<1>2. ASSUME UNCHANGED ipVars, \A d \in Claims : claims'[d] = "gone" => claims[d] = "gone"
      PROVE  IpTypeOK' /\ \A d \in Claims : CallInv(d)'
  <2>1. call' = call /\ late' = late /\ pool' = pool /\ missed' = missed
    BY <1>2 DEF ipVars
  <2>2. IpTypeOK'
    BY <2>1 DEF IpInv, IpTypeOK
  <2>3. ASSUME NEW d \in Claims PROVE CallInv(d)'
    BY <1>2, <2>1 DEF IpInv, CallInv
  <2> QED
    BY <2>2, <2>3
<1>3. CASE ControlStep /\ UNCHANGED ipVars
  <2>1. ASSUME NEW c \in Claims, CreateClaim(c), NEW d \in Claims, claims'[d] = "gone"
        PROVE  claims[d] = "gone"
    BY <1>1, <2>1 DEF CreateClaim, NetworkTypeOK
  <2>2. CASE ~\E c \in Claims : CreateClaim(c)
    <3>1. claims' = claims
      BY <1>3, <2>2, ZenonT(60) DEF ControlStep, WorkerStep, AddFinalizer, GetRCT,
           CreateRCT, CreateRefused,
           GetAgain, UpdateRCT, CountClaims, RemoveFinalizer, CallFails, Dequeue, DeliverNetwork,
           DeliverTemplate, DeliverClaim, Restart, CreateNetwork, EditNetwork, DeleteNetwork,
           PlantTemplate, StripTemplate, DeleteTemplate, CollectTemplate
    <3> QED
      BY <1>1, <1>2, <1>3, <3>1, SMTT(30) DEF IpInv
  <2> QED
    BY <1>1, <1>2, <1>3, <2>1, <2>2 DEF IpInv
<1>4. CASE UNCHANGED vars
  BY <1>1, <1>2, <1>4 DEF vars, nnVars, IpInv
<1>5. ASSUME NEW c \in Claims, Finish(c) PROVE IpTypeOK' /\ \A d \in Claims : CallInv(d)'
  <2>1. /\ call[c].pc \in {"none", "released"} /\ UNCHANGED ipVars
        /\ \A d \in Claims \ {c} : claims'[d] = claims[d]
    BY <1>1, <1>5 DEF Finish, DeleteClaim, NetworkTypeOK
  <2>2. IpTypeOK'
    BY <2>1 DEF ipVars, IpInv, IpTypeOK
  <2>3. CallInv(c)'
    BY <2>1 DEF ipVars, IpInv, CallInv
  <2>4. ASSUME NEW d \in Claims \ {c} PROVE CallInv(d)'
    BY <2>1 DEF ipVars, IpInv, CallInv
  <2> QED
    BY <2>2, <2>3, <2>4
<1> QED
  BY <1>1, <1>3, <1>4, <1>5, RequestInv, CutOffInv, LandInv DEF IpNext, Shutdown, IpInv

\* The driver's view, the plugins that may still run and the reservations agree
\* as CallInv says, however requests fail, are cut off and are repeated.
THEOREM IpInvariance == IpSpec => []IpInv
<1>1. IpInit => IpInv
  <2> SUFFICES ASSUME IpInit PROVE IpInv
    OBVIOUS
  <2>1. NetworkTypeOK /\ \A c \in Claims : claims[c] = "unborn"
    BY TypeCorrectInit DEF IpInit, Init
  <2>2. \A c \in Claims : call[c].pc = "none"
    BY DEF IpInit
  <2>3. IpTypeOK
    BY DEF IpInit, IpTypeOK, Call
  <2>4. ASSUME NEW c \in Claims PROVE CallInv(c)
    BY <2>1, <2>2 DEF IpInit, CallInv
  <2> QED
    BY <2>1, <2>3, <2>4 DEF IpInv
<1>2. IpInv /\ [IpNext]_vars => IpInv'
  BY IpStep
<1> QED
  BY <1>1, <1>2, PTL DEF IpSpec

\* The driver's requests, the plugin runs and the pool keep their types: a request
\* is never cut off, retried or finished into a state no handler knows.
THEOREM IpTypeCorrect == IpSpec => []IpTypeOK
<1>1. IpInv => IpTypeOK
  BY DEF IpInv
<1> QED
  BY <1>1, IpInvariance, PTL

\* A reservation outlives its claim only for the causes that missed records: no
\* failed plugin, cut-off request or retry leaks an address by itself.
THEOREM LeaksHaveCauses == IpSpec => []LeakHasCause
<1>1. IpInv => LeakHasCause
  BY DEF IpInv, CallInv, LeakHasCause
<1> QED
  BY <1>1, IpInvariance, PTL

\* What the driver takes to be prepared is reserved, although plugins that were
\* killed may take effect at any time.
THEOREM PreparedStaysReserved == IpSpec => []PreparedIsReserved
<1>1. IpInv => PreparedIsReserved
  BY DEF IpInv, CallInv, PreparedIsReserved
<1> QED
  BY <1>1, IpInvariance, PTL

=============================================================================
