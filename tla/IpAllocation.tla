----------------------------- MODULE IpAllocation -----------------------------
(***************************************************************************)
(* The profile server (ipam.Handler with WhereaboutsExecutor) and the DRA  *)
(* driver that calls it, composed with the NumaNetwork controller.  The    *)
(* server reads the NumaNetwork uncached, then runs the whereabouts plugin *)
(* with the range it read; the two are separate steps.  A request may be   *)
(* cut off in between, by the driver's deadline or by the server's end,    *)
(* and its plugin may still take effect while the driver's next request    *)
(* for the same claim is served.                                           *)
(***************************************************************************)
EXTENDS NumaNetwork

VARIABLES
  call,    \* [Claims -> the state of the driver and its request]
  late,    \* plugin runs whose request was cut off, that may still take effect
  pool,    \* the whereabouts reservations, a set of <<range, claim>>
  missed   \* history: claims whose release did not reach their reservation

ipVars == <<call, late, pool, missed>>

vars == <<nnVars, ipVars>>

\* "none": nothing was tried; "add", "del": the server has read the range and is
\* about to run the plugin; "tried", "releasing": the request has failed;
\* "prepared", "released": it was answered.
Call == [pc: {"none", "add", "tried", "prepared", "del", "releasing", "released"},
         range: Ranges \cup {None}]

Run == [cmd: {"add", "del"}, range: Ranges, claim: Claims]

Ends(c, pc) == call' = [call EXCEPT ![c] = [pc |-> pc, range |-> None]]

\* What the driver knows after a request without an answer.
Unanswered(cmd) == IF cmd = "add" THEN "tried" ELSE "releasing"

InFlight == {c \in Claims : call[c].pc \in {"add", "del"}}

-----------------------------------------------------------------------------
\* What the plugin is told: the NumaNetwork's name, which it does not keep, and
\* the range, which selects its pool.
BuildConfFromNuma(s) == s.range

\* Mutant: the NotFound error of the Get goes unnoticed.
StartAddUnchecked(c) ==
  /\ claims[c] = "live"
  /\ call[c].pc \in {"none", "tried"}
  /\ call' = [call EXCEPT ![c] = [pc |-> "add", range |-> ApiNetwork.range]]
  /\ UNCHANGED <<nnVars, late, pool, missed>>

\* getProfileConfig up to the plugin: 404 when the NumaNetwork is gone.  A kubelet
\* that has restarted prepares again what it had prepared.
StartAdd(c) ==
  /\ claims[c] = "live"
  /\ \/ call[c].pc \in {"none", "tried"} /\ faults' = faults
     \/ call[c].pc = "prepared" /\ Fault
  /\ IF ApiNetwork.uid = 0
     THEN Ends(c, "tried")
     ELSE call' = [call EXCEPT ![c] = [pc |-> "add", range |-> BuildConfFromNuma(ApiNetwork)]]
  /\ UNCHANGED <<nn, rct, uids, revs, claims, claimCache, queued, w, edits, late, pool, missed>>

\* Mutant: an error of the plugin is reported as a success.
AddSwallowed(c) ==
  /\ call[c].pc = "add"
  /\ \/ pool' = pool \cup {<<call[c].range, c>>} /\ faults' = faults
     \/ pool' = pool /\ Fault
  /\ Ends(c, "prepared")
  /\ UNCHANGED <<nn, rct, uids, revs, claims, claimCache, queued, w, edits, late, missed>>

\* Executor.Add: the plugin reserves an address, or finds the one it reserved.
\* It may fail before that, or its output may be of no use after it.
Add(c) ==
  /\ call[c].pc = "add"
  /\ \/ /\ pool' = pool \cup {<<call[c].range, c>>}
        /\ \/ Ends(c, "prepared") /\ faults' = faults
           \/ Ends(c, "tried") /\ Fault
     \/ Ends(c, "tried") /\ Fault /\ pool' = pool
  /\ UNCHANGED <<nn, rct, uids, revs, claims, claimCache, queued, w, edits, late, missed>>

\* Mutant: no address is released for a NumaNetwork that is being deleted.
StartDelRefused(c) ==
  /\ claims[c] = "live"
  /\ call[c].pc \in {"tried", "prepared", "releasing"}
  /\ ApiNetwork.uid # 0 /\ ~ApiNetwork.dt
  /\ call' = [call EXCEPT ![c] = [pc |-> "del", range |-> ApiNetwork.range]]
  /\ UNCHANGED <<nnVars, late, pool, missed>>

\* releaseProfileConfig up to the plugin.  When the NumaNetwork is gone the
\* server answers 404, and the driver tries again or gives up.
StartDel(c) ==
  /\ claims[c] = "live"
  /\ call[c].pc \in {"tried", "prepared", "releasing"}
  /\ \/ /\ ApiNetwork.uid = 0
        /\ Ends(c, "released")
        /\ missed' = missed \cup {c}
     \/ /\ ApiNetwork.uid # 0
        /\ call' = [call EXCEPT ![c] = [pc |-> "del", range |-> BuildConfFromNuma(ApiNetwork)]]
        /\ missed' = missed
  /\ UNCHANGED <<nnVars, late, pool>>

\* Mutant: an error of the plugin is reported as a success.
DelSwallowed(c) ==
  /\ call[c].pc = "del"
  /\ \/ pool' = pool \ {<<call[c].range, c>>} /\ faults' = faults
     \/ pool' = pool /\ Fault
  /\ Ends(c, "released")
  /\ UNCHANGED <<nn, rct, uids, revs, claims, claimCache, queued, w, edits, late, missed>>

\* Executor.Del: the plugin drops the reservation in the range it was given.
Del(c) ==
  LET r == call[c].range
  IN  /\ call[c].pc = "del"
      /\ \/ pool' = pool \ {<<r, c>>} /\ Ends(c, "released") /\ faults' = faults
         \/ pool' = pool /\ Ends(c, "releasing") /\ Fault
      /\ missed' = IF \E s \in Ranges \ {r} : <<s, c>> \in pool THEN missed \cup {c} ELSE missed
      /\ UNCHANGED <<nn, rct, uids, revs, claims, claimCache, queued, w, edits, late>>

\* The requests of the claims cs are cut off: the driver no longer waits, which
\* cancels the request's context and kills the plugin, and it will try again.
CutOff(cs) ==
  /\ cs # {}
  /\ cs \subseteq InFlight
  /\ Fault
  /\ late' = late \cup {[cmd |-> call[c].pc, range |-> call[c].range, claim |-> c] : c \in cs}
  /\ call' = [c \in Claims |-> IF c \in cs THEN [pc |-> Unanswered(call[c].pc), range |-> None]
                               ELSE call[c]]
  /\ UNCHANGED <<nn, rct, uids, revs, claims, claimCache, queued, w, edits, pool, missed>>

\* The server is told to stop and main does not wait longer than its shutdown
\* timeout for the requests in flight.
Shutdown == CutOff(InFlight)

\* What a killed plugin had sent to the API server takes effect after all.
Land(l) ==
  /\ late' = late \ {l}
  /\ \/ /\ l.cmd = "add"
        /\ pool' = pool \cup {<<l.range, l.claim>>}
        /\ missed' = IF call[l.claim].pc = "released" THEN missed \cup {l.claim} ELSE missed
     \/ /\ l.cmd = "del"
        /\ pool' = pool \ {<<l.range, l.claim>>}
        /\ missed' = missed
  /\ UNCHANGED <<nnVars, call>>

\* The kubelet lets the Pod, and so its claim, go when nothing was prepared or
\* when the driver has released it.
Finish(c) ==
  /\ call[c].pc \in {"none", "released"}
  /\ DeleteClaim(c)
  /\ UNCHANGED ipVars

-----------------------------------------------------------------------------
IpInit ==
  /\ Init
  /\ call = [c \in Claims |-> [pc |-> "none", range |-> None]]
  /\ late = {}
  /\ pool = {}
  /\ missed = {}

IpNext ==
  \/ ControlStep /\ UNCHANGED ipVars
  \/ \E c \in Claims : StartAdd(c) \/ Add(c) \/ StartDel(c) \/ Del(c) \/ Finish(c)
                         \/ CutOff({c})
  \/ Shutdown
  \/ \E l \in late : Land(l)

IpSpec == IpInit /\ [][IpNext]_vars

\* In addition to the controller's fairness, the server answers, and the kubelet
\* and the driver carry the removal of every Pod through.
IpFairSpec ==
  /\ IpSpec
  /\ WF_vars(WorkerStep /\ UNCHANGED ipVars)
  /\ WF_vars(Dequeue /\ UNCHANGED ipVars)
  /\ WF_vars(DeliverNetwork /\ UNCHANGED ipVars)
  /\ WF_vars(DeliverTemplate /\ UNCHANGED ipVars)
  /\ \A c \in Claims : /\ WF_vars(DeliverClaim(c) /\ UNCHANGED ipVars)
                       /\ WF_vars(Add(c) \/ Del(c))
                       /\ WF_vars(StartDel(c))
                       /\ WF_vars(Finish(c))

-----------------------------------------------------------------------------
(* Properties *)

\* Type invariant.
IpTypeOK ==
  /\ call \in [Claims -> Call]
  /\ \A c \in Claims : call[c].pc \in {"add", "del"} => call[c].range \in Ranges
  /\ late \subseteq Run
  /\ pool \subseteq Ranges \X Claims
  /\ missed \subseteq Claims

\* Failed plugins, requests cut off and retries leak nothing: a reservation
\* outlives its claim only when the release found no NumaNetwork or another range,
\* or when a killed ADD took effect after the release.
LeakHasCause ==
  \A r \in Ranges, c \in Claims : <<r, c>> \in pool /\ claims[c] = "gone" => c \in missed

\* While the driver takes a claim to be prepared, so that its Pod uses the address,
\* the address is reserved: no killed DEL of an earlier try takes it away, and no
\* failed ADD passes for a success.
PreparedIsReserved ==
  \A c \in Claims : call[c].pc = "prepared" => \E r \in Ranges : <<r, c>> \in pool

\* The NumaNetwork waits for its claims, a claim for its release, and a release
\* for the NumaNetwork to be read: when everything is deleted at once, it ends.
TeardownCompletes == ApiNetwork.dt ~> ~ApiNetwork.dt

\* The finalizer keeps the NumaNetwork as long as an address is reserved, so that
\* every release can be served: what the comment in Reconcile promises.
AddressesReleasable == pool # {} => ApiNetwork.uid # 0

=============================================================================
