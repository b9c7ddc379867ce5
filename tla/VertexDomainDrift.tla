--------------------------- MODULE VertexDomainDrift ---------------------------
(***************************************************************************)
(* Two things VertexDomain leaves out, because with them its guarantees    *)
(* need exceptions: this module says which.  Labels and annotations are    *)
(* not immutable, so a Pod may be edited after it was registered.  And the *)
(* work of an earlier worker may outlive it: a store call runs into its    *)
(* deadline while the request is under way, the process dies after sending *)
(* a request, or a former leader is paused, loses its lease and carries on *)
(* before it notices.  All three are one leftover worker that may still    *)
(* take its remaining steps, or stop at any of them.                       *)
(***************************************************************************)
EXTENDS VertexDomain

CONSTANT Edits   \* the labels and annotations that users give a Pod later

ASSUME EditsAssumption == Edits \subseteq [label: BOOLEAN, fqdn: FQDNs \cup {None}]

VARIABLES
  old,       \* the leftover worker, or Idle
  edited,    \* <<name, uid>> of the Pods edited so far, each at most once
  excused    \* history: record keys edited away from or written by the leftover

driftVars == <<vars, old, edited, excused>>

\* The leftover worker takes the same steps as the worker.  Its queue is
\* nobody's: a call of it that fails ends it, and what it puts back is lost, which
\* is what a queue that holds every Pod anyway stands for.  The claim cache of its
\* process may lag behind, but an address is written once, so then it finds none
\* and ends.
Old == INSTANCE VertexDomain WITH w <- old, queue <- Pods

DriftInit ==
  /\ Init
  /\ old = Idle
  /\ edited = {}
  /\ excused = {}

\* The worker is given up in the middle of a reconcile, by a deadline or by the
\* end of its process or lease, and leaves what it was about to do behind.  One
\* that was left behind before has stopped by then.
Abandon ==
  /\ w.pc # "idle"
  /\ old' = w
  /\ \/ Restart
     \/ /\ Fault
        /\ ReturnRequeue
        /\ UNCHANGED <<hist, uids, claims, claimCache, rec, published, wipes>>
  /\ UNCHANGED <<edited, excused>>

\* The leftover worker takes its next step.
OldStep ==
  /\ Old!WorkerStep
  /\ excused' = IF old.pc = "put" THEN excused \cup {<<old.obj.fqdn, old.pod>>} ELSE excused
  /\ UNCHANGED <<queue, w, edited>>

\* A user changes the label or the FQDN annotation of a Pod.
EditPod(p, t) ==
  LET s == [Api(p) EXCEPT !.label = t.label, !.fqdn = t.fqdn]
  IN  /\ Api(p).uid # 0
      /\ <<p, Api(p).uid>> \notin edited
      /\ s # Api(p)
      /\ Write(p, s)
      /\ edited' = edited \cup {<<p, Api(p).uid>>}
      /\ excused' = IF s.fqdn # Api(p).fqdn THEN excused \cup {<<Api(p).fqdn, p>>} ELSE excused
      /\ UNCHANGED <<uids, claims, claimCache, queue, w, rec, published, faults, wipes, old>>

DriftNext ==
  \/ Next /\ UNCHANGED <<old, edited, excused>>
  \/ Abandon
  \/ OldStep
  \/ \E p \in Pods, t \in Edits : EditPod(p, t)

DriftSpec == DriftInit /\ [][DriftNext]_driftVars

\* As in VertexDomain; nothing is assumed of the leftover worker or of users.
DriftFairSpec == DriftSpec /\ Fairness

-----------------------------------------------------------------------------
(* Properties *)

\* A record without a Pod that holds it is under a key that an edit moved a Pod
\* away from, or that a leftover worker wrote.  Nothing else orphans a record:
\* not the removal of the label, not a late Delete or a late Update.
OrphanHasCause ==
  \A f \in FQDNs, p \in Pods :
    rec[<<f, p>>] # None => (Api(p).fin /\ Api(p).fqdn = f) \/ <<f, p>> \in excused

\* A live Pod loses its record only with the whole store or to the Delete of a
\* leftover worker, whatever is edited while a reconcile is under way.
DeregistrationHasCause ==
  [][\A f \in FQDNs, p \in Pods :
       /\ Api(p).fin /\ ~Api(p).dt /\ Api(p).fqdn = f
       /\ rec[<<f, p>>] # None
       /\ rec'[<<f, p>>] = None
       => wipes' # wipes \/ (old.pc = "delete" /\ old' # old)]_driftVars

\* The finalizer comes off a Pod that is being deleted, although edits make the
\* manager's Updates conflict and a leftover worker interferes, unless an edit
\* took away the label or the FQDN that the reconciler needs to see the Pod.
DeletionUnblocked ==
  \A p \in Pods :
    Api(p).dt ~> ~Api(p).dt \/ ~Api(p).label \/ Api(p).fqdn \in Malformed \cup {None}

\* The leftover worker is about to delete the record of a live Pod, which took the
\* name and the FQDN of the one that it deregisters.
DeletesLive(p) ==
  /\ old.pc = "delete" /\ old.pod = p /\ old.obj.fqdn = Api(p).fqdn
  /\ ~Api(p).dt
  /\ rec[<<Api(p).fqdn, p>>] # None

\* A Pod that can be registered gets a record and does not stay without one, in
\* spite of edits, calls that run into their deadline and a leftover worker, unless
\* that worker comes to delete a live Pod's record.  Reconcile is not told of that
\* and puts the record back only when something else makes it look at the Pod;
\* EventuallyCurrent says that a resync is enough.
RegisteredUnlessTaken ==
  \A p \in Pods :
    \/ <>DeletesLive(p)
    \/ Registrable(p) ~> (Registrable(p) => rec[<<Api(p).fqdn, p>>] # None)

=============================================================================
