------------------------- MODULE ClusterResourceQuota -------------------------
(***************************************************************************)
(* ClusterResourceQuotaReconciler (pkg/clusterresourcequota/controllers):  *)
(* it keeps one ResourceQuota in every namespace that a                    *)
(* ClusterResourceQuota selects.  It lists from an informer cache that     *)
(* trails the API server, is woken by the events the cache delivers, and   *)
(* makes its API calls one at a time while namespaces, the cluster quota   *)
(* and other writers of ResourceQuotas move on.  It ends by adding up what *)
(* they use into the status of the cluster quota, which the admission      *)
(* webhook (quotaAccessor) reads, from the same cache.                     *)
(*                                                                         *)
(* One cluster quota is enough: the work queue runs one Reconcile per key. *)
(* What a quota uses is left out: a sum is the set of the quotas in it.    *)
(***************************************************************************)
EXTENDS Integers, FiniteSets

CONSTANTS
    Namespaces,     \* namespaces the cluster quota may select
    Ids,            \* names of ResourceQuotas
    NoId,           \* none of them
    MaxSpec,        \* bound: versions of the cluster quota's spec
    MaxMoves,       \* bound: what others do, and API calls that fail
    MaxFailures,    \* bound: those that fail
    MaxLags         \* bound: times the cache is behind when it is listed

ASSUME QuotaAssumption ==
    /\ IsFiniteSet(Namespaces) /\ IsFiniteSet(Ids) /\ NoId \notin Ids
    /\ MaxSpec \in Nat /\ MaxMoves \in Nat /\ MaxFailures \in Nat /\ MaxLags \in Nat

VARIABLES
    ns, spec,       \* the namespaces, and the spec of the cluster quota
    live,           \* the ResourceQuotas
    status,         \* the status of the cluster quota
    relabelled,     \* namespaces whose labels have changed
    nsSeen, specSeen, statusSeen, cache,    \* the same in the informer cache
    news,           \* quotas it owns that have events the cache has yet to get
    queued,         \* the cluster quota is in the work queue
    pc, todo,       \* Reconcile, and the namespaces it has yet to ensure
    at, keep, tidy, \* the namespace at hand, its matchedquota, the others in it
    stray,          \* the quotas listed in namespaces that do not match
    want, listed,   \* the spec and the quotas it has read from the cache
    read, expected, \* the status it has read, and expectedQuotas
    moves, failures, lags

worldVars == <<ns, spec, live, status, news, relabelled>>
seenVars == <<nsSeen, specSeen, statusSeen, cache>>
loopVars == <<pc, todo, at, keep, tidy, stray, want, listed, read, expected>>
vars == <<worldVars, seenVars, queued, loopVars, moves, failures, lags>>

Absent == [in |-> NoId, owned |-> FALSE, made |-> FALSE, auto |-> FALSE, spec |-> 0]

\* The quota the reconciler creates in n for spec s.
Proper(n, s) == [in |-> n, owned |-> TRUE, made |-> TRUE, auto |-> TRUE, spec |-> s]

Quotas == {Absent} \cup
    [in : Namespaces, owned : BOOLEAN, made : BOOLEAN, auto : BOOLEAN, spec : Nat]

States == {"gone", "plain", "matched"}

\* The status of the cluster quota: the spec its hard limits are of (0 before
\* there are any), and the quotas whose use is added up.
Statuses == [hard : Nat, over : SUBSET Ids]
NoStatus == [hard |-> 0, over |-> {}]

TypeOK ==
    /\ ns \in [Namespaces -> States] /\ nsSeen \in [Namespaces -> States]
    /\ spec \in Nat /\ specSeen \in Nat /\ want \in Nat
    /\ live \in [Ids -> Quotas] /\ cache \in [Ids -> Quotas] /\ listed \in [Ids -> Quotas]
    /\ relabelled \subseteq Namespaces /\ news \subseteq Ids /\ queued \in BOOLEAN
    /\ pc \in {"idle", "ensure", "tidy"}
    /\ todo \subseteq Namespaces /\ at \in Namespaces \cup {NoId}
    /\ keep \in Ids \cup {NoId} /\ tidy \subseteq Ids /\ stray \subseteq Ids
    /\ {status, statusSeen, read} \subseteq Statuses /\ expected \subseteq Ids
    /\ moves \in Nat /\ failures \in Nat /\ lags \in Nat

Init ==
    /\ ns \in [Namespaces -> {"gone", "matched"}] /\ nsSeen = ns
    /\ spec = 1 /\ specSeen = 1
    /\ live = [q \in Ids |-> Absent] /\ cache = live
    /\ relabelled = {} /\ news = {} /\ queued = TRUE
    /\ pc = "idle" /\ todo = {} /\ at = NoId /\ keep = NoId /\ tidy = {} /\ stray = {}
    /\ want = 0 /\ listed = live /\ read = NoStatus /\ expected = {}
    /\ status = NoStatus /\ statusSeen = NoStatus
    /\ moves = 0 /\ failures = 0 /\ lags = 0

\* The API server takes a write, and sends its event to the cache.
Write(to) ==
    /\ live' = to
    /\ news' = news \cup {q \in Ids : live[q] # to[q] /\ (live[q].owned \/ to[q].owned)}

Unused == {q \in Ids : {live[q], cache[q], listed[q]} = {Absent} /\ q \notin news}

\* The name a new quota gets: any unused one, and which makes no difference.
NewName == CHOOSE q \in Unused : TRUE

-----------------------------------------------------------------------------
(* Others, and the cache.                                                  *)

Others ==
    /\ moves + failures < MaxMoves /\ moves' = moves + 1
    /\ UNCHANGED <<seenVars, queued, loopVars, failures, lags>>

SetNamespace(n, state) ==
    /\ Others
    /\ nsSeen[n] = ns[n]      \* its events are delivered one by one
    /\ ns' = [ns EXCEPT ![n] = state]
    /\ Write([q \in Ids |-> IF state = "gone" /\ live[q].in = n THEN Absent ELSE live[q]])
    /\ UNCHANGED <<spec, status>>

CreateNamespace(n) ==
    /\ ns[n] = "gone"
    /\ \E s \in {"plain", "matched"} : SetNamespace(n, s)
    /\ UNCHANGED relabelled

DeleteNamespace(n) == ns[n] # "gone" /\ SetNamespace(n, "gone") /\ UNCHANGED relabelled

Relabel(n) ==
    /\ ns[n] # "gone"
    /\ SetNamespace(n, IF ns[n] = "plain" THEN "matched" ELSE "plain")
    /\ relabelled' = relabelled \cup {n}

ChangeSpec == spec < MaxSpec /\ Others /\ spec' = spec + 1 /\ UNCHANGED <<ns, live, status, news, relabelled>>

\* Somebody edits or deletes a quota, or creates one with the label.
EditQuota(q) ==
    /\ Others
    /\ live[q] # Absent
    /\ \E to \in {Absent, [live[q] EXCEPT !.made = FALSE], [live[q] EXCEPT !.auto = FALSE],
                  [live[q] EXCEPT !.spec = 0]} : Write([live EXCEPT ![q] = to])
    /\ UNCHANGED <<ns, spec, status, relabelled>>

CreateForeign(n) ==
    /\ Others
    /\ Unused # {} /\ ns[n] # "gone"
    /\ Write([live EXCEPT ![NewName] = [Proper(n, 0) EXCEPT !.owned = FALSE]])
    /\ UNCHANGED <<ns, spec, status, relabelled>>

\* The cache receives an event of a quota; the handler of an owned object
\* queues its owner.
SeeQuota(q) ==
    /\ cache[q] # live[q] \/ q \in news
    /\ cache' = [cache EXCEPT ![q] = live[q]]
    /\ news' = news \ {q} /\ queued' = (queued \/ q \in news)
    /\ UNCHANGED <<ns, spec, live, status, relabelled, nsSeen, specSeen, statusSeen, loopVars, moves, failures, lags>>

\* Variant of SeeClusterQuota: a change of the status queues nothing.
SeeGeneration ==
    /\ <<specSeen, statusSeen>> # <<spec, status>>
    /\ specSeen' = spec /\ statusSeen' = status
    /\ queued' = (queued \/ specSeen # spec)
    /\ UNCHANGED <<worldVars, nsSeen, cache, loopVars, moves, failures, lags>>

\* Every event of the cluster quota queues it, one of its status too.
SeeClusterQuota ==
    /\ <<specSeen, statusSeen>> # <<spec, status>>
    /\ specSeen' = spec /\ statusSeen' = status
    /\ queued' = TRUE
    /\ UNCHANGED <<worldVars, nsSeen, cache, loopVars, moves, failures, lags>>

\* namesapceForClusterResourceQuotaHandler: only the creation of a namespace
\* that matches queues the cluster quota.  Update and Delete do nothing.
SeeNamespace(n) ==
    /\ nsSeen[n] # ns[n]
    /\ nsSeen' = [nsSeen EXCEPT ![n] = ns[n]]
    /\ queued' = (queued \/ (nsSeen[n] = "gone" /\ ns[n] = "matched"))
    /\ UNCHANGED <<worldVars, specSeen, statusSeen, cache, loopVars, moves, failures, lags>>

-----------------------------------------------------------------------------
(* Reconcile.                                                              *)

\* An API call fails.
Failure ==
    /\ failures < MaxFailures /\ moves + failures < MaxMoves
    /\ failures' = failures + 1

\* Reconcile returns.
Ends ==
    /\ pc' = "idle"
    /\ todo' = {} /\ at' = NoId /\ keep' = NoId /\ tidy' = {} /\ stray' = {}
    /\ want' = 0 /\ listed' = [q \in Ids |-> Absent] /\ read' = NoStatus /\ expected' = {}
    /\ UNCHANGED <<ns, spec, live, news, relabelled, seenVars, moves, lags>>

\* It returns an error: the key is queued again.
Retried == queued' = TRUE /\ Ends /\ UNCHANGED status

\* GetNamespacesForClusterQuota.
Matched == {n \in Namespaces : nsSeen[n] = "matched"}

\* Everything is read from the cache; GetResourceQuotaForClusterQuota lists by
\* the createdBy label.
Reconcile ==
    /\ pc = "idle" /\ queued
    /\ lags' = IF cache = live THEN lags ELSE lags + 1
    /\ lags' <= MaxLags
    /\ queued' = FALSE
    /\ want' = specSeen /\ read' = statusSeen
    /\ todo' = Matched
    /\ listed' = [q \in Ids |-> IF cache[q].made /\ cache[q].in \in Matched
                                THEN cache[q] ELSE Absent]
    /\ stray' = {q \in Ids : cache[q].made /\ cache[q].in \notin Matched}
    /\ pc' = "ensure"
    /\ UNCHANGED <<worldVars, seenVars, at, keep, tidy, expected, moves, failures>>

ListedIn(n) == {q \in Ids : listed[q].in = n}

\* ensureResourceQuotaInNamespace keeps the first of the quotas it owns, in
\* the cache's order, which is any.
EnsureNamespace(n) ==
    LET owned == {q \in ListedIn(n) : listed[q].owned} IN
    /\ pc = "ensure" /\ n \in todo
    /\ keep' \in (IF owned = {} THEN {NoId} ELSE owned)
    /\ tidy' = ListedIn(n) \ {keep'}
    /\ at' = n /\ todo' = todo \ {n}
    /\ pc' = "tidy"
    /\ UNCHANGED <<worldVars, seenVars, queued, stray, want, listed, read, expected, moves, failures, lags>>

\* The quota is dealt with, and what was listed of it no longer matters.
Done(q) == tidy' = tidy \ {q} /\ listed' = [listed EXCEPT ![q] = Absent]

\* Variant of TidyQuota: what carries the label is a duplicate, whoever owns it.
TidyAll(q) ==
    /\ pc = "tidy" /\ q \in tidy
    /\ Done(q)
    /\ Write([live EXCEPT ![q] = Absent])
    /\ UNCHANGED <<ns, spec, status, relabelled, seenVars, queued, pc, todo, at, keep, stray, want,
                   read, expected, moves, failures, lags>>

\* Variant of TidyQuota: duplicates stay.
TidyLabels(q) ==
    /\ pc = "tidy" /\ q \in tidy
    /\ Done(q)
    /\ Write([live EXCEPT ![q] = IF ~listed[q].owned /\ @ = listed[q]
                                THEN [@ EXCEPT !.made = FALSE] ELSE @])
    /\ UNCHANGED <<ns, spec, status, relabelled, seenVars, queued, pc, todo, at, keep, stray, want,
                   read, expected, moves, failures, lags>>

\* It deletes a duplicate, and takes the label off a quota it does not own.
\* That is an update of the cached object: it is refused if that has changed,
\* and the refusal is ignored.
TidyQuota(q) ==
    /\ pc = "tidy" /\ q \in tidy
    /\ Done(q)
    /\ Write([live EXCEPT ![q] =
                  IF listed[q].owned THEN Absent
                  ELSE IF @ = listed[q] THEN [@ EXCEPT !.made = FALSE] ELSE @])
    /\ UNCHANGED <<ns, spec, status, relabelled, seenVars, queued, pc, todo, at, keep, stray, want,
                   read, expected, moves, failures, lags>>

\* Either call may fail, and the failure is ignored.
TidyFails(q) ==
    /\ pc = "tidy" /\ q \in tidy
    /\ Failure
    /\ Done(q)
    /\ UNCHANGED <<worldVars, seenVars, queued, pc, todo, at, keep, stray, want,
                   read, expected, moves, lags>>

EnsureReturns(q) ==
    /\ pc' = "ensure" /\ at' = NoId /\ keep' = NoId
    /\ expected' = expected \cup {q}
    /\ listed' = [p \in Ids |-> IF listed[p].in = at THEN Absent ELSE listed[p]]
    /\ UNCHANGED <<seenVars, queued, todo, tidy, stray, want, read, moves, failures, lags>>

\* There is none: create it.  The name is generated.
CreateQuota ==
    /\ pc = "tidy" /\ tidy = {} /\ keep = NoId
    /\ ns[at] # "gone"
    /\ Unused # {}
    /\ Write([live EXCEPT ![NewName] = Proper(at, want)])
    /\ EnsureReturns(NewName) /\ UNCHANGED <<ns, spec, status, relabelled>>

\* Variant of Dirty: the labels are not compared.
SpecDirty == listed[keep].spec # want

\* What is compared: the spec and the labels.
Dirty == listed[keep] # Proper(at, want)

KeepQuota ==
    /\ pc = "tidy" /\ tidy = {} /\ keep # NoId /\ ~Dirty
    /\ EnsureReturns(keep) /\ UNCHANGED worldVars

\* UpdateOnConflict reads the quota again until its update is not refused.
SyncQuota ==
    /\ pc = "tidy" /\ tidy = {} /\ keep # NoId /\ Dirty
    /\ live[keep] # Absent
    /\ Write([live EXCEPT ![keep] = [@ EXCEPT !.made = TRUE, !.auto = TRUE,
                                             !.spec = want]])
    /\ EnsureReturns(keep) /\ UNCHANGED <<ns, spec, status, relabelled>>

\* The quota or the namespace is gone.
EnsureMisses ==
    /\ pc = "tidy" /\ tidy = {}
    /\ IF keep = NoId THEN ns[at] = "gone" ELSE Dirty /\ live[keep] = Absent
    /\ Retried /\ UNCHANGED failures

\* All namespaces are ensured: what was listed in others is deleted, whoever
\* owns it, ...
DropQuota(q) ==
    /\ pc = "ensure" /\ todo = {} /\ q \in stray
    /\ stray' = stray \ {q}
    /\ Write([live EXCEPT ![q] = Absent])
    /\ UNCHANGED <<ns, spec, status, relabelled, seenVars, queued, pc, todo, at, keep, tidy, want,
                   listed, read, expected, moves, failures, lags>>

\* ... and a failure is ignored.
DropFails(q) ==
    /\ pc = "ensure" /\ todo = {} /\ q \in stray
    /\ Failure
    /\ stray' = stray \ {q}
    /\ UNCHANGED <<worldVars, seenVars, queued, pc, todo, at, keep, tidy, want, listed,
                   read, expected, moves, lags>>

\* The namespaces are ensured and the others cleared.
AllSynced == pc = "ensure" /\ todo = {} /\ stray = {}

\* What syncStatus compares: the limits and the sum.
StatusDirty == [hard |-> want, over |-> expected] # read

\* syncStatus ends it: what differs from the status that was read is written,
\* over whatever is stored (UpdateOnConflict).
SyncStatus ==
    /\ AllSynced
    /\ status' = IF StatusDirty THEN [hard |-> want, over |-> expected] ELSE status
    /\ Ends /\ UNCHANGED <<queued, failures>>

\* The create, the update or that of the status fails otherwise.
Fails ==
    /\ \/ pc = "tidy" /\ tidy = {} /\ (keep # NoId => Dirty)
       \/ AllSynced /\ StatusDirty
    /\ Failure
    /\ Retried

-----------------------------------------------------------------------------
(* The admission webhook.  It changes nothing: UpdateQuotaStatus is empty. *)

\* GetQuotas: the quotas by which the creation of a pod in n is judged, each
\* with the status of the cluster quota, statusSeen, in the place of its own.
GetQuotas(n) == {q \in Ids : cache[q].in = n /\ cache[q].auto /\ cache[q].owned}

-----------------------------------------------------------------------------
OtherWriters ==
    \/ \E n \in Namespaces : CreateNamespace(n) \/ DeleteNamespace(n)
                           \/ Relabel(n) \/ CreateForeign(n)
    \/ ChangeSpec
    \/ \E q \in Ids : EditQuota(q)

Deliver ==
    \/ \E q \in Ids : SeeQuota(q)
    \/ \E n \in Namespaces : SeeNamespace(n)
    \/ SeeClusterQuota

Work ==
    \/ Reconcile \/ SyncStatus \/ Fails
    \/ CreateQuota \/ KeepQuota \/ SyncQuota \/ EnsureMisses
    \/ \E n \in Namespaces : EnsureNamespace(n)
    \/ \E q \in Ids : \/ TidyQuota(q) \/ TidyFails(q) \/ DropQuota(q) \/ DropFails(q)

\* Nothing is queued, and the cache has seen everything.
AtRest ==
    /\ pc = "idle" /\ ~queued
    /\ <<nsSeen, specSeen, statusSeen, cache, news>> = <<ns, spec, status, live, {}>>
    /\ UNCHANGED vars

Next == OtherWriters \/ Deliver \/ Work \/ AtRest

Spec == Init /\ [][Next]_vars

\* The informers deliver, and the worker works.
FairSpec ==
    /\ Spec /\ WF_vars(Work) /\ WF_vars(SeeClusterQuota)
    /\ \A q \in Ids : WF_vars(SeeQuota(q))
    /\ \A n \in Namespaces : WF_vars(SeeNamespace(n))

-----------------------------------------------------------------------------
(* Properties.                                                             *)

Here(n) == {q \in Ids : live[q].in = n}

HasQuota(n) == ns[n] = "matched" => \E q \in Here(n) : live[q] = Proper(n, spec)

\* However stale its cache was, and whatever duplicates it made and removed,
\* in the end every namespace that matches, and was created so, has a quota that
\* the webhook finds, with the spec of the cluster quota
\* (ensureResourceQuotaInNamespace).
CreatedMatchingHasQuota == <>[](\A n \in Namespaces \ relabelled : HasQuota(n))

\* Every namespace that matches has one in the end, also one that came to match
\* when its labels changed.
EveryMatchedHasQuota == <>[](\A n \in Namespaces : HasQuota(n))

\* In the end the webhook judges a pod of such a namespace by the cluster
\* quota, whose status has the current limits and adds up one quota of every
\* such namespace, and none that is gone: a reconcile that compared its sum
\* with a stale status is followed by another (syncStatus, GetQuotas).
AdmissionSeesTotal ==
    <>[](/\ \A n \in Namespaces \ relabelled : ns[n] = "matched" =>
              GetQuotas(n) # {} /\ \E q \in statusSeen.over : live[q].in = n
         /\ statusSeen.hard = spec
         /\ \A q \in statusSeen.over : live[q] # Absent)

\* In the end a namespace has no two quotas that the reconciler made (again
\* ensureResourceQuotaInNamespace), unless the error of a delete was dropped.
NoDuplicateStays ==
    <>[](failures = 0 => \A n \in Namespaces :
            Cardinality({q \in Here(n) : live[q].owned /\ live[q].made}) <= 1)

\* The step leaves every quota that the reconciler does not own where it is,
\* and its spec alone; it may take the label off.
LeavesForeign ==
    \A q \in Ids : live[q] # Absent /\ ~live[q].owned =>
        live'[q] \in {live[q], [live[q] EXCEPT !.made = FALSE]}

\* In the namespaces it ensures, the reconciler neither adopts nor deletes a
\* quota that somebody else created with its label, also when it acts on a
\* cached copy (ensureResourceQuotaInNamespace).
ForeignNotAdopted == [][Work /\ pc = "tidy" => LeavesForeign]_vars

\* It never does, in any namespace.
ForeignLeftAlone == [][Work => LeavesForeign]_vars
=============================================================================
