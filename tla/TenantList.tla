----------------------------- MODULE TenantList -----------------------------
(***************************************************************************)
(* tenantProxy.list: a tenant's paginated list, either fanned out over its *)
(* namespaces (pkg/proxy/fanout.go) or, for a cluster-scoped kind, one     *)
(* upstream list that is filtered after it was read and whose cursor is    *)
(* wrapped (pkg/proxy/clusterscopedcursor.go).                             *)
(*                                                                         *)
(* Each upstream read is a step, and the cluster may be written to and     *)
(* compacted between any two.  A list is a sequence of keys <<namespace,   *)
(* name>>; both are numbers, in the order the code and the store sort them.*)
(* Cluster-scoped keys have the namespace 0.                               *)
(***************************************************************************)
EXTENDS Integers, Sequences, FiniteSets

CONSTANTS
    Spaces,         \* namespaces the tenant may have
    Names,          \* names of objects
    Hidden,         \* names hideProjections drops
    Owned,          \* names of the tenant's own cluster-scoped objects
    Limits,         \* page sizes a client asks for; 0 is no limit
    MaxSpaces,      \* maxFannedNamespaces
    ExactReads,     \* the values of fanned with which clients ask for an exact
                    \* resourceVersion
    First,          \* by fanned: the state of the cluster at revision 1
    MaxRev          \* bound: revisions of the cluster

\* The keys of a kind that is fanned out, and of a cluster-scoped one.
KeysOf(f) == (IF f THEN Spaces ELSE {0}) \X Names

Keys == KeysOf(TRUE) \cup KeysOf(FALSE)

Worlds == [spaces : SUBSET Spaces, objects : SUBSET Keys]

ASSUME ListAssumption ==
    /\ Spaces \subseteq Nat \ {0} /\ IsFiniteSet(Spaces)
    /\ Names \subseteq Nat \ {0} /\ IsFiniteSet(Names)
    /\ Hidden \subseteq Names /\ Owned \subseteq Names
    /\ ExactReads \subseteq BOOLEAN
    /\ Limits \subseteq Nat
    /\ MaxSpaces \in Nat /\ MaxRev \in Nat
    /\ DOMAIN First \subseteq BOOLEAN
    /\ \A f \in DOMAIN First :
           /\ First[f] \in Worlds /\ First[f].objects \subseteq KeysOf(f)
           /\ \A k \in First[f].objects : k[1] \in First[f].spaces \cup {0}

VARIABLES
    store,          \* store[r]: the state of the cluster at revision r
    oldest,         \* the oldest revision that can still be read
    fanned,         \* shouldFanOut: namespaced, and no namespace in the request
    pc,             \* where the handler is
    limit,          \* the Limit of the request in hand
    cursor,         \* the decoded cursor, its revision settled
    namespaces,     \* what tenantNamespaces returned
    index, inner,   \* the namespace being read, and upstream's cursor in it
    gathered,       \* gathered.Items
    phase,          \* the client: "start", "more" or how the list ended
    asked,          \* the resourceVersion it asks for exactly, 0 for none
    token,          \* the continue token the client holds
    got             \* the items the client has received

clusterVars == <<store, oldest, fanned>>
handlerVars == <<pc, limit, cursor, namespaces, index, inner, gathered>>
clientVars == <<phase, asked, token, got>>
vars == <<clusterVars, handlerVars, clientVars>>

\* Upstream's continue token: the revision it was issued at and the last name.
Inner == [rev : Nat, after : Nat]
NoInner == [rev |-> 0, after |-> 0]

\* fanoutContinue; the wrapped upstream token of a cluster-scoped list has nsi 0.
Token == [rv : Nat, nsi : Nat, inner : Inner]
NoToken == [rv |-> 0, nsi |-> 0, inner |-> NoInner]

TypeOK ==
    /\ store \in Seq(Worlds)
    /\ oldest \in Nat /\ fanned \in BOOLEAN
    /\ pc \in {"idle", "reading"}
    /\ limit \in Nat
    /\ cursor \in Token
    /\ namespaces \in Seq(Spaces)
    /\ index \in Nat
    /\ inner \in Inner
    /\ gathered \in Seq(Keys)
    /\ phase \in {"start", "more", "done", "expired", "refused", "bad cursor"}
    /\ asked \in Nat
    /\ token \in Token
    /\ got \in Seq(Keys)

\* The revisions a client asks for.
Askable == {0} \cup IF fanned \in ExactReads THEN 1..Len(store) ELSE {}

Init ==
    /\ fanned \in DOMAIN First /\ store = <<First[fanned]>> /\ oldest = 1
    /\ pc = "idle" /\ limit = 0 /\ cursor = NoToken
    /\ namespaces = <<>> /\ index = 0 /\ inner = NoInner /\ gathered = <<>>
    /\ phase = "start" /\ asked = 0 /\ token = NoToken /\ got = <<>>

-----------------------------------------------------------------------------
(* The upstream cluster, external to the gateway.                          *)

Now == store[Len(store)]

Write(world) ==
    /\ Len(store) < MaxRev
    /\ store' = Append(store, world)
    /\ UNCHANGED <<oldest, fanned, handlerVars, clientVars>>

CreateObject(k) ==
    /\ k \notin Now.objects
    /\ k[1] \in Now.spaces \cup {0}
    /\ Write([Now EXCEPT !.objects = @ \cup {k}])

DeleteObject(k) == k \in Now.objects /\ Write([Now EXCEPT !.objects = @ \ {k}])

CreateNamespace(n) == n \notin Now.spaces /\ Write([Now EXCEPT !.spaces = @ \cup {n}])

\* A namespace goes once its objects are gone.
DeleteNamespace(n) ==
    /\ n \in Now.spaces
    /\ \A k \in Now.objects : k[1] # n
    /\ Write([Now EXCEPT !.spaces = @ \ {n}])

Compact ==
    /\ oldest < Len(store)
    /\ oldest' = oldest + 1
    /\ UNCHANGED <<store, fanned, handlerVars, clientVars>>

-----------------------------------------------------------------------------
(* One page.                                                               *)

\* The elements of a set of numbers in ascending order (one sequence).
Ascending(S) ==
    {s \in [1..Cardinality(S) -> S] : \A i, j \in DOMAIN s : i < j => s[i] < s[j]}

\* The first n of a set of numbers; all of it when n is 0.
FirstOf(S, n) == {x \in S : n = 0 \/ Cardinality({y \in S : y < x}) < n}

\* What upstream still has for one namespace after its cursor.
Left(ns, rev, after) == {x \in Names : <<ns, x>> \in store[rev].objects /\ x > after}

\* Variant of TokenAfter: the token is blanked rather than wrapped.
NoTokenAfter(page, left, rev) == NoInner

\* Upstream's token after a page: none when nothing is left behind it.
TokenAfter(page, left, rev) ==
    IF page = left THEN NoInner
    ELSE [rev |-> rev, after |-> CHOOSE x \in page : \A y \in page : y <= x]

\* FilterUnstructuredList and hideProjections.
Shown(k) == k[2] \notin Hidden /\ (k[1] # 0 \/ k[2] \in Owned)

\* The items that are shown, in the order they have (one sequence).
Filtered(items) ==
    {[j \in DOMAIN kept |-> items[kept[j]]] :
        kept \in Ascending({i \in DOMAIN items : Shown(items[i])})}

\* The page goes back to the client, with a token if there may be more.
Reply(items, next) ==
    /\ pc' = "idle"
    /\ \E page \in Filtered(items) : got' = got \o page
    /\ token' = next /\ UNCHANGED asked
    /\ phase' = IF next = NoToken THEN "done" ELSE "more"

\* The request fails: nothing of the page is returned.
Fails(how) ==
    /\ pc' = "idle"
    /\ phase' = how
    /\ UNCHANGED <<clusterVars, limit, cursor, namespaces, index, inner, gathered, asked,
                   token, got>>

\* A page may be asked for.
Asking == pc = "idle" /\ phase \in {"start", "more"}

\* The revision a token pins.  On the first page it is the current one: a
\* fanned out list overwrites the client's resourceVersion.
Pinned(t) ==
    IF t.rv # 0 THEN t.rv
    ELSE IF ~fanned /\ asked # 0 THEN asked ELSE Len(store)

\* Variant of NamespacesAt: only the object reads are pinned.
NamespacesNow(t) == Len(store)

\* The revision tenantNamespaces reads the namespaces at.
NamespacesAt(t) == Pinned(t)

\* decodeFanoutContinue, tenantNamespaces and the check of the cursor's index.
TenantNamespaces ==
    /\ fanned /\ Asking
    /\ NamespacesAt(token) >= oldest
    /\ Cardinality(store[NamespacesAt(token)].spaces) <= MaxSpaces
    /\ \E order \in Ascending(store[NamespacesAt(token)].spaces) :
          IF token.nsi > Len(order)
          THEN Fails("bad cursor")
          ELSE /\ namespaces' = order
               /\ cursor' = [token EXCEPT !.rv = Pinned(token)]
               /\ limit' \in Limits
               /\ index' = token.nsi
               /\ inner' = token.inner
               /\ gathered' = <<>>
               /\ pc' = "reading"
               /\ UNCHANGED <<clusterVars, clientVars>>

TooManyNamespaces ==
    /\ fanned /\ Asking
    /\ NamespacesAt(token) >= oldest
    /\ Cardinality(store[NamespacesAt(token)].spaces) > MaxSpaces
    /\ Fails("refused")

\* Variant of TokenFor: the cursor forgets where in the namespace it stopped.
TokenForgets(i, left) ==
    [rv |-> cursor.rv, nsi |-> IF left = NoInner THEN i + 1 ELSE i, inner |-> NoInner]

\* The token issued by a page that ends in the namespace at i, with left in it.
TokenFor(i, left) ==
    [rv |-> cursor.rv, nsi |-> IF left = NoInner THEN i + 1 ELSE i, inner |-> left]

\* The revision a namespace is read at: the snapshot's, or that of the inner cursor.
ReadAt == IF inner = NoInner THEN cursor.rv ELSE inner.rev

\* One turn of the loop: read a namespace, and go on or return a full page.
ReadNamespace ==
    /\ pc = "reading" /\ index < Len(namespaces)
    /\ ReadAt >= oldest
    /\ LET ns == namespaces[index + 1]
           left == Left(ns, ReadAt, inner.after)
           page == FirstOf(left, IF limit > 0 THEN limit - Len(gathered) ELSE 0)
           after == TokenAfter(page, left, ReadAt)
       IN \E names \in Ascending(page) :
            LET items == gathered \o [i \in DOMAIN names |-> <<ns, names[i]>>]
                next == TokenFor(index, after)
            IN /\ gathered' = items
               /\ IF limit > 0 /\ Len(items) >= limit
                  THEN /\ Reply(items, IF /\ next.nsi >= Len(namespaces)
                                          /\ next.inner = NoInner
                                       THEN NoToken ELSE next)
                       /\ UNCHANGED <<index, inner>>
                  ELSE /\ index' = index + 1
                       /\ inner' = NoInner
                       /\ UNCHANGED <<pc, clientVars>>
    /\ UNCHANGED <<clusterVars, limit, cursor, namespaces>>

\* The loop ends: this was the last page.
EndOfNamespaces ==
    /\ pc = "reading" /\ index >= Len(namespaces)
    /\ Reply(gathered, NoToken)
    /\ UNCHANGED <<clusterVars, limit, cursor, namespaces, index, inner, gathered>>

\* A read of a compacted revision is a 410, passed on untouched.
Expired ==
    /\ \/ pc = "reading" /\ index < Len(namespaces) /\ ReadAt < oldest
       \/ Asking /\ Pinned(token) < oldest
    /\ Fails("expired")

\* The caller may not read one of the namespaces, or the kind at all.
Forbidden ==
    /\ \/ pc = "reading" /\ index < Len(namespaces)
       \/ ~fanned /\ Asking
    /\ Fails("refused")

\* A cluster-scoped page: one upstream list, filtered, its cursor wrapped.
ClusterScopedPage ==
    /\ ~fanned /\ Asking
    /\ Pinned(token) >= oldest
    /\ limit' \in Limits
    /\ LET rev == Pinned(token)
           left == Left(0, rev, token.inner.after)
           page == FirstOf(left, limit')
           after == TokenAfter(page, left, rev)
       IN \E names \in Ascending(page) :
            /\ gathered' = [i \in DOMAIN names |-> <<0, names[i]>>]
            /\ cursor' = [token EXCEPT !.rv = rev]
            /\ Reply(gathered', IF after = NoInner THEN NoToken
                                ELSE [rv |-> rev, nsi |-> 0, inner |-> after])
    /\ UNCHANGED <<clusterVars, namespaces, index, inner>>

\* The client lists again: its informer starts over.
Restart ==
    /\ pc = "idle" /\ phase \in {"done", "expired", "refused"}
    /\ phase' = "start" /\ asked' \in Askable /\ token' = NoToken /\ got' = <<>>
    /\ cursor' = NoToken /\ limit' = 0 /\ namespaces' = <<>>
    /\ index' = 0 /\ inner' = NoInner /\ gathered' = <<>>
    /\ UNCHANGED <<clusterVars, pc>>

-----------------------------------------------------------------------------
Cluster ==
    \/ Compact
    \/ \E k \in KeysOf(fanned) : CreateObject(k) \/ DeleteObject(k)
    \/ \E n \in Spaces : CreateNamespace(n) \/ DeleteNamespace(n)

Page ==
    \/ TenantNamespaces \/ TooManyNamespaces \/ ReadNamespace \/ EndOfNamespaces
    \/ ClusterScopedPage \/ Expired

Next == Cluster \/ Page \/ Forbidden \/ Restart

Spec == Init /\ [][Next]_vars

\* The handler runs, and a client that has a token asks for the next page.
FairSpec == Spec /\ WF_vars(Page)

-----------------------------------------------------------------------------
(* Properties.                                                             *)

KeyLess(k, l) == k[1] < l[1] \/ (k[1] = l[1] /\ k[2] < l[2])

Listing(world) == {k \in world.objects : Shown(k)}

Status ==
    IF phase # "start" /\ phase # "more" THEN phase
    ELSE IF pc = "idle" /\ phase = "start" THEN "start" ELSE "paging"

Abstract == INSTANCE SnapshotList WITH
    Listed <- Listing, Less <- KeyLess, at <- cursor.rv, status <- Status

\* The pages of tenantProxy.list, fanned out or not, are one snapshot: they
\* implement SnapshotList, whose pages are in order, complete and repeat nothing.
\* A token this proxy issued is never refused as pointing past the end of the
\* tenant's namespaces ("bad cursor" is no status of SnapshotList).
IsSnapshot == Abstract!Spec

\* A client that asks for a revision exactly is given that revision.
ExactHonoured == phase = "done" /\ asked # 0 => cursor.rv = asked

\* Following the tokens ends: a page never returns the client to a place it has
\* been (the Inner cursor is carried, a namespace that is through is passed).
ListTerminates == phase \in {"start", "more"} ~> phase \notin {"start", "more"}
=============================================================================
