--------------------------- MODULE TenantProxyWrite ---------------------------
(***************************************************************************)
(* The writes of tenantProxy (pkg/proxy/proxy.go, apply.go): Create,       *)
(* Update, the retry loop guaranteedUpdate that serves a patch or a        *)
(* server-side apply, Delete and DeleteCollection.  Each upstream call is  *)
(* a step; other requests and the platform's own writers move in between.  *)
(*                                                                         *)
(* An object has the keys its tenant writes and one hidden key that only   *)
(* the platform may set (HiddenMetadata).  The value of a key is the       *)
(* revision it was written at, and an absent object has revision 0.  The   *)
(* refusals that look at one object only are left to the upstream refusal. *)
(***************************************************************************)
EXTENDS Integers, FiniteSets

CONSTANTS
    Names,          \* objects of one tenant and one resource
    Keys,           \* what a tenant writes in an object
    Clients,        \* concurrent requests of the tenant
    Verbs,          \* what they do
    Versioned,      \* the verbs that may name a resourceVersion ...
    Unversioned,    \* ... and those that may name none
    Supplies,       \* whether an object may be submitted with the hidden key
    Custom,         \* a custom resource: the object is unstructured throughout
    Limit,          \* maxNamespacesFor or maxCRDsFor, 0 for no cap
    MaxRev,         \* bound: writes upstream
    MaxCalls        \* bound: requests

ASSUME WriteAssumption ==
    /\ IsFiniteSet(Names) /\ IsFiniteSet(Keys) /\ IsFiniteSet(Clients)
    /\ Names # {} /\ Keys # {}
    /\ Verbs \subseteq {"create", "put", "patch", "apply", "delete", "deletecollection"}
    /\ Versioned \subseteq {"put", "patch"} /\ Unversioned \subseteq Verbs
    /\ Supplies \in BOOLEAN /\ Custom \in BOOLEAN
    /\ Limit \in Nat /\ MaxRev \in Nat /\ MaxCalls \in Nat

Supplied == -1      \* a value of the hidden key that a tenant submitted

VARIABLES
    obj,            \* obj[n]: the object upstream
    rev, calls,     \* the revision upstream, and how many requests there were
    pc,             \* where a request is
    req,            \* its verb, name and key, the version named (0 for none),
                    \* the data it submits and the hidden key it submits
    old,            \* what readForUpdate returned
    rest,           \* what DeleteCollection listed and has not deleted yet
    uncounted       \* how many creates went through because counting failed

vars == <<obj, rev, calls, pc, req, old, rest, uncounted>>

Objects ==
    [rv : Nat, uid : Nat, data : [Keys -> Nat], hidden : Nat \cup {Supplied}]

Absent == [rv |-> 0, uid |-> 0, data |-> [k \in Keys |-> 0], hidden |-> 0]

Requests ==
    [verb : {"create", "put", "patch", "apply", "delete", "deletecollection"},
     name : Names, key : Keys, rv : Nat, data : [Keys -> Nat], hidden : {0, Supplied}]

NoRequest == [verb |-> "none"]

TypeOK ==
    /\ obj \in [Names -> Objects]
    /\ rev \in Nat /\ calls \in Nat /\ uncounted \in Nat
    /\ pc \in [Clients -> {"idle", "read", "count", "post", "send", "delete", "list",
                          "each"}]
    /\ req \in [Clients -> Requests \cup {NoRequest}]
    /\ old \in [Clients -> Objects]
    /\ rest \in [Clients -> SUBSET Names]

Init ==
    /\ obj = [n \in Names |-> Absent]
    /\ rev = 0 /\ calls = 0 /\ uncounted = 0
    /\ pc = [c \in Clients |-> "idle"]
    /\ req = [c \in Clients |-> NoRequest]
    /\ old = [c \in Clients |-> Absent]
    /\ rest = [c \in Clients |-> {}]

Existing == {n \in Names : obj[n].rv # 0}

Moves(c, label) == pc' = [pc EXCEPT ![c] = label] /\ UNCHANGED <<req, old, rest>>

\* The request is answered.
Returns(c) ==
    /\ pc' = [pc EXCEPT ![c] = "idle"]
    /\ req' = [req EXCEPT ![c] = NoRequest]
    /\ old' = [old EXCEPT ![c] = Absent]
    /\ rest' = [rest EXCEPT ![c] = {}]

Goto(c, label) == IF label = "idle" THEN Returns(c) ELSE Moves(c, label)

-----------------------------------------------------------------------------
(* The upstream API server.                                                *)

\* An object is stored under the next revision.
Store(n, o) ==
    /\ rev < MaxRev
    /\ rev' = rev + 1
    /\ obj' = [obj EXCEPT ![n] = [o EXCEPT !.rv = rev + 1]]

Remove(n) ==
    /\ rev < MaxRev
    /\ rev' = rev + 1
    /\ obj' = [obj EXCEPT ![n] = Absent]

NewObject(data, hidden) == [rv |-> 0, uid |-> rev + 1, data |-> data, hidden |-> hidden]

\* A forwarded apply merges its key into what is there, and creates it if
\* nothing is.  It names no resourceVersion.
MergeApply(n, k, hidden) ==
    Store(n, IF n \in Existing THEN [obj[n] EXCEPT !.data[k] = rev + 1]
                               ELSE NewObject([Absent.data EXCEPT ![k] = rev + 1], hidden))

\* The platform sets the hidden key of an object.
PlatformWrite(n) ==
    /\ n \in Existing
    /\ Store(n, [obj[n] EXCEPT !.hidden = rev + 1])
    /\ UNCHANGED <<calls, pc, req, old, rest, uncounted>>

-----------------------------------------------------------------------------
(* A request.                                                              *)

\* The names and the keys a request of verb v may be about: a collection has
\* no name, and a deletion no key.
Named(v) == IF v = "deletecollection" THEN {CHOOSE n \in Names : TRUE} ELSE Names
Keyed(v) == IF v \in {"delete", "deletecollection"} THEN {CHOOSE k \in Keys : TRUE} ELSE Keys

\* The client sends what it read of the object, with its key changed; the
\* version it read if it names one; and maybe a value for the hidden key.
Begin(c) ==
    \E v \in Verbs, names \in BOOLEAN, supplies \in {FALSE, Supplies} :
    \E n \in Named(v), k \in Keyed(v) :
        /\ pc[c] = "idle" /\ calls < MaxCalls
        /\ v \in (IF names THEN Versioned ELSE Unversioned)
        /\ supplies => v \in {"create", "put", "patch"}
        /\ v \in {"put", "patch"} => n \in Existing
        /\ calls' = calls + 1
        /\ req' = [req EXCEPT ![c] =
                    [verb |-> v, name |-> n, key |-> k,
                     rv |-> IF names THEN obj[n].rv ELSE 0,
                     data |-> IF v \in {"put", "patch"} THEN obj[n].data ELSE Absent.data,
                     hidden |-> IF supplies THEN Supplied ELSE 0]]
        /\ pc' = [pc EXCEPT ![c] = CASE v = "create"           -> "count"
                                     [] v = "delete"           -> "delete"
                                     [] v = "deletecollection" -> "list"
                                     [] OTHER                  -> "read"]
        /\ UNCHANGED <<obj, rev, old, rest, uncounted>>

\* Variant of Fails: whatever went wrong, the loop goes round again.
FailsRetries(c) ==
    /\ pc[c] \in {"read", "post", "send", "delete", "list", "each"}
    /\ Goto(c, IF pc[c] = "send" THEN "read" ELSE "idle")
    /\ UNCHANGED <<obj, rev, calls, uncounted>>

\* An upstream call fails or refuses, and the request with it.
Fails(c) ==
    /\ pc[c] \in {"read", "post", "send", "delete", "list", "each"}
    /\ Goto(c, "idle")
    /\ UNCHANGED <<obj, rev, calls, uncounted>>

\* Variant of ReadFound: a retry goes on with what the first round read.
ReadsOnce(c) ==
    /\ pc[c] = "read" /\ req[c].name \in Existing
    /\ pc' = [pc EXCEPT ![c] = "send"]
    /\ old' = [old EXCEPT ![c] = IF @ = Absent THEN obj[req[c].name] ELSE @]
    /\ UNCHANGED <<obj, rev, calls, req, rest, uncounted>>

\* readForUpdate finds the object.
ReadFound(c) ==
    /\ pc[c] = "read" /\ req[c].name \in Existing
    /\ pc' = [pc EXCEPT ![c] = "send"]
    /\ old' = [old EXCEPT ![c] = obj[req[c].name]]
    /\ UNCHANGED <<obj, rev, calls, req, rest, uncounted>>

\* It does not: only an apply goes on, to create it.
ReadMissing(c) ==
    /\ pc[c] = "read" /\ req[c].name \notin Existing
    /\ IF req[c].verb = "apply"
       THEN /\ pc' = [pc EXCEPT ![c] = "count"]
            /\ old' = [old EXCEPT ![c] = Absent]
            /\ UNCHANGED <<req, rest>>
       ELSE Returns(c)
    /\ UNCHANGED <<obj, rev, calls, uncounted>>

\* Variant of Count: one too many.
CountUpTo(c) ==
    /\ pc[c] = "count"
    /\ Goto(c, IF Limit = 0 \/ Cardinality(Existing) <= Limit THEN "post" ELSE "idle")
    /\ UNCHANGED <<obj, rev, calls, uncounted>>

\* refuseTooManyNamespaces and refuseTooManyCRDs, on the way of Create ...
Count(c) ==
    /\ pc[c] = "count"
    /\ Goto(c, IF Limit = 0 \/ Cardinality(Existing) < Limit THEN "post" ELSE "idle")
    /\ UNCHANGED <<obj, rev, calls, uncounted>>

\* ... let the request through when they cannot count.
CountFails(c) ==
    /\ pc[c] = "count"
    /\ uncounted' = uncounted + 1
    /\ Goto(c, "post")
    /\ UNCHANGED <<obj, rev, calls>>

\* Variant of CreatedHidden: what was submitted is sent.
KeepsSubmitted(c) == req[c].hidden

\* The hidden key as Create sends it.  Restore(obj, nil) drops the one the
\* tenant submitted from obj, which is what is sent of a custom resource only:
\* utd was made of any other object before.
CreatedHidden(c) == IF Custom THEN 0 ELSE req[c].hidden

\* client.Create, of a create or of an apply that is not forwarded.
PostCreate(c) ==
    LET n == req[c].name
        k == req[c].key IN
    /\ pc[c] = "post"
    /\ n \notin Existing
    /\ Store(n, NewObject([Absent.data EXCEPT ![k] = rev + 1], CreatedHidden(c)))
    /\ Goto(c, "idle")
    /\ UNCHANGED <<calls, uncounted>>

\* AlreadyExists: the apply goes round again.
PostExists(c) ==
    /\ pc[c] = "post"
    /\ req[c].name \in Existing
    /\ Goto(c, IF req[c].verb = "apply" THEN "read" ELSE "idle")
    /\ UNCHANGED <<obj, rev, calls, uncounted>>

\* forwardApply, from Create and from update.
ForwardApply(c) ==
    /\ pc[c] \in {"post", "send"}
    /\ req[c].verb = "apply"
    /\ MergeApply(req[c].name, req[c].key, CreatedHidden(c))
    /\ Goto(c, "idle")
    /\ UNCHANGED <<calls, uncounted>>

\* Variant of SentHidden: Strip without Restore.
Dropped(c) == 0

\* The hidden key as update sends it: Restore puts back what was read.
SentHidden(c) == old[c].hidden

\* Variant of SentData: a patch is resolved against what its client had read.
ResolvedEarly(c) == [req[c].data EXCEPT ![req[c].key] = rev + 1]

\* The object as update sends it: what the client submitted, or its patch or
\* apply resolved against what was read.
SentData(c) ==
    LET base == IF req[c].verb = "put" THEN req[c].data ELSE old[c].data
    IN  [base EXCEPT ![req[c].key] = rev + 1]

\* The resourceVersion it names: the one of the request, and in the object a
\* patch is resolved against there always is one.
SentVersion(c) ==
    IF req[c].verb = "put" \/ req[c].rv # 0 THEN req[c].rv ELSE old[c].rv

\* Whether the object sent is of the incarnation that is there.
SameObject(c) == SentVersion(c) = 0 \/ old[c].uid = obj[req[c].name].uid

\* client.Update finds the version it names, or names none.
SendUpdate(c) ==
    LET n == req[c].name IN
    /\ pc[c] = "send" /\ n \in Existing
    /\ SameObject(c) /\ SentVersion(c) \in {0, obj[n].rv}
    /\ Store(n, [obj[n] EXCEPT !.data = SentData(c), !.hidden = SentHidden(c)])
    /\ Goto(c, "idle")
    /\ UNCHANGED <<calls, uncounted>>

\* The optimistic lock conflict: a put is answered with it, guaranteedUpdate
\* reads the object again.  (Gone, or another incarnation: Fails.)
SendConflict(c) ==
    LET n == req[c].name IN
    /\ pc[c] = "send" /\ n \in Existing
    /\ SameObject(c) /\ SentVersion(c) \notin {0, obj[n].rv}
    /\ Goto(c, IF req[c].verb = "put" THEN "idle" ELSE "read")
    /\ UNCHANGED <<obj, rev, calls, uncounted>>

\* Delete.
Delete(c) ==
    /\ pc[c] = "delete"
    /\ req[c].name \in Existing
    /\ Remove(req[c].name)
    /\ Goto(c, "idle")
    /\ UNCHANGED <<calls, uncounted>>

\* DeleteCollection lists ...
ListCollection(c) ==
    /\ pc[c] = "list"
    /\ rest' = [rest EXCEPT ![c] = Existing]
    /\ pc' = [pc EXCEPT ![c] = "each"]
    /\ UNCHANGED <<obj, rev, calls, req, old, uncounted>>

\* ... and deletes one by one, by name.  What is gone already is a NotFound,
\* and ends it (Fails).
DeleteEach(c) ==
    \E n \in rest[c] \cap Existing :
        /\ pc[c] = "each"
        /\ Remove(n)
        /\ rest' = [rest EXCEPT ![c] = @ \ {n}]
        /\ UNCHANGED <<calls, pc, req, old, uncounted>>

DeletedAll(c) ==
    /\ pc[c] = "each" /\ rest[c] = {}
    /\ Goto(c, "idle")
    /\ UNCHANGED <<obj, rev, calls, uncounted>>

\* The bounds are reached, and all requests have been answered.
Finished == calls = MaxCalls /\ (\A c \in Clients : pc[c] = "idle") /\ UNCHANGED vars

-----------------------------------------------------------------------------
RequestStep(c) ==
    \/ Fails(c) \/ ReadFound(c) \/ ReadMissing(c) \/ Count(c) \/ CountFails(c)
    \/ PostCreate(c) \/ PostExists(c) \/ ForwardApply(c)
    \/ SendUpdate(c) \/ SendConflict(c)
    \/ Delete(c) \/ ListCollection(c) \/ DeleteEach(c) \/ DeletedAll(c)

Next ==
    \/ \E c \in Clients : Begin(c) \/ RequestStep(c)
    \/ \E n \in Names : PlatformWrite(n)
    \/ Finished

Spec == Init /\ [][Next]_vars

\* As long as a request can be served, one is.
FairSpec == Spec /\ WF_vars(\E c \in Clients : RequestStep(c))

-----------------------------------------------------------------------------
(* Properties.                                                             *)

\* The step is a write of request c to an object that is there before and after.
Overwrites(c) ==
    LET n == req[c].name IN
    /\ pc[c] \in {"post", "send"} /\ pc'[c] = "idle"
    /\ obj'[n] # obj[n] /\ obj[n].rv # 0

\* A patch, an apply, and a put that names the version it read change the key
\* they are about and nothing else, whoever wrote in between: the read and the
\* write of guaranteedUpdate are one atomic step to everybody else.
OnlyItsKey ==
    [][\A c \in Clients : Overwrites(c) /\ (req[c].verb = "put" => req[c].rv # 0) =>
        \A k \in Keys \ {req[c].key} :
            obj'[req[c].name].data[k] = obj[req[c].name].data[k]]_vars

\* As long as an object lives, nothing but the platform changes its hidden
\* key: what Strip took from the tenant's view, Restore puts back as it is
\* stored.
StoredHiddenStays ==
    [][\A n \in Names :
        obj[n].rv # 0 /\ obj'[n].uid = obj[n].uid =>
            obj'[n].hidden \in {obj[n].hidden, rev'}]_vars

\* No hidden key is one that a tenant submitted.
HiddenIsPlatforms == \A n \in Names : obj[n].hidden # Supplied

\* The loop goes round again only when another writer got in between this
\* request's read and its write.
RetryMeansRaced ==
    [][\A c \in Clients : pc[c] \in {"post", "send"} /\ pc'[c] = "read" =>
        obj[req[c].name].rv # old[c].rv]_vars

\* The check-then-create of refuseTooManyNamespaces overshoots the cap by at
\* most the requests that run beside the one that reaches it, and the creates
\* it could not count for, those let through and not stored yet included; an
\* apply that creates is counted too.
CapOvershoot ==
    LET passed == {c \in Clients : pc[c] = "post"}
    IN  Limit # 0 => Cardinality(Existing) + Cardinality(passed)
                        <= Limit + Cardinality(Clients) - 1 + uncounted

\* Every request is answered, guaranteedUpdate's unbounded loop included: a
\* round that conflicts reads the object again.
Answered == \A c \in Clients : []<>(pc[c] = "idle")
=============================================================================
