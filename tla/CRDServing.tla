------------------------------ MODULE CRDServing ------------------------------
(***************************************************************************)
(* crdHandler (cmd/kubezoo/app/customresource_handler.go): how requests    *)
(* for custom resources find the storage of their definition, while the    *)
(* definition is changed, deleted and created again and the informer's     *)
(* events take old storage away.                                           *)
(*                                                                         *)
(* A definition is its uid, the API versions it serves (none before its    *)
(* names are accepted), and whether it is terminating.  Storage (crdInfo)  *)
(* is named after the request that built it, since each builds at most one.*)
(***************************************************************************)
EXTENDS Integers, Sequences, FiniteSets

CONSTANTS
    Names,          \* definitions
    Versions,       \* the API versions that are asked for
    Verbs,          \* what is asked for: "create", "get" or "watch"
    Requests,       \* requests, each served once
    MaxRev,         \* bound: writes of definitions upstream
    MaxLive         \* bound: definitions at a time

ASSUME ServingAssumption ==
    /\ IsFiniteSet(Names)
    /\ IsFiniteSet(Versions) /\ IsFiniteSet(Requests) /\ "none" \notin Requests
    /\ Verbs \subseteq {"create", "get", "watch"}
    /\ MaxRev \in Nat \ {0} /\ MaxLive \in Nat

VARIABLES
    shared,         \* the definitions of sharedcrd.go, served under their own group
    api, rev,       \* the definitions upstream, and the revision there
    cache,          \* the informer's store
    unsynced,       \* what the informer's first list has yet to settle
    queue,          \* notifications that the event handler has yet to get
    pruning,        \* whether removeDeadStorage is running ...
    listed,         \* ... and the definitions it listed
    storageMap,     \* customStorage: the request that built the storage of a uid
    info,           \* the storage a request built
    lock,           \* who holds customStorageLock in getOrCreateServingInfoFor
    pc,             \* where a request is, or how it was answered
    req,            \* its definition, version and verb, and whether it is a
                    \* create while the definition is terminating
    seen,           \* the definition ServeHTTP read
    handle          \* the storage it was given

informer == <<cache, unsynced, queue>>
dead == <<pruning, listed>>
vars == <<shared, api, rev, informer, dead, storageMap, info, lock, pc, req, seen, handle>>

None == "none"

NoDef == [uid |-> 0, serves |-> {}, terminating |-> FALSE]

Definitions == [uid : 0..MaxRev, serves : SUBSET Versions, terminating : BOOLEAN]

NoInfo == [uid |-> 0, serves |-> {}, life |-> "unbuilt"]

Infos ==
    [uid : 0..MaxRev, serves : SUBSET Versions,
     life : {"unbuilt", "building", "up", "removed", "waiting", "destroyed", "cut off"}]

NoRequest == [verb |-> "none"]

Asks == [name : Names, version : Versions, verb : Verbs, refused : BOOLEAN]

Answers == {"delegated", "starting", "refused", "unavailable", "failed", "served"}

TypeOK ==
    /\ shared \subseteq Names
    /\ api \in [Names -> Definitions] /\ cache \in [Names -> Definitions]
    /\ rev \in 1..MaxRev /\ unsynced \subseteq Names
    /\ queue \in Seq([name : Names, old : Definitions, new : Definitions])
    /\ pruning \in BOOLEAN /\ listed \subseteq 0..MaxRev
    /\ storageMap \in [1..MaxRev -> Requests \cup {None}]
    /\ info \in [Requests -> Infos]
    /\ lock \in Requests \cup {None}
    /\ pc \in [Requests -> {"new", "lookup", "lock", "build", "got", "serving"} \cup Answers]
    /\ req \in [Requests -> Asks \cup {NoRequest}]
    /\ seen \in [Requests -> Definitions]
    /\ handle \in [Requests -> Requests \cup {None}]

\* One of the definitions may be there when the server starts with an empty store.
Init ==
    /\ shared \in SUBSET Names
    /\ api \in {[n \in Names |-> NoDef]} \cup
           {[n \in Names |-> IF n = m THEN [uid |-> 1, serves |-> Versions, terminating |-> FALSE]
                                      ELSE NoDef] : m \in Names}
    /\ rev = 1
    /\ cache = [n \in Names |-> NoDef] /\ unsynced = Names /\ queue = <<>>
    /\ pruning = FALSE /\ listed = {}
    /\ storageMap = [u \in 1..MaxRev |-> None]
    /\ info = [r \in Requests |-> NoInfo]
    /\ lock = None
    /\ pc = [r \in Requests |-> "new"]
    /\ req = [r \in Requests |-> NoRequest]
    /\ seen = [r \in Requests |-> NoDef]
    /\ handle = [r \in Requests |-> None]

-----------------------------------------------------------------------------
(* Definitions upstream, and the informer.                                 *)

Put(n, d) ==
    /\ rev < MaxRev
    /\ rev' = rev + 1
    /\ api' = [api EXCEPT ![n] = d]
    /\ UNCHANGED <<shared, informer, dead, storageMap, info, lock, pc, req, seen, handle>>

\* A definition is created, changed in what it serves, changed in its status
\* only, or gone.
Define(n, S) ==
    /\ api[n] = NoDef /\ Cardinality({m \in Names : api[m] # NoDef}) < MaxLive
    /\ Put(n, [uid |-> rev + 1, serves |-> S, terminating |-> FALSE])

Respec(n, S) ==
    /\ api[n] # NoDef /\ S # api[n].serves
    /\ Put(n, [api[n] EXCEPT !.serves = S])

Terminate(n) ==
    /\ api[n] # NoDef /\ ~api[n].terminating
    /\ Put(n, [api[n] EXCEPT !.terminating = TRUE])

Drop(n) ==
    /\ api[n] # NoDef
    /\ Put(n, NoDef)

\* The informer takes on what is upstream, however many writes that is, and
\* then has its handler notified.
Observe(n) ==
    /\ cache[n] # api[n] \/ n \in unsynced
    /\ cache' = [cache EXCEPT ![n] = api[n]]
    /\ unsynced' = unsynced \ {n}
    /\ queue' = IF cache[n] = api[n] THEN queue
                ELSE Append(queue, [name |-> n, old |-> cache[n], new |-> api[n]])
    /\ UNCHANGED <<shared, api, rev, dead, storageMap, info, lock, pc, req, seen, handle>>

HasSynced == unsynced = {}

-----------------------------------------------------------------------------
(* The event handler.  What it does under customStorageLock is one step.   *)

\* removeStorage_locked, of several uids: out of the map, and a tearDown begins.
RemoveStorage(U) ==
    /\ storageMap' = [u \in DOMAIN storageMap |-> IF u \in U THEN None ELSE storageMap[u]]
    /\ info' = [r \in Requests |->
                  IF \E u \in U : storageMap[u] = r THEN [info[r] EXCEPT !.life = "removed"]
                                                   ELSE info[r]]

\* Whether the spec of a definition is what its storage was built from.  The
\* storage of a tenant's definition has the group without the tenant's prefix,
\* so it never is.
Unchanged(n, d) == n \in shared /\ info[storageMap[d.uid]].serves = d.serves

Handled == queue' = Tail(queue) /\ UNCHANGED <<shared, api, rev, cache, unsynced, lock, pc, req,
                                               seen, handle>>

Event == Head(queue)

\* createCustomResourceDefinition.
HandleAdd ==
    /\ queue # <<>> /\ ~pruning /\ lock = None
    /\ Event.old = NoDef
    /\ RemoveStorage({Event.new.uid})
    /\ UNCHANGED dead /\ Handled

\* updateCustomResourceDefinition.
HandleUpdate ==
    /\ queue # <<>> /\ ~pruning /\ lock = None
    /\ Event.old # NoDef /\ Event.new # NoDef
    /\ RemoveStorage(
           ({Event.old.uid} \ {Event.new.uid}) \cup
           {u \in {Event.new.uid} : storageMap[u] # None /\ ~Unchanged(Event.name, Event.new)})
    /\ UNCHANGED dead /\ Handled

\* removeDeadStorage lists the definitions ...
HandleDelete ==
    /\ queue # <<>> /\ ~pruning
    /\ Event.new = NoDef
    /\ pruning' = TRUE /\ listed' = {cache[n].uid : n \in Names}
    /\ UNCHANGED <<storageMap, info>> /\ Handled

\* ... and then removes, under the lock, the storage of all others.
RemoveDeadStorage ==
    /\ pruning /\ lock = None
    /\ RemoveStorage((1..MaxRev) \ listed)
    /\ pruning' = FALSE /\ listed' = {}
    /\ UNCHANGED <<shared, api, rev, informer, lock, pc, req, seen, handle>>

Handler == HandleAdd \/ HandleUpdate \/ HandleDelete \/ RemoveDeadStorage

-----------------------------------------------------------------------------
(* tearDown of the storage r, once it is removed.                          *)

Registered(q, r) == handle[q] = r /\ pc[q] = "serving" /\ req[q].verb # "watch"

Lives(r, life) ==
    /\ info' = [info EXCEPT ![r].life = life]
    /\ UNCHANGED <<shared, api, rev, informer, dead, storageMap, lock, pc, req, seen, handle>>

\* After a second its wait group takes no more requests ...
StartWait(r) == info[r].life = "removed" /\ Lives(r, "waiting")

\* Variant of Drained: it waits for watches too.
DrainedOfAll(r) ==
    /\ info[r].life = "waiting"
    /\ \A q \in Requests : handle[q] # r
    /\ Lives(r, "destroyed")

\* Variant of Drained: it does not wait.
DrainedAtOnce(r) == info[r].life = "waiting" /\ Lives(r, "destroyed")

\* ... and once those it has are done it is destroyed,
Drained(r) ==
    /\ info[r].life = "waiting"
    /\ \A q \in Requests : ~Registered(q, r)
    /\ Lives(r, "destroyed")

\* or when they take longer than two request timeouts.
TimesOut(r) ==
    /\ info[r].life = "waiting"
    /\ \E q \in Requests : Registered(q, r)
    /\ Lives(r, "cut off")

TearDown(r) == StartWait(r) \/ Drained(r) \/ TimesOut(r)

-----------------------------------------------------------------------------
(* ServeHTTP and getOrCreateServingInfoFor.                                *)

\* The request moves on, or is answered and forgotten.
Goes(r, label) ==
    /\ pc' = [pc EXCEPT ![r] = label]
    /\ req' = [req EXCEPT ![r] = IF label \in Answers THEN NoRequest ELSE @]
    /\ seen' = [seen EXCEPT ![r] = IF label = "lock" THEN @ ELSE NoDef]

\* Variant of Missing: whatever is not in the store does not exist.
MissingUnsynced == "delegated"

\* What a definition that is not in the store is answered with.
Missing == IF HasSynced THEN "delegated" ELSE "starting"

\* getTenantCRD, and the conditions under which the definition serves the
\* request.  (One of the wrong scope is delegated like one of a version that
\* is not served.)
Resolve(r) ==
    \E n \in Names, v \in Versions, verb \in Verbs :
        LET d   == cache[n]
            ask == [name |-> n, version |-> v, verb |-> verb,
                    refused |-> verb = "create" /\ d.terminating] IN
        /\ pc[r] = "new"
        /\ \/ /\ d # NoDef /\ v \in d.serves
              /\ pc' = [pc EXCEPT ![r] = "lookup"]
              /\ req' = [req EXCEPT ![r] = ask]
              /\ seen' = [seen EXCEPT ![r] = d]
           \/ /\ d # NoDef /\ v \notin d.serves
              /\ Goes(r, "delegated")
           \/ /\ d = NoDef
              /\ pc' = [pc EXCEPT ![r] = Missing]
              /\ req' = [req EXCEPT ![r] = ask]
              /\ UNCHANGED seen
        /\ UNCHANGED <<shared, api, rev, informer, dead, storageMap, info, lock, handle>>

\* The map is read without the lock.
Lookup(r) ==
    /\ pc[r] = "lookup"
    /\ handle' = [handle EXCEPT ![r] = storageMap[seen[r].uid]]
    /\ Goes(r, IF storageMap[seen[r].uid] = None THEN "lock" ELSE "got")
    /\ UNCHANGED <<shared, api, rev, informer, dead, storageMap, info, lock>>

\* Variant of Definition: the one that was read before the lock was taken.
SeenDefinition(r) == seen[r]

\* The definition storage is built of.
Definition(r) == cache[req[r].name]

\* Variant of Built: the map is not read again.
BuiltBefore(r) == None

\* The storage that another request may have built meanwhile.
Built(r) == storageMap[Definition(r).uid]

\* Variant of Gone: the request waits for it to come back.
GoneRetries == "lock"

\* The definition is gone meanwhile.
Gone == "delegated"

\* Under the lock the definition and the map are read again.
TakeLock(r) ==
    LET d == Definition(r) IN
    /\ pc[r] = "lock" /\ lock = None
    /\ IF d = NoDef
       THEN Goes(r, Gone) /\ UNCHANGED <<lock, info, handle>>
       ELSE IF Built(r) # None
       THEN /\ Goes(r, "got")
            /\ handle' = [handle EXCEPT ![r] = Built(r)]
            /\ UNCHANGED <<lock, info>>
       ELSE /\ Goes(r, "build")
            /\ lock' = r
            /\ info' = [info EXCEPT ![r] = [uid |-> d.uid, serves |-> d.serves,
                                            life |-> "building"]]
            /\ UNCHANGED handle
    /\ UNCHANGED <<shared, api, rev, informer, dead, storageMap>>

\* The storage is put into the map ...
Build(r) ==
    /\ pc[r] = "build"
    /\ storageMap' = [storageMap EXCEPT ![info[r].uid] = r]
    /\ info' = [info EXCEPT ![r].life = "up"]
    /\ handle' = [handle EXCEPT ![r] = r]
    /\ lock' = None
    /\ Goes(r, "got")
    /\ UNCHANGED <<shared, api, rev, informer, dead>>

\* ... or could not be built (its schema, its converter or its names).
BuildFails(r) ==
    /\ pc[r] = "build"
    /\ info' = [info EXCEPT ![r] = NoInfo]
    /\ lock' = None
    /\ Goes(r, "failed")
    /\ UNCHANGED <<shared, api, rev, informer, dead, storageMap, handle>>

\* hasServedCRDVersion, of the storage.
Offered(r) == req[r].version \in info[handle[r]].serves

\* A create is refused while the definition is terminating; whatever is not
\* long-running registers with the wait group of the storage, which fails once
\* tearDown waits.
Admit(r) ==
    /\ pc[r] = "got"
    /\ Goes(r, CASE ~Offered(r) -> "delegated"
                 [] Offered(r) /\ req[r].refused -> "refused"
                 [] OTHER ->
                      IF \/ req[r].verb = "watch"
                         \/ info[handle[r]].life \in {"up", "removed"}
                      THEN "serving" ELSE "unavailable")
    /\ handle' = [handle EXCEPT ![r] = IF pc'[r] \in Answers THEN None ELSE @]
    /\ UNCHANGED <<shared, api, rev, informer, dead, storageMap, info, lock>>

\* The request is done, or the watch has ended.
Finish(r) ==
    /\ pc[r] = "serving"
    /\ Goes(r, "served")
    /\ handle' = [handle EXCEPT ![r] = IF pc'[r] \in Answers THEN None ELSE @]
    /\ UNCHANGED <<shared, api, rev, informer, dead, storageMap, info, lock>>

Serve(r) ==
    \/ Lookup(r) \/ TakeLock(r) \/ Build(r) \/ BuildFails(r) \/ Admit(r) \/ Finish(r)

-----------------------------------------------------------------------------
Upstream ==
    \E n \in Names :
        \/ \E S \in SUBSET Versions : Define(n, S) \/ Respec(n, S)
        \/ Terminate(n) \/ Drop(n)

\* All is answered, torn down and handled.
Finished ==
    /\ rev = MaxRev /\ cache = api /\ HasSynced /\ queue = <<>> /\ ~pruning
    /\ \A r \in Requests : pc[r] \in Answers /\ info[r].life \notin {"removed", "waiting"}
    /\ UNCHANGED vars

Next ==
    \/ Upstream
    \/ \E n \in Names : Observe(n)
    \/ Handler
    \/ \E r \in Requests : Resolve(r) \/ Serve(r) \/ TearDown(r)
    \/ Finished

Spec == Init /\ [][Next]_vars

\* The informer catches up, its handler runs, requests are served to their end
\* (a watch may go on) and tearDown has a time limit.  What there is to do for a
\* request or a write is finite, so that it is enough if nobody stops while
\* there is something to do.
Progress ==
    \/ \E n \in Names : Observe(n)
    \/ Handler
    \/ \E r \in Requests :
          TearDown(r) \/ (Serve(r) /\ ~(pc[r] = "serving" /\ req[r].verb = "watch"))

FairSpec == Spec /\ WF_vars(Progress)

-----------------------------------------------------------------------------
(* Properties.                                                             *)

\* Once the handler has got every notification, all storage in the map is of a
\* definition the informer has, built from the spec it has: storage that was
\* built of an older one while the change was being handled does not stay.
NothingStaleStays ==
    queue = <<>> /\ ~pruning =>
        \A u \in DOMAIN storageMap : storageMap[u] # None =>
            \E n \in Names : cache[n].uid = u /\ cache[n].serves = info[storageMap[u]].serves

\* Storage is up exactly as long as the map has it: two requests that find none
\* do not both build it and lose one, which nobody would ever destroy.
NoStorageLost ==
    \A r \in Requests : info[r].life = "up" <=> \E u \in DOMAIN storageMap : storageMap[u] = r

\* No request that registered runs on storage that was destroyed, unless it
\* outlasted the time limit of tearDown.
DrainedFirst ==
    \A q, r \in Requests : Registered(q, r) => info[r].life # "destroyed"

\* A definition that was there before the server started, and still is, is
\* never answered as one that does not exist, however early the request.
PresentNeverMissing ==
    [][\A r \in Requests :
        pc[r] = "new" /\ pc'[r] = "delegated" =>
            req'[r] = NoRequest \/ api[req'[r].name].uid # 1]_vars

\* The storage of a definition that is gone is destroyed, time and again until
\* none is left.
DeadStorageGoes ==
    []<>\A r \in Requests :
        \/ info[r].life \in {"unbuilt", "building", "destroyed", "cut off"}
        \/ \E n \in Names : api[n].uid = info[r].uid

\* Every request is answered, and every watch that can be is established.
Answered ==
    []<>\A r \in Requests :
        pc[r] \in Answers \cup {"new"} \/ (pc[r] = "serving" /\ req[r].verb = "watch")

\* An update of a definition takes its storage away only if the spec it was
\* built from has changed, as the comment in the handler says.  It does not
\* hold of a tenant's definition, whose stored spec names the group without the
\* prefix it has in the event.
KeptIfUnchanged ==
    [][\A r \in Requests :
        HandleUpdate /\ info[r].life = "up" /\ info'[r].life = "removed" =>
            info[r].uid # Event.new.uid \/ info[r].serves # Event.new.serves]_vars
=============================================================================
