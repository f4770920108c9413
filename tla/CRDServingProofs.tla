--------------------------- MODULE CRDServingProofs ---------------------------
(***************************************************************************)
(* Proofs about CRDServing, for any number of definitions, versions,       *)
(* requests and writes: no storage is lost or stays stale, none is         *)
(* destroyed under a request, and no definition is missed at the start.    *)
(***************************************************************************)
EXTENDS CRDServing, TLAPS

-----------------------------------------------------------------------------
(* The inductive invariant.                                                *)

\* The notifications the handler has yet to get.
Elements(s) == {s[i] : i \in DOMAIN s}
Pending == Elements(queue)

\* A definition has a uid that was given out, and only no definition has none.
Given(d) == IF d.uid = 0 THEN d = NoDef ELSE d.uid \in 1..rev

\* A uid is given out once: nobody else has it, and when the informer has seen
\* it go it is nowhere any more.  What was there at the start is in the store
\* once the informer has listed it.
Uids ==
    /\ \A n \in Names : Given(api[n]) /\ Given(cache[n])
    /\ \A e \in Pending : Given(e.old) /\ Given(e.new) /\ e.old # e.new
    /\ \A n, m \in Names : n # m =>
          \A x \in {api[n].uid, cache[n].uid}, y \in {api[m].uid, cache[m].uid} :
              x = y => x = 0
    /\ \A e \in Pending : e.old.uid # e.new.uid /\ e.old.uid # 0 =>
          \A n \in Names : api[n].uid # e.old.uid /\ cache[n].uid # e.old.uid
    /\ \A n \in Names : n \notin unsynced /\ api[n].uid = 1 => cache[n].uid = 1

\* The map and the storage agree; storage is being built only by who holds the
\* lock, for a uid that has none.
Storage ==
    /\ \A u \in 1..MaxRev : storageMap[u] # None =>
          info[storageMap[u]].life = "up" /\ info[storageMap[u]].uid = u
    /\ \A r \in Requests : info[r].life = "up" =>
          info[r].uid \in 1..MaxRev /\ storageMap[info[r].uid] = r
    /\ \A r \in Requests : pc[r] = "build" =>
          /\ lock = r /\ info[r].life = "building"
          /\ info[r].uid \in 1..MaxRev /\ storageMap[info[r].uid] = None
    /\ \A r \in Requests : info[r].life = "building" => pc[r] = "build"
    /\ \A r \in Requests : pc[r] \in {"new", "lookup", "lock"} => info[r].life = "unbuilt"

\* What a request has been given was built, and what it registered with is not
\* destroyed.
Handles ==
    /\ \A r \in Requests : pc[r] = "lookup" => seen[r].uid \in 1..MaxRev
    /\ \A r \in Requests : pc[r] \in {"lookup", "lock", "build", "got", "serving"} => req[r] \in Asks
    /\ \A r \in Requests : pc[r] \in {"got", "serving"} => handle[r] # None
    /\ \A r \in Requests : handle[r] # None => info[handle[r]].life \notin {"unbuilt", "building"}
    /\ \A q, r \in Requests : Registered(q, r) =>
          info[r].life \in {"up", "removed", "waiting", "cut off"}

\* Storage of the uid u that serves S is what the informer has, or will be taken away.
Current(u, S) == \E n \in Names : cache[n].uid = u /\ cache[n].serves = S
Doomed(u, S) ==
    \/ \E e \in Pending : e.new.uid = u /\ e.new.serves # S
    \/ \E e \in Pending : e.old.uid = u /\ e.new.uid # u
    \/ pruning /\ u \notin listed

Fresh ==
    \A r \in Requests, u \in 0..MaxRev, S \in SUBSET Versions :
        info[r].life \in {"building", "up"} /\ info[r].uid = u /\ info[r].serves = S =>
            Current(u, S) \/ Doomed(u, S)

ServingInv == TypeOK /\ Uids /\ Storage /\ Handles /\ Fresh

-----------------------------------------------------------------------------
(* Sequences and records.                                                  *)

\* What a queue holds once something is added to it.
LEMMA Appended ==
    ASSUME NEW E, NEW s \in Seq(E), NEW e \in E
    PROVE  Elements(Append(s, e)) = Elements(s) \cup {e}
  <1>1. \A i \in 1..Len(s) : Append(s, e)[i] = s[i]
    OBVIOUS
  <1>2. Append(s, e)[Len(s) + 1] = e /\ DOMAIN Append(s, e) = 1..(Len(s) + 1)
    OBVIOUS
  <1>3. DOMAIN s = 1..Len(s) /\ Len(s) \in Nat
    OBVIOUS
  <1>4. 1..(Len(s) + 1) = 1..Len(s) \cup {Len(s) + 1}
    BY <1>3
  <1>. QED
    BY ZenonT(60), <1>1, <1>2, <1>3, <1>4, Zenon DEF Elements

\* What a queue holds is its head and what its tail holds.
LEMMA Taken ==
    ASSUME NEW E, NEW s \in Seq(E), s # <<>>
    PROVE  Tail(s) \in Seq(E) /\ Head(s) \in E /\ Head(s) \in Elements(s)
           /\ Elements(s) = Elements(Tail(s)) \cup {Head(s)}
  <1>1. /\ Len(s) \in Nat \ {0} /\ DOMAIN s = 1..Len(s)
        /\ Tail(s) \in Seq(E) /\ Head(s) = s[1] /\ Len(Tail(s)) = Len(s) - 1
        /\ \A i \in 1..(Len(s) - 1) : Tail(s)[i] = s[i + 1]
    OBVIOUS
  <1>2. DOMAIN Tail(s) = 1..(Len(s) - 1)
    BY <1>1
  <1>3. ASSUME NEW x \in Elements(s), x # Head(s) PROVE x \in Elements(Tail(s))
    <2>1. PICK i \in 1..Len(s) : x = s[i]
      BY <1>3, <1>1 DEF Elements
    <2>2. i - 1 \in 1..(Len(s) - 1) /\ Tail(s)[i - 1] = s[i]
      BY <2>1, <1>3, <1>1
    <2>. QED
      BY ZenonT(60), <2>1, <2>2, <1>2 DEF Elements
  <1>4. ASSUME NEW x \in Elements(Tail(s)) PROVE x \in Elements(s)
    <2>1. PICK i \in 1..(Len(s) - 1) : x = Tail(s)[i]
      BY <1>4, <1>2 DEF Elements
    <2>2. i + 1 \in 1..Len(s) /\ x = s[i + 1]
      BY <2>1, <1>1
    <2>. QED
      BY <2>2, <1>1 DEF Elements
  <1>5. Head(s) \in Elements(s) /\ Head(s) \in E
    <2>1. 1 \in DOMAIN s
      BY <1>1
    <2>. QED
      BY <2>1, <1>1 DEF Elements
  <1>. QED
    BY <1>1, <1>3, <1>4, <1>5, Zenon

\* What is queued is an event.
LEMMA Typed ==
    ASSUME NEW E, NEW s \in Seq(E)
    PROVE  Elements(s) \subseteq E
  BY DEF Elements

\* The fields of definitions.
LEMMA Fields ==
    /\ NoDef.uid = 0 /\ NoDef.serves = {} /\ NoDef \in Definitions
    /\ \A d \in Definitions : d.uid \in 0..MaxRev /\ d.serves \in SUBSET Versions
    /\ NoInfo.uid = 0 /\ NoInfo.life = "unbuilt" /\ NoInfo \in Infos
    /\ \A i \in Infos : i.uid \in 0..MaxRev /\ i.serves \in SUBSET Versions
  <1>1. 0 \in 0..MaxRev
    BY ServingAssumption
  <1>2. NoDef.uid = 0 /\ NoDef.serves = {}
    BY DEF NoDef
  <1>3. NoDef \in Definitions
    BY <1>1 DEF NoDef, Definitions
  <1>4. \A d \in Definitions : d.uid \in 0..MaxRev /\ d.serves \in SUBSET Versions
    BY DEF Definitions
  <1>5. NoInfo.uid = 0 /\ NoInfo.life = "unbuilt"
    BY DEF NoInfo
  <1>6. NoInfo \in Infos
    BY <1>1 DEF NoInfo, Infos
  <1>7. \A i \in Infos : i.uid \in 0..MaxRev /\ i.serves \in SUBSET Versions
    BY ZenonT(60) DEF Infos
  <1>. QED
    BY <1>2, <1>3, <1>4, <1>5, <1>6, <1>7

\* A definition is changed in one field.
LEMMA Redefined ==
    ASSUME NEW d \in Definitions
    PROVE  /\ \A S \in SUBSET Versions :
                 /\ [d EXCEPT !.serves = S] \in Definitions
                 /\ [d EXCEPT !.serves = S].uid = d.uid
           /\ [d EXCEPT !.terminating = TRUE] \in Definitions
           /\ [d EXCEPT !.terminating = TRUE].uid = d.uid
  BY ZenonT(60) DEF Definitions

\* Storage in another phase of its life.
LEMMA Aged ==
    ASSUME NEW i \in Infos,
           NEW l \in {"unbuilt", "building", "up", "removed", "waiting", "destroyed", "cut off"}
    PROVE  /\ [i EXCEPT !.life = l] \in Infos
           /\ [i EXCEPT !.life = l].uid = i.uid
           /\ [i EXCEPT !.life = l].serves = i.serves
           /\ [i EXCEPT !.life = l].life = l
  BY ZenonT(60) DEF Infos

-----------------------------------------------------------------------------
(* What the steps do, as far as the proofs need it.                        *)

\* A write upstream makes a definition, changes one or takes one away.
LEMMA UpstreamStep ==
    ASSUME TypeOK, Upstream
    PROVE  /\ rev < MaxRev /\ rev' = rev + 1
           /\ \E n \in Names : \E d \in Definitions :
                 /\ api' = [api EXCEPT ![n] = d]
                 /\ d = NoDef \/ d.uid = rev + 1 \/ (api[n] # NoDef /\ d.uid = api[n].uid)
           /\ UNCHANGED <<shared, informer, dead, storageMap, info, lock, pc, req, seen, handle>>
  <1>1. PICK n \in Names : \/ \E S \in SUBSET Versions : Define(n, S) \/ Respec(n, S)
                           \/ Terminate(n) \/ Drop(n)
    BY DEF Upstream
  <1>2. api[n] \in Definitions
    BY DEF TypeOK
  <1>3. SUFFICES \E d \in Definitions :
                   /\ d = NoDef \/ d.uid = rev + 1 \/ (api[n] # NoDef /\ d.uid = api[n].uid)
                   /\ Put(n, d)
    BY ZenonT(60) DEF Put
  <1>4. ASSUME NEW S \in SUBSET Versions, Define(n, S) PROVE <1>3!1
    <2>1. rev + 1 \in 0..MaxRev
      BY <1>4, ServingAssumption DEF Define, Put, TypeOK
    <2>2. [uid |-> rev + 1, serves |-> S, terminating |-> FALSE] \in Definitions
      BY <2>1 DEF Definitions
    <2>3. [uid |-> rev + 1, serves |-> S, terminating |-> FALSE].uid = rev + 1
      OBVIOUS
    <2>. QED
      BY <2>2, <2>3, <1>4, Zenon DEF Define
  <1>5. ASSUME NEW S \in SUBSET Versions, Respec(n, S) PROVE <1>3!1
    BY <1>2, <1>5, Redefined, Zenon DEF Respec
  <1>6. CASE Terminate(n)
    BY <1>2, <1>6, Redefined, Zenon DEF Terminate
  <1>7. CASE Drop(n)
    BY <1>7, Fields, Zenon DEF Drop
  <1>. QED
    BY <1>1, <1>4, <1>5, <1>6, <1>7

\* The uid of a definition is one that storage can be of.
LEMMA InDomain ==
    ASSUME TypeOK, NEW d \in Definitions, Given(d), d # NoDef
    PROVE  d.uid \in 1..MaxRev
  BY Fields, ServingAssumption DEF TypeOK, Given

\* Storage that is taken away is removed, and no other.
LEMMA Removal ==
    ASSUME TypeOK, Storage, NEW U \in SUBSET (1..MaxRev), RemoveStorage(U)
    PROVE  /\ storageMap' \in [1..MaxRev -> Requests \cup {None}]
           /\ info' \in [Requests -> Infos]
           /\ \A u \in 1..MaxRev : storageMap'[u] = IF u \in U THEN None ELSE storageMap[u]
           /\ \A r \in Requests :
                 /\ info'[r].uid = info[r].uid /\ info'[r].serves = info[r].serves
                 /\ info'[r].life = IF info[r].life = "up" /\ info[r].uid \in U
                                    THEN "removed" ELSE info[r].life
  <1>1. DOMAIN storageMap = 1..MaxRev
    BY DEF TypeOK
  <1>2. /\ storageMap' \in [1..MaxRev -> Requests \cup {None}]
        /\ \A u \in 1..MaxRev : storageMap'[u] = IF u \in U THEN None ELSE storageMap[u]
    BY <1>1 DEF TypeOK, RemoveStorage
  <1>3. ASSUME NEW r \in Requests
        PROVE  (\E u \in U : storageMap[u] = r) <=> info[r].life = "up" /\ info[r].uid \in U
    <2>1. r # None
      BY ServingAssumption DEF None
    <2>. QED
      BY <2>1 DEF Storage
  <1>4. ASSUME NEW r \in Requests
        PROVE  /\ info'[r] \in Infos
               /\ info'[r].uid = info[r].uid /\ info'[r].serves = info[r].serves
               /\ info'[r].life = IF info[r].life = "up" /\ info[r].uid \in U
                                  THEN "removed" ELSE info[r].life
    <2>1. info'[r] = IF info[r].life = "up" /\ info[r].uid \in U
                     THEN [info[r] EXCEPT !.life = "removed"] ELSE info[r]
      BY <1>3, Zenon DEF RemoveStorage
    <2>2. info[r] \in Infos
      BY DEF TypeOK
    <2>3. CASE info[r].life = "up" /\ info[r].uid \in U
      <3>1. info'[r] = [info[r] EXCEPT !.life = "removed"]
        BY <2>1, <2>3
      <3>2. /\ info'[r] \in Infos /\ info'[r].life = "removed"
            /\ info'[r].uid = info[r].uid /\ info'[r].serves = info[r].serves
        BY ZenonT(60), <3>1, <2>2 DEF Infos
      <3>. QED
        BY <3>2, <2>3
    <2>4. CASE ~(info[r].life = "up" /\ info[r].uid \in U)
      BY <2>1, <2>2, <2>4
    <2>. QED
      BY <2>3, <2>4
  <1>5. info' \in [Requests -> Infos]
    BY <1>4 DEF RemoveStorage
  <1>. QED
    BY <1>2, <1>4, <1>5

\* The event at the head of the queue is of definitions that were given out.
LEMMA EventGiven ==
    ASSUME TypeOK, Uids, queue # <<>>
    PROVE  /\ Event.name \in Names /\ Event.old \in Definitions /\ Event.new \in Definitions
           /\ Event.old # NoDef => Event.old.uid \in 1..MaxRev
           /\ Event.new # NoDef => Event.new.uid \in 1..MaxRev
           /\ Event.old # NoDef \/ Event.new # NoDef
           /\ Tail(queue) \in Seq([name : Names, old : Definitions, new : Definitions])
           /\ Event \in Pending /\ Pending = Elements(Tail(queue)) \cup {Event}
  <1>1. queue \in Seq([name : Names, old : Definitions, new : Definitions])
    BY DEF TypeOK
  <1>2. /\ Tail(queue) \in Seq([name : Names, old : Definitions, new : Definitions])
        /\ Event \in [name : Names, old : Definitions, new : Definitions]
        /\ Event \in Pending /\ Pending = Elements(Tail(queue)) \cup {Event}
    BY <1>1, Taken, Zenon DEF Event, Pending
  <1>3. Event.name \in Names /\ Event.old \in Definitions /\ Event.new \in Definitions
    BY <1>2
  <1>4. Given(Event.old) /\ Given(Event.new) /\ Event.old # Event.new
    BY <1>2 DEF Uids
  <1>. QED
    BY <1>2, <1>3, <1>4, InDomain

\* What the handler does: nothing to the storage, or it takes some away while
\* nobody builds any.
LEMMA HandlerStep ==
    ASSUME TypeOK, Uids, Handler
    PROVE  /\ \/ UNCHANGED <<storageMap, info>>
              \/ lock = None /\ \E U \in SUBSET (1..MaxRev) : RemoveStorage(U)
           /\ queue' = queue \/ (queue # <<>> /\ queue' = Tail(queue))
           /\ UNCHANGED <<shared, api, rev, cache, unsynced, lock, pc, req, seen, handle>>
  <1>1. CASE HandleAdd
    <2>1. {Event.new.uid} \in SUBSET (1..MaxRev)
      BY <1>1, EventGiven DEF HandleAdd
    <2>. QED
      BY <2>1, <1>1, Zenon DEF HandleAdd, Handled
  <1>2. CASE HandleUpdate
    <2>1. ({Event.old.uid} \ {Event.new.uid}) \cup
            {u \in {Event.new.uid} : storageMap[u] # None /\ ~Unchanged(Event.name, Event.new)}
          \in SUBSET (1..MaxRev)
      BY <1>2, EventGiven DEF HandleUpdate
    <2>. QED
      BY <2>1, <1>2, Zenon DEF HandleUpdate, Handled
  <1>3. CASE HandleDelete
    BY <1>3, Zenon DEF HandleDelete, Handled
  <1>4. CASE RemoveDeadStorage
    <2>1. (1..MaxRev) \ listed \in SUBSET (1..MaxRev)
      OBVIOUS
    <2>2. informer' = informer => cache' = cache /\ unsynced' = unsynced /\ queue' = queue
      BY DEF informer
    <2>. QED
      BY <2>1, <2>2, <1>4, Zenon DEF RemoveDeadStorage
  <1>. QED
    BY <1>1, <1>2, <1>3, <1>4 DEF Handler

\* What a request or a tearDown does leaves definitions and the handler alone.
LEMMA ServingStep ==
    ASSUME NEW r \in Requests, Resolve(r) \/ Serve(r) \/ TearDown(r)
    PROVE  UNCHANGED <<shared, api, rev, informer, dead>>
  <1>1. ASSUME Resolve(r) PROVE UNCHANGED <<shared, api, rev, informer, dead>>
    BY ZenonT(60), <1>1 DEF Resolve
  <1>2. ASSUME Serve(r) PROVE UNCHANGED <<shared, api, rev, informer, dead>>
    BY <1>2 DEF Serve, Lookup, TakeLock, Build, BuildFails, Admit, Finish
  <1>3. ASSUME TearDown(r) PROVE UNCHANGED <<shared, api, rev, informer, dead>>
    BY ZenonT(60), <1>3 DEF TearDown, StartWait, Drained, TimesOut, Lives
  <1>. QED
    BY ZenonT(60), <1>1, <1>2, <1>3, Zenon

\* What the informer takes on is notified of if it is new.
LEMMA ObserveStep ==
    ASSUME TypeOK, NEW n \in Names, Observe(n)
    PROVE  /\ queue' \in Seq([name : Names, old : Definitions, new : Definitions])
           /\ IF cache[n] = api[n] THEN Pending' = Pending
              ELSE Pending' = Pending \cup {[name |-> n, old |-> cache[n], new |-> api[n]]}
  <1>. DEFINE E == [name : Names, old : Definitions, new : Definitions]
              e == [name |-> n, old |-> cache[n], new |-> api[n]]
  <1>1. queue \in Seq(E) /\ e \in E
    BY DEF TypeOK
  <1>2. queue' = IF cache[n] = api[n] THEN queue ELSE Append(queue, e)
    BY Zenon DEF Observe
  <1>3. Pending' = Elements(queue') /\ Pending = Elements(queue)
    BY DEF Pending, Elements
  <1>. HIDE DEF E, e
  <1>4. Elements(Append(queue, e)) = Elements(queue) \cup {e}
    BY <1>1, Appended
  <1>5. queue' \in Seq(E)
    BY <1>1, <1>2
  <1>6. IF cache[n] = api[n] THEN Pending' = Pending ELSE Pending' = Pending \cup {e}
    BY <1>2, <1>3, <1>4
  <1>. QED
    BY <1>5, <1>6, Zenon DEF E, e

-----------------------------------------------------------------------------
(* Uids.                                                                   *)

LEMMA UidsAtFirst == Init => Uids
  <1>. SUFFICES ASSUME Init PROVE Uids
    OBVIOUS
  <1>1. \A n \in Names : cache[n] = NoDef /\ n \in unsynced
    BY DEF Init
  <1>2. Pending = {}
    BY DEF Init, Pending, Elements
  <1>3. \/ \A n \in Names : api[n] = NoDef
        \/ \E m \in Names : \A n \in Names : IF n = m THEN api[n].uid = 1 ELSE api[n] = NoDef
    BY DEF Init
  <1>4. rev = 1
    BY DEF Init
  <1>. QED
    BY <1>1, <1>2, <1>3, <1>4, Fields DEF Uids, Given

LEMMA UidsPreserved ==
    ASSUME TypeOK, Uids, [Next]_vars
    PROVE  Uids'
  <1>a. /\ rev \in Nat /\ rev >= 1
        /\ \A n \in Names : api[n] \in Definitions /\ cache[n] \in Definitions
        /\ queue \in Seq([name : Names, old : Definitions, new : Definitions])
        /\ Pending \subseteq [name : Names, old : Definitions, new : Definitions]
    <2>1. queue \in Seq([name : Names, old : Definitions, new : Definitions])
      BY DEF TypeOK
    <2>2. Pending \subseteq [name : Names, old : Definitions, new : Definitions]
      BY ZenonT(60), <2>1, Typed, Zenon DEF Pending
    <2>. QED
      BY <2>1, <2>2, ServingAssumption DEF TypeOK
  <1>1. CASE Upstream
    <2>1. PICK n \in Names : \E d \in Definitions :
                 /\ api' = [api EXCEPT ![n] = d]
                 /\ d = NoDef \/ d.uid = rev + 1 \/ (api[n] # NoDef /\ d.uid = api[n].uid)
      BY <1>1, UpstreamStep, Zenon
    <2>2. PICK d \in Definitions :
                 /\ api' = [api EXCEPT ![n] = d]
                 /\ d = NoDef \/ d.uid = rev + 1 \/ (api[n] # NoDef /\ d.uid = api[n].uid)
      BY ZenonT(60), <2>1
    <2>3. rev' = rev + 1 /\ cache' = cache /\ unsynced' = unsynced /\ queue' = queue /\ Pending' = Pending
      BY <1>1, UpstreamStep DEF informer, Pending
    <2>4. \A m \in Names : api'[m] = IF m = n THEN d ELSE api[m]
      BY <2>2 DEF TypeOK
    <2>5. \A x \in Definitions : Given(x) => Given(x)'
      BY <2>3, <1>a, Fields DEF Given
    <2>6. Given(d)'
      BY <2>2, <2>3, <1>a, Fields DEF Given, Uids
    <2>7. d.uid = 0 \/ d.uid = rev + 1 \/ (d.uid = api[n].uid /\ api[n].uid # 0)
      BY <2>2, Fields DEF Uids, Given
    <2>8. \A m \in Names : api[m].uid <= rev /\ cache[m].uid <= rev
      BY <1>a DEF Uids, Given
    <2>9. \A e \in Pending : e.old.uid <= rev /\ e.new.uid <= rev
      BY <1>a DEF Uids, Given
    <2>10. (\A m \in Names : Given(api[m]) /\ Given(cache[m]))'
      BY <2>3, <2>4, <2>5, <2>6, <1>a DEF Uids
    <2>11. (\A e \in Pending : Given(e.old) /\ Given(e.new) /\ e.old # e.new)'
      BY <2>3, <2>5, <1>a DEF Uids
    <2>12. (\A k, m \in Names : k # m =>
              \A x \in {api[k].uid, cache[k].uid}, y \in {api[m].uid, cache[m].uid} :
                  x = y => x = 0)'
      <3>1. \A m \in Names : m # n /\ d.uid \in {api[m].uid, cache[m].uid} => d.uid = 0
        BY SMTT(60), <2>7, <2>8, <1>a, Fields DEF Uids
      <3>2. d.uid = cache[n].uid \/ d.uid # cache[n].uid
        OBVIOUS
      <3>. QED
        BY <2>3, <2>4, <3>1 DEF Uids
    <2>13. (\A e \in Pending : e.old.uid # e.new.uid /\ e.old.uid # 0 =>
              \A m \in Names : api[m].uid # e.old.uid /\ cache[m].uid # e.old.uid)'
      BY <2>3, <2>4, <2>7, <2>9, <1>a DEF Uids
    <2>14. (\A m \in Names : m \notin unsynced /\ api[m].uid = 1 => cache[m].uid = 1)'
      BY SMTT(60), <2>3, <2>4, <2>7, <1>a DEF Uids
    <2>. QED
      BY <2>10, <2>11, <2>12, <2>13, <2>14 DEF Uids
  <1>2. ASSUME NEW n \in Names, Observe(n) PROVE Uids'
    <2>1. rev' = rev /\ api' = api /\ unsynced' = unsynced \ {n}
      BY <1>2 DEF Observe
    <2>2. \A m \in Names : cache'[m] = IF m = n THEN api[n] ELSE cache[m]
      BY <1>2 DEF Observe, TypeOK
    <2>3. ASSUME NEW e \in Pending'
          PROVE  \/ e \in Pending
                 \/ e.old = cache[n] /\ e.new = api[n] /\ cache[n] # api[n]
      BY <1>2, ObserveStep
    <2>4. \A x : Given(x)' <=> Given(x)
      BY ZenonT(60), <2>1 DEF Given
    <2>5. (\A m \in Names : Given(api[m]) /\ Given(cache[m]))'
      BY <2>1, <2>2, <2>4 DEF Uids
    <2>6. (\A e \in Pending : Given(e.old) /\ Given(e.new) /\ e.old # e.new)'
      BY <2>3, <2>4 DEF Uids
    <2>7. (\A k, m \in Names : k # m =>
              \A x \in {api[k].uid, cache[k].uid}, y \in {api[m].uid, cache[m].uid} :
                  x = y => x = 0)'
      BY <2>1, <2>2 DEF Uids
    <2>8. (\A e \in Pending : e.old.uid # e.new.uid /\ e.old.uid # 0 =>
              \A m \in Names : api[m].uid # e.old.uid /\ cache[m].uid # e.old.uid)'
      <3>1. ASSUME cache[n].uid # api[n].uid, cache[n].uid # 0, NEW m \in Names
            PROVE  api[m].uid # cache[n].uid /\ cache'[m].uid # cache[n].uid
        BY <3>1, <2>2 DEF Uids
      <3>. QED
        BY SMTT(60), <3>1, <2>1, <2>2, <2>3 DEF Uids
    <2>9. (\A m \in Names : m \notin unsynced /\ api[m].uid = 1 => cache[m].uid = 1)'
      BY ZenonT(60), <2>1, <2>2 DEF Uids
    <2>. QED
      BY <2>5, <2>6, <2>7, <2>8, <2>9 DEF Uids
  <1>3. CASE Handler
    <2>1. UNCHANGED <<rev, api, cache, unsynced>> /\ Pending' \subseteq Pending
      <3>1. queue' = queue => Pending' = Pending
        BY DEF Pending
      <3>2. queue # <<>> /\ queue' = Tail(queue) => Pending' \subseteq Pending
        BY ZenonT(60), EventGiven DEF Pending
      <3>. QED
        BY <3>1, <3>2, <1>3, HandlerStep
    <2>. QED
      BY <2>1 DEF Uids, Given
  <1>4. ASSUME UNCHANGED <<api, rev, informer>> PROVE Uids'
    BY <1>4 DEF Uids, Given, informer, Pending
  <1>5. ASSUME NEW r \in Requests, Resolve(r) \/ Serve(r) \/ TearDown(r) PROVE Uids'
    BY <1>4, <1>5, ServingStep, Zenon
  <1>6. CASE Finished \/ UNCHANGED vars
    BY ZenonT(60), <1>4, <1>6, Zenon DEF Finished, vars
  <1>. QED
    BY <1>1, <1>2, <1>3, <1>5, <1>6, Zenon DEF Next

-----------------------------------------------------------------------------
(* Where requests go.                                                      *)

Labels == {"new", "lookup", "lock", "build", "got", "serving"} \cup Answers

\* The request moves, and no other does.
LEMMA Moves ==
    ASSUME TypeOK, NEW r \in Requests, NEW label \in Labels, Goes(r, label)
    PROVE  /\ pc' \in [Requests -> Labels] /\ pc'[r] = label
           /\ req' \in [Requests -> Asks \cup {NoRequest}]
           /\ req'[r] = IF label \in Answers THEN NoRequest ELSE req[r]
           /\ seen' \in [Requests -> Definitions]
           /\ \A q \in Requests : q # r => pc'[q] = pc[q] /\ req'[q] = req[q] /\ seen'[q] = seen[q]
  <1>1. /\ pc \in [Requests -> Labels] /\ req \in [Requests -> Asks \cup {NoRequest}]
        /\ seen \in [Requests -> Definitions]
    BY DEF TypeOK, Labels
  <1>. QED
    BY <1>1, Fields DEF Goes

\* What is asked for is a request.
LEMMA Asking ==
    ASSUME NEW n \in Names, NEW v \in Versions, NEW verb \in Verbs, NEW b \in BOOLEAN
    PROVE  [name |-> n, version |-> v, verb |-> verb, refused |-> b] \in Asks
  BY DEF Asks

\* ServeHTTP has read a definition that is there, or answers.  What it answers
\* as missing is not in the store.
LEMMA ResolveStep ==
    ASSUME TypeOK, Uids, NEW r \in Requests, Resolve(r)
    PROVE  /\ pc[r] = "new"
           /\ pc' \in [Requests -> Labels] /\ pc'[r] \in {"lookup", "delegated", "starting"}
           /\ req' \in [Requests -> Asks \cup {NoRequest}]
           /\ seen' \in [Requests -> Definitions]
           /\ \A q \in Requests : q # r => pc'[q] = pc[q] /\ req'[q] = req[q] /\ seen'[q] = seen[q]
           /\ pc'[r] = "lookup" => req'[r] \in Asks /\ seen'[r].uid \in 1..MaxRev
           /\ pc'[r] = "delegated" =>
                 \/ req'[r] = NoRequest
                 \/ req'[r].name \in Names /\ cache[req'[r].name] = NoDef /\ HasSynced
           /\ UNCHANGED <<shared, api, rev, informer, dead, storageMap, info, lock, handle>>
  <1>1. PICK n \in Names, v \in Versions, verb \in Verbs :
          LET d   == cache[n]
              ask == [name |-> n, version |-> v, verb |-> verb,
                      refused |-> verb = "create" /\ d.terminating] IN
          /\ pc[r] = "new"
          /\ \/ /\ d # NoDef /\ v \in d.serves
                /\ pc' = [pc EXCEPT ![r] = "lookup"]
                /\ req' = [req EXCEPT ![r] = ask]
                /\ seen' = [seen EXCEPT ![r] = d]
             \/ /\ d # NoDef /\ v \notin d.serves
                /\ Goes(r, "delegated")
             \/ /\ d = NoDef
                /\ pc' = [pc EXCEPT ![r] = Missing]
                /\ req' = [req EXCEPT ![r] = ask]
                /\ UNCHANGED seen
          /\ UNCHANGED <<shared, api, rev, informer, dead, storageMap, info, lock, handle>>
    BY Zenon DEF Resolve
  <1>. DEFINE ask == [name |-> n, version |-> v, verb |-> verb,
                      refused |-> verb = "create" /\ cache[n].terminating]
  <1>2. ask \in Asks /\ ask.name = n
    <2>1. (verb = "create" /\ cache[n].terminating) \in BOOLEAN
      OBVIOUS
    <2>2. ask \in Asks
      BY <2>1, Asking, Zenon
    <2>. QED
      BY <2>2
  <1>3. /\ pc[r] = "new"
        /\ \/ /\ cache[n] # NoDef
              /\ pc' = [pc EXCEPT ![r] = "lookup"]
              /\ req' = [req EXCEPT ![r] = ask]
              /\ seen' = [seen EXCEPT ![r] = cache[n]]
           \/ Goes(r, "delegated")
           \/ /\ cache[n] = NoDef
              /\ pc' = [pc EXCEPT ![r] = Missing]
              /\ req' = [req EXCEPT ![r] = ask]
              /\ seen' = seen
        /\ UNCHANGED <<shared, api, rev, informer, dead, storageMap, info, lock, handle>>
    BY <1>1, Zenon
  <1>4. /\ pc \in [Requests -> Labels] /\ req \in [Requests -> Asks \cup {NoRequest}]
        /\ seen \in [Requests -> Definitions] /\ cache[n] \in Definitions
    BY DEF TypeOK, Labels
  <1>5. {"lookup", "delegated", "starting"} \subseteq Labels
    BY ZenonT(60) DEF Labels, Answers
  <1>. HIDE DEF ask
  <1>6. CASE /\ cache[n] # NoDef
             /\ pc' = [pc EXCEPT ![r] = "lookup"]
             /\ req' = [req EXCEPT ![r] = ask]
             /\ seen' = [seen EXCEPT ![r] = cache[n]]
    <2>1. cache[n].uid \in 1..MaxRev
      BY ZenonT(60), <1>4, <1>6, InDomain DEF Uids
    <2>. QED
      BY ZenonT(60), <1>2, <1>3, <1>4, <1>5, <1>6, <2>1
  <1>7. CASE Goes(r, "delegated")
    <2>1. "delegated" \in Answers
      BY ZenonT(60) DEF Answers
    <2>. QED
      BY <1>3, <1>5, <1>7, <2>1, Moves
  <1>8. CASE /\ cache[n] = NoDef
             /\ pc' = [pc EXCEPT ![r] = Missing]
             /\ req' = [req EXCEPT ![r] = ask]
             /\ seen' = seen
    <2>1. Missing \in {"delegated", "starting"} /\ (Missing = "delegated" => HasSynced)
      BY DEF Missing
    <2>. QED
      BY <1>2, <1>3, <1>4, <1>5, <1>8, <2>1
  <1>. QED
    BY <1>3, <1>6, <1>7, <1>8, Zenon

\* Storage in the next phase of its life.
LEMMA LivesStep ==
    ASSUME TypeOK, NEW r \in Requests, NEW l \in {"waiting", "destroyed", "cut off"}, Lives(r, l)
    PROVE  /\ info' \in [Requests -> Infos]
           /\ info'[r].uid = info[r].uid /\ info'[r].serves = info[r].serves /\ info'[r].life = l
           /\ \A q \in Requests : q # r => info'[q] = info[q]
           /\ UNCHANGED <<shared, api, rev, informer, dead, storageMap, lock, pc, req, seen, handle>>
  <1>1. info \in [Requests -> Infos]
    BY ZenonT(60) DEF TypeOK
  <1>2. info' = [info EXCEPT ![r] = [info[r] EXCEPT !.life = l]]
    BY ZenonT(60) DEF Lives
  <1>3. /\ [info[r] EXCEPT !.life = l] \in Infos
        /\ [info[r] EXCEPT !.life = l].uid = info[r].uid
        /\ [info[r] EXCEPT !.life = l].serves = info[r].serves
        /\ [info[r] EXCEPT !.life = l].life = l
    BY ZenonT(60), <1>1 DEF Infos
  <1>. QED
    BY ZenonT(60), <1>1, <1>2, <1>3 DEF Lives

-----------------------------------------------------------------------------
(* Each step keeps the types, the storage and what requests are given.     *)

Kept == TypeOK /\ Storage /\ Handles

\* The types of what requests do not change.
World ==
    /\ shared \subseteq Names
    /\ api \in [Names -> Definitions] /\ cache \in [Names -> Definitions]
    /\ rev \in 1..MaxRev /\ unsynced \subseteq Names
    /\ queue \in Seq([name : Names, old : Definitions, new : Definitions])
    /\ pruning \in BOOLEAN /\ listed \subseteq 0..MaxRev

LEMMA WorldStays ==
    ASSUME TypeOK, UNCHANGED <<shared, api, rev, informer, dead>>
    PROVE  World'
  BY DEF TypeOK, World, informer, dead

\* The types of the storage and of the requests, apart from the rest.
StorageTyped ==
    /\ storageMap \in [1..MaxRev -> Requests \cup {None}]
    /\ info \in [Requests -> Infos] /\ lock \in Requests \cup {None}
    /\ handle \in [Requests -> Requests \cup {None}]

LEMMA KeptTyped == Kept => StorageTyped
  BY DEF Kept, TypeOK, StorageTyped

LEMMA TypeFollows ==
    ASSUME World', StorageTyped', pc' \in [Requests -> Labels],
           req' \in [Requests -> Asks \cup {NoRequest}], seen' \in [Requests -> Definitions]
    PROVE  TypeOK'
  BY Zenon DEF World, StorageTyped, TypeOK, Labels

\* The phases of storage that was built, and of storage that a request may be
\* registered with.
Made == {"up", "removed", "waiting", "destroyed", "cut off"}
Usable == {"up", "removed", "waiting", "cut off"}

\* What requests are given is kept when one request moves on with what it is given.
LEMMA HandlesFollow ==
    ASSUME Kept, NEW r \in Requests, TypeOK',
           \A q \in Requests : q # r =>
              pc'[q] = pc[q] /\ req'[q] = req[q] /\ seen'[q] = seen[q] /\ handle'[q] = handle[q],
           \A k \in Requests : info[k].life \in Made => info'[k].life \in Made,
           \A k \in Requests : info[k].life \in Usable => info'[k].life \in Usable,
           pc'[r] = "lookup" => seen'[r].uid \in 1..MaxRev,
           pc'[r] \in {"lookup", "lock", "build", "got", "serving"} => req'[r] \in Asks,
           pc'[r] \in {"got", "serving"} => handle'[r] # None,
           handle'[r] # None => info'[handle'[r]].life \in Made,
           pc'[r] = "serving" /\ req'[r].verb # "watch" => info'[handle'[r]].life \in Usable
    PROVE  Handles'
  <1>1. (\A q \in Requests : pc[q] = "lookup" => seen[q].uid \in 1..MaxRev)'
    BY ZenonT(60) DEF Kept, Handles
  <1>2. (\A q \in Requests :
           pc[q] \in {"lookup", "lock", "build", "got", "serving"} => req[q] \in Asks)'
    BY ZenonT(60) DEF Kept, Handles
  <1>3. (\A q \in Requests : pc[q] \in {"got", "serving"} => handle[q] # None)'
    BY ZenonT(60) DEF Kept, Handles
  <1>4. ASSUME NEW q \in Requests, handle'[q] # None
        PROVE  info'[handle'[q]].life \notin {"unbuilt", "building"}
    <2>1. CASE q = r
      BY ZenonT(60), <1>4, <2>1 DEF Made
    <2>2. CASE q # r
      <3>1. handle'[q] = handle[q] /\ handle[q] \in Requests
        BY ZenonT(60), <1>4, <2>2 DEF Kept, TypeOK
      <3>2. info[handle[q]] \in Infos /\ info[handle[q]].life \notin {"unbuilt", "building"}
        BY ZenonT(60), <3>1, <1>4 DEF Kept, Handles, TypeOK
      <3>3. info[handle[q]].life \in Made
        BY ZenonT(60), <3>2 DEF Infos, Made
      <3>. QED
        BY ZenonT(60), <3>1, <3>3 DEF Made
    <2>. QED
      BY <2>1, <2>2
  <1>5. ASSUME NEW q \in Requests, NEW k \in Requests, Registered(q, k)'
        PROVE  info'[k].life \in Usable
    <2>1. handle'[q] = k /\ pc'[q] = "serving" /\ req'[q].verb # "watch"
      BY <1>5 DEF Registered
    <2>2. CASE q # r
      <3>1. handle[q] = k /\ pc[q] = "serving" /\ req[q].verb # "watch"
        BY ZenonT(60), <2>1, <2>2
      <3>2. info[k].life \in Usable
        BY ZenonT(60), <3>1 DEF Kept, Handles, Registered, Usable
      <3>. QED
        BY <3>2
    <2>3. CASE q = r
      BY ZenonT(60), <2>1, <2>3
    <2>. QED
      BY <2>2, <2>3
  <1>. QED
    BY ZenonT(60), <1>1, <1>2, <1>3, <1>4, <1>5 DEF Handles, Usable

\* The storage is as it should be when a request moves that builds none.
LEMMA StorageFollows ==
    ASSUME Kept, storageMap' = storageMap, info' = info, lock' = lock,
           \A q \in Requests : pc[q] = "build" <=> pc'[q] = "build",
           \A q \in Requests : pc'[q] \in {"new", "lookup", "lock"} => pc[q] \in {"new", "lookup", "lock"}
    PROVE  Storage'
  <1>1. \A q \in Requests : pc'[q] = "build" =>
           /\ lock' = q /\ info'[q].life = "building"
           /\ info'[q].uid \in 1..MaxRev /\ storageMap'[info'[q].uid] = None
    BY ZenonT(60) DEF Kept, Storage
  <1>2. \A q \in Requests : info'[q].life = "building" => pc'[q] = "build"
    BY DEF Kept, Storage
  <1>3. \A q \in Requests : pc'[q] \in {"new", "lookup", "lock"} => info'[q].life = "unbuilt"
    BY DEF Kept, Storage
  <1>. QED
    BY <1>1, <1>2, <1>3 DEF Kept, Storage

LEMMA LookupKeeps ==
    ASSUME Kept, Uids, NEW r \in Requests, Lookup(r)
    PROVE  Kept'
  <1>. DEFINE h == storageMap[seen[r].uid]
  <1>1. pc[r] = "lookup" /\ seen[r].uid \in 1..MaxRev /\ req[r] \in Asks
    BY ZenonT(60) DEF Lookup, Kept, Handles
  <1>2. h \in Requests \cup {None}
    BY <1>1 DEF Kept, TypeOK
  <1>3. h # None => info[h].life = "up"
    BY ZenonT(60), <1>1 DEF Kept, Storage
  <1>4. /\ handle' = [handle EXCEPT ![r] = h] /\ Goes(r, IF h = None THEN "lock" ELSE "got")
        /\ UNCHANGED <<shared, api, rev, informer, dead, storageMap, info, lock>>
    BY DEF Lookup
  <1>. HIDE DEF h
  <1>5. /\ (IF h = None THEN "lock" ELSE "got") \in Labels
        /\ "lock" \notin Answers /\ "got" \notin Answers
    BY ZenonT(60) DEF Labels, Answers
  <1>6. /\ pc' \in [Requests -> Labels] /\ pc'[r] = IF h = None THEN "lock" ELSE "got"
        /\ req' \in [Requests -> Asks \cup {NoRequest}] /\ req'[r] = req[r]
        /\ seen' \in [Requests -> Definitions]
        /\ \A q \in Requests : q # r => pc'[q] = pc[q] /\ req'[q] = req[q] /\ seen'[q] = seen[q]
    BY <1>4, <1>5, Moves DEF Kept
  <1>7. /\ handle' \in [Requests -> Requests \cup {None}] /\ handle'[r] = h
        /\ \A q \in Requests : q # r => handle'[q] = handle[q]
    BY ZenonT(60), <1>2, <1>4 DEF Kept, TypeOK
  <1>8. TypeOK'
    <2>1. World'
      BY ZenonT(60), <1>4, WorldStays DEF Kept
    <2>. QED
      BY <2>1, <1>4, <1>6, <1>7 DEF World, Kept, TypeOK, Labels
  <1>9. Storage'
    BY SMTT(60), <1>1, <1>4, <1>6 DEF Kept, Storage
  <1>10. Handles'
    BY ZenonT(60), <1>1, <1>3, <1>4, <1>6, <1>7, <1>8, HandlesFollow DEF Made
  <1>. QED
    BY ZenonT(60), <1>8, <1>9, <1>10 DEF Kept

LEMMA AdmitOrFinishKeeps ==
    ASSUME Kept, NEW r \in Requests, Admit(r) \/ Finish(r)
    PROVE  Kept'
  <1>1. PICK label \in {"delegated", "refused", "serving", "unavailable", "served"} :
          /\ pc[r] \in {"got", "serving"} /\ Goes(r, label)
          /\ label = "serving" => \/ req[r].verb = "watch"
                                  \/ info[handle[r]].life \in {"up", "removed"}
    <2>1. CASE Admit(r)
      BY <2>1 DEF Admit
    <2>2. CASE Finish(r)
      BY <2>2 DEF Finish
    <2>. QED
      BY <2>1, <2>2
  <1>2. /\ handle' = [handle EXCEPT ![r] = IF pc'[r] \in Answers THEN None ELSE @]
        /\ UNCHANGED <<shared, api, rev, informer, dead>>
        /\ storageMap' = storageMap /\ info' = info /\ lock' = lock
    BY DEF Admit, Finish
  <1>3. label \in Labels /\ (label = "serving" \/ label \in Answers) /\ "serving" \notin Answers
    BY DEF Labels, Answers
  <1>4. /\ pc' \in [Requests -> Labels] /\ pc'[r] = label
        /\ req' \in [Requests -> Asks \cup {NoRequest}] /\ (label = "serving" => req'[r] = req[r])
        /\ seen' \in [Requests -> Definitions]
        /\ \A q \in Requests : q # r => pc'[q] = pc[q] /\ req'[q] = req[q] /\ seen'[q] = seen[q]
    BY ZenonT(60), <1>1, <1>3, Moves DEF Kept
  <1>5. /\ handle' \in [Requests -> Requests \cup {None}]
        /\ handle'[r] = IF label = "serving" THEN handle[r] ELSE None
        /\ \A q \in Requests : q # r => handle'[q] = handle[q]
    BY ZenonT(60), <1>2, <1>3, <1>4 DEF Kept, TypeOK
  <1>6. TypeOK'
    <2>1. World'
      BY ZenonT(60), <1>2, WorldStays DEF Kept
    <2>. QED
      <3>1. StorageTyped'
        BY <1>2, <1>5, KeptTyped, Zenon DEF StorageTyped
      <3>. QED
        BY <2>1, <3>1, <1>4, TypeFollows
  <1>7. Storage'
    <2>1. storageMap' = storageMap /\ info' = info /\ lock' = lock
      BY <1>2, Zenon
    <2>2. \A q \in Requests :
            /\ pc[q] = "build" <=> pc'[q] = "build"
            /\ pc'[q] \in {"new", "lookup", "lock"} => pc[q] \in {"new", "lookup", "lock"}
      BY <1>1, <1>4
    <2>. QED
      BY <2>1, <2>2, StorageFollows
  <1>8. Handles'
    <2>1. handle[r] # None /\ req[r] \in Asks
      BY ZenonT(60), <1>1 DEF Kept, Handles
    <2>2. \A q \in Requests : q # None
      BY ZenonT(60), ServingAssumption DEF None
    <2>3. handle[r] \in Requests /\ info[handle[r]].life \in Made
      BY ZenonT(60), <2>1 DEF Kept, Handles, TypeOK, Infos, Made
    <2>4. info' = info /\ pc'[r] # "lookup"
      <3>1. info' = info
        BY <1>2, Zenon
      <3>2. pc'[r] = label /\ label # "lookup"
        BY <1>1, <1>4
      <3>. QED
        BY <3>1, <3>2
    <2>5. \A q \in Requests : q # r =>
             pc'[q] = pc[q] /\ req'[q] = req[q] /\ seen'[q] = seen[q] /\ handle'[q] = handle[q]
      BY ZenonT(60), <1>4, <1>5
    <2>6. /\ pc'[r] \in {"lookup", "lock", "build", "got", "serving"} => req'[r] \in Asks
          /\ pc'[r] \in {"got", "serving"} => handle'[r] # None
          /\ handle'[r] # None => info'[handle'[r]].life \in Made
      BY ZenonT(60), <1>1, <1>4, <1>5, <2>1, <2>3, <2>4
    <2>7. pc'[r] = "serving" /\ req'[r].verb # "watch" => info'[handle'[r]].life \in Usable
      BY ZenonT(60), <1>1, <1>4, <1>5, <2>4 DEF Usable
    <2>. QED
      BY ZenonT(60), <1>6, <2>4, <2>5, <2>6, <2>7, HandlesFollow
  <1>. QED
    BY <1>6, <1>7, <1>8 DEF Kept

LEMMA ResolveKeeps ==
    ASSUME Kept, Uids, NEW r \in Requests, Resolve(r)
    PROVE  Kept'
  <1>1. /\ pc[r] = "new"
        /\ pc' \in [Requests -> Labels] /\ pc'[r] \in {"lookup", "delegated", "starting"}
        /\ req' \in [Requests -> Asks \cup {NoRequest}]
        /\ seen' \in [Requests -> Definitions]
        /\ \A q \in Requests : q # r => pc'[q] = pc[q] /\ req'[q] = req[q] /\ seen'[q] = seen[q]
        /\ pc'[r] = "lookup" => req'[r] \in Asks /\ seen'[r].uid \in 1..MaxRev
        /\ UNCHANGED <<shared, api, rev, informer, dead, storageMap, info, lock, handle>>
    BY ZenonT(60), ResolveStep, Zenon DEF Kept
  <1>2. TypeOK'
    <2>1. World'
      BY ZenonT(60), <1>1, WorldStays DEF Kept
    <2>. QED
      BY ZenonT(60), <2>1, <1>1 DEF World, Kept, TypeOK, Labels
  <1>3. Storage'
    BY SMTT(60), <1>1 DEF Kept, Storage
  <1>4. Handles'
    <2>1. handle[r] # None => handle[r] \in Requests /\ info[handle[r]].life \in Made
      BY ZenonT(60) DEF Kept, Handles, TypeOK, Infos, Made
    <2>. QED
      BY ZenonT(60), <1>1, <1>2, <2>1, HandlesFollow
  <1>. QED
    BY <1>2, <1>3, <1>4 DEF Kept

LEMMA TakeLockKeeps ==
    ASSUME Kept, Uids, NEW r \in Requests, TakeLock(r)
    PROVE  Kept'
  <1>. DEFINE d == Definition(r)
  <1>1. /\ pc[r] = "lock" /\ lock = None
        /\ UNCHANGED <<shared, api, rev, informer, dead, storageMap>>
    BY DEF TakeLock
  <1>2. req[r] \in Asks /\ d \in Definitions /\ (d # NoDef => d.uid \in 1..MaxRev)
    <2>1. req[r] \in Asks
      BY ZenonT(60), <1>1 DEF Kept, Handles
    <2>2. req[r].name \in Names
      BY ZenonT(60), <2>1 DEF Asks
    <2>3. d \in Definitions /\ Given(d)
      BY <2>2 DEF Kept, TypeOK, Uids, Definition
    <2>. QED
      BY ZenonT(60), <2>1, <2>3, InDomain DEF Kept
  <1>3. World'
    BY ZenonT(60), <1>1, WorldStays DEF Kept
  <1>4. info[r].life = "unbuilt" /\ \A q \in Requests : pc[q] # "build"
    <2>1. \A q \in Requests : q # None
      BY ServingAssumption DEF None
    <2>. QED
      BY <1>1, <2>1 DEF Kept, Storage
  <1>5. handle[r] # None => handle[r] \in Requests /\ info[handle[r]].life \in Made
    BY ZenonT(60) DEF Kept, Handles, TypeOK, Infos, Made
  <1>6. {"delegated", "got", "build"} \subseteq Labels /\ "got" \notin Answers /\ "build" \notin Answers
    BY ZenonT(60) DEF Labels, Answers
  <1>7. CASE Goes(r, Gone) /\ UNCHANGED <<lock, info, handle>>
    <2>1. /\ pc' \in [Requests -> Labels] /\ pc'[r] = "delegated"
          /\ req' \in [Requests -> Asks \cup {NoRequest}]
          /\ seen' \in [Requests -> Definitions]
          /\ \A q \in Requests : q # r => pc'[q] = pc[q] /\ req'[q] = req[q] /\ seen'[q] = seen[q]
      BY ZenonT(60), <1>6, <1>7, Moves DEF Kept, Gone
    <2>2. TypeOK'
      <3>1. StorageTyped'
        BY <1>1, <1>7, KeptTyped DEF StorageTyped
      <3>. QED
        BY <1>3, <2>1, <3>1, TypeFollows
    <2>3. Storage'
      BY SMTT(60), <1>1, <1>7, <2>1 DEF Kept, Storage
    <2>4. Handles'
      BY ZenonT(60), <1>5, <1>7, <2>1, <2>2, HandlesFollow
    <2>. QED
      BY <2>2, <2>3, <2>4 DEF Kept
  <1>8. CASE /\ d # NoDef /\ Built(r) # None /\ Goes(r, "got")
             /\ handle' = [handle EXCEPT ![r] = Built(r)] /\ UNCHANGED <<lock, info>>
    <2>1. /\ pc' \in [Requests -> Labels] /\ pc'[r] = "got"
          /\ req' \in [Requests -> Asks \cup {NoRequest}] /\ req'[r] = req[r]
          /\ seen' \in [Requests -> Definitions]
          /\ \A q \in Requests : q # r => pc'[q] = pc[q] /\ req'[q] = req[q] /\ seen'[q] = seen[q]
      BY ZenonT(60), <1>6, <1>8, Moves DEF Kept
    <2>2. Built(r) \in Requests /\ info[Built(r)].life = "up"
      BY <1>2, <1>8 DEF Kept, TypeOK, Storage, Built
    <2>3. /\ handle' \in [Requests -> Requests \cup {None}] /\ handle'[r] = Built(r)
          /\ \A q \in Requests : q # r => handle'[q] = handle[q]
      BY ZenonT(60), <2>2, <1>8 DEF Kept, TypeOK
    <2>4. TypeOK'
      <3>1. StorageTyped'
        BY <1>1, <1>8, <2>3, KeptTyped, Zenon DEF StorageTyped
      <3>. QED
        BY <1>3, <2>1, <3>1, TypeFollows
    <2>5. Storage'
      <3>1. storageMap' = storageMap /\ info' = info /\ lock' = lock
        BY <1>1, <1>8, Zenon
      <3>2. \A q \in Requests :
              /\ pc[q] = "build" <=> pc'[q] = "build"
              /\ pc'[q] \in {"new", "lookup", "lock"} => pc[q] \in {"new", "lookup", "lock"}
        BY <1>1, <2>1
      <3>. QED
        BY <3>1, <3>2, StorageFollows
    <2>6. Handles'
      BY ZenonT(60), <1>2, <1>8, <2>1, <2>2, <2>3, <2>4, HandlesFollow DEF Made
    <2>. QED
      BY <2>4, <2>5, <2>6 DEF Kept
  <1>9. CASE /\ d # NoDef /\ Built(r) = None /\ Goes(r, "build") /\ lock' = r
             /\ info' = [info EXCEPT ![r] = [uid |-> d.uid, serves |-> d.serves, life |-> "building"]]
             /\ UNCHANGED handle
    <2>1. /\ pc' \in [Requests -> Labels] /\ pc'[r] = "build"
          /\ req' \in [Requests -> Asks \cup {NoRequest}] /\ req'[r] = req[r]
          /\ seen' \in [Requests -> Definitions]
          /\ \A q \in Requests : q # r => pc'[q] = pc[q] /\ req'[q] = req[q] /\ seen'[q] = seen[q]
      BY ZenonT(60), <1>6, <1>9, Moves DEF Kept
    <2>2. storageMap[d.uid] = None
      BY ZenonT(60), <1>9 DEF Built
    <2>3. /\ info' \in [Requests -> Infos]
          /\ info'[r].uid = d.uid /\ info'[r].life = "building"
          /\ \A q \in Requests : q # r => info'[q] = info[q]
      <3>1. [uid |-> d.uid, serves |-> d.serves, life |-> "building"] \in Infos
        BY ZenonT(60), <1>2, Fields DEF Infos
      <3>2. info \in [Requests -> Infos]
        BY ZenonT(60) DEF Kept, TypeOK
      <3>. QED
        BY <1>9, <3>1, <3>2
    <2>0. lock' = r /\ handle' = handle /\ storageMap' = storageMap
      BY <1>1, <1>9, Zenon
    <2>u. info'[r].uid \in 1..MaxRev /\ storageMap[info'[r].uid] = None
      BY <1>2, <1>9, <2>2, <2>3, Zenon
    <2>. HIDE DEF d
    <2>4. TypeOK'
      <3>1. StorageTyped'
        BY <2>0, <2>3, KeptTyped, Zenon DEF StorageTyped
      <3>. QED
        BY <1>3, <2>1, <3>1, TypeFollows
    <2>5. Storage'
      <3>1. \A q \in Requests : info[q].life = "up" => q # r
        BY <1>4
      <3>2. \A u \in 1..MaxRev : storageMap'[u] # None =>
               info'[storageMap'[u]].life = "up" /\ info'[storageMap'[u]].uid = u
        <4>1. \A u \in 1..MaxRev : storageMap[u] # None =>
                 /\ storageMap[u] \in Requests
                 /\ info[storageMap[u]].life = "up" /\ info[storageMap[u]].uid = u
          <5>1. \A u \in 1..MaxRev : storageMap[u] # None => storageMap[u] \in Requests
            BY KeptTyped DEF StorageTyped
          <5>2. \A u \in 1..MaxRev : storageMap[u] # None =>
                   info[storageMap[u]].life = "up" /\ info[storageMap[u]].uid = u
            BY Zenon DEF Kept, Storage
          <5>. QED
            BY <5>1, <5>2, Zenon
        <4>. QED
          BY <4>1, <3>1, <2>0, <2>3
      <3>3. \A q \in Requests : info'[q].life = "up" =>
               info'[q].uid \in 1..MaxRev /\ storageMap'[info'[q].uid] = q
        <4>1. \A q \in Requests : info'[q].life = "up" => q # r
          BY <2>3
        <4>. QED
          BY <4>1, <2>0, <2>3 DEF Kept, Storage
      <3>4. \A q \in Requests : pc'[q] = "build" <=> q = r
        BY <1>4, <2>1
      <3>5. \A q \in Requests : info'[q].life = "building" => q = r
        BY <1>4, <2>3 DEF Kept, Storage
      <3>6. \A q \in Requests : pc'[q] \in {"new", "lookup", "lock"} => info'[q].life = "unbuilt"
        BY <2>1, <2>3 DEF Kept, Storage
      <3>. QED
        BY <2>0, <2>3, <2>u, <3>2, <3>3, <3>4, <3>5, <3>6 DEF Storage
    <2>6. Handles'
      <3>1. handle' = handle /\ (handle[r] # None => handle[r] # r)
        BY ZenonT(60), <1>4, <1>5, <1>9 DEF Made
      <3>2. /\ \A k \in Requests : info[k].life \in Made => info'[k].life \in Made
            /\ \A k \in Requests : info[k].life \in Usable => info'[k].life \in Usable
        BY ZenonT(60), <1>4, <2>3 DEF Made, Usable
      <3>3. \A q \in Requests : q # r => handle'[q] = handle[q]
        BY <3>1
      <3>. QED
        BY ZenonT(60), <1>2, <1>5, <2>1, <2>3, <2>4, <3>1, <3>2, <3>3, HandlesFollow
    <2>. QED
      BY <2>4, <2>5, <2>6 DEF Kept
  <1>. QED
    BY <1>7, <1>8, <1>9, Zenon DEF TakeLock

LEMMA BuildKeeps ==
    ASSUME Kept, NEW r \in Requests, Build(r)
    PROVE  Kept'
  <1>1. /\ pc[r] = "build" /\ lock' = None /\ Goes(r, "got")
        /\ storageMap' = [storageMap EXCEPT ![info[r].uid] = r]
        /\ info' = [info EXCEPT ![r] = [info[r] EXCEPT !.life = "up"]]
        /\ handle' = [handle EXCEPT ![r] = r]
        /\ UNCHANGED <<shared, api, rev, informer, dead>>
    BY DEF Build
  <1>2. /\ lock = r /\ info[r].life = "building"
        /\ info[r].uid \in 1..MaxRev /\ storageMap[info[r].uid] = None
    BY <1>1 DEF Kept, Storage
  <1>3. \A q \in Requests : q # None
    BY ServingAssumption DEF None
  <1>4. "got" \in Labels /\ "got" \notin Answers
    BY DEF Labels, Answers
  <1>5. /\ pc' \in [Requests -> Labels] /\ pc'[r] = "got"
        /\ req' \in [Requests -> Asks \cup {NoRequest}] /\ req'[r] = req[r]
        /\ seen' \in [Requests -> Definitions]
        /\ \A q \in Requests : q # r => pc'[q] = pc[q] /\ req'[q] = req[q] /\ seen'[q] = seen[q]
    BY <1>1, <1>4, Moves DEF Kept
  <1>6. /\ info' \in [Requests -> Infos]
        /\ info'[r].uid = info[r].uid /\ info'[r].life = "up"
        /\ \A q \in Requests : q # r => info'[q] = info[q]
    <2>1. info \in [Requests -> Infos]
      BY DEF Kept, TypeOK
    <2>2. /\ [info[r] EXCEPT !.life = "up"] \in Infos
          /\ [info[r] EXCEPT !.life = "up"].uid = info[r].uid
          /\ [info[r] EXCEPT !.life = "up"].life = "up"
      BY ZenonT(60), <2>1 DEF Infos
    <2>. QED
      BY ZenonT(60), <1>1, <2>1, <2>2
  <1>7. /\ storageMap' \in [1..MaxRev -> Requests \cup {None}]
        /\ \A u \in 1..MaxRev : storageMap'[u] = IF u = info[r].uid THEN r ELSE storageMap[u]
    BY <1>1, <1>2 DEF Kept, TypeOK
  <1>8. /\ handle' \in [Requests -> Requests \cup {None}] /\ handle'[r] = r
        /\ \A q \in Requests : q # r => handle'[q] = handle[q]
    BY <1>1 DEF Kept, TypeOK
  <1>9. TypeOK'
    <2>1. World'
      BY ZenonT(60), <1>1, WorldStays DEF Kept
    <2>. QED
      BY ZenonT(60), <2>1, <1>1, <1>5, <1>6, <1>7, <1>8 DEF World, Kept, TypeOK, Labels
  <1>10. Storage'
    <2>1. ASSUME NEW u \in 1..MaxRev, storageMap'[u] # None
          PROVE  info'[storageMap'[u]].life = "up" /\ info'[storageMap'[u]].uid = u
      <3>1. CASE u = info[r].uid
        BY ZenonT(60), <3>1, <1>6, <1>7
      <3>2. CASE u # info[r].uid
        <4>1. storageMap'[u] = storageMap[u] /\ storageMap[u] \in Requests
          BY ZenonT(60), <2>1, <3>2, <1>7 DEF Kept, TypeOK
        <4>2. info[storageMap[u]].life = "up" /\ info[storageMap[u]].uid = u
          BY <2>1, <4>1 DEF Kept, Storage
        <4>3. storageMap[u] # r
          BY ZenonT(60), <3>2, <4>2
        <4>. QED
          BY ZenonT(60), <4>1, <4>2, <4>3, <1>6
      <3>. QED
        BY ZenonT(60), <3>1, <3>2
    <2>2. (\A q \in Requests : info[q].life = "up" =>
             info[q].uid \in 1..MaxRev /\ storageMap[info[q].uid] = q)'
      BY SMTT(60), <1>2, <1>3, <1>6, <1>7 DEF Kept, Storage
    <2>3. \A q \in Requests : pc'[q] # "build"
      BY SMTT(60), <1>2, <1>5 DEF Kept, Storage
    <2>4. \A q \in Requests : info'[q].life # "building"
      BY SMTT(60), <1>2, <1>6 DEF Kept, Storage
    <2>5. (\A q \in Requests : pc[q] \in {"new", "lookup", "lock"} => info[q].life = "unbuilt")'
      BY SMTT(60), <1>5, <1>6 DEF Kept, Storage
    <2>. QED
      BY <2>1, <2>2, <2>3, <2>4, <2>5 DEF Storage
  <1>11. Handles'
    <2>1. /\ \A k \in Requests : info[k].life \in Made => info'[k].life \in Made
          /\ \A k \in Requests : info[k].life \in Usable => info'[k].life \in Usable
          /\ info'[r].life \in Made
      BY ZenonT(60), <1>6 DEF Made, Usable
    <2>2. req[r] \in Asks
      BY ZenonT(60), <1>1 DEF Kept, Handles
    <2>. QED
      BY ZenonT(60), <1>3, <1>5, <1>8, <1>9, <2>1, <2>2, HandlesFollow
  <1>. QED
    BY <1>9, <1>10, <1>11 DEF Kept

LEMMA BuildFailsKeeps ==
    ASSUME Kept, NEW r \in Requests, BuildFails(r)
    PROVE  Kept'
  <1>1. /\ pc[r] = "build" /\ lock' = None /\ Goes(r, "failed")
        /\ info' = [info EXCEPT ![r] = NoInfo]
        /\ UNCHANGED <<shared, api, rev, informer, dead, storageMap, handle>>
    BY ZenonT(60) DEF BuildFails
  <1>2. lock = r /\ info[r].life = "building"
    BY <1>1 DEF Kept, Storage
  <1>3. "failed" \in Labels
    BY ZenonT(60) DEF Labels, Answers
  <1>4. /\ pc' \in [Requests -> Labels] /\ pc'[r] = "failed"
        /\ req' \in [Requests -> Asks \cup {NoRequest}]
        /\ seen' \in [Requests -> Definitions]
        /\ \A q \in Requests : q # r => pc'[q] = pc[q] /\ req'[q] = req[q] /\ seen'[q] = seen[q]
    BY ZenonT(60), <1>1, <1>3, Moves DEF Kept
  <1>5. /\ info' \in [Requests -> Infos] /\ info'[r].life = "unbuilt"
        /\ \A q \in Requests : q # r => info'[q] = info[q]
    BY ZenonT(60), <1>1, Fields DEF Kept, TypeOK
  <1>6. TypeOK'
    <2>1. World'
      BY ZenonT(60), <1>1, WorldStays DEF Kept
    <2>. QED
      BY ZenonT(60), <2>1, <1>1, <1>4, <1>5 DEF World, Kept, TypeOK, Labels
  <1>7. Storage'
    <2>1. \A q \in Requests : pc'[q] # "build" /\ info'[q].life # "building"
      BY SMTT(60), <1>2, <1>4, <1>5 DEF Kept, Storage
    <2>2. \A u \in 1..MaxRev : storageMap[u] # r /\ storageMap[u] \in Requests \cup {None}
      <3>1. r # None
        BY ServingAssumption DEF None
      <3>. QED
        BY ZenonT(60), <3>1, <1>2 DEF Kept, Storage, TypeOK
    <2>3. storageMap' = storageMap
      BY <1>1
    <2>4. (\A u \in 1..MaxRev : storageMap[u] # None =>
             info[storageMap[u]].life = "up" /\ info[storageMap[u]].uid = u)'
      BY SMTT(60), <1>5, <2>2, <2>3 DEF Kept, Storage
    <2>5. (\A q \in Requests : info[q].life = "up" =>
             info[q].uid \in 1..MaxRev /\ storageMap[info[q].uid] = q)'
      BY SMTT(60), <1>5, <2>3 DEF Kept, Storage
    <2>6. (\A q \in Requests : pc[q] \in {"new", "lookup", "lock"} => info[q].life = "unbuilt")'
      BY SMTT(60), <1>4, <1>5 DEF Kept, Storage
    <2>. QED
      BY ZenonT(60), <2>1, <2>4, <2>5, <2>6 DEF Storage
  <1>8. Handles'
    <2>1. /\ \A k \in Requests : info[k].life \in Made => info'[k].life \in Made
          /\ \A k \in Requests : info[k].life \in Usable => info'[k].life \in Usable
      BY ZenonT(60), <1>2, <1>5 DEF Made, Usable
    <2>2. handle[r] # None => handle[r] \in Requests /\ info[handle[r]].life \in Made
      BY ZenonT(60) DEF Kept, Handles, TypeOK, Infos, Made
    <2>3. handle' = handle
      BY <1>1
    <2>. QED
      BY ZenonT(60), <1>4, <1>6, <2>1, <2>2, <2>3, HandlesFollow
  <1>. QED
    BY <1>6, <1>7, <1>8 DEF Kept

LEMMA TearDownKeeps ==
    ASSUME Kept, NEW r \in Requests, TearDown(r)
    PROVE  Kept'
  <1>1. PICK l \in {"waiting", "destroyed", "cut off"} :
          /\ info[r].life \in {"removed", "waiting"} /\ Lives(r, l)
          /\ l = "destroyed" => \A q \in Requests : ~Registered(q, r)
    BY ZenonT(60) DEF TearDown, StartWait, Drained, TimesOut
  <1>2. /\ info' \in [Requests -> Infos]
        /\ info'[r].uid = info[r].uid /\ info'[r].serves = info[r].serves /\ info'[r].life = l
        /\ \A q \in Requests : q # r => info'[q] = info[q]
        /\ UNCHANGED <<shared, api, rev, informer, dead, storageMap, lock, pc, req, seen, handle>>
    BY ZenonT(60), <1>1, LivesStep DEF Kept
  <1>3. TypeOK'
    <2>1. World'
      BY ZenonT(60), <1>2, WorldStays DEF Kept
    <2>. QED
      BY ZenonT(60), <2>1, <1>2 DEF World, Kept, TypeOK
  <1>4. Storage'
    <2>1. \A u \in 1..MaxRev : storageMap[u] # r /\ storageMap[u] \in Requests \cup {None}
      <3>1. r # None
        BY ZenonT(60), ServingAssumption DEF None
      <3>. QED
        BY ZenonT(60), <3>1, <1>1 DEF Kept, Storage, TypeOK
    <2>2. ASSUME NEW u \in 1..MaxRev, storageMap'[u] # None
          PROVE  info'[storageMap'[u]].life = "up" /\ info'[storageMap'[u]].uid = u
      <3>1. storageMap'[u] = storageMap[u] /\ storageMap[u] \in Requests /\ storageMap[u] # r
        BY ZenonT(60), <2>1, <2>2, <1>2
      <3>2. info[storageMap[u]].life = "up" /\ info[storageMap[u]].uid = u
        BY ZenonT(60), <2>2, <3>1 DEF Kept, Storage
      <3>. QED
        BY ZenonT(60), <3>1, <3>2, <1>2
    <2>3. pc[r] \notin {"build", "new", "lookup", "lock"}
      BY ZenonT(60), <1>1 DEF Kept, Storage
    <2>4. /\ storageMap' = storageMap /\ pc' = pc /\ lock' = lock
          /\ info'[r].life \notin {"up", "building"}
          /\ \A q \in Requests : q # r => info'[q] = info[q]
      BY ZenonT(60), <1>2
    <2>5. ASSUME NEW q \in Requests
          PROVE  /\ info'[q].life = "up" =>
                       info'[q].uid \in 1..MaxRev /\ storageMap'[info'[q].uid] = q
                 /\ pc'[q] = "build" =>
                       /\ lock' = q /\ info'[q].life = "building"
                       /\ info'[q].uid \in 1..MaxRev /\ storageMap'[info'[q].uid] = None
                 /\ info'[q].life = "building" => pc'[q] = "build"
                 /\ pc'[q] \in {"new", "lookup", "lock"} => info'[q].life = "unbuilt"
      <3>1. CASE q = r
        BY ZenonT(60), <3>1, <2>3, <2>4
      <3>2. CASE q # r
        <4>1. info'[q] = info[q] /\ pc'[q] = pc[q] /\ lock' = lock /\ storageMap' = storageMap
          BY ZenonT(60), <3>2, <2>4
        <4>2. /\ info[q].life = "up" =>
                    info[q].uid \in 1..MaxRev /\ storageMap[info[q].uid] = q
              /\ pc[q] = "build" =>
                    /\ lock = q /\ info[q].life = "building"
                    /\ info[q].uid \in 1..MaxRev /\ storageMap[info[q].uid] = None
              /\ info[q].life = "building" => pc[q] = "build"
              /\ pc[q] \in {"new", "lookup", "lock"} => info[q].life = "unbuilt"
          BY ZenonT(60) DEF Kept, Storage
        <4>. QED
          BY ZenonT(60), <4>1, <4>2
      <3>. QED
        BY ZenonT(60), <3>1, <3>2
    <2>. QED
      BY ZenonT(60), <2>2, <2>5 DEF Storage
  <1>5. Handles'
    <2>1. \A q \in Requests : handle'[q] # None => info'[handle'[q]].life \notin {"unbuilt", "building"}
      BY ZenonT(60), <1>1, <1>2 DEF Kept, Handles, TypeOK
    <2>2. ASSUME NEW q \in Requests, NEW k \in Requests, Registered(q, k)'
          PROVE  info'[k].life \in {"up", "removed", "waiting", "cut off"}
      <3>1. Registered(q, k)
        BY ZenonT(60), <2>2, <1>2 DEF Registered
      <3>2. CASE k = r
        BY ZenonT(60), <3>1, <3>2, <1>1, <1>2
      <3>3. CASE k # r
        BY ZenonT(60), <3>1, <3>3, <1>2 DEF Kept, Handles
      <3>. QED
        BY ZenonT(60), <3>2, <3>3
    <2>. QED
      BY ZenonT(60), <1>2, <2>1, <2>2 DEF Kept, Handles
  <1>. QED
    BY ZenonT(60), <1>3, <1>4, <1>5 DEF Kept

LEMMA HandlerKeeps ==
    ASSUME Kept, Uids, Handler
    PROVE  Kept'
  <1>1. /\ queue' = queue \/ (queue # <<>> /\ queue' = Tail(queue))
        /\ UNCHANGED <<shared, api, rev, cache, unsynced, lock, pc, req, seen, handle>>
        /\ \/ UNCHANGED <<storageMap, info>>
           \/ lock = None /\ \E U \in SUBSET (1..MaxRev) : RemoveStorage(U)
    BY ZenonT(60), HandlerStep DEF Kept
  <1>2. World'
    <2>1. queue' \in Seq([name : Names, old : Definitions, new : Definitions])
      BY ZenonT(60), <1>1, EventGiven DEF Kept, TypeOK
    <2>2. pruning' \in BOOLEAN /\ listed' \subseteq 0..MaxRev
      <3>1. CASE UNCHANGED dead
        BY ZenonT(60), <3>1 DEF dead, Kept, TypeOK
      <3>2. CASE HandleDelete
        BY <3>2, Fields DEF HandleDelete, Kept, TypeOK
      <3>3. CASE RemoveDeadStorage
        BY ZenonT(60), <3>3 DEF RemoveDeadStorage
      <3>. QED
        BY ZenonT(60), <3>1, <3>2, <3>3 DEF Handler, HandleAdd, HandleUpdate
    <2>. QED
      BY ZenonT(60), <1>1, <2>1, <2>2 DEF World, Kept, TypeOK
  <1>3. CASE UNCHANGED <<storageMap, info>>
    <2>1. TypeOK'
      BY ZenonT(60), <1>1, <1>2, <1>3 DEF World, Kept, TypeOK
    <2>2. Storage'
      BY <1>1, <1>3 DEF Kept, Storage
    <2>3. Handles'
      BY ZenonT(60), <1>1, <1>3 DEF Kept, Handles, Registered
    <2>. QED
      BY ZenonT(60), <2>1, <2>2, <2>3 DEF Kept
  <1>4. ASSUME NEW U \in SUBSET (1..MaxRev), RemoveStorage(U), lock = None PROVE Kept'
    <2>1. /\ storageMap' \in [1..MaxRev -> Requests \cup {None}]
          /\ info' \in [Requests -> Infos]
          /\ \A u \in 1..MaxRev : storageMap'[u] = IF u \in U THEN None ELSE storageMap[u]
          /\ \A r \in Requests :
                /\ info'[r].uid = info[r].uid /\ info'[r].serves = info[r].serves
                /\ info'[r].life = IF info[r].life = "up" /\ info[r].uid \in U
                                   THEN "removed" ELSE info[r].life
      BY ZenonT(60), <1>4, Removal DEF Kept
    <2>2. \A r \in Requests : r # None /\ pc[r] # "build"
      BY ZenonT(60), <1>4, ServingAssumption DEF Kept, Storage, None
    <2>3. TypeOK'
      BY ZenonT(60), <1>1, <1>2, <2>1 DEF World, Kept, TypeOK
    <2>4. Storage'
      <3>1. ASSUME NEW u \in 1..MaxRev, storageMap'[u] # None
            PROVE  info'[storageMap'[u]].life = "up" /\ info'[storageMap'[u]].uid = u
        <4>1. storageMap'[u] = storageMap[u] /\ storageMap[u] \in Requests /\ u \notin U
          BY ZenonT(60), <3>1, <2>1 DEF Kept, TypeOK
        <4>2. info[storageMap[u]].life = "up" /\ info[storageMap[u]].uid = u
          BY ZenonT(60), <3>1, <4>1 DEF Kept, Storage
        <4>. QED
          BY ZenonT(60), <4>1, <4>2, <2>1
      <3>2. \A r \in Requests : info'[r].life = "up" =>
              info'[r].uid \in 1..MaxRev /\ storageMap'[info'[r].uid] = r
        BY SMTT(60), <2>1 DEF Kept, Storage
      <3>3. \A r \in Requests : info'[r].life # "building"
        BY SMTT(60), <2>1, <2>2 DEF Kept, Storage
      <3>4. \A r \in Requests : pc[r] \in {"new", "lookup", "lock"} => info'[r].life = "unbuilt"
        BY ZenonT(60), <2>1 DEF Kept, Storage
      <3>. QED
        BY ZenonT(60), <1>1, <2>2, <3>1, <3>2, <3>3, <3>4 DEF Storage
    <2>5. Handles'
      <3>1. \A r \in Requests : handle[r] # None =>
              info'[handle[r]].life \notin {"unbuilt", "building"}
        BY ZenonT(60), <2>1 DEF Kept, Handles, TypeOK
      <3>2. \A q, r \in Requests : Registered(q, r) =>
              info'[r].life \in {"up", "removed", "waiting", "cut off"}
        BY ZenonT(60), <2>1 DEF Kept, Handles
      <3>. QED
        BY ZenonT(60), <1>1, <3>1, <3>2 DEF Kept, Handles, Registered
    <2>. QED
      BY ZenonT(60), <2>3, <2>4, <2>5 DEF Kept
  <1>. QED
    BY ZenonT(60), <1>1, <1>3, <1>4

LEMMA KeptAtFirst == Init => Kept
  <1>. SUFFICES ASSUME Init PROVE Kept
    OBVIOUS
  <1>1. TypeOK
    <2>1. [uid |-> 1, serves |-> Versions, terminating |-> FALSE] \in Definitions
      BY SMTT(60), ServingAssumption DEF Definitions
    <2>2. api \in [Names -> Definitions]
      BY ZenonT(60), <2>1, Fields DEF Init
    <2>3. queue \in Seq([name : Names, old : Definitions, new : Definitions]) /\ rev \in 1..MaxRev
      BY SMTT(60), ServingAssumption DEF Init
    <2>4. pc \in [Requests -> {"new", "lookup", "lock", "build", "got", "serving"} \cup Answers]
      BY ZenonT(60) DEF Init
    <2>5. /\ cache \in [Names -> Definitions] /\ seen \in [Requests -> Definitions]
          /\ info \in [Requests -> Infos]
      BY ZenonT(60), Fields DEF Init
    <2>6. req \in [Requests -> Asks \cup {NoRequest}]
      BY ZenonT(60) DEF Init
    <2>7. /\ shared \subseteq Names /\ unsynced \subseteq Names /\ pruning \in BOOLEAN
          /\ listed \subseteq 0..MaxRev /\ storageMap \in [1..MaxRev -> Requests \cup {None}]
          /\ lock \in Requests \cup {None} /\ handle \in [Requests -> Requests \cup {None}]
      BY ZenonT(60) DEF Init
    <2>. QED
      BY ZenonT(60), <2>2, <2>3, <2>4, <2>5, <2>6, <2>7 DEF TypeOK
  <1>2. Storage
    BY Fields DEF Init, Storage
  <1>3. Handles
    BY ZenonT(60) DEF Init, Handles, Registered
  <1>. QED
    BY <1>1, <1>2, <1>3 DEF Kept

LEMMA KeptPreserved ==
    ASSUME Kept, Uids, [Next]_vars
    PROVE  Kept'
  <1>1. ASSUME World', UNCHANGED <<storageMap, info, lock, pc, req, seen, handle>> PROVE Kept'
    <2>1. TypeOK'
      BY ZenonT(60), <1>1 DEF World, Kept, TypeOK
    <2>2. Storage'
      BY ZenonT(60), <1>1 DEF Kept, Storage
    <2>3. Handles'
      BY ZenonT(60), <1>1 DEF Kept, Handles, Registered
    <2>. QED
      BY ZenonT(60), <2>1, <2>2, <2>3 DEF Kept
  <1>2. CASE Upstream
    <2>1. /\ rev < MaxRev /\ rev' = rev + 1
          /\ \E n \in Names : \E d \in Definitions : api' = [api EXCEPT ![n] = d]
          /\ UNCHANGED <<shared, informer, dead, storageMap, info, lock, pc, req, seen, handle>>
      BY ZenonT(60), <1>2, UpstreamStep, Zenon DEF Kept
    <2>2. api' \in [Names -> Definitions]
      BY ZenonT(60), <2>1 DEF Kept, TypeOK
    <2>3. rev' \in 1..MaxRev
      BY SMTT(60), <2>1, ServingAssumption DEF Kept, TypeOK
    <2>4. World'
      BY <2>1, <2>2, <2>3 DEF World, Kept, TypeOK, informer, dead
    <2>. QED
      BY <1>1, <2>1, <2>4, Zenon
  <1>3. ASSUME NEW n \in Names, Observe(n) PROVE Kept'
    <2>1. /\ UNCHANGED <<shared, api, rev, dead, storageMap, info, lock, pc, req, seen, handle>>
          /\ cache' = [cache EXCEPT ![n] = api[n]] /\ unsynced' = unsynced \ {n}
      BY <1>3 DEF Observe
    <2>2. queue' \in Seq([name : Names, old : Definitions, new : Definitions])
      BY ZenonT(60), <1>3, ObserveStep DEF Kept
    <2>3. World'
      BY <2>1, <2>2 DEF World, Kept, TypeOK, dead
    <2>. QED
      BY ZenonT(60), <1>1, <2>1, <2>3, Zenon
  <1>4. ASSUME NEW r \in Requests, Resolve(r) \/ Serve(r) \/ TearDown(r) PROVE Kept'
    BY <1>4, ResolveKeeps, LookupKeeps, TakeLockKeeps, BuildKeeps, BuildFailsKeeps,
       AdmitOrFinishKeeps, TearDownKeeps, Zenon DEF Serve
  <1>5. CASE Finished \/ UNCHANGED vars
    <2>1. UNCHANGED vars
      BY ZenonT(60), <1>5, Zenon DEF Finished
    <2>2. /\ UNCHANGED <<shared, api, rev, informer, dead>>
          /\ UNCHANGED <<storageMap, info, lock, pc, req, seen, handle>>
      BY <2>1 DEF vars
    <2>3. World'
      BY ZenonT(60), <2>2, WorldStays DEF Kept
    <2>. QED
      BY <1>1, <2>2, <2>3, Zenon
  <1>. QED
    BY <1>2, <1>3, <1>4, <1>5, HandlerKeeps, Zenon DEF Next

-----------------------------------------------------------------------------
(* No storage is stale but what the handler is about to take away.         *)

\* What is queued or being pruned goes on to be when more is queued.
LEMMA ObserveKeepsFresh ==
    ASSUME TypeOK, Fresh, NEW n \in Names, Observe(n)
    PROVE  Fresh'
  <1>1. info' = info /\ pruning' = pruning /\ listed' = listed
    BY ZenonT(60) DEF Observe, dead
  <1>2. \A m \in Names : cache'[m] = IF m = n THEN api[n] ELSE cache[m]
    BY DEF Observe, TypeOK
  <1>3. Pending \subseteq Pending'
    BY ZenonT(60), ObserveStep, Zenon
  <1>4. ASSUME NEW u, NEW S, Doomed(u, S) PROVE Doomed(u, S)'
    BY ZenonT(60), <1>1, <1>3, <1>4 DEF Doomed
  <1>5. ASSUME NEW u, NEW S, Current(u, S) PROVE Current(u, S)' \/ Doomed(u, S)'
    <2>1. PICK m \in Names : cache[m].uid = u /\ cache[m].serves = S
      BY ZenonT(60), <1>5 DEF Current
    <2>2. CASE m # n
      BY ZenonT(60), <2>1, <2>2, <1>2 DEF Current
    <2>3. CASE m = n /\ api[n].uid = u /\ api[n].serves = S
      BY ZenonT(60), <2>3, <1>2 DEF Current
    <2>4. CASE m = n /\ ~(api[n].uid = u /\ api[n].serves = S)
      <3>. DEFINE e == [name |-> n, old |-> cache[n], new |-> api[n]]
      <3>1. e \in Pending'
        BY ZenonT(60), <2>1, <2>4, ObserveStep
      <3>2. e.old.uid = u /\ e.new = api[n]
        BY ZenonT(60), <2>1, <2>4
      <3>. HIDE DEF e
      <3>. QED
        BY ZenonT(60), <2>4, <3>1, <3>2 DEF Doomed
    <2>. QED
      BY <2>2, <2>3, <2>4
  <1>6. ASSUME NEW r \in Requests, NEW u \in 0..MaxRev, NEW S \in SUBSET Versions,
               info'[r].life \in {"building", "up"}, info'[r].uid = u, info'[r].serves = S
        PROVE  Current(u, S)' \/ Doomed(u, S)'
    <2>1. Current(u, S) \/ Doomed(u, S)
      BY ZenonT(60), <1>1, <1>6 DEF Fresh
    <2>. QED
      BY ZenonT(60), <2>1, <1>4, <1>5
  <1>. QED
    BY ZenonT(60), <1>6 DEF Fresh

\* Storage stays as it should be while the handler gets an event that does not
\* concern it.
LEMMA TailKeepsFresh ==
    ASSUME TypeOK, Uids, queue # <<>>, queue' = Tail(queue), UNCHANGED cache,
           NEW u, NEW S, Current(u, S) \/ Doomed(u, S),
           ~(Event.new.uid = u /\ Event.new.serves # S),
           ~(Event.old.uid = u /\ Event.new.uid # u),
           pruning /\ u \notin listed => pruning' /\ u \notin listed'
    PROVE  Current(u, S)' \/ Doomed(u, S)'
  <1>1. Pending' = Elements(queue')
    BY ZenonT(60) DEF Pending, Elements
  <1>2. \A e \in Pending : e \in Pending' \/ e = Event
    BY ZenonT(60), <1>1, EventGiven
  <1>. QED
    BY ZenonT(60), <1>2 DEF Current, Doomed

LEMMA HandlerKeepsFresh ==
    ASSUME Kept, Uids, Fresh, Handler
    PROVE  Fresh'
  <1>. SUFFICES ASSUME NEW r \in Requests, NEW u \in 0..MaxRev, NEW S \in SUBSET Versions,
                       info'[r].life \in {"building", "up"}, info'[r].uid = u, info'[r].serves = S
                PROVE  Current(u, S)' \/ Doomed(u, S)'
    BY ZenonT(60) DEF Fresh
  <1>1. ASSUME NEW U \in SUBSET (1..MaxRev), RemoveStorage(U), lock = None
        PROVE  /\ info[r].life = "up" /\ info[r].uid = u /\ info[r].serves = S /\ u \notin U
               /\ u \in 1..MaxRev /\ storageMap[u] = r
               /\ Current(u, S) \/ Doomed(u, S)
    <2>1. /\ info'[r].uid = info[r].uid /\ info'[r].serves = info[r].serves
          /\ info'[r].life = IF info[r].life = "up" /\ info[r].uid \in U
                             THEN "removed" ELSE info[r].life
      BY ZenonT(60), <1>1, Removal DEF Kept
    <2>2. r # None
      BY ZenonT(60), ServingAssumption DEF None
    <2>3. info[r].life # "building"
      BY ZenonT(60), <1>1, <2>2 DEF Kept, Storage
    <2>4. info[r].life = "up" /\ info[r].uid = u /\ info[r].serves = S /\ u \notin U
      BY ZenonT(60), <2>1, <2>3
    <2>5. u \in 1..MaxRev /\ storageMap[u] = r
      BY SMTT(60), <2>4 DEF Kept, Storage
    <2>6. Current(u, S) \/ Doomed(u, S)
      BY ZenonT(60), <2>4 DEF Fresh
    <2>. QED
      BY ZenonT(60), <2>4, <2>5, <2>6, Zenon
  <1>2. CASE HandleAdd
    <2>1. /\ queue # <<>> /\ queue' = Tail(queue) /\ cache' = cache /\ pruning' = pruning
          /\ listed' = listed /\ lock = None /\ Event.old = NoDef /\ RemoveStorage({Event.new.uid})
      BY ZenonT(60), <1>2 DEF HandleAdd, Handled, dead
    <2>2. {Event.new.uid} \in SUBSET (1..MaxRev)
      BY ZenonT(60), <2>1, EventGiven DEF Kept
    <2>3. u \notin {Event.new.uid} /\ u \in 1..MaxRev /\ (Current(u, S) \/ Doomed(u, S))
      BY ZenonT(60), <2>1, <2>2, <1>1
    <2>4. Event.old.uid # u
      <3>1. Event.old = NoDef
        BY ZenonT(60), <2>1, Zenon
      <3>2. u # 0
        <4>1. u \in 1..MaxRev
          BY <2>3, Zenon
        <4>. QED
          BY <4>1
      <3>. QED
        BY <3>1, <3>2, Fields
    <2>. QED
      BY ZenonT(60), <2>1, <2>3, <2>4, TailKeepsFresh DEF Kept
  <1>3. CASE HandleUpdate
    <2>. DEFINE U == ({Event.old.uid} \ {Event.new.uid}) \cup
            {v \in {Event.new.uid} : storageMap[v] # None /\ ~Unchanged(Event.name, Event.new)}
    <2>1. /\ queue # <<>> /\ queue' = Tail(queue) /\ cache' = cache /\ pruning' = pruning
          /\ listed' = listed /\ lock = None /\ Event.old # NoDef /\ Event.new # NoDef
          /\ RemoveStorage(U)
      BY ZenonT(60), <1>3 DEF HandleUpdate, Handled, dead
    <2>2. U \in SUBSET (1..MaxRev)
      BY ZenonT(60), <2>1, EventGiven DEF Kept
    <2>3. /\ u \notin U /\ u \in 1..MaxRev /\ storageMap[u] = r /\ info[r].serves = S
          /\ Current(u, S) \/ Doomed(u, S)
      <3>. HIDE DEF U
      <3>. QED
        BY ZenonT(60), <2>1, <2>2, <1>1
    <2>4. r # None
      BY ZenonT(60), ServingAssumption DEF None
    <2>5. ~(Event.old.uid = u /\ Event.new.uid # u)
      BY ZenonT(60), <2>3
    <2>6. ~(Event.new.uid = u /\ Event.new.serves # S)
      BY ZenonT(60), <2>3, <2>4 DEF Unchanged
    <2>. QED
      BY ZenonT(60), <2>1, <2>3, <2>5, <2>6, TailKeepsFresh DEF Kept
  <1>4. CASE HandleDelete
    <2>1. /\ queue # <<>> /\ queue' = Tail(queue) /\ cache' = cache /\ info' = info
          /\ ~pruning /\ pruning' = TRUE /\ listed' = {cache[n].uid : n \in Names}
          /\ Event.new = NoDef
      BY ZenonT(60), <1>4 DEF HandleDelete, Handled
    <2>2. u \in 1..MaxRev /\ (Current(u, S) \/ Doomed(u, S))
      BY ZenonT(60), <2>1 DEF Kept, Storage, Fresh
    <2>3. Event.new.uid = 0 /\ u # 0
      BY SMTT(60), <2>1, <2>2, Fields
    <2>4. CASE Event.old.uid = u
      <3>1. \A n \in Names : cache[n].uid # u
        <4>1. Event \in Pending
          BY <2>1, EventGiven, Zenon DEF Kept
        <4>2. Event.old.uid # Event.new.uid /\ Event.old.uid # 0
          BY <2>3, <2>4
        <4>. QED
          BY ZenonT(60), <4>1, <4>2, <2>4, Zenon DEF Uids
      <3>2. pruning' /\ u \notin listed'
        BY ZenonT(60), <2>1, <3>1
      <3>. QED
        BY ZenonT(60), <3>2 DEF Doomed
    <2>5. CASE Event.old.uid # u
      BY ZenonT(60), <2>1, <2>2, <2>3, <2>5, TailKeepsFresh DEF Kept
    <2>. QED
      BY ZenonT(60), <2>4, <2>5
  <1>5. CASE RemoveDeadStorage
    <2>1. /\ lock = None /\ RemoveStorage((1..MaxRev) \ listed)
          /\ cache' = cache /\ Pending' = Pending
      BY ZenonT(60), <1>5 DEF RemoveDeadStorage, informer, Pending
    <2>2. u \notin (1..MaxRev) \ listed /\ u \in 1..MaxRev /\ (Current(u, S) \/ Doomed(u, S))
      BY ZenonT(60), <2>1, <1>1
    <2>. QED
      BY ZenonT(60), <2>1, <2>2 DEF Current, Doomed
  <1>. QED
    BY ZenonT(60), <1>2, <1>3, <1>4, <1>5 DEF Handler

LEMMA ServingKeepsFresh ==
    ASSUME Kept, Fresh, NEW r \in Requests, Resolve(r) \/ Serve(r) \/ TearDown(r)
    PROVE  Fresh'
  <1>1. cache' = cache /\ Pending' = Pending /\ pruning' = pruning /\ listed' = listed
    BY ZenonT(60), ServingStep DEF informer, dead, Pending
  <1>2. \A q \in Requests : q # r => info'[q] = info[q]
    <2>1. info \in [Requests -> Infos]
      BY ZenonT(60) DEF Kept, TypeOK
    <2>2. \/ info' = info
          \/ \E i : info' = [info EXCEPT ![r] = i]
      BY ZenonT(60) DEF Resolve, Serve, Lookup, TakeLock, Build, BuildFails, Admit, Finish,
             TearDown, StartWait, Drained, TimesOut, Lives
    <2>. QED
      BY ZenonT(60), <2>1, <2>2
  <1>3. \/ info'[r].life \notin {"building", "up"}
        \/ info[r].life \in {"building", "up"} /\ info'[r].uid = info[r].uid
                                               /\ info'[r].serves = info[r].serves
        \/ \E n \in Names : info'[r].uid = cache[n].uid /\ info'[r].serves = cache[n].serves
    <2>1. info \in [Requests -> Infos] /\ info[r] \in Infos
      BY ZenonT(60) DEF Kept, TypeOK
    <2>2. CASE info' = info
      BY ZenonT(60), <2>2
    <2>3. CASE TakeLock(r) /\ info' # info
      <3>1. /\ pc[r] = "lock"
            /\ info' = [info EXCEPT ![r] = [uid |-> Definition(r).uid, serves |-> Definition(r).serves,
                                           life |-> "building"]]
        BY ZenonT(60), <2>3, Zenon DEF TakeLock
      <3>2. req[r].name \in Names
        BY ZenonT(60), <3>1 DEF Kept, Handles, Asks
      <3>. QED
        BY ZenonT(60), <3>1, <3>2, <2>1 DEF Definition
    <2>4. CASE Build(r)
      <3>1. info[r].life = "building" /\ info' = [info EXCEPT ![r] = [info[r] EXCEPT !.life = "up"]]
        BY <2>4 DEF Build, Kept, Storage
      <3>2. /\ [info[r] EXCEPT !.life = "up"].uid = info[r].uid
            /\ [info[r] EXCEPT !.life = "up"].serves = info[r].serves
        BY ZenonT(60), <2>1 DEF Infos
      <3>. QED
        BY <3>1, <3>2, <2>1
    <2>5. CASE BuildFails(r)
      BY ZenonT(60), <2>1, <2>5, Fields DEF BuildFails
    <2>6. CASE TearDown(r)
      <3>1. PICK l \in {"waiting", "destroyed", "cut off"} : Lives(r, l)
        BY ZenonT(60), <2>6, Zenon DEF TearDown, StartWait, Drained, TimesOut
      <3>. QED
        BY ZenonT(60), <3>1, LivesStep DEF Kept
    <2>7. Resolve(r) \/ Lookup(r) \/ Admit(r) \/ Finish(r) => info' = info
      BY ZenonT(60) DEF Resolve, Lookup, Admit, Finish
    <2>. QED
      BY ZenonT(60), <2>2, <2>3, <2>4, <2>5, <2>6, <2>7 DEF Serve
  <1>. SUFFICES ASSUME NEW q \in Requests, NEW u \in 0..MaxRev, NEW S \in SUBSET Versions,
                       info'[q].life \in {"building", "up"}, info'[q].uid = u, info'[q].serves = S
                PROVE  Current(u, S)' \/ Doomed(u, S)'
    BY ZenonT(60) DEF Fresh
  <1>4. (Current(u, S) <=> Current(u, S)') /\ (Doomed(u, S) <=> Doomed(u, S)')
    BY ZenonT(60), <1>1 DEF Current, Doomed
  <1>5. CASE q # r
    BY ZenonT(60), <1>2, <1>4, <1>5 DEF Fresh
  <1>6. CASE q = r
    BY <1>3, <1>4, <1>6 DEF Fresh, Current
  <1>. QED
    BY ZenonT(60), <1>5, <1>6

LEMMA FreshPreserved ==
    ASSUME Kept, Uids, Fresh, [Next]_vars
    PROVE  Fresh'
  <1>1. ASSUME UNCHANGED <<cache, queue, pruning, listed, info>> PROVE Fresh'
    <2>1. Pending' = Pending /\ cache' = cache /\ pruning' = pruning /\ listed' = listed /\ info' = info
      BY ZenonT(60), <1>1 DEF Pending
    <2>2. ASSUME NEW u, NEW S PROVE Current(u, S)' = Current(u, S) /\ Doomed(u, S)' = Doomed(u, S)
      BY ZenonT(60), <2>1 DEF Current, Doomed
    <2>. QED
      BY <2>1, <2>2 DEF Fresh
  <1>2. CASE Upstream
    BY <1>1, <1>2, UpstreamStep DEF Kept, informer, dead
  <1>3. ASSUME NEW n \in Names, Observe(n) PROVE Fresh'
    BY ZenonT(60), <1>3, ObserveKeepsFresh DEF Kept
  <1>4. CASE Finished \/ UNCHANGED vars
    <2>1. UNCHANGED vars
      BY <1>4, Zenon DEF Finished
    <2>. QED
      BY <2>1, <1>1 DEF vars, informer, dead
  <1>. QED
    BY ZenonT(60), <1>2, <1>3, <1>4, HandlerKeepsFresh, ServingKeepsFresh, Zenon DEF Next

-----------------------------------------------------------------------------
(* The theorems.                                                           *)

LEMMA Inductive ==
    /\ Init => ServingInv
    /\ ServingInv /\ [Next]_vars => ServingInv'
  <1>1. Init => ServingInv
    <2>1. Init => Fresh
      BY ZenonT(60), Fields DEF Init, Fresh
    <2>. QED
      BY <2>1, KeptAtFirst, UidsAtFirst DEF ServingInv, Kept
  <1>2. ServingInv /\ [Next]_vars => ServingInv'
    BY KeptPreserved, UidsPreserved, FreshPreserved DEF ServingInv, Kept
  <1>. QED
    BY <1>1, <1>2

LEMMA Invariance == Spec => []ServingInv
  BY Inductive, PTL DEF Spec

\* Storage is up exactly as long as the map has it: whichever requests build at
\* a time, the lock and the second look at the map leave none behind that
\* nobody would destroy (getOrCreateServingInfoFor, removeStorage_locked).
THEOREM StorageIsMapped == Spec => []NoStorageLost
  <1>1. ServingInv => NoStorageLost
    <2>1. \A r \in Requests : r # None
      BY ZenonT(60), ServingAssumption DEF None
    <2>. QED
      BY <2>1 DEF ServingInv, TypeOK, Storage, NoStorageLost
  <1>. QED
    BY <1>1, Invariance, PTL

\* No request runs on storage that was destroyed after its wait group had
\* drained (tearDown).
THEOREM NeverDestroyedUnder == Spec => []DrainedFirst
  <1>1. ServingInv => DrainedFirst
    BY ZenonT(60) DEF ServingInv, Handles, DrainedFirst
  <1>. QED
    BY <1>1, Invariance, PTL

\* Once the handler is done, all storage is of a definition the informer has and
\* of the spec it has, however definitions are deleted and created again and
\* storage is built in between (updateCustomResourceDefinition,
\* removeDeadStorage).
THEOREM NoStorageIsStale == Spec => []NothingStaleStays
  <1>1. ServingInv => NothingStaleStays
    <2>. SUFFICES ASSUME ServingInv, queue = <<>>, ~pruning, NEW u \in DOMAIN storageMap,
                         storageMap[u] # None
                  PROVE  \E n \in Names : cache[n].uid = u
                                          /\ cache[n].serves = info[storageMap[u]].serves
      BY ZenonT(60) DEF NothingStaleStays
    <2>1. u \in 1..MaxRev /\ storageMap[u] \in Requests /\ info[storageMap[u]] \in Infos
      BY ZenonT(60) DEF ServingInv, TypeOK
    <2>2. info[storageMap[u]].life = "up" /\ info[storageMap[u]].uid = u
      BY ZenonT(60), <2>1 DEF ServingInv, Storage
    <2>3. u \in 0..MaxRev /\ info[storageMap[u]].serves \in SUBSET Versions
      BY SMTT(60), <2>1, Fields
    <2>4. Current(u, info[storageMap[u]].serves) \/ Doomed(u, info[storageMap[u]].serves)
      BY ZenonT(60), <2>1, <2>2, <2>3 DEF ServingInv, Fresh
    <2>5. Pending = {}
      BY DEF Pending, Elements
    <2>. QED
      BY ZenonT(60), <2>4, <2>5 DEF Current, Doomed
  <1>. QED
    BY <1>1, Invariance, PTL

\* What was defined before the server started, and still is, is never answered
\* as missing: only once the informer has listed everything does ServeHTTP
\* delegate what it does not find.
THEOREM StartNeverMisses == Spec => PresentNeverMissing
  <1>1. ServingInv /\ [Next]_vars =>
          [\A r \in Requests :
            pc[r] = "new" /\ pc'[r] = "delegated" =>
                req'[r] = NoRequest \/ api[req'[r].name].uid # 1]_vars
    <2>. SUFFICES ASSUME ServingInv, Next, NEW r \in Requests, pc[r] = "new", pc'[r] = "delegated",
                         req'[r] # NoRequest
                  PROVE  api[req'[r].name].uid # 1
      BY ZenonT(60)
    <2>1. pc' # pc
      OBVIOUS
    <2>2. PICK q \in Requests : Resolve(q) \/ Serve(q) \/ TearDown(q)
      <3>1. Upstream => pc' = pc
        BY ZenonT(60), UpstreamStep DEF ServingInv
      <3>2. \A n \in Names : Observe(n) => pc' = pc
        BY Zenon DEF Observe
      <3>3. Handler => pc' = pc
        BY ZenonT(60), HandlerStep DEF ServingInv
      <3>4. Finished => pc' = pc
        <4>1. Finished => UNCHANGED vars
          BY ZenonT(60) DEF Finished
        <4>. QED
          BY ZenonT(60), <4>1 DEF vars
      <3>. QED
        BY ZenonT(60), <2>1, <3>1, <3>2, <3>3, <3>4, Zenon DEF Next
    <2>3. Resolve(q) /\ q = r
      <3>1. ASSUME Serve(q) \/ TearDown(q) PROVE pc[q] # "new" \/ pc' = pc
        BY ZenonT(60), <3>1 DEF Serve, Lookup, TakeLock, Build, BuildFails, Admit, Finish,
                    TearDown, StartWait, Drained, TimesOut, Lives
      <3>2. pc \in [Requests -> Labels]
        BY ZenonT(60) DEF ServingInv, TypeOK, Labels
      <3>3. Resolve(q) \/ Serve(q) \/ TearDown(q) => \A k \in Requests : k # q => pc'[k] = pc[k]
        BY ZenonT(60), <3>2 DEF Resolve, Serve, Goes, Lookup, TakeLock, Build, BuildFails, Admit, Finish,
                    TearDown, StartWait, Drained, TimesOut, Lives
      <3>. QED
        BY ZenonT(60), <2>1, <2>2, <3>1, <3>3
    <2>4. req'[r].name \in Names /\ cache[req'[r].name] = NoDef /\ HasSynced
      BY ZenonT(60), <2>3, ResolveStep DEF ServingInv
    <2>. QED
      BY <2>4, Fields DEF ServingInv, Uids, HasSynced
  <1>. QED
    BY <1>1, Invariance, PTL DEF Spec, PresentNeverMissing
===============================================================================
