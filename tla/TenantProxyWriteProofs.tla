----------------------- MODULE TenantProxyWriteProofs -----------------------
(***************************************************************************)
(* Theorems about the writes of tenantProxy, for any number of objects,    *)
(* keys, requests and revisions.                                           *)
(***************************************************************************)
EXTENDS TenantProxyWrite, FiniteSetTheorems, TLAPS

-----------------------------------------------------------------------------
(* The inductive invariant.                                                *)

\* Revisions are issued in order, and what exists is of some incarnation.
Issued ==
    \A n \in Names : /\ obj[n].rv <= rev
                     /\ obj[n].rv # 0 => obj[n].uid # 0

\* A request as Begin made it, and the version it names: the object has moved
\* on from it or still is what the client had read.
Asked(c) ==
    pc[c] # "idle" =>
        /\ req[c] \in Requests
        /\ req[c].rv <= rev
        /\ req[c].rv # 0 => req[c].verb \in Versioned
        /\ req[c].verb = "put" /\ req[c].rv = 0 => "put" \in Unversioned
        /\ req[c].hidden # 0 => Supplies
        /\ obj[req[c].name].rv # 0 => req[c].rv <= obj[req[c].name].rv
        /\ req[c].rv # 0 /\ obj[req[c].name].rv = req[c].rv =>
               obj[req[c].name].data = req[c].data

\* What readForUpdate returned is the object as it is, or as it was at an
\* earlier revision, but no earlier than the one the request names.
ReadBack(c) ==
    /\ pc[c] \in {"idle", "count", "post"} => old[c].rv = 0
    /\ pc[c] = "send" =>
           /\ old[c].rv # 0 /\ req[c].rv <= old[c].rv
           /\ obj[req[c].name].rv # 0 => old[c].rv <= obj[req[c].name].rv
           /\ obj[req[c].name].rv = old[c].rv => obj[req[c].name] = old[c]
    /\ old[c].rv <= rev

\* Nothing a tenant submitted for the hidden key is kept, where it is dropped
\* or never submitted.
Clean ==
    Custom \/ ~Supplies =>
        /\ \A n \in Names : obj[n].hidden # Supplied
        /\ \A c \in Clients : old[c].hidden # Supplied

WriteInv ==
    /\ TypeOK
    /\ Issued
    /\ \A c \in Clients : Asked(c) /\ ReadBack(c)
    /\ Clean

-----------------------------------------------------------------------------
(* Steps in general.                                                       *)

\* The request d is where it was, with what it had.
Stays(d) == pc'[d] = pc[d] /\ req'[d] = req[d] /\ old'[d] = old[d]

\* The request d has been answered.
Answers(d) == pc'[d] = "idle" /\ old'[d] = Absent

LEMMA AbsentFacts ==
    /\ Absent \in Objects
    /\ Absent.rv = 0 /\ Absent.uid = 0 /\ Absent.hidden = 0
    /\ Absent.data \in [Keys -> Nat]
  BY DEF Absent, Objects

\* An object is written or removed at the next revision, while every request
\* stays or is answered.
LEMMA WriteStep ==
    ASSUME WriteInv, TypeOK',
           NEW n \in Names, NEW o \in Objects,
           obj' = [obj EXCEPT ![n] = o],
           rev' = rev + 1,
           o = Absent \/ (o.rv = rev + 1 /\ o.uid # 0),
           Custom \/ ~Supplies => o.hidden # Supplied,
           \A d \in Clients : Stays(d) \/ Answers(d)
    PROVE  WriteInv'
<1>1. /\ rev \in Nat
      /\ obj \in [Names -> Objects] /\ old \in [Clients -> Objects]
      /\ obj'[n] = o /\ \A m \in Names \ {n} : obj'[m] = obj[m]
      /\ \A m \in Names : obj[m] \in Objects /\ obj'[m] \in Objects /\ obj[m].rv \in Nat
      /\ \A c \in Clients : old[c] \in Objects /\ old[c].rv \in Nat
  BY DEF WriteInv, TypeOK, Objects
<1>2. Issued'
  BY <1>1, AbsentFacts DEF Issued, WriteInv, Objects
<1>3. ASSUME NEW c \in Clients  PROVE Asked(c)'
  <2>1. CASE Answers(c)
    BY <2>1 DEF Asked, Answers
  <2>2. CASE Stays(c) /\ pc[c] # "idle"
    <3>1. /\ req[c] \in Requests /\ req[c].name \in Names /\ req[c].rv \in Nat
          /\ req'[c] = req[c]
      BY SMTT(60), <2>2 DEF WriteInv, Asked, Stays, Requests
    <3>2. CASE req[c].name = n
      BY SMTT(60), <1>1, <2>2, <3>1, <3>2, AbsentFacts DEF Asked, WriteInv, Stays
    <3>3. CASE req[c].name # n
      BY <1>1, <2>2, <3>1, <3>3 DEF Asked, WriteInv, Stays
    <3>. QED  BY <3>2, <3>3
  <2>3. CASE Stays(c) /\ pc[c] = "idle"
    BY <2>3 DEF Asked, Stays
  <2>. QED  BY <2>1, <2>2, <2>3
<1>4. ASSUME NEW c \in Clients  PROVE ReadBack(c)'
  <2>1. CASE Answers(c)
    BY SMTT(60), <1>1, <2>1, AbsentFacts DEF ReadBack, Answers
  <2>2. CASE Stays(c) /\ pc[c] # "send"
    BY <1>1, <2>2 DEF ReadBack, Stays, WriteInv
  <2>3. CASE Stays(c) /\ pc[c] = "send"
    <3>1. /\ req[c] \in Requests /\ req[c].name \in Names /\ req[c].rv \in Nat
          /\ req'[c] = req[c] /\ pc[c] = "send" /\ pc'[c] = "send" /\ old'[c] = old[c]
          /\ ReadBack(c) /\ old[c].rv \in Nat
      BY <1>1, <2>3 DEF WriteInv, Asked, Stays, Requests
    <3>2. obj'[req[c].name] = obj[req[c].name] \/ obj'[req[c].name] = o
      BY <1>1, <3>1
    <3>3. o.rv = 0 \/ o.rv = rev + 1
      BY SMTT(60), AbsentFacts
    <3>4. CASE obj'[req[c].name] = obj[req[c].name]
      BY SMTT(60), <1>1, <3>1, <3>4 DEF ReadBack
    <3>5. CASE obj'[req[c].name] = o
      BY <1>1, <3>1, <3>3, <3>5 DEF ReadBack
    <3>. QED  BY SMTT(60), <3>2, <3>4, <3>5
  <2>. QED  BY <2>1, <2>2, <2>3
<1>5. Clean'
  <2>1. \A c \in Clients : old'[c] \in {old[c], Absent}
    BY DEF Stays, Answers
  <2>. QED  BY <1>1, <2>1, AbsentFacts DEF Clean, WriteInv, Supplied
<1>. QED  BY <1>2, <1>3, <1>4, <1>5 DEF WriteInv

\* Upstream is left alone, and one request moves.
LEMMA OwnStep ==
    ASSUME WriteInv, TypeOK', NEW c \in Clients,
           UNCHANGED <<obj, rev>>,
           \A d \in Clients \ {c} : Stays(d),
           Asked(c)', ReadBack(c)',
           old'[c] = Absent \/ old'[c] = old[c] \/ \E n \in Names : old'[c] = obj[n]
    PROVE  WriteInv'
<1>1. Issued'
  BY SMTT(60) DEF WriteInv, Issued
<1>2. ASSUME NEW d \in Clients \ {c}  PROVE Asked(d)' /\ ReadBack(d)'
  BY DEF WriteInv, Stays, Asked, ReadBack
<1>3. Clean'
  <2>1. \A d \in Clients \ {c} : old'[d] = old[d]
    BY DEF Stays
  <2>. QED  BY <2>1, AbsentFacts DEF WriteInv, Clean, Supplied
<1>. QED  BY <1>1, <1>2, <1>3 DEF WriteInv

Places == {"idle", "read", "count", "post", "send", "delete", "list", "each"}

\* What Goto does to a request and to the others.
LEMMA GotoFacts ==
    ASSUME TypeOK, NEW c \in Clients, NEW l \in Places, Goto(c, l)
    PROVE  /\ pc' \in [Clients -> Places]
           /\ req' \in [Clients -> Requests \cup {NoRequest}]
           /\ old' \in [Clients -> Objects]
           /\ rest' \in [Clients -> SUBSET Names]
           /\ \A d \in Clients \ {c} : Stays(d)
           /\ pc'[c] = l
           /\ l = "idle" => Answers(c)
           /\ l # "idle" => req'[c] = req[c] /\ old'[c] = old[c]
<1>1. CASE l = "idle"
  BY <1>1, AbsentFacts DEF Goto, Returns, TypeOK, Stays, Answers, Places
<1>2. CASE l # "idle"
  BY <1>2 DEF Goto, Moves, TypeOK, Stays, Places
<1>. QED  BY <1>1, <1>2

\* A step that changes nothing but the place of a request, and the number of
\* requests that could not be counted for.
LEMMA Relocates ==
    ASSUME WriteInv, NEW c \in Clients, pc[c] # "idle",
           NEW l \in {"idle", "read", "post"},
           pc[c] = "count" \/ l # "post",
           Goto(c, l),
           UNCHANGED <<obj, rev, calls>>, uncounted' \in Nat
    PROVE  WriteInv'
<1>1. TypeOK /\ Asked(c) /\ ReadBack(c) /\ l \in Places
  BY DEF WriteInv, Places
<1>2. TypeOK'
  BY SMTT(60), <1>1, GotoFacts DEF TypeOK, Places
<1>3. Asked(c)'
  BY <1>1, GotoFacts DEF Asked, Answers
<1>4. ReadBack(c)'
  <2>1. rev \in Nat
    BY SMTT(60), <1>1 DEF TypeOK
  <2>2. CASE l = "idle"
    BY SMTT(60), <1>1, <2>1, <2>2, GotoFacts, AbsentFacts DEF ReadBack, Answers
  <2>3. CASE l # "idle"
    BY SMTT(60), <1>1, <2>3, GotoFacts DEF ReadBack
  <2>. QED  BY <2>2, <2>3
<1>5. \A d \in Clients \ {c} : Stays(d)
  BY <1>1, GotoFacts
<1>6. old'[c] = Absent \/ old'[c] = old[c]
  BY <1>1, GotoFacts DEF Answers
<1>. QED  BY <1>2, <1>3, <1>4, <1>5, <1>6, OwnStep

-----------------------------------------------------------------------------
(* Each step keeps the invariant.                                          *)

LEMMA InvInit == Init => WriteInv
<1>. SUFFICES ASSUME Init  PROVE WriteInv
  OBVIOUS
<1>1. TypeOK
  BY AbsentFacts DEF Init, TypeOK
<1>2. Issued
  BY AbsentFacts DEF Init, Issued
<1>3. \A c \in Clients : Asked(c) /\ ReadBack(c)
  BY AbsentFacts DEF Init, Asked, ReadBack
<1>4. Clean
  BY AbsentFacts DEF Init, Clean, Supplied
<1>. QED  BY <1>1, <1>2, <1>3, <1>4 DEF WriteInv

\* Begin, of one verb, name and key.
BeganAs(c, v, names, supplies, n, k) ==
    /\ pc[c] = "idle" /\ calls < MaxCalls
    /\ v \in (IF names THEN Versioned ELSE Unversioned)
    /\ supplies => v \in {"create", "put", "patch"}
    /\ v \in {"put", "patch"} => n \in Existing
    /\ calls' = calls + 1
    /\ req' = [req EXCEPT ![c] =
                [verb |-> v, name |-> n, key |-> k,
                 rv |-> IF names THEN obj[n].rv ELSE 0,
                 data |-> IF v \in {"put", "patch"} THEN obj[n].data ELSE Absent.data,
                 hidden |-> IF supplies THEN Supplied ELSE 0]]
    /\ pc' = [pc EXCEPT ![c] = CASE v = "create"           -> "count"
                                 [] v = "delete"           -> "delete"
                                 [] v = "deletecollection" -> "list"
                                 [] OTHER                  -> "read"]
    /\ UNCHANGED <<obj, rev, old, rest, uncounted>>

LEMMA BeginPick ==
    ASSUME NEW c \in Clients, Begin(c)
    PROVE  \E v \in Verbs, names \in BOOLEAN, supplies \in {FALSE, Supplies},
              n \in Names, k \in Keys : BeganAs(c, v, names, supplies, n, k)
<1>1. \A v \in Verbs : Named(v) \subseteq Names /\ Keyed(v) \subseteq Keys
  BY WriteAssumption DEF Named, Keyed
<1>2. \E v \in Verbs, names \in BOOLEAN, supplies \in {FALSE, Supplies} :
      \E n \in Named(v), k \in Keyed(v) : BeganAs(c, v, names, supplies, n, k)
  BY Zenon DEF Begin, BeganAs
<1>. QED  BY Zenon, <1>1, <1>2

LEMMA InvBegin ==
    ASSUME WriteInv, NEW c \in Clients, Begin(c)
    PROVE  WriteInv'
<1>1. PICK v \in Verbs, names \in BOOLEAN, supplies \in {FALSE, Supplies},
           n \in Names, k \in Keys : BeganAs(c, v, names, supplies, n, k)
  BY Zenon, BeginPick
<1>. USE DEF BeganAs
<1>3. /\ UNCHANGED <<obj, rev, old, rest, uncounted>>
      /\ pc'[c] \in {"count", "delete", "list", "read"}
      /\ pc'[c] = "count" => v = "create"
      /\ \A d \in Clients \ {c} : Stays(d)
      /\ pc' \in [Clients -> Places]
  BY <1>1 DEF WriteInv, TypeOK, Stays, Places
<1>4. /\ obj[n] \in Objects /\ obj[n].rv \in Nat /\ obj[n].data \in [Keys -> Nat]
      /\ obj[n].rv <= rev /\ rev \in Nat
  BY DEF WriteInv, TypeOK, Objects, Issued
<1>5. /\ req'[c].verb = v /\ req'[c].name = n /\ req'[c].key = k
      /\ req'[c].rv = (IF names THEN obj[n].rv ELSE 0)
      /\ req'[c].data = (IF v \in {"put", "patch"} THEN obj[n].data ELSE Absent.data)
      /\ req'[c].hidden = (IF supplies THEN Supplied ELSE 0)
      /\ req'[c] \in Requests
  BY <1>1, <1>4, AbsentFacts, WriteAssumption DEF WriteInv, TypeOK, Requests
<1>6. TypeOK'
  BY SMTT(60), <1>1, <1>3, <1>5 DEF WriteInv, TypeOK, Places
<1>7. Asked(c)'
  <2>1. req'[c].rv # 0 => v \in Versioned /\ v \in {"put", "patch"} /\ req'[c].rv = obj[n].rv
    BY <1>1, <1>5, WriteAssumption
  <2>2. req'[c].verb = "put" /\ req'[c].rv = 0 => "put" \in Unversioned
    BY <1>1, <1>4, <1>5 DEF Existing
  <2>3. req'[c].hidden # 0 => Supplies
    <3>1. supplies => Supplies
      BY Zenon
    <3>. QED  BY Zenon, <1>5, <3>1
  <2>4. req'[c].rv <= rev /\ req'[c].rv <= obj[n].rv
    BY <1>4, <1>5
  <2>. QED  BY <1>3, <1>5, <2>1, <2>2, <2>3, <2>4 DEF Asked
<1>8. ReadBack(c)'
  BY <1>1, <1>3 DEF WriteInv, ReadBack
<1>. QED  BY <1>3, <1>6, <1>7, <1>8, OwnStep

\* A request stores an object and is answered.
LEMMA InvStore ==
    ASSUME WriteInv, NEW c \in Clients, NEW n \in Names, NEW o \in Objects,
           o.uid # 0, Custom \/ ~Supplies => o.hidden # Supplied,
           Store(n, o), Goto(c, "idle"), UNCHANGED <<calls, uncounted>>
    PROVE  WriteInv'
<1>. DEFINE w == [o EXCEPT !.rv = rev + 1]
<1>1. TypeOK /\ rev \in Nat
  BY DEF WriteInv, TypeOK
<1>2. w \in Objects /\ w.rv = rev + 1 /\ w.uid = o.uid /\ w.hidden = o.hidden
  BY <1>1 DEF Objects
<1>3. obj' = [obj EXCEPT ![n] = w] /\ rev' = rev + 1
  BY DEF Store
<1>. HIDE DEF w
<1>4. \A d \in Clients : Stays(d) \/ Answers(d)
  BY <1>1, GotoFacts DEF Places
<1>5. TypeOK'
  <2>1. obj' \in [Names -> Objects] /\ rev' \in Nat
    BY <1>1, <1>2, <1>3 DEF TypeOK
  <2>2. /\ pc' \in [Clients -> Places] /\ req' \in [Clients -> Requests \cup {NoRequest}]
        /\ old' \in [Clients -> Objects] /\ rest' \in [Clients -> SUBSET Names]
    BY <1>1, GotoFacts DEF Places
  <2>. QED  BY <1>1, <2>1, <2>2 DEF TypeOK, Places
<1>. QED  BY ZenonT(60), <1>2, <1>3, <1>4, <1>5, WriteStep

\* An object is removed, and its request answered or gone on with.
LEMMA InvRemove ==
    ASSUME WriteInv, NEW n \in Names, Remove(n),
           pc' \in [Clients -> Places],
           req' \in [Clients -> Requests \cup {NoRequest}],
           old' \in [Clients -> Objects],
           rest' \in [Clients -> SUBSET Names],
           \A d \in Clients : Stays(d) \/ Answers(d),
           UNCHANGED <<calls, uncounted>>
    PROVE  WriteInv'
<1>1. obj' = [obj EXCEPT ![n] = Absent] /\ rev' = rev + 1
  BY DEF Remove
<1>2. TypeOK'
  BY <1>1, AbsentFacts DEF WriteInv, TypeOK, Places
<1>3. Custom \/ ~Supplies => Absent.hidden # Supplied
  BY AbsentFacts DEF Supplied
<1>. QED  BY ZenonT(60), <1>1, <1>2, <1>3, AbsentFacts, WriteStep

LEMMA InvRead ==
    ASSUME WriteInv, NEW c \in Clients, ReadFound(c) \/ ReadMissing(c)
    PROVE  WriteInv'
<1>1. /\ TypeOK /\ Asked(c) /\ ReadBack(c) /\ Issued /\ pc[c] = "read"
      /\ UNCHANGED <<obj, rev, calls, uncounted>>
  BY DEF WriteInv, ReadFound, ReadMissing
<1>2. /\ req[c] \in Requests /\ req[c].name \in Names /\ req[c].rv \in Nat
      /\ obj[req[c].name] \in Objects /\ obj[req[c].name].rv \in Nat /\ rev \in Nat
  BY <1>1 DEF Asked, TypeOK, Requests, Objects
<1>3. CASE ReadFound(c)
  <2>1. /\ pc' = [pc EXCEPT ![c] = "send"] /\ UNCHANGED <<req, rest>>
        /\ old' = [old EXCEPT ![c] = obj[req[c].name]]
        /\ obj[req[c].name].rv # 0
    BY <1>2, <1>3 DEF ReadFound, Existing
  <2>2. /\ \A d \in Clients \ {c} : Stays(d)
        /\ pc'[c] = "send" /\ old'[c] = obj[req[c].name] /\ req'[c] = req[c]
    BY <1>1, <2>1 DEF TypeOK, Stays
  <2>3. TypeOK'
    BY SMTT(60), <1>1, <1>2, <2>1 DEF TypeOK
  <2>4. Asked(c)'
    BY SMTT(60), <1>1, <2>2 DEF Asked
  <2>5. ReadBack(c)'
    BY SMTT(60), <1>1, <1>2, <2>1, <2>2 DEF ReadBack, Asked, Issued
  <2>. QED  BY SMTT(60), <1>1, <1>2, <2>2, <2>3, <2>4, <2>5, OwnStep
<1>4. CASE ReadMissing(c) /\ req[c].verb = "apply"
  <2>1. /\ pc' = [pc EXCEPT ![c] = "count"] /\ UNCHANGED <<req, rest>>
        /\ old' = [old EXCEPT ![c] = Absent]
    BY <1>4 DEF ReadMissing
  <2>2. /\ \A d \in Clients \ {c} : Stays(d)
        /\ pc'[c] = "count" /\ old'[c] = Absent /\ req'[c] = req[c]
    BY SMTT(60), <1>1, <2>1 DEF TypeOK, Stays
  <2>3. TypeOK'
    BY SMTT(60), <1>1, <2>1, AbsentFacts DEF TypeOK
  <2>4. Asked(c)'
    BY SMTT(60), <1>1, <2>2 DEF Asked
  <2>5. ReadBack(c)'
    BY <1>1, <1>2, <2>2, AbsentFacts DEF ReadBack
  <2>. QED  BY SMTT(60), <1>1, <2>2, <2>3, <2>4, <2>5, OwnStep
<1>5. CASE ReadMissing(c) /\ req[c].verb # "apply"
  <2>1. Goto(c, "idle") /\ uncounted' \in Nat
    BY <1>1, <1>5 DEF ReadMissing, Goto, TypeOK
  <2>. QED  BY <1>1, <2>1, Relocates
<1>. QED  BY <1>3, <1>4, <1>5

LEMMA InvRelocates ==
    ASSUME WriteInv, NEW c \in Clients,
           \/ Fails(c) \/ Count(c) \/ CountFails(c) \/ PostExists(c)
           \/ SendConflict(c) \/ DeletedAll(c)
    PROVE  WriteInv'
<1>1. uncounted \in Nat /\ uncounted + 1 \in Nat
  BY DEF WriteInv, TypeOK
<1>2. /\ pc[c] # "idle" /\ UNCHANGED <<obj, rev, calls>>
      /\ uncounted' \in {uncounted, uncounted + 1}
      /\ \/ Goto(c, "idle")
         \/ Goto(c, "read")
         \/ pc[c] = "count" /\ Goto(c, "post")
  BY DEF Fails, Count, CountFails, PostExists, SendConflict, DeletedAll
<1>. QED  BY <1>1, <1>2, Relocates

LEMMA InvWrites ==
    ASSUME WriteInv, NEW c \in Clients,
           PostCreate(c) \/ ForwardApply(c) \/ SendUpdate(c)
    PROVE  WriteInv'
<1>. DEFINE n == req[c].name
            k == req[c].key
<1>1. /\ pc[c] \in {"post", "send"} /\ Goto(c, "idle") /\ UNCHANGED <<calls, uncounted>>
      /\ TypeOK /\ Asked(c) /\ ReadBack(c) /\ Issued /\ Clean
  BY SMTT(60) DEF WriteInv, PostCreate, ForwardApply, SendUpdate
<1>2. /\ req[c] \in Requests /\ n \in Names /\ k \in Keys
      /\ req[c].hidden \in {0, Supplied} /\ req[c].data \in [Keys -> Nat]
      /\ obj[n] \in Objects /\ old[c] \in Objects /\ rev \in Nat /\ rev + 1 \in Nat
  BY <1>1 DEF Asked, TypeOK, Requests
<1>3. /\ CreatedHidden(c) \in Nat \cup {Supplied}
      /\ Custom \/ ~Supplies => CreatedHidden(c) # Supplied
  <2>1. ~Supplies => req[c].hidden = 0
    BY ZenonT(60), <1>1 DEF Asked
  <2>. QED  BY <1>2, <2>1 DEF CreatedHidden, Supplied
<1>4. ASSUME Store(n, NewObject([Absent.data EXCEPT ![k] = rev + 1], CreatedHidden(c)))
      PROVE  WriteInv'
  <2>1. [Absent.data EXCEPT ![k] = rev + 1] \in [Keys -> Nat]
    BY SMTT(60), <1>2, AbsentFacts
  <2>. DEFINE o == NewObject([Absent.data EXCEPT ![k] = rev + 1], CreatedHidden(c))
  <2>2. o \in Objects /\ o.uid # 0 /\ o.hidden = CreatedHidden(c)
    BY <1>2, <1>3, <2>1 DEF NewObject, Objects
  <2>. HIDE DEF o
  <2>3. Store(n, o)
    BY SMTT(60), <1>4 DEF o
  <2>. HIDE DEF n
  <2>. QED  BY SMTT(60), <1>1, <1>2, <1>3, <2>2, <2>3, InvStore
<1>5. CASE PostCreate(c)
  BY <1>4, <1>5 DEF PostCreate
<1>6. CASE ForwardApply(c)
  <2>1. CASE n \notin Existing
    BY SMTT(60), <1>4, <1>6, <2>1 DEF ForwardApply, MergeApply
  <2>2. CASE n \in Existing
    <3>. DEFINE o == [obj[n] EXCEPT !.data[k] = rev + 1]
    <3>1. o \in Objects /\ o.uid = obj[n].uid /\ o.hidden = obj[n].hidden
      BY SMTT(60), <1>2 DEF Objects
    <3>2. obj[n].uid # 0 /\ (Custom \/ ~Supplies => obj[n].hidden # Supplied)
      BY <1>1, <1>2, <2>2 DEF Existing, Issued, Clean
    <3>3. Store(n, o)
      BY SMTT(60), <1>6, <2>2 DEF ForwardApply, MergeApply
    <3>. HIDE DEF o, n
    <3>. QED  BY SMTT(60), <1>1, <1>2, <3>1, <3>2, <3>3, InvStore
  <2>. QED  BY <2>1, <2>2
<1>7. CASE SendUpdate(c)
  <2>1. SentData(c) \in [Keys -> Nat]
    BY <1>2 DEF SentData, Objects
  <2>2. SentHidden(c) \in Nat \cup {Supplied}
    BY <1>2 DEF SentHidden, Objects
  <2>. DEFINE o == [obj[n] EXCEPT !.data = SentData(c), !.hidden = SentHidden(c)]
  <2>3. o \in Objects /\ o.uid = obj[n].uid /\ o.hidden = SentHidden(c)
    BY ZenonT(60), <1>2, <2>1, <2>2 DEF Objects
  <2>4. obj[n].uid # 0 /\ (Custom \/ ~Supplies => SentHidden(c) # Supplied)
    BY <1>1, <1>2, <1>7 DEF SendUpdate, Existing, Issued, Clean, SentHidden
  <2>5. Store(n, o)
    BY <1>7 DEF SendUpdate
  <2>. HIDE DEF o, n
  <2>. QED  BY SMTT(60), <1>1, <1>2, <2>3, <2>4, <2>5, InvStore
<1>. QED  BY <1>5, <1>6, <1>7

LEMMA InvDeletes ==
    ASSUME WriteInv, NEW c \in Clients,
           Delete(c) \/ ListCollection(c) \/ DeleteEach(c)
    PROVE  WriteInv'
<1>1. TypeOK /\ Asked(c) /\ ReadBack(c)
  BY DEF WriteInv
<1>2. CASE Delete(c)
  <2>1. /\ req[c].name \in Names /\ Remove(req[c].name) /\ Goto(c, "idle")
        /\ UNCHANGED <<calls, uncounted>>
    BY SMTT(60), <1>1, <1>2 DEF Delete, Asked, Requests
  <2>2. /\ pc' \in [Clients -> Places] /\ req' \in [Clients -> Requests \cup {NoRequest}]
        /\ old' \in [Clients -> Objects] /\ rest' \in [Clients -> SUBSET Names]
        /\ \A d \in Clients : Stays(d) \/ Answers(d)
    BY SMTT(60), <1>1, <2>1, GotoFacts DEF Places
  <2>. QED  BY SMTT(60), <2>1, <2>2, InvRemove
<1>3. CASE ListCollection(c)
  <2>1. /\ UNCHANGED <<obj, rev, calls, req, old, uncounted>> /\ pc[c] = "list"
        /\ pc' = [pc EXCEPT ![c] = "each"]
        /\ rest' = [rest EXCEPT ![c] = Existing]
    BY <1>3 DEF ListCollection
  <2>2. /\ pc'[c] = "each"
        /\ \A d \in Clients \ {c} : Stays(d)
    BY <1>1, <2>1 DEF Stays, TypeOK
  <2>3. TypeOK'
    BY SMTT(60), <1>1, <2>1 DEF TypeOK, Existing
  <2>4. Asked(c)' /\ ReadBack(c)'
    BY <1>1, <2>1, <2>2 DEF Asked, ReadBack
  <2>. QED  BY <2>1, <2>2, <2>3, <2>4, OwnStep
<1>4. CASE DeleteEach(c)
  <2>1. PICK n \in rest[c] \cap Existing :
           /\ Remove(n)
           /\ rest' = [rest EXCEPT ![c] = @ \ {n}]
           /\ UNCHANGED <<calls, pc, req, old, uncounted>>
    BY ZenonT(60), <1>4 DEF DeleteEach
  <2>2. n \in Names
    BY DEF Existing
  <2>3. /\ pc' \in [Clients -> Places] /\ req' \in [Clients -> Requests \cup {NoRequest}]
        /\ old' \in [Clients -> Objects] /\ rest' \in [Clients -> SUBSET Names]
        /\ \A d \in Clients : Stays(d)
    BY <1>1, <2>1 DEF TypeOK, Places, Stays
  <2>. QED  BY <2>1, <2>2, <2>3, InvRemove
<1>. QED  BY <1>2, <1>3, <1>4

LEMMA InvPlatform ==
    ASSUME WriteInv, NEW n \in Names, PlatformWrite(n)
    PROVE  WriteInv'
<1>. DEFINE w == [[obj[n] EXCEPT !.hidden = rev + 1] EXCEPT !.rv = rev + 1]
<1>1. /\ TypeOK /\ Issued /\ rev \in Nat /\ obj[n] \in Objects /\ obj[n].rv # 0
      /\ UNCHANGED <<calls, pc, req, old, rest, uncounted>>
  BY DEF WriteInv, TypeOK, PlatformWrite, Existing
<1>2. /\ w \in Objects /\ w.rv = rev + 1 /\ w.uid # 0 /\ w.hidden # Supplied
  <2>1. obj[n].uid # 0
    BY <1>1 DEF Issued
  <2>2. w \in Objects /\ w.rv = rev + 1 /\ w.uid = obj[n].uid /\ w.hidden = rev + 1
    <3>. DEFINE o == [obj[n] EXCEPT !.hidden = rev + 1]
    <3>1. rev + 1 \in Nat
      BY <1>1
    <3>2. o \in Objects /\ o.uid = obj[n].uid /\ o.hidden = rev + 1
      BY <1>1, <3>1 DEF Objects
    <3>. HIDE DEF o
    <3>3. w = [o EXCEPT !.rv = rev + 1]
      BY DEF o
    <3>. HIDE DEF w
    <3>. QED  BY SMTT(60), <3>1, <3>2, <3>3 DEF Objects
  <2>3. rev + 1 # Supplied
    BY <1>1 DEF Supplied
  <2>. QED  BY Zenon, <2>1, <2>2, <2>3
<1>3. obj' = [obj EXCEPT ![n] = w] /\ rev' = rev + 1
  BY DEF PlatformWrite, Store
<1>. HIDE DEF w
<1>4. \A d \in Clients : Stays(d)
  BY <1>1 DEF Stays
<1>5. TypeOK'
  BY <1>1, <1>2, <1>3 DEF TypeOK
<1>. QED  BY ZenonT(60), <1>2, <1>3, <1>4, <1>5, WriteStep

\* The invariant is inductive.
LEMMA InvNext == WriteInv /\ [Next]_vars => WriteInv'
<1>. SUFFICES ASSUME WriteInv, [Next]_vars  PROVE WriteInv'
  BY SMTT(60)
<1>1. CASE UNCHANGED vars
  BY <1>1 DEF vars, WriteInv, TypeOK, Issued, Asked, ReadBack, Clean, Existing
<1>2. ASSUME NEW c \in Clients, Begin(c)  PROVE WriteInv'
  BY <1>2, InvBegin
<1>3. ASSUME NEW c \in Clients, RequestStep(c)  PROVE WriteInv'
  BY Zenon, <1>3, InvRelocates, InvRead, InvWrites, InvDeletes DEF RequestStep
<1>4. ASSUME NEW n \in Names, PlatformWrite(n)  PROVE WriteInv'
  BY <1>4, InvPlatform
<1>5. CASE Finished
  BY <1>1, <1>5 DEF Finished
<1>. QED  BY Zenon, <1>1, <1>2, <1>3, <1>4, <1>5 DEF Next

LEMMA Invariance == Spec => []WriteInv
  BY InvInit, InvNext, PTL DEF Spec

-----------------------------------------------------------------------------
(* What it gives.                                                          *)

\* No hidden key is one a tenant submitted, for a custom resource (Create sends
\* the object that Restore has seen) and where tenants submit none.
THEOREM HiddenKeysAreThePlatforms == Custom \/ ~Supplies => (Spec => []HiddenIsPlatforms)
<1>. SUFFICES ASSUME Custom \/ ~Supplies  PROVE Spec => []HiddenIsPlatforms
  OBVIOUS
<1>1. WriteInv => HiddenIsPlatforms
  BY DEF WriteInv, Clean, HiddenIsPlatforms
<1>. QED  BY <1>1, Invariance, PTL

\* A step of one request leaves the places of the others.
LEMMA OthersStay ==
    ASSUME WriteInv, NEW d \in Clients, Begin(d) \/ RequestStep(d),
           NEW c \in Clients, c # d
    PROVE  pc'[c] = pc[c]
<1>1. pc \in [Clients -> Places]
  BY DEF WriteInv, TypeOK, Places
<1>2. UNCHANGED pc \/ \E l : pc' = [pc EXCEPT ![d] = l]
  <2>1. \A l : Goto(d, l) => \E m : pc' = [pc EXCEPT ![d] = m]
    BY Zenon DEF Goto, Returns, Moves
  <2>2. CASE Begin(d)
    BY ZenonT(60), <2>2 DEF Begin
  <2>3. CASE RequestStep(d)
    BY Zenon, <2>1, <2>3
       DEF RequestStep, Fails, ReadFound, ReadMissing, Count, CountFails, PostCreate,
           PostExists, ForwardApply, SendUpdate, SendConflict, Delete, ListCollection,
           DeleteEach, DeletedAll, Returns
  <2>. QED  BY <2>2, <2>3
<1>. QED  BY <1>1, <1>2

\* The step that answers a request that was about to write is its own.
LEMMA OwnMove ==
    ASSUME WriteInv, [Next]_vars, NEW c \in Clients,
           pc[c] \in {"post", "send"}, pc'[c] # pc[c]
    PROVE  \/ Fails(c) \/ PostCreate(c) \/ PostExists(c) \/ ForwardApply(c)
           \/ SendUpdate(c) \/ SendConflict(c)
<1>1. ~UNCHANGED vars /\ ~Finished /\ \A n \in Names : ~PlatformWrite(n)
  BY DEF vars, Finished, PlatformWrite
<1>2. PICK d \in Clients : Begin(d) \/ RequestStep(d)
  BY Zenon, <1>1 DEF Next
<1>3. d = c
  BY <1>2, OthersStay
<1>4. ~Begin(c)
  BY SMTT(60) DEF Begin
<1>. QED  BY <1>2, <1>3, <1>4
             DEF RequestStep, ReadFound, ReadMissing, Count, CountFails, Delete,
                 ListCollection, DeleteEach, DeletedAll

\* An update that names a version and is accepted was made of the object it
\* replaces.
LEMMA UpToDate ==
    ASSUME WriteInv, NEW c \in Clients, SendUpdate(c), SentVersion(c) # 0
    PROVE  /\ old[c] = obj[req[c].name]
           /\ req[c].verb = "put" => req[c].data = obj[req[c].name].data
<1>1. /\ pc[c] = "send" /\ Asked(c) /\ ReadBack(c)
      /\ SentVersion(c) = obj[req[c].name].rv
  BY SMTT(60) DEF WriteInv, SendUpdate
<1>2. /\ req[c].rv \in Nat /\ obj[req[c].name].rv \in Nat /\ old[c].rv \in Nat
  BY SMTT(60), <1>1 DEF WriteInv, Asked, TypeOK, Requests, Objects
<1>3. obj[req[c].name].rv = old[c].rv
  BY <1>1, <1>2 DEF SentVersion, ReadBack
<1>. QED  BY <1>1, <1>3 DEF ReadBack, Asked, SentVersion

\* A patch, an apply, and a put that names the version it read change the key
\* they are about and nothing else: guaranteedUpdate is atomic to everybody
\* else, however many requests there are.
THEOREM WritesOnlyItsKey == Spec => OnlyItsKey
<1>1. ASSUME WriteInv, [Next]_vars, NEW c \in Clients, Overwrites(c),
             req[c].verb = "put" => req[c].rv # 0,
             NEW k \in Keys \ {req[c].key}
      PROVE  obj'[req[c].name].data[k] = obj[req[c].name].data[k]
  <2>. DEFINE n == req[c].name
  <2>1. /\ TypeOK /\ Asked(c) /\ pc[c] \in {"post", "send"} /\ pc'[c] = "idle"
        /\ obj'[n] # obj[n] /\ obj[n].rv # 0
    BY SMTT(60), <1>1 DEF WriteInv, Overwrites
  <2>2. /\ n \in Names /\ req[c].key \in Keys /\ obj[n] \in Objects
        /\ old[c] \in Objects /\ req[c].data \in [Keys -> Nat] /\ rev \in Nat
    BY SMTT(60), <2>1 DEF TypeOK, Asked, Requests
  <2>3. ForwardApply(c) \/ SendUpdate(c)
    <3>1. ~Fails(c) /\ ~PostExists(c) /\ ~SendConflict(c)
      BY SMTT(60), <2>1 DEF Fails, PostExists, SendConflict
    <3>2. ~PostCreate(c)
      BY <2>1, <2>2 DEF PostCreate, Existing
    <3>. QED  BY SMTT(60), <1>1, <2>1, <3>1, <3>2, OwnMove
  <2>4. CASE ForwardApply(c)
    <3>1. obj' = [obj EXCEPT ![n] =
             [[obj[n] EXCEPT !.data[req[c].key] = rev + 1] EXCEPT !.rv = rev + 1]]
      BY ZenonT(60), <2>1, <2>2, <2>4 DEF ForwardApply, MergeApply, Store, Existing
    <3>. QED  BY SMTT(60), <2>1, <2>2, <3>1 DEF TypeOK, Objects
  <2>5. CASE SendUpdate(c)
    <3>1. obj' = [obj EXCEPT ![n] =
             [[obj[n] EXCEPT !.data = SentData(c), !.hidden = SentHidden(c)]
                  EXCEPT !.rv = rev + 1]]
      BY <2>5 DEF SendUpdate, Store
    <3>2. obj'[n].data = SentData(c)
      BY SMTT(60), <2>1, <2>2, <3>1 DEF TypeOK, Objects
    <3>3. SentVersion(c) # 0
      BY SMTT(60), <1>1, <2>1, <2>5 DEF WriteInv, SentVersion, ReadBack, SendUpdate
    <3>4. old[c] = obj[n] /\ (req[c].verb = "put" => req[c].data = obj[n].data)
      BY SMTT(60), <1>1, <2>5, <3>3, UpToDate
    <3>5. obj[n].data \in [Keys -> Nat]
      BY <2>2 DEF Objects
    <3>. QED  BY SMTT(60), <2>2, <3>2, <3>4, <3>5 DEF SentData
  <2>. QED  BY SMTT(60), <2>3, <2>4, <2>5
<1>2. WriteInv /\ [Next]_vars =>
        [\A c \in Clients : Overwrites(c) /\ (req[c].verb = "put" => req[c].rv # 0) =>
            \A k \in Keys \ {req[c].key} :
                obj'[req[c].name].data[k] = obj[req[c].name].data[k]]_vars
  BY Zenon, <1>1
<1>. QED  BY <1>2, Invariance, PTL DEF Spec, OnlyItsKey

\* As long as an object lives, nothing but the platform changes its hidden key,
\* where a put names the version it read.
THEOREM StoredHiddenKeyStays == "put" \notin Unversioned => (Spec => StoredHiddenStays)
<1>. SUFFICES ASSUME "put" \notin Unversioned  PROVE Spec => StoredHiddenStays
  OBVIOUS
<1>1. ASSUME WriteInv, [Next]_vars, NEW n \in Names,
             obj[n].rv # 0, obj'[n].uid = obj[n].uid
      PROVE  obj'[n].hidden \in {obj[n].hidden, rev'}
  <2>1. TypeOK /\ obj \in [Names -> Objects] /\ obj[n] \in Objects /\ rev \in Nat
        /\ obj[n].uid # 0
    BY <1>1 DEF WriteInv, TypeOK, Issued
  <2>2. ASSUME NEW m \in Names, Remove(m)  PROVE obj'[n] = obj[n]
    BY <1>1, <2>1, <2>2, AbsentFacts DEF Remove
  <2>3. ASSUME NEW m \in Names, NEW o \in Objects, Store(m, o),
               m = n => o.hidden \in {obj[n].hidden, rev'}
        PROVE  obj'[n].hidden \in {obj[n].hidden, rev'}
    BY <2>1, <2>3 DEF Store, Objects
  <2>4. ASSUME NEW c \in Clients, PostCreate(c) \/ ForwardApply(c)
        PROVE  obj'[n].hidden \in {obj[n].hidden, rev'}
    <3>1. pc[c] # "idle" /\ req[c] \in Requests /\ req[c].name \in Names
      BY SMTT(60), <1>1, <2>4 DEF WriteInv, Asked, Requests, PostCreate, ForwardApply
    <3>2. CASE req[c].name # n
      BY <2>1, <2>4, <3>1, <3>2 DEF PostCreate, ForwardApply, MergeApply, Store
    <3>3. CASE req[c].name = n
      <4>1. n \in Existing /\ ~PostCreate(c)
        BY <1>1, <3>3 DEF Existing, PostCreate
      <4>2. Store(n, [obj[n] EXCEPT !.data[req[c].key] = rev + 1])
        BY SMTT(60), <2>4, <3>3, <4>1 DEF ForwardApply, MergeApply
      <4>. QED  BY SMTT(60), <2>1, <4>2 DEF Store, Objects
    <3>. QED  BY SMTT(60), <3>2, <3>3
  <2>5. ASSUME NEW c \in Clients, SendUpdate(c)
        PROVE  obj'[n].hidden \in {obj[n].hidden, rev'}
    <3>1. /\ pc[c] = "send" /\ Asked(c) /\ ReadBack(c)
          /\ req[c].name \in Names
      BY SMTT(60), <1>1, <2>5 DEF WriteInv, Asked, Requests, SendUpdate
    <3>2. SentVersion(c) # 0
      BY SMTT(60), <3>1 DEF SentVersion, Asked, ReadBack
    <3>3. SentHidden(c) = obj[req[c].name].hidden
      BY <1>1, <2>5, <3>2, UpToDate DEF SentHidden
    <3>4. Store(req[c].name, [obj[req[c].name] EXCEPT !.data = SentData(c),
                                                      !.hidden = SentHidden(c)])
      BY <2>5 DEF SendUpdate
    <3>5. CASE req[c].name # n
      BY <2>1, <3>1, <3>4, <3>5 DEF Store
    <3>6. CASE req[c].name = n
      BY <2>1, <3>3, <3>4, <3>6 DEF Store, Objects
    <3>. QED  BY <3>5, <3>6
  <2>6. ASSUME NEW m \in Names, PlatformWrite(m)
        PROVE  obj'[n].hidden \in {obj[n].hidden, rev'}
    BY SMTT(60), <2>1, <2>6 DEF PlatformWrite, Store, Objects, TypeOK
  <2>7. ASSUME NEW c \in Clients, Delete(c) \/ DeleteEach(c)
        PROVE  obj'[n] = obj[n]
    <3>1. Delete(c) => req[c].name \in Names
      BY <1>1 DEF Delete, Existing
    <3>. QED  BY SMTT(60), <2>2, <2>7, <3>1 DEF Delete, DeleteEach, Existing
  <2>8. ASSUME NEW c \in Clients,
               \/ Begin(c) \/ Fails(c) \/ ReadFound(c) \/ ReadMissing(c) \/ Count(c)
               \/ CountFails(c) \/ PostExists(c) \/ SendConflict(c)
               \/ ListCollection(c) \/ DeletedAll(c)
        PROVE  obj' = obj
    BY ZenonT(60), <2>8 DEF Begin, Fails, ReadFound, ReadMissing, Count, CountFails, PostExists,
                       SendConflict, ListCollection, DeletedAll
  <2>9. CASE Finished \/ UNCHANGED vars
    BY <2>9 DEF Finished, vars
  <2>. QED  BY ZenonT(60), <1>1, <2>4, <2>5, <2>6, <2>7, <2>8, <2>9 DEF Next, RequestStep
<1>2. WriteInv /\ [Next]_vars =>
        [\A n \in Names :
            obj[n].rv # 0 /\ obj'[n].uid = obj[n].uid =>
                obj'[n].hidden \in {obj[n].hidden, rev'}]_vars
  BY Zenon, <1>1
<1>. QED  BY <1>2, Invariance, PTL DEF Spec, StoredHiddenStays

\* The loop goes round again only when another writer got in between, where no
\* patch names a version of its own.
THEOREM RetriesWereRaced == "patch" \notin Versioned => (Spec => RetryMeansRaced)
<1>. SUFFICES ASSUME "patch" \notin Versioned  PROVE Spec => RetryMeansRaced
  OBVIOUS
<1>1. ASSUME WriteInv, [Next]_vars, NEW c \in Clients,
             pc[c] \in {"post", "send"}, pc'[c] = "read"
      PROVE  obj[req[c].name].rv # old[c].rv
  <2>1. TypeOK /\ Asked(c) /\ ReadBack(c) /\ pc'[c] # pc[c]
    BY SMTT(60), <1>1 DEF WriteInv
  <2>2. \A l \in Places : Goto(c, l) => pc'[c] = l
    BY <2>1, GotoFacts
  <2>3. ~Fails(c) /\ ~PostCreate(c) /\ ~ForwardApply(c) /\ ~SendUpdate(c)
    BY SMTT(60), <1>1, <2>2 DEF Fails, PostCreate, ForwardApply, SendUpdate, Places
  <2>4. CASE PostExists(c)
    BY SMTT(60), <2>1, <2>4 DEF PostExists, ReadBack, Existing
  <2>5. CASE SendConflict(c)
    <3>1. req[c].verb # "put"
      BY SMTT(60), <1>1, <2>2, <2>5 DEF SendConflict, Places
    <3>2. req[c].rv = 0
      BY ZenonT(60), <1>1, <2>1, <3>1, WriteAssumption DEF Asked
    <3>. QED  BY SMTT(60), <2>5, <3>1, <3>2 DEF SendConflict, SentVersion
  <2>. QED  BY <1>1, <2>1, <2>3, <2>4, <2>5, OwnMove
<1>2. WriteInv /\ [Next]_vars =>
        [\A c \in Clients : pc[c] \in {"post", "send"} /\ pc'[c] = "read" =>
            obj[req[c].name].rv # old[c].rv]_vars
  BY Zenon, <1>1
<1>. QED  BY <1>2, Invariance, PTL DEF Spec, RetryMeansRaced

-----------------------------------------------------------------------------
(* The cap on what a tenant creates.                                       *)

\* The applies that found the object and have not written it: they create it
\* again, uncounted, if it is deleted meanwhile.
Senders == {c \in Clients : pc[c] = "send" /\ req[c].verb = "apply"}
Sent == {req[c].name : c \in Senders}

\* The requests that were let through by the cap.
Passed == {c \in Clients : pc[c] = "post"}

\* What CapOvershoot needs: the objects that an apply may bring back count as
\* if they were there.
CapInv ==
    Limit # 0 => Cardinality(Existing \cup Sent) + Cardinality(Passed)
                    <= Limit + Cardinality(Clients) - 1 + uncounted

LEMMA CapFinite ==
    ASSUME WriteInv
    PROVE  /\ Existing \subseteq Names /\ Sent \subseteq Names
           /\ IsFiniteSet(Existing) /\ IsFiniteSet(Sent) /\ IsFiniteSet(Existing \cup Sent)
           /\ IsFiniteSet(Passed) /\ IsFiniteSet(Senders) /\ IsFiniteSet(Clients)
           /\ Cardinality(Existing) \in Nat /\ Cardinality(Sent) \in Nat
           /\ Cardinality(Existing \cup Sent) \in Nat /\ Cardinality(Passed) \in Nat
           /\ Cardinality(Senders) \in Nat /\ Cardinality(Clients) \in Nat
<1>1. Existing \subseteq Names /\ Passed \subseteq Clients /\ Senders \subseteq Clients
  BY DEF Existing, Passed, Senders
<1>2. Sent \subseteq Names
  <2>1. \A c \in Senders : req[c].name \in Names
    BY DEF Senders, WriteInv, Asked, Requests
  <2>. QED  BY ZenonT(60), <2>1 DEF Sent
<1>3. IsFiniteSet(Clients) /\ IsFiniteSet(Names) /\ Existing \cup Sent \subseteq Names
  BY <1>1, <1>2, WriteAssumption
<1>4. /\ IsFiniteSet(Existing) /\ IsFiniteSet(Sent) /\ IsFiniteSet(Existing \cup Sent)
      /\ IsFiniteSet(Passed) /\ IsFiniteSet(Senders)
  BY <1>1, <1>2, <1>3, FS_Subset
<1>. QED  BY <1>1, <1>2, <1>3, <1>4, FS_CardinalityType

\* The names of the senders are at most as many as the senders, and a request
\* that is about to be counted is neither a sender nor let through.
LEMMA SendersBound ==
    ASSUME WriteInv, NEW c \in Clients, pc[c] = "count"
    PROVE  /\ Cardinality(Sent) <= Cardinality(Senders)
           /\ Cardinality(Senders) + Cardinality(Passed) + 1 <= Cardinality(Clients)
<1>1. Cardinality(Sent) <= Cardinality(Senders)
  <2>. DEFINE f == [d \in Senders |-> req[d].name]
  <2>1. f \in Surjection(Senders, Sent)
    <3>1. f \in [Senders -> Sent]
      BY DEF Sent
    <3>2. \A n \in Sent : \E d \in Senders : f[d] = n
      BY DEF Sent
    <3>. QED  BY Zenon, <3>1, <3>2 DEF Surjection
  <2>. HIDE DEF f
  <2>. QED  BY <2>1, CapFinite, FS_Surjection
<1>2. /\ Senders \cap Passed = {} /\ c \notin Senders \cup Passed
      /\ (Senders \cup Passed) \cup {c} \subseteq Clients
  BY DEF Senders, Passed
<1>3. /\ IsFiniteSet(Senders \cup Passed)
      /\ Cardinality(Senders \cup Passed) = Cardinality(Senders) + Cardinality(Passed)
  <2>1. IsFiniteSet(Senders) /\ IsFiniteSet(Passed)
    BY CapFinite
  <2>2. /\ IsFiniteSet(Senders \cup Passed)
        /\ Cardinality(Senders \cup Passed)
              = Cardinality(Senders) + Cardinality(Passed) - Cardinality(Senders \cap Passed)
    BY <2>1, FS_Union
  <2>3. Cardinality(Senders \cap Passed) = 0
    BY <1>2, FS_EmptySet
  <2>4. Cardinality(Senders) \in Nat /\ Cardinality(Passed) \in Nat
    BY CapFinite
  <2>. QED  BY <2>2, <2>3, <2>4
<1>4. Cardinality((Senders \cup Passed) \cup {c}) = Cardinality(Senders \cup Passed) + 1
  BY ZenonT(60), <1>2, <1>3, FS_AddElement
<1>5. Cardinality((Senders \cup Passed) \cup {c}) <= Cardinality(Clients)
  BY <1>2, CapFinite, FS_Subset
<1>. QED  BY <1>1, <1>3, <1>4, <1>5

\* Nothing is added to what is stored, sent or let through.
LEMMA CapKept ==
    ASSUME WriteInv, WriteInv', CapInv,
           (Existing \cup Sent)' \subseteq Existing \cup Sent,
           Passed' \subseteq Passed, uncounted' = uncounted
    PROVE  CapInv'
<1>. DEFINE a == Cardinality(Existing \cup Sent)
            b == Cardinality(Passed)
            u == Cardinality((Existing \cup Sent)')
            v == Cardinality(Passed')
<1>1. a \in Nat /\ b \in Nat /\ Cardinality(Clients) \in Nat
  BY CapFinite
<1>2. u <= a /\ v <= b /\ u \in Nat /\ v \in Nat
  <2>1. IsFiniteSet(Existing \cup Sent) /\ IsFiniteSet(Passed)
    BY CapFinite
  <2>2. u <= a /\ u \in Nat
    BY <2>1, FS_Subset, FS_CardinalityType
  <2>3. v <= b /\ v \in Nat
    BY SMTT(60), <2>1, FS_Subset, FS_CardinalityType
  <2>. QED  BY <2>2, <2>3
<1>3. Limit \in Nat /\ uncounted \in Nat
  BY WriteAssumption DEF WriteInv, TypeOK
<1>4. Limit # 0 => a + b <= Limit + Cardinality(Clients) - 1 + uncounted
  BY DEF CapInv
<1>. HIDE DEF a, b, u, v
<1>5. Limit # 0 => u + v <= Limit + Cardinality(Clients) - 1 + uncounted
  BY <1>1, <1>2, <1>3, <1>4
<1>. QED  BY <1>5 DEF CapInv, u, v

\* A request that was let through stores its object.
LEMMA CapStores ==
    ASSUME WriteInv, WriteInv', CapInv, NEW c \in Passed, NEW n \in Names,
           (Existing \cup Sent)' \subseteq (Existing \cup Sent) \cup {n},
           Passed' \subseteq Passed \ {c}, uncounted' = uncounted
    PROVE  CapInv'
<1>. DEFINE a == Cardinality(Existing \cup Sent)
            b == Cardinality(Passed)
            u == Cardinality((Existing \cup Sent)')
            v == Cardinality(Passed')
<1>1. a \in Nat /\ b \in Nat /\ Cardinality(Clients) \in Nat
  BY CapFinite
<1>2. u <= a + 1 /\ u \in Nat
  <2>1. /\ IsFiniteSet((Existing \cup Sent) \cup {n})
        /\ Cardinality((Existing \cup Sent) \cup {n}) \in {a, a + 1}
    BY ZenonT(60), CapFinite, FS_AddElement
  <2>2. u <= Cardinality((Existing \cup Sent) \cup {n}) /\ u \in Nat
    BY <2>1, FS_Subset, FS_CardinalityType
  <2>. HIDE DEF a, u
  <2>. QED  BY <1>1, <2>1, <2>2
<1>3. v <= b - 1 /\ v \in Nat
  <2>1. IsFiniteSet(Passed \ {c}) /\ Cardinality(Passed \ {c}) = b - 1
    BY CapFinite, FS_RemoveElement
  <2>2. v <= Cardinality(Passed \ {c}) /\ v \in Nat
    BY SMTT(60), <2>1, FS_Subset, FS_CardinalityType
  <2>. QED  BY <2>1, <2>2
<1>4. Limit \in Nat /\ uncounted \in Nat
  BY WriteAssumption DEF WriteInv, TypeOK
<1>5. Limit # 0 => a + b <= Limit + Cardinality(Clients) - 1 + uncounted
  BY DEF CapInv
<1>. HIDE DEF a, b, u, v
<1>6. Limit # 0 => u + v <= Limit + Cardinality(Clients) - 1 + uncounted
  BY <1>1, <1>2, <1>3, <1>4, <1>5
<1>. QED  BY <1>6 DEF CapInv, u, v

\* All requests but c stay as they are.
LEMMA Elsewhere ==
    ASSUME NEW c \in Clients, \A d \in Clients \ {c} : Stays(d)
    PROVE  /\ Passed' \subseteq Passed \cup {c} /\ (pc'[c] # "post" => c \notin Passed')
           /\ c \notin Senders' => Sent' \subseteq Sent
           /\ c \in Senders' => Sent' \subseteq Sent \cup {req'[c].name}
<1>1. \A d \in Clients \ {c} : d \in Senders' => d \in Senders /\ req'[d] = req[d]
  BY DEF Senders, Stays
<1>2. \A d \in Senders' : d \in Clients
  BY DEF Senders
<1>3. \A n \in Sent' : \E d \in Senders' : n = req'[d].name
  BY Zenon DEF Sent
<1>4. \A d \in Senders : req[d].name \in Sent
  BY Zenon DEF Sent
<1>5. \A d \in Senders' \ {c} : req'[d].name \in Sent
  BY <1>1, <1>2, <1>4
<1>6. Passed' \subseteq Passed \cup {c} /\ (pc'[c] # "post" => c \notin Passed')
  BY DEF Passed, Stays
<1>. QED  BY ZenonT(60), <1>3, <1>5, <1>6

LEMMA BeginFacts ==
    ASSUME WriteInv, NEW c \in Clients, Begin(c)
    PROVE  /\ UNCHANGED <<obj, rev, uncounted>>
           /\ pc'[c] \notin {"post", "send"}
           /\ \A d \in Clients \ {c} : Stays(d)
<1>1. PICK v \in Verbs, names \in BOOLEAN, supplies \in {FALSE, Supplies},
           n \in Names, k \in Keys : BeganAs(c, v, names, supplies, n, k)
  BY Zenon, BeginPick
<1>2. pc \in [Clients -> Places] /\ req \in [Clients -> Requests \cup {NoRequest}]
  BY DEF WriteInv, TypeOK, Places
<1>. QED  BY SMTT(60), <1>1, <1>2 DEF BeganAs, Stays

\* The cap invariant is kept by every step.
LEMMA CapNext == WriteInv /\ WriteInv' /\ CapInv /\ [Next]_vars => CapInv'
<1>. SUFFICES ASSUME WriteInv, WriteInv', CapInv, [Next]_vars  PROVE CapInv'
  OBVIOUS
<1>0. TypeOK
  BY DEF WriteInv
<1>1. ASSUME NEW c \in Clients, NEW l \in Places, l \notin {"post", "send"},
             Goto(c, l), UNCHANGED uncounted, Existing' \subseteq Existing
      PROVE  CapInv'
  <2>1. (\A d \in Clients \ {c} : Stays(d)) /\ pc'[c] = l
    BY SMTT(60), <1>0, <1>1, GotoFacts
  <2>2. c \notin Senders' /\ c \notin Passed'
    BY SMTT(60), <1>1, <2>1 DEF Senders, Passed
  <2>3. Sent' \subseteq Sent /\ Passed' \subseteq Passed
    BY <2>1, <2>2, Elsewhere
  <2>. QED  BY SMTT(60), <1>1, <2>3, CapKept
<1>2. ASSUME NEW c \in Clients, Begin(c)  PROVE CapInv'
  <2>1. c \notin Senders' /\ c \notin Passed'
    BY SMTT(60), <1>2, BeginFacts DEF Senders, Passed
  <2>2. Sent' \subseteq Sent /\ Passed' \subseteq Passed
    BY SMTT(60), <1>2, <2>1, BeginFacts, Elsewhere
  <2>3. Existing' = Existing /\ uncounted' = uncounted
    BY <1>2, BeginFacts DEF Existing
  <2>. QED  BY SMTT(60), <2>2, <2>3, CapKept
<1>3. ASSUME NEW c \in Clients, ReadFound(c)  PROVE CapInv'
  <2>1. (\A d \in Clients \ {c} : Stays(d)) /\ pc'[c] = "send" /\ req' = req
    BY SMTT(60), <1>0, <1>3 DEF ReadFound, TypeOK, Stays
  <2>2. Existing' = Existing /\ req[c].name \in Existing /\ uncounted' = uncounted
    BY <1>3 DEF ReadFound, Existing
  <2>3. c \notin Passed'
    BY SMTT(60), <2>1 DEF Passed
  <2>4. Passed' \subseteq Passed /\ Sent' \subseteq Sent \cup {req[c].name}
    BY SMTT(60), <2>1, <2>3, Elsewhere
  <2>. QED  BY SMTT(60), <2>2, <2>4, CapKept
<1>4. ASSUME NEW c \in Clients, ReadMissing(c)  PROVE CapInv'
  <2>1. (\A d \in Clients \ {c} : Stays(d)) /\ pc'[c] \in {"count", "idle"}
    BY <1>0, <1>4 DEF ReadMissing, Returns, TypeOK, Stays
  <2>2. c \notin Senders' /\ c \notin Passed'
    BY SMTT(60), <2>1 DEF Senders, Passed
  <2>3. Sent' \subseteq Sent /\ Passed' \subseteq Passed
    BY SMTT(60), <2>1, <2>2, Elsewhere
  <2>4. Existing' = Existing /\ uncounted' = uncounted
    BY <1>4 DEF ReadMissing, Existing
  <2>. QED  BY <2>3, <2>4, CapKept
<1>5. ASSUME NEW c \in Clients, pc[c] = "count", Goto(c, "post"), Existing' = Existing,
             \/ uncounted' = uncounted + 1
             \/ uncounted' = uncounted /\ (Limit # 0 => Cardinality(Existing) < Limit)
      PROVE  CapInv'
  <2>1. (\A d \in Clients \ {c} : Stays(d)) /\ pc'[c] = "post"
    BY SMTT(60), <1>0, <1>5, GotoFacts DEF Places
  <2>2. c \notin Senders' /\ c \notin Passed
    BY SMTT(60), <1>5, <2>1 DEF Senders, Passed
  <2>3. Sent' \subseteq Sent /\ Passed' \subseteq Passed \cup {c}
    BY SMTT(60), <2>1, <2>2, Elsewhere
  <2>. DEFINE a == Cardinality(Existing \cup Sent)
              b == Cardinality(Passed)
              u == Cardinality((Existing \cup Sent)')
              v == Cardinality(Passed')
              C == Cardinality(Clients)
  <2>4. /\ Limit \in Nat /\ uncounted \in Nat /\ C \in Nat /\ a \in Nat /\ b \in Nat
        /\ Limit # 0 => a + b <= Limit + C - 1 + uncounted
    BY WriteAssumption, CapFinite DEF WriteInv, TypeOK, CapInv
  <2>5. CASE uncounted' = uncounted + 1
    <3>1. u <= a /\ u \in Nat
      <4>1. IsFiniteSet(Existing \cup Sent) /\ (Existing \cup Sent)' \subseteq Existing \cup Sent
        BY SMTT(60), <1>5, <2>3, CapFinite
      <4>. QED  BY SMTT(60), <4>1, FS_Subset, FS_CardinalityType
    <3>2. v <= b + 1 /\ v \in Nat
      <4>1. IsFiniteSet(Passed \cup {c}) /\ Cardinality(Passed \cup {c}) = b + 1
        BY SMTT(60), <2>2, CapFinite, FS_AddElement
      <4>. QED  BY SMTT(60), <2>3, <4>1, FS_Subset, FS_CardinalityType
    <3>. HIDE DEF a, b, u, v, C
    <3>3. Limit # 0 => u + v <= Limit + C - 1 + uncounted'
      BY SMTT(60), <2>4, <2>5, <3>1, <3>2
    <3>. QED  BY <3>3 DEF CapInv, u, v, C
  <2>6. CASE uncounted' = uncounted /\ (Limit # 0 => Cardinality(Existing) < Limit)
    <3>. DEFINE e == Cardinality(Existing)
                s == Cardinality(Sent)
                t == Cardinality(Senders)
                i == Cardinality(Existing \cap Sent)
    <3>1. /\ s <= t /\ t + b + 1 <= C
          /\ e \in Nat /\ s \in Nat /\ t \in Nat
      BY SMTT(60), <1>5, SendersBound, CapFinite
    <3>2. a = e + s - i /\ i \in Nat
      <4>1. IsFiniteSet(Existing) /\ IsFiniteSet(Sent)
        BY CapFinite
      <4>2. IsFiniteSet(Existing \cap Sent)
        BY SMTT(60), <4>1, FS_Intersection
      <4>. QED  BY SMTT(60), <4>1, <4>2, FS_Union, FS_CardinalityType
    <3>3. u <= a /\ u \in Nat
      <4>1. IsFiniteSet(Existing \cup Sent) /\ (Existing \cup Sent)' \subseteq Existing \cup Sent
        BY <1>5, <2>3, CapFinite
      <4>. QED  BY <4>1, FS_Subset, FS_CardinalityType
    <3>4. v <= b + 1 /\ v \in Nat
      <4>1. IsFiniteSet(Passed \cup {c}) /\ Cardinality(Passed \cup {c}) = b + 1
        BY <2>2, CapFinite, FS_AddElement
      <4>. QED  BY <2>3, <4>1, FS_Subset, FS_CardinalityType
    <3>5. Limit # 0 => e < Limit
      BY SMTT(60), <2>6
    <3>. HIDE DEF a, b, u, v, C, e, s, t, i
    <3>6. Limit # 0 => u + v <= Limit + C - 1 + uncounted'
      BY SMTT(60), <2>4, <2>6, <3>1, <3>2, <3>3, <3>4, <3>5
    <3>. QED  BY <3>6 DEF CapInv, u, v, C
  <2>. QED  BY SMTT(60), <1>5, <2>5, <2>6
<1>6. ASSUME NEW c \in Clients, PostCreate(c) \/ ForwardApply(c)  PROVE CapInv'
  <2>. DEFINE n == req[c].name
  <2>1. /\ pc[c] \in {"post", "send"} /\ Goto(c, "idle") /\ uncounted' = uncounted
        /\ pc[c] = "send" => ForwardApply(c)
        /\ \E o : Store(n, o)
    BY ZenonT(60), <1>6 DEF PostCreate, ForwardApply, MergeApply
  <2>2. n \in Names /\ Existing' \subseteq Existing \cup {n}
    <3>1. n \in Names
      BY ZenonT(60), <2>1 DEF WriteInv, Asked, Requests
    <3>2. \A m \in Names \ {n} : obj'[m] = obj[m]
      BY SMTT(60), <1>0, <2>1, <3>1 DEF Store, TypeOK
    <3>. QED  BY SMTT(60), <3>1, <3>2 DEF Existing
  <2>3. (\A d \in Clients \ {c} : Stays(d)) /\ pc'[c] = "idle"
    BY ZenonT(60), <1>0, <2>1, GotoFacts DEF Places
  <2>4. c \notin Senders' /\ c \notin Passed'
    BY SMTT(60), <2>3 DEF Senders, Passed
  <2>5. Sent' \subseteq Sent /\ Passed' \subseteq Passed \ {c}
    BY SMTT(60), <2>3, <2>4, Elsewhere
  <2>. HIDE DEF n
  <2>6. CASE pc[c] = "post"
    <3>1. c \in Passed
      BY <2>6 DEF Passed
    <3>2. (Existing \cup Sent)' \subseteq (Existing \cup Sent) \cup {n}
      BY <2>2, <2>5
    <3>. QED  BY <2>1, <2>2, <2>5, <3>1, <3>2, CapStores
  <2>7. CASE pc[c] = "send"
    <3>1. c \in Senders
      BY <2>1, <2>7 DEF Senders, ForwardApply
    <3>2. n \in Sent
      BY Zenon, <3>1 DEF Sent, n
    <3>. QED  BY SMTT(60), <2>1, <2>2, <2>5, <3>2, CapKept
  <2>. QED  BY <2>1, <2>6, <2>7
<1>7. ASSUME NEW m \in Names, Remove(m) \/ (m \in Existing /\ \E o : Store(m, o))
      PROVE  Existing' \subseteq Existing
  <2>1. \A k \in Names \ {m} : obj'[k] = obj[k]
    BY SMTT(60), <1>0, <1>7 DEF Remove, Store, TypeOK
  <2>2. Remove(m) => obj'[m].rv = 0
    BY <1>0, AbsentFacts DEF Remove, TypeOK
  <2>. QED  BY <1>7, <2>1, <2>2 DEF Existing
<1>8. ASSUME NEW c \in Clients, SendUpdate(c) \/ Delete(c)  PROVE CapInv'
  <2>1. Goto(c, "idle") /\ uncounted' = uncounted
    BY Zenon, <1>8 DEF SendUpdate, Delete
  <2>2. req[c].name \in Names
    BY <1>8 DEF SendUpdate, Delete, Existing
  <2>3. Existing' \subseteq Existing
    BY ZenonT(60), <1>7, <1>8, <2>2 DEF SendUpdate, Delete
  <2>. QED  BY <1>1, <2>1, <2>3 DEF Places
<1>9. ASSUME NEW c \in Clients, DeleteEach(c)  PROVE CapInv'
  <2>1. PICK n \in rest[c] \cap Existing :
            Remove(n) /\ UNCHANGED <<pc, req, uncounted>>
    BY ZenonT(60), <1>9 DEF DeleteEach
  <2>2. Existing' \subseteq Existing
    BY SMTT(60), <1>7, <2>1 DEF Existing
  <2>3. Sent' = Sent /\ Passed' = Passed
    BY <2>1 DEF Sent, Senders, Passed
  <2>. QED  BY <2>1, <2>2, <2>3, CapKept
<1>10. ASSUME NEW c \in Clients, ListCollection(c)  PROVE CapInv'
  <2>1. /\ \A d \in Clients \ {c} : Stays(d)
        /\ pc'[c] = "each" /\ Existing' = Existing /\ uncounted' = uncounted
    BY SMTT(60), <1>0, <1>10 DEF ListCollection, TypeOK, Stays, Existing
  <2>2. c \notin Senders' /\ c \notin Passed'
    BY <2>1 DEF Senders, Passed
  <2>3. Sent' \subseteq Sent /\ Passed' \subseteq Passed
    BY <2>1, <2>2, Elsewhere
  <2>. QED  BY SMTT(60), <2>1, <2>3, CapKept
<1>11. ASSUME NEW c \in Clients,
              Fails(c) \/ PostExists(c) \/ SendConflict(c) \/ DeletedAll(c)
       PROVE  CapInv'
  <2>1. \E l \in {"idle", "read"} : Goto(c, l)
    BY ZenonT(60), <1>11 DEF Fails, PostExists, SendConflict, DeletedAll
  <2>2. uncounted' = uncounted /\ Existing' = Existing
    BY <1>11 DEF Fails, PostExists, SendConflict, DeletedAll, Existing
  <2>. QED  BY <1>1, <2>1, <2>2 DEF Places
<1>12. ASSUME NEW c \in Clients, Count(c) \/ CountFails(c)  PROVE CapInv'
  <2>1. /\ pc[c] = "count" /\ Existing' = Existing
        /\ \/ Goto(c, "idle") /\ uncounted' = uncounted
           \/ Goto(c, "post") /\ uncounted' = uncounted + 1
           \/ /\ Goto(c, "post") /\ uncounted' = uncounted
              /\ Limit = 0 \/ Cardinality(Existing) < Limit
    BY <1>12 DEF Count, CountFails, Existing
  <2>2. CASE Goto(c, "idle") /\ uncounted' = uncounted
    BY <1>1, <2>1, <2>2 DEF Places
  <2>3. CASE Goto(c, "post") /\ uncounted' = uncounted + 1
    BY SMTT(60), <1>5, <2>1, <2>3
  <2>4. CASE /\ Goto(c, "post") /\ uncounted' = uncounted
             /\ Limit = 0 \/ Cardinality(Existing) < Limit
    BY <1>5, <2>1, <2>4
  <2>. QED  BY ZenonT(60), <2>1, <2>2, <2>3, <2>4
<1>13. ASSUME NEW n \in Names, PlatformWrite(n)  PROVE CapInv'
  <2>1. Existing' \subseteq Existing
    BY Zenon, <1>7, <1>13 DEF PlatformWrite
  <2>2. Sent' = Sent /\ Passed' = Passed /\ uncounted' = uncounted
    BY <1>13 DEF PlatformWrite, Sent, Senders, Passed
  <2>. QED  BY <2>1, <2>2, CapKept
<1>14. CASE Finished \/ UNCHANGED vars
  BY ZenonT(60), <1>14 DEF Finished, vars, CapInv, Existing, Sent, Senders, Passed
<1>. QED  BY ZenonT(60), <1>2, <1>3, <1>4, <1>6, <1>8, <1>9, <1>10, <1>11, <1>12, <1>13,
             <1>14 DEF Next, RequestStep

\* The check-then-create of refuseTooManyNamespaces overshoots the cap by at
\* most the requests beside the one that reaches it and the creates it could
\* not count for, however many requests there are.
THEOREM CapOvershootBounded == Spec => []CapOvershoot
<1>1. Init => CapInv
  <2>. SUFFICES ASSUME Init  PROVE CapInv
    OBVIOUS
  <2>1. Existing = {} /\ Senders = {} /\ Passed = {} /\ uncounted = 0
    BY SMTT(60), AbsentFacts DEF Init, Existing, Senders, Passed
  <2>2. Existing \cup Sent = {}
    BY <2>1 DEF Sent
  <2>3. Cardinality(Clients) \in Nat /\ Limit \in Nat
    BY SMTT(60), WriteAssumption, FS_CardinalityType
  <2>. QED  BY SMTT(60), <2>1, <2>2, <2>3, FS_EmptySet DEF CapInv
<1>2. WriteInv /\ CapInv => CapOvershoot
  <2>. SUFFICES ASSUME WriteInv, CapInv  PROVE CapOvershoot
    OBVIOUS
  <2>. DEFINE a == Cardinality(Existing \cup Sent)
              b == Cardinality(Passed)
              e == Cardinality(Existing)
              C == Cardinality(Clients)
  <2>1. a \in Nat /\ b \in Nat /\ e \in Nat /\ C \in Nat
    BY CapFinite
  <2>2. e <= a
    <3>1. IsFiniteSet(Existing \cup Sent)
      BY SMTT(60), CapFinite
    <3>. QED  BY <3>1, FS_Subset
  <2>3. Limit \in Nat /\ uncounted \in Nat
    BY WriteAssumption DEF WriteInv, TypeOK
  <2>4. Limit # 0 => a + b <= Limit + C - 1 + uncounted
    BY DEF CapInv
  <2>. HIDE DEF a, b, e, C
  <2>5. Limit # 0 => e + b <= Limit + C - 1 + uncounted
    BY <2>1, <2>2, <2>3, <2>4
  <2>. QED  BY <2>5 DEF CapOvershoot, Passed, b, e, C
<1>. QED  BY <1>1, <1>2, CapNext, Invariance, PTL DEF Spec
=============================================================================
