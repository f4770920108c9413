------------------------ MODULE CRBProjectionProofs ------------------------
(***************************************************************************)
(* Theorems about clusterRoleBindingProjection, for any number of          *)
(* namespaces, bindings and requests.                                      *)
(***************************************************************************)
EXTENDS CRBProjection, FiniteSetTheorems, TLAPS

-----------------------------------------------------------------------------
(* The inductive invariant.                                                *)

\* What brought a request r to the place l.
Placed(l, r) ==
    /\ l = "count" => r.verb = "create"
    /\ l = "write" => r.verb \in {"create", "update", "apply"}

\* What a quiet request r at l has made of the copies so far.
Settled(l, r, sp, rec, cp) ==
    LET others == sp \ {Home} IN
    /\ l = "list" /\ r.verb \in {"delete", "deletecollection"} => rec[r.on] = 0
    /\ l = "read" => r.todo = others
    /\ l \in {"copy", "get", "update"} => r.seen = rec[r.on]
    /\ l = "copy" => \A n \in others \ r.todo : cp[r.on][n] = rec[r.on]
    /\ l \in {"get", "update"} =>
           \A n \in others \ (r.todo \cup {r.at}) : cp[r.on][n] = rec[r.on]
    /\ l = "remove" => /\ rec[r.on] = 0
                       /\ \A n \in others \ r.todo : cp[r.on][n] = 0

\* Only c is being served.
Alone(c) == \A d \in Clients \ {c} : pc[d] = "idle"

Served(c) ==
    pc[c] # "idle" =>
        /\ Placed(pc[c], req[c])
        /\ req[c].quiet => Settled(pc[c], req[c], spaces, record, copy) /\ Alone(c)

ProjectionInv == TypeOK /\ \A c \in Clients : Served(c)

-----------------------------------------------------------------------------
(* What the requests hold.                                                 *)

\* The request s is r, but for the version it read and its being quiet.
Like(s, r) ==
    /\ s.verb = r.verb /\ s.on = r.on /\ s.todo = r.todo /\ s.at = r.at
    /\ s.seen = r.seen /\ s.rest = r.rest

LEMMA Replaced ==
    ASSUME NEW p, NEW q, NEW r,
           r = [verb |-> "none", on |-> "none", todo |-> {}, at |-> Home, seen |-> 0,
                fresh |-> p, rest |-> {}, quiet |-> q]
    PROVE  [r EXCEPT !.quiet = q] = r /\ [r EXCEPT !.fresh = p] = r
  OBVIOUS

LEMMA NoRequestFacts ==
    /\ NoRequest.quiet = FALSE /\ NoRequest.fresh = FALSE
    /\ [NoRequest EXCEPT !.quiet = FALSE] = NoRequest
    /\ [NoRequest EXCEPT !.fresh = FALSE] = NoRequest
<1>1. NoRequest.quiet = FALSE /\ NoRequest.fresh = FALSE
  BY DEF NoRequest
<1>2. /\ [NoRequest EXCEPT !.quiet = FALSE] = NoRequest
      /\ [NoRequest EXCEPT !.fresh = FALSE] = NoRequest
  BY Zenon, Replaced DEF NoRequest
<1>. QED  BY <1>1, <1>2

LEMMA WithFresh ==
    ASSUME NEW r \in Requests, NEW p \in BOOLEAN
    PROVE  /\ [r EXCEPT !.fresh = p] \in Requests
           /\ Like([r EXCEPT !.fresh = p], r)
           /\ [r EXCEPT !.fresh = p].quiet = r.quiet
  BY DEF Requests, Like

LEMMA WithQuiet ==
    ASSUME NEW r \in Requests, NEW p \in BOOLEAN
    PROVE  /\ [r EXCEPT !.quiet = p] \in Requests
           /\ Like([r EXCEPT !.quiet = p], r)
           /\ [r EXCEPT !.quiet = p].quiet = p
  BY DEF Requests, Like

\* rs is what the requests may hold once one of them, or the world, has moved.
Kin(rs) ==
    /\ DOMAIN rs = Clients
    /\ \A d \in Clients :
          /\ pc[d] = "idle" => rs[d] = NoRequest
          /\ pc[d] # "idle" =>
                /\ rs[d] \in Requests /\ Like(rs[d], req[d])
                /\ rs[d].quiet => req[d].quiet

LEMMA KinSame ==
    ASSUME TypeOK
    PROVE  Kin(req)
  BY DEF TypeOK, Kin, Like

LEMMA KinOutdated ==
    ASSUME TypeOK, NEW b, NEW n
    PROVE  Kin(Outdated(b, n))
<1>. DEFINE p(d) == req[d].fresh /\ ~(req[d].on = b /\ req[d].at = n)
<1>1. Outdated(b, n) = [d \in Clients |-> [req[d] EXCEPT !.fresh = p(d)]]
  BY Zenon DEF Outdated
<1>2. ASSUME NEW d \in Clients  PROVE p(d) \in BOOLEAN
  OBVIOUS
<1>3. ASSUME NEW d \in Clients, pc[d] = "idle"
      PROVE  [req[d] EXCEPT !.fresh = p(d)] = NoRequest
  <2>1. req[d] = NoRequest
    BY <1>3 DEF TypeOK
  <2>2. p(d) = FALSE
    BY Zenon, <2>1, NoRequestFacts
  <2>. HIDE DEF p
  <2>. QED  BY ZenonT(60), <2>1, <2>2, NoRequestFacts
<1>4. ASSUME NEW d \in Clients, pc[d] # "idle"
      PROVE  LET s == [req[d] EXCEPT !.fresh = p(d)]
             IN  s \in Requests /\ Like(s, req[d]) /\ s.quiet = req[d].quiet
  <2>1. req[d] \in Requests
    BY <1>4 DEF TypeOK
  <2>2. p(d) \in BOOLEAN
    BY <1>2
  <2>. HIDE DEF p
  <2>. QED  BY <2>1, <2>2, WithFresh
<1>. HIDE DEF p
<1>. QED  BY ZenonT(60), <1>1, <1>3, <1>4 DEF Kin

LEMMA KinDisturbed ==
    ASSUME TypeOK
    PROVE  /\ Kin(Disturbed)
           /\ \A d \in Clients : Disturbed[d].quiet = FALSE
<1>1. ASSUME NEW d \in Clients, pc[d] = "idle"
      PROVE  Disturbed[d] = NoRequest /\ Disturbed[d].quiet = FALSE
  BY <1>1, NoRequestFacts DEF TypeOK, Disturbed
<1>2. ASSUME NEW d \in Clients, pc[d] # "idle"
      PROVE  /\ Disturbed[d] \in Requests /\ Like(Disturbed[d], req[d])
             /\ Disturbed[d].quiet = FALSE
  <2>1. req[d] \in Requests
    BY <1>2 DEF TypeOK
  <2>. QED  BY ZenonT(60), <2>1, WithQuiet DEF Disturbed
<1>3. DOMAIN Disturbed = Clients
  BY DEF Disturbed
<1>. QED  BY ZenonT(60), <1>1, <1>2, <1>3 DEF Kin

-----------------------------------------------------------------------------
(* Steps in general.                                                       *)

World ==
    /\ spaces \subseteq Spaces
    /\ record \in [Bindings -> Nat] /\ kept \in [Bindings -> BOOLEAN]
    /\ copy \in [Bindings -> [Spaces -> Nat]]
    /\ writes \in Nat /\ calls \in Nat /\ uncounted \in Nat

LEMMA WorldFacts ==
    ASSUME ProjectionInv
    PROVE  World /\ TypeOK /\ pc \in [Clients -> PCs] /\ DOMAIN req = Clients
  BY DEF ProjectionInv, TypeOK, World

\* A request that is being served moves from its place to l, with r.
LEMMA ServeStep ==
    ASSUME ProjectionInv, World', NEW c \in Clients, pc[c] # "idle",
           NEW rs, Kin(rs), NEW l \in PCs, NEW r, NEW from,
           GoesAmong(rs, c, from, l, r),
           l # "idle" => /\ r \in Requests /\ Placed(l, r)
                         /\ r.quiet => req[c].quiet /\ Settled(l, r, spaces', record', copy')
    PROVE  ProjectionInv'
<1>1. /\ pc' \in [Clients -> PCs] /\ DOMAIN req' = Clients
      /\ pc'[c] = l /\ req'[c] = IF l = "idle" THEN NoRequest ELSE r
      /\ \A d \in Clients \ {c} : pc'[d] = pc[d] /\ req'[d] = rs[d]
  BY WorldFacts DEF GoesAmong, Kin
<1>2. TypeOK'
  <2>1. ASSUME NEW d \in Clients
        PROVE  IF pc'[d] = "idle" THEN req'[d] = NoRequest ELSE req'[d] \in Requests
    <3>1. CASE d = c
      BY <1>1, <3>1
    <3>2. CASE d # c
      BY <1>1, <3>2 DEF Kin
    <3>. QED  BY <3>1, <3>2
  <2>. QED  BY <1>1, <2>1 DEF TypeOK, World
<1>3. ASSUME NEW d \in Clients \ {c}  PROVE Served(d)'
  <2>. SUFFICES ASSUME pc[d] # "idle"  PROVE Placed(pc[d], rs[d]) /\ ~rs[d].quiet
    BY <1>1 DEF Served, Placed
  <2>1. Served(d) /\ Like(rs[d], req[d]) /\ (rs[d].quiet => req[d].quiet)
    BY DEF ProjectionInv, Kin
  <2>2. ~req[d].quiet
    BY Zenon, <2>1 DEF Served, Alone
  <2>. QED  BY <2>1, <2>2 DEF Served, Placed, Like
<1>4. Served(c)'
  <2>. SUFFICES ASSUME l # "idle"
                PROVE  /\ Placed(l, r)
                       /\ r.quiet => Settled(l, r, spaces', record', copy') /\ Alone(c)'
    BY <1>1 DEF Served, Placed, Settled
  <2>1. req[c].quiet => Alone(c)
    BY DEF ProjectionInv, Served
  <2>2. Alone(c) => Alone(c)'
    BY <1>1 DEF Alone
  <2>. QED  BY ZenonT(60), <2>1, <2>2
<1>. QED  BY <1>2, <1>3, <1>4 DEF ProjectionInv

\* Nobody moves, and who is quiet has settled what it had.
LEMMA WorldStep ==
    ASSUME ProjectionInv, World', UNCHANGED pc, Kin(req'),
           \A c \in Clients :
               pc[c] # "idle" /\ req'[c].quiet =>
                   Settled(pc[c], req[c], spaces', record', copy')
    PROVE  ProjectionInv'
<1>1. TypeOK'
  BY SMTT(60), WorldFacts DEF TypeOK, World, Kin
<1>2. ASSUME NEW c \in Clients  PROVE Served(c)'
  <2>. SUFFICES ASSUME pc[c] # "idle"
                PROVE  /\ Placed(pc[c], req'[c])
                       /\ req'[c].quiet =>
                             /\ Settled(pc[c], req'[c], spaces', record', copy')
                             /\ Alone(c)
    BY DEF Served, Alone, Placed, Settled
  <2>1. Served(c) /\ Like(req'[c], req[c]) /\ (req'[c].quiet => req[c].quiet)
    BY DEF ProjectionInv, Kin
  <2>. QED  BY SMTT(60), <2>1 DEF Served, Placed, Like, Settled
<1>. QED  BY <1>1, <1>2 DEF ProjectionInv

-----------------------------------------------------------------------------
(* Each step keeps the invariant.                                          *)

LEMMA ProjectionInit == Init => ProjectionInv
  BY ProjectionAssumption DEF Init, ProjectionInv, TypeOK, Served, PCs

LEMMA BeginKeeps ==
    ASSUME ProjectionInv, NEW c \in Clients, NEW v \in AllVerbs, NEW b \in Bindings,
           NEW rest \in SUBSET Bindings,
           NEW l \in {"count", "write", "delete"}, Begin(c, l, v, b, rest),
           l = "count" => v = "create",
           l = "write" => v \in {"create", "update", "apply"}
    PROVE  ProjectionInv'
<1>. DEFINE r == [NoRequest EXCEPT !.verb = v, !.on = b, !.rest = rest, !.quiet = Alone(c)]
<1>1. /\ calls' = calls + 1 /\ UNCHANGED worldVars /\ pc[c] = "idle"
      /\ pc' = [pc EXCEPT ![c] = l] /\ req' = [Disturbed EXCEPT ![c] = r]
  BY Zenon DEF Begin, GoesAmong, Disturbed, Alone
<1>2. Alone(c) \in BOOLEAN
  BY DEF Alone
<1>3. r \in Requests /\ r.verb = v /\ r.quiet = Alone(c)
  BY ZenonT(60), <1>2, ProjectionAssumption DEF NoRequest, Requests
<1>. HIDE DEF r
<1>4. World /\ pc \in [Clients -> PCs] /\ Kin(Disturbed)
  BY WorldFacts, KinDisturbed
<1>5. /\ pc'[c] = l /\ req'[c] = r /\ pc' \in [Clients -> PCs] /\ DOMAIN req' = Clients
      /\ \A d \in Clients \ {c} : pc'[d] = pc[d] /\ req'[d] = Disturbed[d]
  BY <1>1, <1>4 DEF Kin, PCs
<1>6. World'
  BY <1>1, <1>4 DEF World, worldVars
<1>7. TypeOK'
  <2>1. ASSUME NEW d \in Clients
        PROVE  IF pc'[d] = "idle" THEN req'[d] = NoRequest ELSE req'[d] \in Requests
    BY SMTT(60), <1>3, <1>4, <1>5 DEF Kin
  <2>. QED  BY <1>5, <1>6, <2>1 DEF TypeOK, World
<1>8. Served(c)'
  <2>1. Alone(c) => Alone(c)'
    BY <1>5 DEF Alone
  <2>2. Placed(l, r) /\ Settled(l, r, spaces', record', copy')
    BY <1>3 DEF Placed, Settled
  <2>3. r.quiet => Alone(c)'
    BY ZenonT(60), <1>3, <2>1
  <2>. QED  BY <1>5, <2>2, <2>3 DEF Served, Placed, Settled
<1>9. ASSUME NEW d \in Clients \ {c}  PROVE Served(d)'
  <2>1. Served(d) /\ ~Disturbed[d].quiet
    BY ZenonT(60), KinDisturbed, WorldFacts DEF ProjectionInv
  <2>2. pc[d] # "idle" => Like(Disturbed[d], req[d])
    BY <1>4 DEF Kin
  <2>. QED  BY <1>5, <2>1, <2>2 DEF Served, Placed, Like
<1>. QED  BY <1>7, <1>8, <1>9 DEF ProjectionInv

\* A request that is being served, and its place.
LEMMA Serving ==
    ASSUME ProjectionInv, NEW c \in Clients, pc[c] # "idle"
    PROVE  /\ req[c] \in Requests /\ Placed(pc[c], req[c])
           /\ req[c].quiet => Settled(pc[c], req[c], spaces, record, copy)
           /\ req[c].verb \in AllVerbs /\ req[c].on \in Bindings
           /\ req[c].todo \subseteq Spaces /\ req[c].at \in Spaces /\ req[c].seen \in Nat
           /\ req[c].rest \subseteq Bindings
           /\ req[c].quiet \in BOOLEAN /\ req[c].fresh \in BOOLEAN
<1>1. req[c] \in Requests /\ Served(c)
  BY DEF ProjectionInv, TypeOK
<1>. QED  BY <1>1 DEF Served, Requests

\* A request moves, and nothing else does.
LEMMA MoveStep ==
    ASSUME ProjectionInv, NEW c \in Clients, NEW from, from # "idle",
           NEW l \in PCs, NEW r, Moves(c, from, l, r),
           l # "idle" => /\ r \in Requests /\ Placed(l, r)
                         /\ r.quiet => req[c].quiet /\ Settled(l, r, spaces, record, copy)
    PROVE  ProjectionInv'
<1>1. GoesAmong(req, c, from, l, r) /\ UNCHANGED <<spaces, record, copy>> /\ pc[c] # "idle"
  BY DEF Moves, Goes, worldVars, GoesAmong
<1>2. World'
  BY SMTT(60), WorldFacts DEF World, Moves, Goes, worldVars
<1>3. Settled(l, r, spaces, record, copy) => Settled(l, r, spaces', record', copy')
  BY <1>1 DEF Settled
<1>. QED  BY <1>1, <1>2, <1>3, ServeStep, KinSame, WorldFacts

LEMMA FailStep ==
    ASSUME ProjectionInv, NEW c \in Clients, NEW from, from # "idle",
           NEW l \in PCs, NEW r \in Requests, Failing(c, from, l, r),
           l \notin {"count", "write"}
    PROVE  ProjectionInv'
<1>. DEFINE s == [r EXCEPT !.quiet = FALSE]
<1>1. s \in Requests /\ ~s.quiet /\ Moves(c, from, l, s)
  BY ZenonT(60), WithQuiet DEF Failing
<1>2. Placed(l, s)
  BY DEF Placed
<1>. HIDE DEF s
<1>. QED  BY <1>1, <1>2, MoveStep

LEMMA FailuresKeep ==
    ASSUME ProjectionInv, NEW c \in Clients,
           \/ WriteFails(c) \/ DeleteFails(c) \/ ListFails(c) \/ ReadFails(c)
           \/ GetCopyFails(c) \/ UpdateCopyFails(c)
           \/ \E n \in Spaces : RemoveCopyFails(c, n)
    PROVE  ProjectionInv'
<1>0. pc[c] # "idle"
  BY ZenonT(60) DEF WriteFails, DeleteFails, ListFails, ReadFails, GetCopyFails, UpdateCopyFails,
         RemoveCopyFails, Failing, Moves, Goes, GoesAmong
<1>1. /\ req[c] \in Requests
      /\ [req[c] EXCEPT !.fresh = FALSE] \in Requests
      /\ \A n : [req[c] EXCEPT !.todo = @ \ {n}] \in Requests
  BY ZenonT(60), <1>0, Serving, WithFresh DEF Requests
<1>2. CASE \/ WriteFails(c) \/ DeleteFails(c) \/ ListFails(c) \/ ReadFails(c)
           \/ GetCopyFails(c) \/ UpdateCopyFails(c)
  BY ZenonT(60), <1>1, <1>2, FailStep
     DEF WriteFails, DeleteFails, ListFails, ReadFails, GetCopyFails, UpdateCopyFails, PCs
<1>3. CASE \E n \in Spaces : RemoveCopyFails(c, n)
  BY ZenonT(60), <1>1, <1>3, FailStep DEF RemoveCopyFails, PCs
<1>. QED  BY <1>2, <1>3

LEMMA CountKeeps ==
    ASSUME ProjectionInv, NEW c \in Clients, CountBindings(c) \/ CountFails(c)
    PROVE  ProjectionInv'
<1>1. pc[c] = "count" /\ World
  BY WorldFacts DEF CountBindings, CountFails, Moves, Goes, GoesAmong
<1>2. req[c] \in Requests /\ Placed("write", req[c])
  BY <1>1, Serving DEF Placed
<1>3. Settled("write", req[c], spaces, record, copy)
  BY DEF Settled
<1>4. CASE CountBindings(c)
  BY SMTT(60), <1>2, <1>3, <1>4, MoveStep DEF CountBindings, PCs
<1>5. CASE CountFails(c)
  <2>. DEFINE r == [req[c] EXCEPT !.quiet = FALSE]
  <2>1. r \in Requests /\ ~r.quiet /\ Placed("write", r)
    BY ZenonT(60), <1>2, WithQuiet DEF Placed, Like
  <2>2. GoesAmong(req, c, "count", "write", r)
    BY <1>5 DEF CountFails, Goes
  <2>3. World'
    BY <1>1, <1>5 DEF CountFails, Goes, World
  <2>. HIDE DEF r
  <2>4. "write" \in PCs
    BY DEF PCs
  <2>. QED  BY <1>1, <2>1, <2>2, <2>3, <2>4, ServeStep, KinSame, WorldFacts
<1>. QED  BY <1>4, <1>5

LEMMA RecordKeeps ==
    ASSUME ProjectionInv, NEW c \in Clients, WriteRecord(c) \/ DeleteRecord(c)
    PROVE  ProjectionInv'
<1>1. pc[c] \in {"write", "delete"} /\ World
  BY SMTT(60), WorldFacts DEF WriteRecord, DeleteRecord, Goes, GoesAmong
<1>2. req[c] \in Requests /\ req[c].on \in Bindings /\ Placed(pc[c], req[c])
  BY <1>1, Serving
<1>3. \E from : GoesAmong(req, c, from, "list", req[c])
  BY Zenon DEF WriteRecord, DeleteRecord, Goes
<1>4. World'
  <2>1. CASE WriteRecord(c)
    BY SMTT(60), <1>1, <1>2, <2>1 DEF WriteRecord, Goes, World
  <2>2. CASE DeleteRecord(c)
    BY <1>1, <1>2, <2>2 DEF DeleteRecord, Goes, World
  <2>. QED  BY SMTT(60), <2>1, <2>2
<1>5. Settled("list", req[c], spaces', record', copy')
  <2>1. CASE WriteRecord(c)
    BY SMTT(60), <1>1, <1>2, <2>1 DEF WriteRecord, Goes, GoesAmong, Placed, Settled
  <2>2. CASE DeleteRecord(c)
    BY <1>1, <1>2, <2>2 DEF DeleteRecord, World, Settled
  <2>. QED  BY SMTT(60), <2>1, <2>2
<1>6. "list" \in PCs /\ Placed("list", req[c])
  BY DEF PCs, Placed
<1>. QED  BY SMTT(60), <1>1, <1>2, <1>3, <1>4, <1>5, <1>6, ServeStep, KinSame, WorldFacts

LEMMA ReadsKeep ==
    ASSUME ProjectionInv, NEW c \in Clients,
           ListNamespaces(c) \/ ReadRecord(c) \/ GetCopy(c)
    PROVE  ProjectionInv'
<1>0. pc[c] \in {"list", "read", "get"} /\ World
  BY SMTT(60), WorldFacts DEF ListNamespaces, ReadRecord, GetCopy, Moves, Goes, GoesAmong
<1>1. /\ req[c] \in Requests /\ req[c].on \in Bindings /\ Home \in Spaces
      /\ req[c].quiet => Settled(pc[c], req[c], spaces, record, copy)
  BY <1>0, Serving, ProjectionAssumption
<1>2. CASE ListNamespaces(c) /\ Deleting(c)
  <2>. DEFINE r == [req[c] EXCEPT !.todo = spaces]
  <2>1. r \in Requests /\ Like(r, [req[c] EXCEPT !.todo = spaces]) /\ r.quiet = req[c].quiet
        /\ r.todo = spaces /\ r.on = req[c].on /\ r.verb = req[c].verb
    BY SMTT(60), <1>0, <1>1 DEF World, Requests, Like
  <2>2. Moves(c, "list", "remove", r) /\ pc[c] = "list"
    BY <1>2 DEF ListNamespaces, Moves, Goes, GoesAmong
  <2>. HIDE DEF r
  <2>3. r.quiet => Settled("remove", r, spaces, record, copy)
    BY <1>1, <1>2, <2>1, <2>2 DEF Settled, Deleting
  <2>4. Placed("remove", r) /\ "remove" \in PCs
    BY DEF Placed, PCs
  <2>. QED  BY <2>1, <2>2, <2>3, <2>4, MoveStep
<1>3. CASE ListNamespaces(c) /\ ~Deleting(c)
  <2>. DEFINE r == [req[c] EXCEPT !.todo = spaces \ {Home}]
  <2>1. r \in Requests /\ r.quiet = req[c].quiet /\ r.todo = spaces \ {Home}
    BY SMTT(60), <1>0, <1>1 DEF World, Requests
  <2>2. Moves(c, "list", "read", r)
    BY <1>3 DEF ListNamespaces
  <2>. HIDE DEF r
  <2>3. Settled("read", r, spaces, record, copy)
    BY <2>1 DEF Settled
  <2>4. Placed("read", r) /\ "read" \in PCs
    BY DEF Placed, PCs
  <2>. QED  BY <2>1, <2>2, <2>3, <2>4, MoveStep
<1>4. CASE ReadRecord(c)
  <2>. DEFINE r == [req[c] EXCEPT !.seen = record[req[c].on]]
  <2>1. /\ r \in Requests /\ r.quiet = req[c].quiet /\ r.todo = req[c].todo
        /\ r.on = req[c].on /\ r.seen = record[req[c].on]
    BY SMTT(60), <1>0, <1>1 DEF World, Requests
  <2>2. Moves(c, "read", "copy", r) /\ pc[c] = "read"
    BY <1>4 DEF ReadRecord
  <2>. HIDE DEF r
  <2>3. r.quiet => Settled("copy", r, spaces, record, copy)
    BY <1>1, <2>1, <2>2 DEF Settled
  <2>4. Placed("copy", r) /\ "copy" \in PCs
    BY SMTT(60) DEF Placed, PCs
  <2>. QED  BY <2>1, <2>2, <2>3, <2>4, MoveStep
<1>5. CASE GetCopy(c)
  <2>. DEFINE r == [req[c] EXCEPT !.fresh = TRUE]
  <2>1. r \in Requests /\ r.quiet = req[c].quiet /\ Like(r, req[c])
    BY ZenonT(60), <1>1, WithFresh
  <2>2. Moves(c, "get", "update", r) /\ pc[c] = "get"
    BY <1>5 DEF GetCopy
  <2>. HIDE DEF r
  <2>3. r.quiet => Settled("update", r, spaces, record, copy)
    BY <1>1, <2>1, <2>2 DEF Settled, Like
  <2>4. Placed("update", r) /\ "update" \in PCs
    BY DEF Placed, PCs
  <2>. QED  BY <2>1, <2>2, <2>3, <2>4, MoveStep
<1>. QED  BY <1>2, <1>3, <1>4, <1>5

LEMMA CreateKeeps ==
    ASSUME ProjectionInv, NEW c \in Clients, NEW n \in Spaces,
           CreateCopy(c, n) \/ CreateCopyFails(c, n)
    PROVE  ProjectionInv'
<1>0. pc[c] = "copy" /\ World
  BY WorldFacts DEF CreateCopy, CreateCopyFails, GoesAmong
<1>1. /\ req[c] \in Requests /\ req[c].on \in Bindings /\ req[c].seen \in Nat
      /\ req[c].quiet => Settled("copy", req[c], spaces, record, copy)
      /\ req[c].quiet \in BOOLEAN
  BY <1>0, Serving
<1>2. CASE CreateCopy(c, n)
  <2>. DEFINE r == [req[c] EXCEPT !.todo = @ \ {n}]
  <2>1. /\ r \in Requests /\ r.quiet = req[c].quiet /\ r.todo = req[c].todo \ {n}
        /\ r.on = req[c].on /\ r.seen = req[c].seen
    BY <1>1 DEF Requests
  <2>2. /\ GoesAmong(Outdated(req[c].on, n), c, "copy", "copy", r)
        /\ copy' = [copy EXCEPT ![req[c].on][n] = req[c].seen]
        /\ UNCHANGED <<spaces, record, writes, kept, uncounted, calls>>
    BY <1>2 DEF CreateCopy
  <2>3. World'
    BY <1>0, <1>1, <2>2 DEF World
  <2>. HIDE DEF r
  <2>4. r.quiet => Settled("copy", r, spaces', record', copy')
    BY <1>0, <1>1, <2>1, <2>2 DEF Settled, World
  <2>5. Placed("copy", r) /\ "copy" \in PCs /\ Kin(Outdated(req[c].on, n))
    BY WorldFacts, KinOutdated DEF Placed, PCs
  <2>. QED  BY ZenonT(60), <1>0, <2>1, <2>2, <2>3, <2>4, <2>5, ServeStep
<1>3. CASE CreateCopyFails(c, n)
  <2>. DEFINE v == Visiting(c, n)
              p == v.quiet /\ copy[req[c].on][n] # 0
              r == [v EXCEPT !.quiet = p]
  <2>1. /\ v \in Requests /\ v.quiet = req[c].quiet /\ v.todo = req[c].todo \ {n}
        /\ v.at = n /\ v.on = req[c].on /\ v.seen = req[c].seen
    BY ZenonT(60), <1>1 DEF Requests, Visiting
  <2>2. Moves(c, "copy", "get", r)
    BY Zenon, <1>3 DEF CreateCopyFails
  <2>3. p \in BOOLEAN /\ (p => req[c].quiet)
    BY Zenon, <2>1
  <2>. HIDE DEF p, v
  <2>4. r \in Requests /\ Like(r, v) /\ (r.quiet => req[c].quiet)
    BY <2>1, <2>3, WithQuiet
  <2>. HIDE DEF r
  <2>5. req[c].quiet => Settled("get", r, spaces, record, copy)
    BY <1>1, <2>1, <2>4 DEF Settled, Like
  <2>6. Placed("get", r) /\ "get" \in PCs
    BY DEF Placed, PCs
  <2>. QED  BY <2>2, <2>4, <2>5, <2>6, MoveStep
<1>. QED  BY <1>2, <1>3

LEMMA UpdateKeeps ==
    ASSUME ProjectionInv, NEW c \in Clients, UpdateCopy(c)
    PROVE  ProjectionInv'
<1>. DEFINE n == req[c].at
            r == [req[c] EXCEPT !.fresh = FALSE]
<1>0. pc[c] = "update" /\ World
  BY WorldFacts DEF UpdateCopy, GoesAmong
<1>1. /\ req[c] \in Requests /\ req[c].on \in Bindings /\ req[c].seen \in Nat
      /\ n \in Spaces
      /\ req[c].quiet => Settled("update", req[c], spaces, record, copy)
  BY <1>0, Serving
<1>2. r \in Requests /\ r.quiet = req[c].quiet /\ Like(r, req[c])
  BY ZenonT(60), <1>1, WithFresh
<1>3. /\ GoesAmong(Outdated(req[c].on, n), c, "update", "copy", r)
      /\ copy' = [copy EXCEPT ![req[c].on][n] = req[c].seen]
      /\ UNCHANGED <<spaces, record, writes, kept, uncounted, calls>>
  BY DEF UpdateCopy
<1>4. World'
  BY <1>0, <1>1, <1>3 DEF World
<1>. HIDE DEF r
<1>5. r.quiet => Settled("copy", r, spaces', record', copy')
  BY <1>0, <1>1, <1>2, <1>3 DEF Settled, World, Like
<1>6. Placed("copy", r) /\ "copy" \in PCs /\ Kin(Outdated(req[c].on, n))
  BY SMTT(60), WorldFacts, KinOutdated DEF Placed, PCs
<1>. QED  BY ZenonT(60), <1>0, <1>2, <1>3, <1>4, <1>5, <1>6, ServeStep

LEMMA RemoveKeeps ==
    ASSUME ProjectionInv, NEW c \in Clients, NEW n \in Spaces, RemoveCopy(c, n)
    PROVE  ProjectionInv'
<1>. DEFINE r == [req[c] EXCEPT !.todo = @ \ {n}]
<1>0. pc[c] = "remove" /\ World
  BY SMTT(60), WorldFacts DEF RemoveCopy, GoesAmong
<1>1. /\ req[c] \in Requests /\ req[c].on \in Bindings
      /\ req[c].quiet => Settled("remove", req[c], spaces, record, copy)
  BY <1>0, Serving
<1>2. /\ r \in Requests /\ r.quiet = req[c].quiet /\ r.todo = req[c].todo \ {n}
      /\ r.on = req[c].on
  BY <1>1 DEF Requests
<1>3. /\ GoesAmong(Outdated(req[c].on, n), c, "remove", "remove", r)
      /\ IF n = Home
         THEN record' = [record EXCEPT ![req[c].on] = 0] /\ copy' = copy
         ELSE copy' = [copy EXCEPT ![req[c].on][n] = 0] /\ record' = record
      /\ UNCHANGED <<spaces, writes, kept, uncounted, calls>>
  BY DEF RemoveCopy
<1>4. World'
  <2>1. CASE n = Home
    BY <1>0, <1>1, <1>3, <2>1 DEF World
  <2>2. CASE n # Home
    BY SMTT(60), <1>0, <1>1, <1>3, <2>2 DEF World
  <2>. QED  BY <2>1, <2>2
<1>. HIDE DEF r
<1>5. r.quiet => Settled("remove", r, spaces', record', copy')
  BY <1>0, <1>1, <1>2, <1>3 DEF Settled, World
<1>6. Placed("remove", r) /\ "remove" \in PCs /\ Kin(Outdated(req[c].on, n))
  BY WorldFacts, KinOutdated DEF Placed, PCs
<1>. QED  BY <1>0, <1>2, <1>3, <1>4, <1>5, <1>6, ServeStep

LEMMA FinishKeeps ==
    ASSUME ProjectionInv, NEW c \in Clients, Finish(c)
    PROVE  ProjectionInv'
<1>0. pc[c] \in {"copy", "remove"}
  BY ZenonT(60) DEF Finish, Visited
<1>1. req[c] \in Requests
  BY <1>0, Serving
<1>2. CASE Moves(c, pc[c], "idle", req[c])
  BY ZenonT(60), <1>0, <1>2, MoveStep DEF PCs
<1>3. ASSUME NEW b \in req[c].rest,
             Moves(c, pc[c], "delete", [req[c] EXCEPT !.on = b, !.rest = @ \ {b}])
      PROVE  ProjectionInv'
  <2>. DEFINE r == [req[c] EXCEPT !.on = b, !.rest = @ \ {b}]
  <2>1. r \in Requests /\ r.quiet = req[c].quiet
    BY ZenonT(60), <1>1 DEF Requests
  <2>2. Placed("delete", r) /\ "delete" \in PCs /\ Settled("delete", r, spaces, record, copy)
    BY DEF Placed, PCs, Settled
  <2>. HIDE DEF r
  <2>3. Moves(c, pc[c], "delete", r)
    BY <1>3 DEF r
  <2>. QED  BY <1>0, <2>1, <2>2, <2>3, MoveStep
<1>. QED  BY ZenonT(60), <1>2, <1>3 DEF Finish

\* A namespace is created or deleted, or the controller repairs a copy.
LEMMA OutsideKin ==
    ASSUME TypeOK, NEW n \in Spaces,
           \/ CreateNamespace(n) \/ DeleteNamespace(n)
           \/ \E b \in Bindings : Repair(b, n)
    PROVE  /\ Kin(req')
           /\ CreateNamespace(n) \/ DeleteNamespace(n) => \A c \in Clients : ~req'[c].quiet
<1>1. CASE CreateNamespace(n)
  <2>1. req' = Disturbed
    BY <1>1 DEF CreateNamespace
  <2>. QED  BY ZenonT(60), <2>1, KinDisturbed
<1>2. CASE DeleteNamespace(n)
  <2>. DEFINE p(c) == req[c].fresh /\ req[c].at # n
              q(c) == [req[c] EXCEPT !.quiet = FALSE]
  <2>2. \A c \in Clients : p(c) \in BOOLEAN
    BY Zenon
  <2>3. req' = [c \in Clients |-> [req[c] EXCEPT !.quiet = FALSE, !.fresh = p(c)]]
    BY Zenon, <1>2 DEF DeleteNamespace
  <2>4. ASSUME NEW c \in Clients, pc[c] = "idle"
        PROVE  req'[c] = NoRequest /\ ~req'[c].quiet
    <3>1. req[c] = NoRequest
      BY <2>4 DEF TypeOK
    <3>2. p(c) = FALSE
      BY Zenon, <3>1, NoRequestFacts
    <3>. HIDE DEF p
    <3>3. req'[c] = [[NoRequest EXCEPT !.quiet = FALSE] EXCEPT !.fresh = FALSE]
      BY ZenonT(60), <2>3, <3>1, <3>2
    <3>. QED  BY ZenonT(60), <3>3, NoRequestFacts
  <2>5. ASSUME NEW c \in Clients, pc[c] # "idle"
        PROVE  req'[c] \in Requests /\ Like(req'[c], req[c]) /\ ~req'[c].quiet
    <3>1. req[c] \in Requests /\ p(c) \in BOOLEAN
      BY <2>2, <2>5 DEF TypeOK
    <3>2. q(c) \in Requests /\ Like(q(c), req[c]) /\ ~q(c).quiet
      BY ZenonT(60), <3>1, WithQuiet
    <3>. HIDE DEF p
    <3>3. req'[c] = [q(c) EXCEPT !.fresh = p(c)]
      BY ZenonT(60), <2>3
    <3>. HIDE DEF q
    <3>. QED  BY <3>1, <3>2, <3>3, WithFresh DEF Like
  <2>6. Kin(req')
    BY ZenonT(60), <2>3, <2>4, <2>5 DEF Kin
  <2>. QED  BY <2>4, <2>5, <2>6
<1>3. ASSUME NEW b \in Bindings, Repair(b, n)  PROVE Kin(req') /\ ~CreateNamespace(n)
  <2>1. req' = Outdated(b, n) /\ n \in spaces
    BY <1>3 DEF Repair
  <2>. QED  BY <2>1, KinOutdated DEF CreateNamespace
<1>. QED  BY <1>1, <1>2, <1>3

\* The namespaces and the controller.
LEMMA OutsideKeeps ==
    ASSUME ProjectionInv, NEW n \in Spaces,
           \/ CreateNamespace(n) \/ DeleteNamespace(n)
           \/ \E b \in Bindings : Repair(b, n)
    PROVE  ProjectionInv'
<1>0. World /\ TypeOK
  BY WorldFacts
<1>1. CASE CreateNamespace(n)
  <2>1. World' /\ UNCHANGED pc /\ req' = Disturbed
    BY <1>0, <1>1 DEF CreateNamespace, World
  <2>2. Kin(req') /\ \A c \in Clients : ~req'[c].quiet
    BY ZenonT(60), <1>0, <2>1, KinDisturbed
  <2>. QED  BY <2>1, <2>2, WorldStep
<1>2. CASE DeleteNamespace(n)
  <2>1. World' /\ UNCHANGED pc
    <3>1. copy' \in [Bindings -> [Spaces -> Nat]]
      BY ZenonT(60), <1>0, <1>2 DEF DeleteNamespace, World
    <3>2. /\ spaces' = spaces \ {n} /\ calls' = calls + 1
          /\ UNCHANGED <<record, writes, kept, uncounted, pc>>
      BY Zenon, <1>2 DEF DeleteNamespace
    <3>. QED  BY <1>0, <3>1, <3>2 DEF World
  <2>2. Kin(req') /\ \A c \in Clients : ~req'[c].quiet
    BY SMTT(60), <1>0, <1>2, OutsideKin
  <2>. QED  BY <2>1, <2>2, WorldStep
<1>3. ASSUME NEW b \in Bindings, Repair(b, n)  PROVE ProjectionInv'
  <2>1. /\ UNCHANGED <<spaces, record, writes, kept, uncounted, calls, pc>>
        /\ copy' = [copy EXCEPT ![b][n] = record[b]] /\ req' = Outdated(b, n)
        /\ n \in spaces \ {Home}
    BY <1>3 DEF Repair
  <2>2. World'
    BY <1>0, <2>1 DEF World
  <2>3. Kin(req')
    BY <1>0, <2>1, KinOutdated
  <2>4. ASSUME NEW c \in Clients, pc[c] # "idle", req'[c].quiet
        PROVE  Settled(pc[c], req[c], spaces', record', copy')
    <3>1. Settled(pc[c], req[c], spaces, record, copy) /\ req[c].on \in Bindings
      BY ZenonT(60), <2>3, <2>4, Serving DEF Kin
    <3>2. \A m \in Spaces : \/ copy'[req[c].on][m] = copy[req[c].on][m]
                           \/ copy'[req[c].on][m] = record[req[c].on]
      BY <1>0, <2>1, <3>1 DEF World
    <3>. QED  BY ZenonT(60), <1>0, <2>1, <3>1, <3>2 DEF Settled, World
  <2>. QED  BY ZenonT(60), <2>1, <2>2, <2>3, <2>4, WorldStep
<1>. QED  BY <1>1, <1>2, <1>3

\* The invariant is inductive.
LEMMA ProjectionNext == ProjectionInv /\ [Next]_vars => ProjectionInv'
<1>. SUFFICES ASSUME ProjectionInv, [Next]_vars  PROVE ProjectionInv'
  BY SMTT(60)
<1>1. CASE UNCHANGED vars \/ Finished
  BY SMTT(60), <1>1 DEF Finished, vars, worldVars, ProjectionInv, TypeOK, Served, Placed,
                        Settled, Alone
<1>2. ASSUME NEW c \in Clients, BeginOne(c)  PROVE ProjectionInv'
  <2>1. PICK b \in Bindings : \E v \in Verbs[b] \ {"deletecollection"} :
            Begin(c, CASE v = "create" -> "count"
                       [] v = "delete" -> "delete"
                       [] OTHER        -> "write", v, b, {})
    BY Zenon, <1>2 DEF BeginOne
  <2>2. PICK v \in Verbs[b] \ {"deletecollection"} :
            Begin(c, CASE v = "create" -> "count"
                       [] v = "delete" -> "delete"
                       [] OTHER        -> "write", v, b, {})
    BY Zenon, <2>1
  <2>. DEFINE l == CASE v = "create" -> "count" [] v = "delete" -> "delete"
                     [] OTHER -> "write"
  <2>3. v \in AllVerbs /\ l \in {"count", "write", "delete"}
        /\ (l = "count" => v = "create") /\ (l = "write" => v \in {"create", "update", "apply"})
    BY ProjectionAssumption DEF AllVerbs
  <2>4. Begin(c, l, v, b, {})
    BY <2>2
  <2>. HIDE DEF l
  <2>. QED  BY <2>3, <2>4, BeginKeeps
<1>3. ASSUME NEW c \in Clients, BeginCollection(c)  PROVE ProjectionInv'
  <2>1. PICK b \in Records : Begin(c, "delete", "deletecollection", b, Records \ {b})
    BY Zenon, <1>3 DEF BeginCollection
  <2>2. Records \subseteq Bindings /\ "deletecollection" \in AllVerbs
    BY DEF Records, AllVerbs
  <2>. QED  BY <2>1, <2>2, BeginKeeps
<1>4. ASSUME NEW c \in Clients, RequestStep(c)  PROVE ProjectionInv'
  BY ZenonT(60), <1>4, FailuresKeep, CountKeeps, RecordKeeps, ReadsKeep, CreateKeeps,
     UpdateKeeps, RemoveKeeps, FinishKeeps DEF RequestStep
<1>. QED  BY ZenonT(60), <1>1, <1>2, <1>3, <1>4, OutsideKeeps DEF Next

LEMMA ProjectionInvariance == Spec => []ProjectionInv
  BY ProjectionInit, ProjectionNext, PTL DEF Spec

-----------------------------------------------------------------------------
(* What it gives.                                                          *)

\* A request that nothing disturbed returns with every namespace granting
\* exactly what the record says (project, unproject), whatever the copies were
\* when it began and however many namespaces it visits.
THEOREM UndisturbedProjection == Spec => []InlineProjection
<1>1. ProjectionInv => InlineProjection
  <2>. SUFFICES ASSUME ProjectionInv, NEW c \in Clients, Visited(c), req[c].quiet,
                       NEW n \in spaces \ {Home}
                PROVE  copy[req[c].on][n] = record[req[c].on]
    BY DEF InlineProjection
  <2>1. pc[c] \in {"copy", "remove"} /\ req[c].todo = {}
    BY SMTT(60) DEF Visited
  <2>2. Settled(pc[c], req[c], spaces, record, copy)
    BY <2>1, Serving
  <2>. QED  BY SMTT(60), <2>1, <2>2 DEF Settled
<1>. QED  BY <1>1, ProjectionInvariance, PTL

-----------------------------------------------------------------------------
(* The cap on the records.                                                 *)

\* The creates that the cap let through.
Creators == {c \in Clients : pc[c] = "write" /\ req[c].verb = "create"}

CapInv ==
    Limit # 0 => Cardinality(Records) + Cardinality(Creators)
                    <= Limit + Cardinality(Clients) - 1 + uncounted

LEMMA CapFinite ==
    /\ IsFiniteSet(Records) /\ IsFiniteSet(Creators)
    /\ Cardinality(Records) \in Nat /\ Cardinality(Creators) \in Nat
    /\ Cardinality(Clients) \in Nat /\ Limit \in Nat
    /\ Cardinality(Creators) <= Cardinality(Clients)
<1>1. IsFiniteSet(Bindings) /\ IsFiniteSet(Clients) /\ Limit \in Nat
  BY SMTT(60), ProjectionAssumption
<1>2. Records \subseteq Bindings /\ Creators \subseteq Clients
  BY DEF Records, Creators
<1>3. /\ IsFiniteSet(Records) /\ IsFiniteSet(Creators)
      /\ Cardinality(Creators) <= Cardinality(Clients)
  BY <1>1, <1>2, FS_Subset
<1>. QED  BY <1>1, <1>3, FS_CardinalityType

LEMMA Sums ==
    ASSUME NEW s \in Nat, NEW t \in Nat, NEW k \in Nat, NEW m \in Nat, NEW w \in Int,
           t + k <= s + m, s <= w + k
    PROVE  t <= w + m
  OBVIOUS

\* Records and creates together grow no faster than what is not counted for.
LEMMA CapArithmetic ==
    ASSUME CapInv, uncounted \in Nat, uncounted' \in Nat,
           Cardinality(Records') \in Nat, Cardinality(Creators') \in Nat,
           (Cardinality(Records') + Cardinality(Creators')) + uncounted
              <= (Cardinality(Records) + Cardinality(Creators)) + uncounted'
    PROVE  CapInv'
<1>. DEFINE a == Cardinality(Records)
            b == Cardinality(Creators)
            u == Cardinality(Records')
            v == Cardinality(Creators')
            C == Cardinality(Clients)
<1>1. /\ a \in Nat /\ b \in Nat /\ u \in Nat /\ v \in Nat /\ C \in Nat /\ Limit \in Nat
      /\ uncounted \in Nat /\ uncounted' \in Nat
      /\ (u + v) + uncounted <= (a + b) + uncounted'
  BY CapFinite
<1>2. Limit # 0 => a + b <= Limit + C - 1 + uncounted
  BY DEF CapInv
<1>. HIDE DEF a, b, u, v, C
<1>3. a + b \in Nat /\ u + v \in Nat /\ Limit + C - 1 \in Int
  BY <1>1
<1>4. ASSUME Limit # 0  PROVE u + v <= Limit + C - 1 + uncounted'
  <2>. DEFINE s == a + b
              t == u + v
              w == Limit + C - 1
  <2>1. /\ s \in Nat /\ t \in Nat /\ w \in Int /\ uncounted \in Nat /\ uncounted' \in Nat
        /\ t + uncounted <= s + uncounted' /\ s <= w + uncounted
    BY Zenon, <1>1, <1>2, <1>3, <1>4
  <2>. HIDE DEF s, t, w
  <2>2. t <= w + uncounted'
    BY Zenon, <2>1, Sums
  <2>. QED  BY Zenon, <2>2 DEF s, t, w
<1>. QED  BY <1>4 DEF CapInv, u, v, C

\* How the number of records changes.
LEMMA RecordsChange ==
    ASSUME NEW b \in Bindings, \A d \in Bindings \ {b} : record'[d] = record[d]
    PROVE  /\ Cardinality(Records') \in Nat
           /\ Cardinality(Records') <= Cardinality(Records) + 1
           /\ record[b] # 0 \/ record'[b] = 0 =>
                 Cardinality(Records') <= Cardinality(Records)
<1>1. Records' \subseteq Records \cup {b}
  BY DEF Records
<1>2. /\ IsFiniteSet(Records \cup {b})
      /\ Cardinality(Records \cup {b}) \in {Cardinality(Records), Cardinality(Records) + 1}
  BY CapFinite, FS_AddElement
<1>3. IsFiniteSet(Records') /\ Cardinality(Records') <= Cardinality(Records \cup {b})
  BY <1>1, <1>2, FS_Subset
<1>4. Cardinality(Records') \in Nat
  BY <1>3, FS_CardinalityType
<1>5. ASSUME record[b] # 0 \/ record'[b] = 0
      PROVE  Cardinality(Records') <= Cardinality(Records)
  <2>1. Records' \subseteq Records
    BY SMTT(60), <1>5 DEF Records
  <2>. QED  BY SMTT(60), <2>1, CapFinite, FS_Subset
<1>6. Cardinality(Records') <= Cardinality(Records) + 1
  BY SMTT(60), <1>2, <1>3, <1>4, CapFinite
<1>. QED  BY <1>4, <1>5, <1>6

\* How the number of creates on their way changes when c moves.
LEMMA CreatorsChange ==
    ASSUME NEW c \in Clients,
           \A d \in Clients \ {c} : d \in Creators' => d \in Creators
    PROVE  /\ Cardinality(Creators') \in Nat
           /\ Cardinality(Creators') <= Cardinality(Creators) + 1
           /\ c \notin Creators' => Cardinality(Creators') <= Cardinality(Creators)
           /\ c \in Creators /\ c \notin Creators' =>
                 Cardinality(Creators') <= Cardinality(Creators) - 1
<1>0. Creators' \subseteq Clients
  BY DEF Creators
<1>1. Creators' \subseteq Creators \cup {c}
  BY <1>0
<1>2. /\ IsFiniteSet(Creators \cup {c})
      /\ Cardinality(Creators \cup {c})
            \in {Cardinality(Creators), Cardinality(Creators) + 1}
  BY CapFinite, FS_AddElement
<1>3. IsFiniteSet(Creators') /\ Cardinality(Creators') <= Cardinality(Creators \cup {c})
  BY <1>1, <1>2, FS_Subset
<1>4. Cardinality(Creators') \in Nat
  BY <1>3, FS_CardinalityType
<1>5. ASSUME c \notin Creators'  PROVE Cardinality(Creators') <= Cardinality(Creators)
  <2>1. Creators' \subseteq Creators
    BY <1>1, <1>5
  <2>. QED  BY <2>1, CapFinite, FS_Subset
<1>6. ASSUME c \in Creators, c \notin Creators'
      PROVE  Cardinality(Creators') <= Cardinality(Creators) - 1
  <2>1. /\ IsFiniteSet(Creators \ {c})
        /\ Cardinality(Creators \ {c}) = Cardinality(Creators) - 1
    BY <1>6, CapFinite, FS_RemoveElement
  <2>2. Creators' \subseteq Creators \ {c}
    BY <1>1, <1>6
  <2>3. Cardinality(Creators') <= Cardinality(Creators \ {c})
    BY SMTT(60), <2>1, <2>2, FS_Subset
  <2>. QED  BY <2>1, <2>3
<1>7. Cardinality(Creators') <= Cardinality(Creators) + 1
  BY SMTT(60), <1>2, <1>3, <1>4, CapFinite
<1>. QED  BY SMTT(60), <1>4, <1>5, <1>6, <1>7

\* Request c goes on among rs, which are like the requests there were.
LEMMA CreatorsAmong ==
    ASSUME ProjectionInv, NEW c \in Clients, NEW rs, Kin(rs), NEW from, NEW l, NEW r,
           GoesAmong(rs, c, from, l, r)
    PROVE  /\ \A d \in Clients \ {c} : d \in Creators' => d \in Creators
           /\ l # "write" => c \notin Creators'
<1>1. /\ pc'[c] = l
      /\ \A d \in Clients \ {c} : pc'[d] = pc[d] /\ req'[d] = rs[d]
  BY WorldFacts DEF GoesAmong, Kin
<1>. QED  BY <1>1 DEF Kin, Like, Creators

\* The cap invariant is kept by every step.
LEMMA CapNext == ProjectionInv /\ CapInv /\ [Next]_vars => CapInv'
<1>. SUFFICES ASSUME ProjectionInv, CapInv, [Next]_vars  PROVE CapInv'
  OBVIOUS
<1>0. World /\ TypeOK /\ Kin(req) /\ uncounted \in Nat
  BY WorldFacts, KinSame DEF World
<1>1. ASSUME Records' \subseteq Records, Creators' \subseteq Creators, UNCHANGED uncounted
      PROVE  CapInv'
  <2>1. /\ Cardinality(Records') <= Cardinality(Records) /\ IsFiniteSet(Records')
        /\ Cardinality(Creators') <= Cardinality(Creators) /\ IsFiniteSet(Creators')
    BY SMTT(60), <1>1, CapFinite, FS_Subset
  <2>2. Cardinality(Records') \in Nat /\ Cardinality(Creators') \in Nat
    BY <2>1, FS_CardinalityType
  <2>3. (Cardinality(Records') + Cardinality(Creators')) + uncounted
           <= (Cardinality(Records) + Cardinality(Creators)) + uncounted'
    BY SMTT(60), <1>0, <1>1, <2>1, <2>2, CapFinite
  <2>. QED  BY SMTT(60), <1>0, <1>1, <2>2, <2>3, CapArithmetic
<1>2. ASSUME NEW c \in Clients, NEW rs, Kin(rs), NEW from, NEW l, NEW r, l # "write",
             GoesAmong(rs, c, from, l, r), Records' \subseteq Records, UNCHANGED uncounted
      PROVE  CapInv'
  <2>1. Creators' \subseteq Creators
    <3>1. Creators' \subseteq Clients
      BY DEF Creators
    <3>. QED  BY <1>2, <3>1, CreatorsAmong
  <2>. QED  BY <1>1, <1>2, <2>1
<1>3. ASSUME NEW c \in Clients, NEW l, NEW v, NEW b, NEW rest, Begin(c, l, v, b, rest),
             l = "write" => v # "create"
      PROVE  CapInv'
  <2>1. Records' = Records /\ UNCHANGED uncounted
    BY SMTT(60), <1>3 DEF Begin, worldVars, Records
  <2>2. ASSUME l # "write"  PROVE CapInv'
    <3>1. \E r : GoesAmong(Disturbed, c, "idle", l, r)
      BY Zenon, <1>3 DEF Begin, Disturbed
    <3>. QED  BY <1>0, <1>2, <2>1, <2>2, <3>1, KinDisturbed
  <2>3. ASSUME l = "write"  PROVE CapInv'
    <3>1. PICK q : GoesAmong(Disturbed, c, "idle", l,
                    [NoRequest EXCEPT !.verb = v, !.on = b, !.rest = rest, !.quiet = q])
      BY Zenon, <1>3 DEF Begin, Disturbed
    <3>2. req'[c].verb = v
      BY SMTT(60), <1>0, <2>3, <3>1, KinDisturbed DEF GoesAmong, Kin, NoRequest
    <3>3. c \notin Creators'
      BY <1>3, <2>3, <3>2 DEF Creators
    <3>4. Creators' \subseteq Creators
      <4>1. Creators' \subseteq Clients
        BY DEF Creators
      <4>2. \A d \in Clients \ {c} : d \in Creators' => d \in Creators
        BY <1>0, <3>1, KinDisturbed, CreatorsAmong
      <4>. QED  BY <3>3, <4>1, <4>2
    <3>. QED  BY <1>1, <2>1, <3>4
  <2>. QED  BY <2>2, <2>3
<1>4. ASSUME NEW c \in Clients, BeginOne(c) \/ BeginCollection(c)  PROVE CapInv'
  <2>1. CASE BeginCollection(c)
    BY Zenon, <1>3, <2>1 DEF BeginCollection
  <2>2. CASE BeginOne(c)
    <3>1. PICK v, b : Begin(c, CASE v = "create" -> "count"
                                 [] v = "delete" -> "delete"
                                 [] OTHER        -> "write", v, b, {})
      BY Zenon, <2>2 DEF BeginOne
    <3>2. (CASE v = "create" -> "count" [] v = "delete" -> "delete" [] OTHER -> "write")
             = "write" => v # "create"
      OBVIOUS
    <3>. QED  BY Zenon, <1>3, <3>1, <3>2
  <2>. QED  BY <1>4, <2>1, <2>2
<1>5. ASSUME NEW c \in Clients, CountBindings(c)  PROVE CapInv'
  <2>1. /\ GoesAmong(req, c, "count", IF UnderCap THEN "write" ELSE "idle", req[c])
        /\ Records' = Records /\ uncounted' = uncounted
    BY <1>5 DEF CountBindings, Moves, Goes, worldVars, Records
  <2>2. CASE ~UnderCap
    BY SMTT(60), <1>0, <1>2, <2>1, <2>2
  <2>3. CASE UnderCap
    <3>. DEFINE a == Cardinality(Records)
                v == Cardinality(Creators')
                C == Cardinality(Clients)
    <3>1. v <= C /\ v \in Nat /\ C \in Nat /\ a \in Nat /\ Limit \in Nat
      <4>1. Creators' \subseteq Clients /\ IsFiniteSet(Clients)
        BY ProjectionAssumption DEF Creators
      <4>. QED  BY SMTT(60), <4>1, CapFinite, FS_Subset, FS_CardinalityType
    <3>2. Limit # 0 => a < Limit
      BY <2>3 DEF UnderCap
    <3>. HIDE DEF a, v, C
    <3>3. Limit # 0 => a + v <= Limit + C - 1 + uncounted'
      BY SMTT(60), <1>0, <2>1, <3>1, <3>2
    <3>. QED  BY SMTT(60), <2>1, <3>3 DEF CapInv, a, v, C
  <2>. QED  BY <2>2, <2>3
<1>6. ASSUME NEW c \in Clients, CountFails(c)  PROVE CapInv'
  <2>1. /\ Records' = Records /\ uncounted' = uncounted + 1
        /\ \E r : GoesAmong(req, c, "count", "write", r)
    BY ZenonT(60), <1>6 DEF CountFails, Goes, Records
  <2>2. Cardinality(Creators') \in Nat /\ Cardinality(Creators') <= Cardinality(Creators) + 1
    BY SMTT(60), <1>0, <2>1, CreatorsAmong, CreatorsChange
  <2>3. /\ (Cardinality(Records') + Cardinality(Creators')) + uncounted
              <= (Cardinality(Records) + Cardinality(Creators)) + uncounted'
        /\ Cardinality(Records') \in Nat /\ uncounted' \in Nat
    BY SMTT(60), <1>0, <2>1, <2>2, CapFinite
  <2>. QED  BY <1>0, <2>2, <2>3, CapArithmetic
<1>7. ASSUME NEW c \in Clients, WriteRecord(c)  PROVE CapInv'
  <2>. DEFINE b == req[c].on
  <2>1. /\ pc[c] = "write" /\ GoesAmong(req, c, "write", "list", req[c])
        /\ req[c].verb = "create" => record[b] = 0
        /\ req[c].verb = "update" => record[b] # 0
        /\ record' = [record EXCEPT ![b] = writes + 1]
        /\ uncounted' = uncounted + (IF req[c].verb = "apply" /\ record[b] = 0 THEN 1 ELSE 0)
    BY SMTT(60), <1>7 DEF WriteRecord, Goes, GoesAmong
  <2>2. b \in Bindings /\ req[c].verb \in {"create", "update", "apply"}
    BY SMTT(60), <2>1, Serving DEF Placed
  <2>. HIDE DEF b
  <2>3. \A d \in Bindings \ {b} : record'[d] = record[d]
    BY SMTT(60), <1>0, <2>1, <2>2 DEF World
  <2>4. /\ Cardinality(Records') \in Nat
        /\ Cardinality(Records') <= Cardinality(Records) + 1
        /\ record[b] # 0 => Cardinality(Records') <= Cardinality(Records)
    BY SMTT(60), <2>2, <2>3, RecordsChange
  <2>5. c \notin Creators' /\ \A d \in Clients \ {c} : d \in Creators' => d \in Creators
    BY SMTT(60), <1>0, <2>1, CreatorsAmong
  <2>6. /\ Cardinality(Creators') \in Nat
        /\ Cardinality(Creators') <= Cardinality(Creators)
        /\ c \in Creators => Cardinality(Creators') <= Cardinality(Creators) - 1
    BY SMTT(60), <2>5, CreatorsChange
  <2>7. /\ uncounted' \in Nat
        /\ (Cardinality(Records') + Cardinality(Creators')) + uncounted
              <= (Cardinality(Records) + Cardinality(Creators)) + uncounted'
    <3>1. CASE req[c].verb = "create"
      <4>1. c \in Creators /\ uncounted' = uncounted
        BY SMTT(60), <1>0, <2>1, <3>1 DEF Creators
      <4>. QED  BY SMTT(60), <1>0, <2>4, <2>6, <4>1, CapFinite
    <3>2. CASE req[c].verb # "create" /\ record[b] # 0
      <4>1. uncounted' = uncounted
        BY SMTT(60), <1>0, <2>1, <3>2
      <4>. QED  BY SMTT(60), <1>0, <2>4, <2>6, <3>2, <4>1, CapFinite
    <3>3. CASE req[c].verb = "apply" /\ record[b] = 0
      <4>1. uncounted' = uncounted + 1
        BY <1>0, <2>1, <3>3
      <4>. QED  BY SMTT(60), <1>0, <2>4, <2>6, <4>1, CapFinite
    <3>. QED  BY SMTT(60), <2>1, <2>2, <3>1, <3>2, <3>3
  <2>. QED  BY SMTT(60), <1>0, <2>4, <2>6, <2>7, CapArithmetic
<1>8. ASSUME NEW c \in Clients, DeleteRecord(c)  PROVE CapInv'
  <2>1. req[c].on \in Bindings
    BY SMTT(60), <1>8, Serving DEF DeleteRecord, Goes, GoesAmong
  <2>2. Records' \subseteq Records
    BY SMTT(60), <1>0, <1>8, <2>1 DEF DeleteRecord, World, Records
  <2>3. GoesAmong(req, c, "delete", "list", req[c]) /\ UNCHANGED uncounted
    BY <1>8 DEF DeleteRecord, Goes
  <2>. QED  BY SMTT(60), <1>0, <1>2, <2>2, <2>3
<1>9. ASSUME NEW c \in Clients, NEW n \in Spaces, RemoveCopy(c, n)  PROVE CapInv'
  <2>1. req[c].on \in Bindings
    BY <1>9, Serving DEF RemoveCopy, GoesAmong
  <2>2. record' \in {record, [record EXCEPT ![req[c].on] = 0]}
    BY <1>9 DEF RemoveCopy
  <2>3. Records' \subseteq Records
    BY <1>0, <2>1, <2>2 DEF World, Records
  <2>4. /\ UNCHANGED uncounted
        /\ \E r : GoesAmong(Outdated(req[c].on, n), c, "remove", "remove", r)
    BY Zenon, <1>9 DEF RemoveCopy
  <2>. QED  BY SMTT(60), <1>0, <1>2, <2>3, <2>4, KinOutdated
<1>10. ASSUME NEW c \in Clients, UpdateCopy(c) \/ \E n \in Spaces : CreateCopy(c, n)
       PROVE  CapInv'
  <2>1. Records' = Records /\ UNCHANGED uncounted
    BY ZenonT(60), <1>10 DEF UpdateCopy, CreateCopy, Records
  <2>2. \E b, n, from, r : GoesAmong(Outdated(b, n), c, from, "copy", r)
    BY Zenon, <1>10 DEF UpdateCopy, CreateCopy
  <2>. QED  BY SMTT(60), <1>0, <1>2, <2>1, <2>2, KinOutdated
<1>11. ASSUME NEW c \in Clients, NEW from, NEW l, NEW r, l # "write", Moves(c, from, l, r)
       PROVE  CapInv'
  <2>1. GoesAmong(req, c, from, l, r) /\ Records' = Records /\ UNCHANGED uncounted
    BY <1>11 DEF Moves, Goes, worldVars, Records
  <2>. QED  BY <1>0, <1>2, <1>11, <2>1
<1>12. ASSUME NEW c \in Clients,
              \/ WriteFails(c) \/ DeleteFails(c) \/ ListNamespaces(c) \/ ListFails(c)
              \/ ReadRecord(c) \/ ReadFails(c) \/ GetCopy(c) \/ GetCopyFails(c)
              \/ UpdateCopyFails(c) \/ Finish(c)
              \/ \E n \in Spaces : CreateCopyFails(c, n) \/ RemoveCopyFails(c, n)
       PROVE  CapInv'
  <2>1. \E from, r : \E l \in PCs \ {"write"} : Moves(c, from, l, r)
    <3>1. CASE WriteFails(c) \/ DeleteFails(c) \/ ReadFails(c)
      BY Zenon, <3>1 DEF WriteFails, DeleteFails, ReadFails, Failing, PCs
    <3>2. CASE ListNamespaces(c) \/ ListFails(c)
      BY Zenon, <3>2 DEF ListNamespaces, ListFails, Failing, PCs
    <3>3. CASE ReadRecord(c) \/ GetCopy(c) \/ GetCopyFails(c) \/ UpdateCopyFails(c)
      BY Zenon, <3>3 DEF ReadRecord, GetCopy, GetCopyFails, UpdateCopyFails, Failing, PCs
    <3>4. CASE Finish(c)
      BY Zenon, <3>4 DEF Finish, PCs
    <3>5. CASE \E n \in Spaces : CreateCopyFails(c, n) \/ RemoveCopyFails(c, n)
      BY Zenon, <3>5 DEF CreateCopyFails, RemoveCopyFails, Failing, PCs
    <3>. QED  BY SMTT(60), <1>12, <3>1, <3>2, <3>3, <3>4, <3>5
  <2>. QED  BY <1>11, <2>1
<1>13. ASSUME NEW n \in Spaces,
              \/ CreateNamespace(n) \/ DeleteNamespace(n)
              \/ \E b \in Bindings : Repair(b, n)
       PROVE  CapInv'
  <2>1. UNCHANGED <<pc, record, uncounted>>
    BY Zenon, <1>13 DEF CreateNamespace, DeleteNamespace, Repair
  <2>2. Kin(req')
    BY SMTT(60), <1>0, <1>13, OutsideKin
  <2>3. Records' = Records /\ Creators' \subseteq Creators
    BY SMTT(60), <2>1, <2>2 DEF Records, Creators, Kin, Like
  <2>. QED  BY <1>1, <2>1, <2>3
<1>14. CASE Finished \/ UNCHANGED vars
  BY ZenonT(60), <1>14 DEF Finished, vars, worldVars, CapInv, Records, Creators
<1>. QED  BY ZenonT(60), <1>4, <1>5, <1>6, <1>7, <1>8, <1>9, <1>10, <1>12, <1>13, <1>14
             DEF Next, RequestStep

\* The check-then-create of refuseTooManyBindings overshoots the cap by at most
\* the requests beside the one that reaches it, the creates it could not count
\* for and the applies it is not asked about, however many clients there are.
THEOREM CapOvershootBounded == Spec => []CapOvershoot
<1>1. Init => CapInv
  <2>. SUFFICES ASSUME Init  PROVE CapInv
    OBVIOUS
  <2>1. Records = {} /\ Creators = {} /\ uncounted = 0
    BY DEF Init, Records, Creators
  <2>. QED  BY <2>1, CapFinite, FS_EmptySet DEF CapInv
<1>2. ProjectionInv /\ CapInv => CapOvershoot
  <2>. SUFFICES ASSUME ProjectionInv, CapInv  PROVE CapOvershoot
    OBVIOUS
  <2>1. uncounted \in Nat
    BY WorldFacts DEF World
  <2>. QED  BY <2>1, CapFinite DEF CapInv, CapOvershoot
<1>. QED  BY <1>1, <1>2, CapNext, ProjectionInvariance, PTL DEF Spec
=============================================================================
