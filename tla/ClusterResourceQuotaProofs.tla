--------------------- MODULE ClusterResourceQuotaProofs ---------------------
(***************************************************************************)
(* A theorem about ClusterResourceQuotaReconciler, for any number of       *)
(* namespaces and quotas, however far its cache is behind and whatever     *)
(* others do: it neither adopts nor deletes the quota of somebody else     *)
(* where it ensures its own.                                               *)
(***************************************************************************)
EXTENDS ClusterResourceQuota, TLAPS

-----------------------------------------------------------------------------
(* The inductive invariant.                                                *)

\* If both are quotas, they have the same owner.
Kin(x, y) == x = Absent \/ y = Absent \/ x.owned = y.owned

\* A name is given again only when nobody remembers the quota that had it: what
\* is stored, cached and listed under it is one quota, at different times.
SameQuota ==
    \A q \in Ids : Kin(live[q], cache[q]) /\ Kin(live[q], listed[q]) /\ Kin(cache[q], listed[q])

\* While a namespace is ensured, what is kept in it was listed as its own.
Chosen ==
    pc = "tidy" =>
        /\ at \in Namespaces
        /\ keep # NoId => keep \notin tidy /\ listed[keep].owned

QuotaInv == TypeOK /\ SameQuota /\ Chosen

-----------------------------------------------------------------------------
(* Writes.                                                                 *)

\* What may be written to q: nothing, the same quota changed, or a new one to a
\* name that is not in use.
Follows(to) ==
    /\ to \in [Ids -> Quotas]
    /\ \A q \in Ids : \/ to[q] = Absent
                      \/ live[q] # Absent /\ to[q].owned = live[q].owned
                      \/ q \in Unused

\* What was listed is still known or no longer matters.
Forgets ==
    /\ listed' \in [Ids -> Quotas]
    /\ \A q \in Ids : listed'[q] \in {listed[q], Absent}

LEMMA AbsentIs ==
    /\ Absent \in Quotas /\ Absent.owned = FALSE /\ Absent.made = FALSE /\ Absent.in = NoId
  BY DEF Absent, Quotas

LEMMA Unmade ==
    ASSUME NEW x, NEW f, x = [in |-> NoId, owned |-> f, made |-> f, auto |-> f, spec |-> 0]
    PROVE  [x EXCEPT !.made = f] = x
  OBVIOUS

LEMMA UnmadeAbsent == [Absent EXCEPT !.made = FALSE] = Absent
  BY Zenon, Unmade DEF Absent

LEMMA ProperIs ==
    ASSUME NEW n \in Namespaces, NEW s \in Nat
    PROVE  Proper(n, s) \in Quotas /\ [Proper(n, s) EXCEPT !.owned = FALSE] \in Quotas
  BY ZenonT(60) DEF Proper, Quotas

\* An edit leaves the owner.
LEMMA Edited ==
    ASSUME NEW x \in Quotas, x # Absent, NEW s \in Nat
    PROVE  /\ [x EXCEPT !.made = FALSE] \in Quotas /\ [x EXCEPT !.made = FALSE].owned = x.owned
           /\ [x EXCEPT !.auto = FALSE] \in Quotas /\ [x EXCEPT !.auto = FALSE].owned = x.owned
           /\ [x EXCEPT !.spec = s] \in Quotas /\ [x EXCEPT !.spec = s].owned = x.owned
           /\ [x EXCEPT !.made = TRUE, !.auto = TRUE, !.spec = s] \in Quotas
           /\ [x EXCEPT !.made = TRUE, !.auto = TRUE, !.spec = s].owned = x.owned
  BY ZenonT(60) DEF Quotas

LEMMA UnusedIs ==
    /\ Unused \subseteq Ids
    /\ \A q \in Unused : live[q] = Absent /\ cache[q] = Absent /\ listed[q] = Absent
    /\ Unused # {} => NewName \in Unused
  BY DEF Unused, NewName

\* A write leaves what is known of every quota in agreement.
LEMMA WriteSame ==
    ASSUME QuotaInv, NEW to, Follows(to), Write(to), Forgets, UNCHANGED cache
    PROVE  live' \in [Ids -> Quotas] /\ news' \subseteq Ids /\ SameQuota'
<1>1. live' = to /\ news' \subseteq Ids
  BY DEF Write, QuotaInv, TypeOK
<1>2. ASSUME NEW q \in Ids
      PROVE  /\ Kin(live'[q], cache[q]) /\ Kin(live'[q], listed'[q])
             /\ Kin(cache[q], listed'[q])
  <2>1. Kin(live[q], cache[q]) /\ Kin(live[q], listed[q]) /\ Kin(cache[q], listed[q])
    BY DEF QuotaInv, SameQuota
  <2>2. listed'[q] = listed[q] \/ listed'[q] = Absent
    BY DEF Forgets
  <2>3. Kin(cache[q], listed'[q])
    BY <2>1, <2>2 DEF Kin
  <2>4. CASE live'[q] = Absent
    BY <2>3, <2>4 DEF Kin
  <2>5. CASE live[q] # Absent /\ live'[q].owned = live[q].owned
    BY <2>1, <2>2, <2>3, <2>5 DEF Kin
  <2>6. CASE q \in Unused
    BY <2>2, <2>3, <2>6, UnusedIs DEF Kin
  <2> QED BY <1>1, <2>4, <2>5, <2>6 DEF Follows
<1> QED BY <1>1, <1>2 DEF Follows, SameQuota

LEMMA OneFollows ==
    ASSUME QuotaInv, NEW q \in Ids, NEW x \in Quotas,
           \/ x = Absent
           \/ live[q] # Absent /\ x.owned = live[q].owned
           \/ q \in Unused
    PROVE  Follows([live EXCEPT ![q] = x])
<1>1. live \in [Ids -> Quotas]
  BY DEF QuotaInv, TypeOK
<1>2. [live EXCEPT ![q] = x] \in [Ids -> Quotas]
  BY <1>1
<1>3. ASSUME NEW p \in Ids
      PROVE  LET y == [live EXCEPT ![q] = x][p] IN
             y = Absent \/ (live[p] # Absent /\ y.owned = live[p].owned) \/ p \in Unused
  <2>1. CASE p = q
    BY <1>1, <2>1
  <2>2. CASE p # q
    BY <1>1, <2>2
  <2> QED BY <2>1, <2>2
<1> QED BY <1>2, <1>3 DEF Follows

-----------------------------------------------------------------------------
(* Others, and the cache.                                                  *)

LEMMA OthersKeep ==
    ASSUME QuotaInv, OtherWriters
    PROVE  QuotaInv'
<1>1. Others
  BY ZenonT(60) DEF OtherWriters, CreateNamespace, DeleteNamespace, Relabel, SetNamespace, CreateForeign,
         ChangeSpec, EditQuota
<1>2. /\ moves \in Nat /\ moves' \in Nat
      /\ UNCHANGED <<nsSeen, specSeen, statusSeen, cache, queued, failures, lags>>
      /\ UNCHANGED <<pc, todo, at, keep, tidy, stray, want, listed, read, expected>>
  BY <1>1 DEF Others, seenVars, loopVars, QuotaInv, TypeOK
<1>3. Forgets
  BY <1>2 DEF Forgets, QuotaInv, TypeOK
<1>4. ASSUME /\ live' \in [Ids -> Quotas] /\ news' \subseteq Ids /\ SameQuota'
             /\ ns' \in [Namespaces -> States] /\ spec' \in Nat /\ status' = status
             /\ relabelled' \subseteq Namespaces
      PROVE  QuotaInv'
  <2>1. TypeOK'
    BY <1>2, <1>4 DEF QuotaInv, TypeOK
  <2>2. Chosen'
    BY <1>2 DEF QuotaInv, Chosen
  <2> QED BY <2>1, <2>2, <1>4 DEF QuotaInv
<1>5. /\ ns \in [Namespaces -> States] /\ spec \in Nat /\ relabelled \subseteq Namespaces
      /\ live \in [Ids -> Quotas] /\ news \subseteq Ids
  BY DEF QuotaInv, TypeOK
<1>6. ASSUME NEW n \in Namespaces, NEW state \in States, SetNamespace(n, state),
             relabelled' \subseteq Namespaces
      PROVE  QuotaInv'
  <2> DEFINE to == [q \in Ids |-> IF state = "gone" /\ live[q].in = n THEN Absent ELSE live[q]]
  <2>1. Write(to) /\ ns' = [ns EXCEPT ![n] = state] /\ UNCHANGED <<spec, status>>
    BY <1>6 DEF SetNamespace
  <2>2. Follows(to)
    BY <1>5, AbsentIs DEF Follows
  <2> HIDE DEF to
  <2>3. live' \in [Ids -> Quotas] /\ news' \subseteq Ids /\ SameQuota'
    BY <1>2, <1>3, <2>1, <2>2, WriteSame
  <2>4. ns' \in [Namespaces -> States]
    BY <1>5, <2>1
  <2> QED BY <1>4, <1>5, <1>6, <2>1, <2>3, <2>4
<1>7. ASSUME NEW n \in Namespaces, CreateNamespace(n) \/ DeleteNamespace(n) \/ Relabel(n)
      PROVE  QuotaInv'
  <2>1. PICK state \in States : SetNamespace(n, state)
    BY <1>7 DEF CreateNamespace, DeleteNamespace, Relabel, States
  <2>2. relabelled' \subseteq Namespaces
    BY <1>5, <1>7 DEF CreateNamespace, DeleteNamespace, Relabel
  <2> QED BY <1>6, <2>1, <2>2
<1>8. ASSUME NEW n \in Namespaces, CreateForeign(n)
      PROVE  QuotaInv'
  <2> DEFINE x == [Proper(n, 0) EXCEPT !.owned = FALSE]
  <2>1. /\ Unused # {} /\ Write([live EXCEPT ![NewName] = x])
        /\ UNCHANGED <<ns, spec, status, relabelled>>
    BY <1>8 DEF CreateForeign
  <2>2. x \in Quotas
    BY ProperIs
  <2> HIDE DEF x
  <2>3. Follows([live EXCEPT ![NewName] = x])
    BY <2>1, <2>2, UnusedIs, OneFollows
  <2>4. live' \in [Ids -> Quotas] /\ news' \subseteq Ids /\ SameQuota'
    BY <1>2, <1>3, <2>1, <2>3, WriteSame
  <2> QED BY <1>4, <1>5, <2>1, <2>4
<1>9. ASSUME NEW q \in Ids, EditQuota(q)
      PROVE  QuotaInv'
  <2>1. PICK x \in {Absent, [live[q] EXCEPT !.made = FALSE], [live[q] EXCEPT !.auto = FALSE],
                    [live[q] EXCEPT !.spec = 0]} : Write([live EXCEPT ![q] = x])
    BY ZenonT(60), <1>9 DEF EditQuota
  <2>2. live[q] # Absent /\ UNCHANGED <<ns, spec, status, relabelled>>
    BY <1>9 DEF EditQuota
  <2>3. x \in Quotas /\ (x = Absent \/ x.owned = live[q].owned)
    <3>1. live[q] \in Quotas /\ 0 \in Nat
      BY <1>5
    <3>2. /\ [live[q] EXCEPT !.made = FALSE] \in Quotas
          /\ [live[q] EXCEPT !.made = FALSE].owned = live[q].owned
          /\ [live[q] EXCEPT !.auto = FALSE] \in Quotas
          /\ [live[q] EXCEPT !.auto = FALSE].owned = live[q].owned
          /\ [live[q] EXCEPT !.spec = 0] \in Quotas
          /\ [live[q] EXCEPT !.spec = 0].owned = live[q].owned
      BY ZenonT(60), <2>2, <3>1, Edited
    <3> QED BY ZenonT(60), <2>1, <3>2, AbsentIs
  <2>4. Follows([live EXCEPT ![q] = x])
    BY <2>2, <2>3, OneFollows
  <2>5. live' \in [Ids -> Quotas] /\ news' \subseteq Ids /\ SameQuota'
    BY <1>2, <1>3, <2>1, <2>4, WriteSame
  <2> QED BY <1>4, <1>5, <2>2, <2>5
<1>10. CASE ChangeSpec
  <2>1. spec' \in Nat /\ UNCHANGED <<ns, live, status, news, relabelled>>
    BY <1>5, <1>10 DEF ChangeSpec
  <2>2. SameQuota'
    BY <1>2, <2>1 DEF QuotaInv, SameQuota
  <2> QED BY <1>4, <1>5, <2>1, <2>2
<1> QED BY <1>7, <1>8, <1>9, <1>10 DEF OtherWriters

LEMMA DeliverKeeps ==
    ASSUME QuotaInv, Deliver
    PROVE  QuotaInv'
<1>1. /\ live \in [Ids -> Quotas] /\ cache \in [Ids -> Quotas] /\ news \subseteq Ids
      /\ queued \in BOOLEAN /\ ns \in [Namespaces -> States] /\ nsSeen \in [Namespaces -> States]
  BY DEF QuotaInv, TypeOK
<1>2. UNCHANGED <<ns, spec, live, status, relabelled, moves, failures, lags>> /\ UNCHANGED loopVars
  BY DEF Deliver, SeeQuota, SeeNamespace, SeeClusterQuota, worldVars
<1>3. Chosen'
  BY <1>2 DEF loopVars, QuotaInv, Chosen
<1>4. queued' \in BOOLEAN
  BY ZenonT(60) DEF Deliver, SeeQuota, SeeNamespace, SeeClusterQuota
<1>5. ASSUME NEW q \in Ids, SeeQuota(q)
      PROVE  QuotaInv'
  <2>1. /\ cache' = [cache EXCEPT ![q] = live[q]] /\ news' = news \ {q}
        /\ UNCHANGED <<nsSeen, specSeen, statusSeen>>
    BY <1>5 DEF SeeQuota
  <2>2. cache' \in [Ids -> Quotas] /\ news' \subseteq Ids
    BY <1>1, <2>1
  <2>3. TypeOK'
    BY <1>2, <1>4, <2>1, <2>2 DEF loopVars, QuotaInv, TypeOK
  <2>4. ASSUME NEW p \in Ids
        PROVE  Kin(live[p], cache'[p]) /\ Kin(live[p], listed[p]) /\ Kin(cache'[p], listed[p])
    <3>1. Kin(live[p], cache[p]) /\ Kin(live[p], listed[p]) /\ Kin(cache[p], listed[p])
      BY DEF QuotaInv, SameQuota
    <3>2. cache'[p] = cache[p] \/ cache'[p] = live[p]
      BY <1>1, <2>1
    <3> QED BY <3>1, <3>2 DEF Kin
  <2>5. SameQuota'
    BY <1>2, <2>4 DEF SameQuota, loopVars
  <2> QED BY <1>3, <2>3, <2>5 DEF QuotaInv
<1>6. ASSUME UNCHANGED <<cache, news>>, nsSeen' \in [Namespaces -> States], specSeen' \in Nat,
             statusSeen' \in Statuses
      PROVE  QuotaInv'
  <2>1. TypeOK'
    BY <1>2, <1>4, <1>6 DEF loopVars, QuotaInv, TypeOK
  <2>2. SameQuota'
    BY <1>2, <1>6 DEF loopVars, QuotaInv, SameQuota
  <2> QED BY <1>3, <2>1, <2>2 DEF QuotaInv
<1>7. ASSUME NEW n \in Namespaces, SeeNamespace(n)
      PROVE  QuotaInv'
  <2>1. /\ nsSeen' = [nsSeen EXCEPT ![n] = ns[n]]
        /\ UNCHANGED <<cache, news, specSeen, statusSeen>>
    BY <1>7 DEF SeeNamespace, worldVars
  <2>2. nsSeen' \in [Namespaces -> States] /\ specSeen' \in Nat /\ statusSeen' \in Statuses
    BY <1>1, <2>1 DEF QuotaInv, TypeOK
  <2> QED BY <1>6, <2>1, <2>2
<1>8. CASE SeeClusterQuota
  <2>1. specSeen' = spec /\ statusSeen' = status /\ UNCHANGED <<cache, news, nsSeen>>
    BY <1>8 DEF SeeClusterQuota, worldVars
  <2>2. nsSeen' \in [Namespaces -> States] /\ specSeen' \in Nat /\ statusSeen' \in Statuses
    BY <1>1, <2>1 DEF QuotaInv, TypeOK
  <2> QED BY <1>6, <2>1, <2>2
<1> QED BY <1>5, <1>7, <1>8 DEF Deliver

-----------------------------------------------------------------------------
(* Reconcile.                                                              *)

\* What a step of Reconcile leaves alone, and what is left to show of it.
Apart ==
    UNCHANGED <<ns, spec, relabelled, nsSeen, specSeen, statusSeen, cache, moves>>

Loop ==
    /\ want \in Nat /\ listed \in [Ids -> Quotas] /\ queued \in BOOLEAN
    /\ pc \in {"idle", "ensure", "tidy"}
    /\ todo \subseteq Namespaces /\ at \in Namespaces \cup {NoId}
    /\ keep \in Ids \cup {NoId} /\ tidy \subseteq Ids /\ stray \subseteq Ids
    /\ status \in Statuses /\ read \in Statuses /\ expected \subseteq Ids
    /\ failures \in Nat /\ lags \in Nat

LEMMA LoopTyped == ASSUME QuotaInv PROVE Loop
  BY DEF QuotaInv, TypeOK, Loop

LEMMA WorkKeeps ==
    ASSUME QuotaInv, Apart, Loop', Chosen',
           live' \in [Ids -> Quotas], news' \subseteq Ids, SameQuota'
    PROVE  QuotaInv'
<1>1. UNCHANGED <<ns, spec, relabelled, nsSeen, specSeen, statusSeen, cache, moves>>
  BY DEF Apart
<1>2. TypeOK'
  BY <1>1 DEF QuotaInv, TypeOK, Loop
<1> QED BY <1>2 DEF QuotaInv

\* A step that writes no quota, and forgets what was listed at most.
LEMMA QuietKeeps ==
    ASSUME QuotaInv, Apart, Loop', Chosen', Forgets, UNCHANGED <<live, news>>
    PROVE  QuotaInv'
<1>1. cache' = cache
  BY DEF Apart
<1>2. live' \in [Ids -> Quotas] /\ news' \subseteq Ids
  BY ZenonT(60) DEF QuotaInv, TypeOK
<1>3. ASSUME NEW q \in Ids
      PROVE  Kin(live[q], cache[q]) /\ Kin(live[q], listed'[q]) /\ Kin(cache[q], listed'[q])
  <2>1. Kin(live[q], cache[q]) /\ Kin(live[q], listed[q]) /\ Kin(cache[q], listed[q])
    BY DEF QuotaInv, SameQuota
  <2>2. listed'[q] = listed[q] \/ listed'[q] = Absent
    BY DEF Forgets
  <2> QED BY ZenonT(60), <2>1, <2>2 DEF Kin
<1>4. SameQuota'
  BY <1>1, <1>3 DEF SameQuota
<1> QED BY <1>2, <1>4, WorkKeeps

\* One that writes.
LEMMA WritesKeep ==
    ASSUME QuotaInv, Apart, Loop', Chosen', Forgets, NEW to, Follows(to), Write(to)
    PROVE  QuotaInv'
<1>1. cache' = cache
  BY DEF Apart
<1>2. live' \in [Ids -> Quotas] /\ news' \subseteq Ids /\ SameQuota'
  BY <1>1, WriteSame
<1> QED BY <1>2, WorkKeeps

LEMMA ReconcileKeeps == ASSUME QuotaInv, Reconcile PROVE QuotaInv'
<1>1. /\ Apart /\ UNCHANGED <<live, news, status, at, keep, tidy, expected, failures>>
      /\ pc' = "ensure" /\ queued' = FALSE /\ want' = specSeen /\ read' = statusSeen
  BY DEF Reconcile, Apart, worldVars, seenVars
<1>2. lags' \in Nat
  <2>1. lags \in Nat /\ (lags' = lags \/ lags' = lags + 1)
    BY DEF Reconcile, QuotaInv, TypeOK
  <2> QED BY <2>1
<1>3. todo' \subseteq Namespaces /\ stray' \subseteq Ids
  BY DEF Reconcile, Matched
<1>4. cache \in [Ids -> Quotas] /\ specSeen \in Nat /\ statusSeen \in Statuses
  BY DEF QuotaInv, TypeOK
<1>5. listed' \in [Ids -> Quotas] /\ \A q \in Ids : listed'[q] = cache[q] \/ listed'[q] = Absent
  <2>1. listed' = [q \in Ids |-> IF cache[q].made /\ cache[q].in \in Matched
                                 THEN cache[q] ELSE Absent]
    BY DEF Reconcile
  <2> HIDE DEF Matched
  <2> QED BY <1>4, <2>1, AbsentIs
<1>6. Loop'
  BY ZenonT(60), <1>1, <1>2, <1>3, <1>4, <1>5, LoopTyped DEF Loop
<1>7. ASSUME NEW q \in Ids
      PROVE  Kin(live[q], cache[q]) /\ Kin(live[q], listed'[q]) /\ Kin(cache[q], listed'[q])
  <2>1. Kin(live[q], cache[q])
    BY DEF QuotaInv, SameQuota
  <2> QED BY <1>5, <2>1 DEF Kin
<1>8. SameQuota'
  BY <1>1, <1>7 DEF SameQuota, Apart
<1>9. Chosen'
  BY <1>1 DEF Chosen
<1>10. live' \in [Ids -> Quotas] /\ news' \subseteq Ids
  BY <1>1 DEF QuotaInv, TypeOK
<1> QED BY <1>1, <1>6, <1>8, <1>9, <1>10, WorkKeeps

LEMMA EnsureKeeps == ASSUME QuotaInv, NEW n \in Namespaces, EnsureNamespace(n) PROVE QuotaInv'
<1> DEFINE owned == {q \in ListedIn(n) : listed[q].owned}
<1>1. /\ Apart
      /\ UNCHANGED <<live, news, status, queued, stray, want, listed, read, expected, failures, lags>>
      /\ pc' = "tidy" /\ at' = n /\ todo' = todo \ {n} /\ tidy' = ListedIn(n) \ {keep'}
      /\ keep' \in (IF owned = {} THEN {NoId} ELSE owned)
  BY DEF EnsureNamespace, Apart, worldVars, seenVars
<1>2. ListedIn(n) \subseteq Ids
  BY DEF ListedIn
<1>3. keep' \in Ids \cup {NoId} /\ (keep' # NoId => keep' \notin tidy' /\ listed[keep'].owned)
  BY <1>1, <1>2
<1>4. Chosen'
  BY <1>1, <1>3 DEF Chosen
<1>5. Loop'
  BY ZenonT(60), <1>1, <1>2, <1>3, LoopTyped DEF Loop
<1>6. Forgets
  BY <1>1, LoopTyped DEF Forgets, Loop
<1> QED BY <1>1, <1>4, <1>5, <1>6, QuietKeeps

\* What was listed of q is dealt with.
LEMMA DoneKeeps ==
    ASSUME QuotaInv, pc = "tidy", NEW q \in tidy, Done(q), failures' \in Nat,
           UNCHANGED <<status, queued, pc, todo, at, keep, stray, want, read, expected, lags>>
    PROVE  Loop' /\ Chosen' /\ Forgets
<1>1. Loop /\ Chosen /\ tidy' = tidy \ {q} /\ listed' = [listed EXCEPT ![q] = Absent]
  BY LoopTyped DEF QuotaInv, Done
<1>2. listed \in [Ids -> Quotas] /\ q \in Ids
  BY <1>1 DEF Loop
<1>3. Forgets
  BY ZenonT(60), <1>1, <1>2, AbsentIs DEF Forgets
<1>4. Loop'
  BY <1>1, <1>3 DEF Loop, Forgets
<1>5. keep # NoId => listed'[keep] = listed[keep]
  BY <1>1, <1>2 DEF Chosen, Loop
<1>6. Chosen'
  BY <1>1, <1>5 DEF Chosen
<1> QED BY <1>3, <1>4, <1>6

LEMMA TidyKeeps == ASSUME QuotaInv, NEW q \in Ids, TidyQuota(q) PROVE QuotaInv'
<1> DEFINE x == IF listed[q].owned THEN Absent
                ELSE IF live[q] = listed[q] THEN [live[q] EXCEPT !.made = FALSE] ELSE live[q]
<1>1. /\ pc = "tidy" /\ q \in tidy /\ Done(q) /\ Apart /\ Write([live EXCEPT ![q] = x])
      /\ UNCHANGED <<status, queued, pc, todo, at, keep, stray, want, read, expected, failures, lags>>
  BY DEF TidyQuota, Apart, seenVars
<1>2. live[q] \in Quotas /\ failures \in Nat
  BY DEF QuotaInv, TypeOK
<1>3. x \in Quotas /\ (x = Absent \/ (live[q] # Absent /\ x.owned = live[q].owned))
  <2>1. CASE listed[q].owned
    BY <2>1, AbsentIs
  <2>2. CASE live[q] = Absent
    <3>1. x = [Absent EXCEPT !.made = FALSE] \/ x = Absent
      BY <2>2
    <3> HIDE DEF x
    <3> QED BY ZenonT(60), <3>1, UnmadeAbsent, AbsentIs
  <2>3. CASE ~listed[q].owned /\ live[q] # Absent
    <3>1. /\ [live[q] EXCEPT !.made = FALSE] \in Quotas
          /\ [live[q] EXCEPT !.made = FALSE].owned = live[q].owned
      BY ZenonT(60), <1>2, <2>3, Edited
    <3>2. x = [live[q] EXCEPT !.made = FALSE] \/ x = live[q]
      BY ZenonT(60), <2>3
    <3> HIDE DEF x
    <3> QED BY ZenonT(60), <1>2, <2>3, <3>1, <3>2
  <2> QED BY <2>1, <2>2, <2>3
<1> HIDE DEF x
<1>4. Follows([live EXCEPT ![q] = x])
  BY <1>3, OneFollows
<1>5. Loop' /\ Chosen' /\ Forgets
  BY <1>1, <1>2, DoneKeeps
<1> QED BY <1>1, <1>4, <1>5, WritesKeep

LEMMA FailureIs == ASSUME QuotaInv, Failure PROVE failures' \in Nat
  BY DEF Failure, QuotaInv, TypeOK

LEMMA TidyFailsKeeps == ASSUME QuotaInv, NEW q \in Ids, TidyFails(q) PROVE QuotaInv'
<1>1. /\ pc = "tidy" /\ q \in tidy /\ Done(q) /\ Apart /\ Failure /\ UNCHANGED <<live, news>>
      /\ UNCHANGED <<status, queued, pc, todo, at, keep, stray, want, read, expected, lags>>
  BY DEF TidyFails, Apart, worldVars, seenVars
<1>2. Loop' /\ Chosen' /\ Forgets
  BY <1>1, DoneKeeps, FailureIs
<1> QED BY <1>1, <1>2, QuietKeeps

LEMMA ReturnsKeeps ==
    ASSUME QuotaInv, NEW q \in Ids, EnsureReturns(q), UNCHANGED <<ns, spec, status, relabelled>>
    PROVE  Apart /\ Loop' /\ Chosen' /\ Forgets
<1>1. /\ pc' = "ensure" /\ at' = NoId /\ keep' = NoId /\ expected' = expected \cup {q}
      /\ listed' = [p \in Ids |-> IF listed[p].in = at THEN Absent ELSE listed[p]]
      /\ UNCHANGED <<queued, todo, tidy, stray, want, read, failures, lags>> /\ Apart
  BY DEF EnsureReturns, Apart, seenVars
<1>2. Loop
  BY ZenonT(60), LoopTyped
<1>3. Forgets
  BY ZenonT(60), <1>1, <1>2, AbsentIs DEF Forgets, Loop
<1>4. Loop'
  BY <1>1, <1>2, <1>3 DEF Loop, Forgets
<1>5. Chosen'
  BY <1>1 DEF Chosen
<1> QED BY ZenonT(60), <1>1, <1>3, <1>4, <1>5

LEMMA CreateKeeps == ASSUME QuotaInv, CreateQuota PROVE QuotaInv'
<1>1. /\ pc = "tidy" /\ Unused # {} /\ Write([live EXCEPT ![NewName] = Proper(at, want)])
      /\ EnsureReturns(NewName) /\ UNCHANGED <<ns, spec, status, relabelled>>
  BY DEF CreateQuota
<1>2. NewName \in Unused /\ NewName \in Ids
  BY <1>1, UnusedIs
<1>3. Proper(at, want) \in Quotas
  BY ZenonT(60), <1>1, LoopTyped, ProperIs DEF Loop, QuotaInv, Chosen
<1>4. Follows([live EXCEPT ![NewName] = Proper(at, want)])
  BY <1>2, <1>3, OneFollows
<1>5. Apart /\ Loop' /\ Chosen' /\ Forgets
  BY <1>1, <1>2, ReturnsKeeps
<1> QED BY <1>1, <1>4, <1>5, WritesKeep

LEMMA KeepKeeps == ASSUME QuotaInv, KeepQuota PROVE QuotaInv'
<1>1. keep \in Ids /\ EnsureReturns(keep) /\ UNCHANGED <<ns, spec, status, relabelled, live, news>>
  BY LoopTyped DEF KeepQuota, Loop, worldVars
<1>2. Apart /\ Loop' /\ Chosen' /\ Forgets
  BY <1>1, ReturnsKeeps
<1> QED BY <1>1, <1>2, QuietKeeps

LEMMA SyncKeeps == ASSUME QuotaInv, SyncQuota PROVE QuotaInv'
<1> DEFINE x == [live[keep] EXCEPT !.made = TRUE, !.auto = TRUE, !.spec = want]
<1>1. /\ keep \in Ids /\ live[keep] # Absent /\ Write([live EXCEPT ![keep] = x])
      /\ EnsureReturns(keep) /\ UNCHANGED <<ns, spec, status, relabelled>>
  BY LoopTyped DEF SyncQuota, Loop
<1>2. live[keep] \in Quotas /\ want \in Nat
  BY <1>1 DEF QuotaInv, TypeOK
<1>3. x \in Quotas /\ x.owned = live[keep].owned
  BY ZenonT(60), <1>1, <1>2, Edited
<1> HIDE DEF x
<1>4. Follows([live EXCEPT ![keep] = x])
  BY ZenonT(60), <1>1, <1>3, OneFollows
<1>5. Apart /\ Loop' /\ Chosen' /\ Forgets
  BY <1>1, ReturnsKeeps
<1> QED BY <1>1, <1>4, <1>5, WritesKeep

LEMMA DropKeeps == ASSUME QuotaInv, NEW q \in Ids, DropQuota(q) \/ DropFails(q) PROVE QuotaInv'
<1>1. /\ pc = "ensure" /\ stray' = stray \ {q} /\ Apart
      /\ UNCHANGED <<status, queued, pc, todo, at, keep, tidy, want, listed, read, expected, lags>>
  BY ZenonT(60) DEF DropQuota, DropFails, Apart, worldVars, seenVars
<1>2. failures' \in Nat
  BY ZenonT(60), FailureIs DEF DropQuota, DropFails, QuotaInv, TypeOK
<1>3. Loop' /\ Chosen' /\ Forgets
  <2>1. Loop'
    BY ZenonT(60), <1>1, <1>2, LoopTyped DEF Loop
  <2>2. Chosen'
    BY ZenonT(60), <1>1 DEF Chosen
  <2>3. Forgets
    BY ZenonT(60), <1>1, LoopTyped DEF Forgets, Loop
  <2> QED BY ZenonT(60), <2>1, <2>2, <2>3
<1>4. CASE DropQuota(q)
  <2>1. Write([live EXCEPT ![q] = Absent])
    BY ZenonT(60), <1>4 DEF DropQuota
  <2>2. Follows([live EXCEPT ![q] = Absent])
    BY ZenonT(60), AbsentIs, OneFollows
  <2> QED BY ZenonT(60), <1>1, <1>3, <2>1, <2>2, WritesKeep
<1>5. CASE DropFails(q)
  <2>1. UNCHANGED <<live, news>>
    BY ZenonT(60), <1>5 DEF DropFails, worldVars
  <2> QED BY ZenonT(60), <1>1, <1>3, <2>1, QuietKeeps
<1> QED BY ZenonT(60), <1>4, <1>5

LEMMA EndsKeeps == ASSUME QuotaInv, SyncStatus \/ EnsureMisses \/ Fails PROVE QuotaInv'
<1>1. Ends
  BY ZenonT(60) DEF SyncStatus, EnsureMisses, Fails, Retried
<1>2. /\ pc' = "idle" /\ todo' = {} /\ at' = NoId /\ keep' = NoId /\ tidy' = {} /\ stray' = {}
      /\ want' = 0 /\ listed' = [q \in Ids |-> Absent] /\ read' = NoStatus /\ expected' = {}
      /\ Apart /\ UNCHANGED <<live, news, lags>>
  BY ZenonT(60), <1>1 DEF Ends, Apart, seenVars
<1>3. queued' \in BOOLEAN /\ failures' \in Nat
  BY ZenonT(60), LoopTyped, FailureIs DEF SyncStatus, EnsureMisses, Fails, Retried, Loop
<1>4. status' \in Statuses
  <2>1. Loop
    BY LoopTyped
  <2>2. [hard |-> want, over |-> expected] \in Statuses
    BY <2>1 DEF Loop, Statuses
  <2>3. status' = status \/ status' = [hard |-> want, over |-> expected]
    BY DEF SyncStatus, EnsureMisses, Fails, Retried
  <2> QED BY <2>1, <2>2, <2>3 DEF Loop
<1>5. NoStatus \in Statuses
  BY DEF NoStatus, Statuses
<1>6. Forgets
  BY ZenonT(60), <1>2, AbsentIs DEF Forgets
<1>7. Loop'
  BY ZenonT(60), <1>2, <1>3, <1>4, <1>5, <1>6, LoopTyped DEF Loop, Forgets
<1>8. Chosen'
  BY <1>2 DEF Chosen
<1> QED BY ZenonT(60), <1>2, <1>6, <1>7, <1>8, QuietKeeps

-----------------------------------------------------------------------------
(* The theorem.                                                            *)

LEMMA QuotaInvariance == Spec => []QuotaInv
<1>1. Init => QuotaInv
  <2> SUFFICES ASSUME Init PROVE QuotaInv
    BY ZenonT(60)
  <2>1. live = [q \in Ids |-> Absent] /\ cache = live /\ listed = live /\ NoStatus \in Statuses
    BY DEF Init, NoStatus, Statuses
  <2>2. live \in [Ids -> Quotas]
    BY <2>1, AbsentIs
  <2>3. [Namespaces -> {"gone", "matched"}] \subseteq [Namespaces -> States]
    BY ZenonT(60) DEF States
  <2>4. TypeOK
    BY ZenonT(60), <2>1, <2>2, <2>3 DEF Init, TypeOK
  <2>5. SameQuota /\ Chosen
    BY <2>1 DEF Init, SameQuota, Chosen, Kin
  <2> QED BY <2>4, <2>5 DEF QuotaInv
<1>2. QuotaInv /\ [Next]_vars => QuotaInv'
  <2> SUFFICES ASSUME QuotaInv, [Next]_vars PROVE QuotaInv'
    OBVIOUS
  <2>1. CASE OtherWriters
    BY <2>1, OthersKeep
  <2>2. CASE Deliver
    BY ZenonT(60), <2>2, DeliverKeeps
  <2>3. CASE Work
    BY ZenonT(60), <2>3, ReconcileKeeps, EnsureKeeps, TidyKeeps, TidyFailsKeeps, CreateKeeps, KeepKeeps,
       SyncKeeps, DropKeeps, EndsKeeps DEF Work
  <2>4. CASE UNCHANGED vars
    <3>1. /\ UNCHANGED <<worldVars, seenVars, loopVars>> /\ UNCHANGED <<queued, moves, failures, lags>>
      BY ZenonT(60), <2>4 DEF vars
    <3>2. TypeOK'
      BY ZenonT(60), <3>1 DEF QuotaInv, TypeOK, worldVars, seenVars, loopVars
    <3>3. SameQuota' /\ Chosen'
      BY <3>1 DEF QuotaInv, SameQuota, Chosen, worldVars, seenVars, loopVars
    <3> QED BY <3>2, <3>3 DEF QuotaInv
  <2> QED BY <2>1, <2>2, <2>3, <2>4 DEF Next, AtRest
<1> QED BY <1>1, <1>2, PTL DEF Spec

\* What is done to q while a namespace is ensured, if somebody else owns it: it
\* is no duplicate, and not what is kept.
LEMMA TidyLeaves ==
    ASSUME QuotaInv, Work, pc = "tidy"
    PROVE  LeavesForeign
<1> SUFFICES ASSUME NEW q \in Ids, live[q] # Absent, ~live[q].owned
             PROVE  live'[q] \in {live[q], [live[q] EXCEPT !.made = FALSE]}
  BY DEF LeavesForeign
<1>1. live \in [Ids -> Quotas] /\ Kin(live[q], listed[q]) /\ live[q].owned \in BOOLEAN
  <2>1. live \in [Ids -> Quotas] /\ Kin(live[q], listed[q])
    BY ZenonT(60) DEF QuotaInv, TypeOK, SameQuota
  <2> QED BY ZenonT(60), <2>1 DEF Quotas
<1>2. ~listed[q].owned
  BY ZenonT(60), <1>1, AbsentIs DEF Kin
<1>3. ASSUME NEW p \in Ids, TidyQuota(p)
      PROVE  live'[q] \in {live[q], [live[q] EXCEPT !.made = FALSE]}
  <2>1. live' = [live EXCEPT ![p] =
                    IF listed[p].owned THEN Absent
                    ELSE IF live[p] = listed[p] THEN [live[p] EXCEPT !.made = FALSE] ELSE live[p]]
    BY <1>3 DEF TidyQuota, Write
  <2>2. CASE p # q
    BY <1>1, <2>1, <2>2
  <2>3. CASE p = q
    BY <1>1, <1>2, <2>1, <2>3
  <2> QED BY <2>2, <2>3
<1>4. CASE CreateQuota
  <2>1. NewName # q /\ live' = [live EXCEPT ![NewName] = Proper(at, want)]
    BY <1>4, UnusedIs DEF CreateQuota, Write
  <2> QED BY ZenonT(60), <1>1, <2>1
<1>5. CASE SyncQuota
  <2>1. keep # q
    BY <1>2, <1>5 DEF SyncQuota, QuotaInv, Chosen
  <2>2. PICK x : live' = [live EXCEPT ![keep] = x]
    BY ZenonT(60), <1>5 DEF SyncQuota, Write
  <2> QED BY <1>1, <2>1, <2>2
<1>6. CASE live' = live
  BY <1>6
<1>7. ASSUME NEW p \in Ids, TidyFails(p) PROVE live' = live
  BY <1>7 DEF TidyFails, worldVars
<1>8. KeepQuota \/ EnsureMisses \/ Fails => live' = live
  BY DEF KeepQuota, EnsureMisses, Fails, Retried, Ends, worldVars
<1>9. /\ ~Reconcile /\ ~SyncStatus
      /\ \A n \in Namespaces : ~EnsureNamespace(n)
      /\ \A p \in Ids : ~DropQuota(p) /\ ~DropFails(p)
  BY ZenonT(60) DEF Reconcile, SyncStatus, AllSynced, EnsureNamespace, DropQuota, DropFails
<1> QED BY ZenonT(60), <1>3, <1>4, <1>5, <1>6, <1>7, <1>8, <1>9 DEF Work

\* In a namespace that it ensures, ensureResourceQuotaInNamespace neither adopts
\* nor deletes a quota that somebody else created with its label, though it acts
\* on cached copies of quotas that may have been deleted and replaced since.
THEOREM ForeignQuotaStays == Spec => ForeignNotAdopted
<1>1. QuotaInv /\ [Next]_vars => [Work /\ pc = "tidy" => LeavesForeign]_vars
  BY TidyLeaves
<1> QED BY <1>1, QuotaInvariance, PTL DEF Spec, ForeignNotAdopted
=============================================================================
