--------------------------- MODULE WatchMuxProofs ---------------------------
(***************************************************************************)
(* Theorems about the merged watch, for any number of namespaces,          *)
(* revisions and attempts.  The merged bookmark of a resumed watch is a    *)
(* safe place to resume from, and the end of a replay comes after          *)
(* everything that was replayed.                                           *)
(***************************************************************************)
EXTENDS WatchMux, FiniteSetTheorems, TLAPS

-----------------------------------------------------------------------------
(* Goroutines and how they are counted.                                    *)

Idle == {"off", "done"}

\* The goroutines that a pc function f has running.
LiveIn(f) == {p \in Procs : f[p] \notin Idle}

\* The goroutines of the mux are distinct and finitely many.
LEMMA ProcFacts ==
    /\ \A n \in Namespaces : Forwarder(n) \in Procs /\ Joiner(n) \in Procs
    /\ Follower \in Procs
    /\ \A n, m \in Namespaces : Forwarder(n) # Joiner(m)
    /\ \A n \in Namespaces : Forwarder(n) # Follower /\ Joiner(n) # Follower
    /\ \A n, m \in Namespaces : Forwarder(n) = Forwarder(m) => n = m
    /\ \A n, m \in Namespaces : Joiner(n) = Joiner(m) => n = m
BY DEF Forwarder, Joiner, Follower, Procs

\* There are finitely many goroutines, since there are finitely many namespaces.
LEMMA ProcsFinite == IsFiniteSet(Procs)
<1>1. IsFiniteSet({"forward"}) /\ IsFiniteSet({"join"}) /\ IsFiniteSet({Follower})
  BY Zenon, FS_Singleton
<1>2. IsFiniteSet({"forward", "join"})
  <2>1. {"forward", "join"} = {"forward"} \cup {"join"}
    OBVIOUS
  <2>. QED  BY ZenonT(60), <1>1, <2>1, FS_Union
<1>3. IsFiniteSet({"forward", "join"} \X Namespaces)
  BY <1>2, NamespacesAssumption, FS_Product
<1>. QED  BY Zenon, <1>1, <1>3, FS_Union DEF Procs

\* Starting a goroutine that is not running counts one more.
LEMMA CountStart ==
    ASSUME NEW f \in [Procs -> PCs], NEW p \in Procs, f[p] \in Idle,
           NEW l \in PCs \ Idle
    PROVE  /\ [f EXCEPT ![p] = l] \in [Procs -> PCs]
           /\ Cardinality(LiveIn([f EXCEPT ![p] = l])) = Cardinality(LiveIn(f)) + 1
<1>1. IsFiniteSet(LiveIn(f))
  BY ProcsFinite, FS_Subset DEF LiveIn
<1>2. LiveIn([f EXCEPT ![p] = l]) = LiveIn(f) \cup {p}
  BY DEF LiveIn
<1>3. p \notin LiveIn(f)
  BY DEF LiveIn
<1>. QED  BY Zenon, <1>1, <1>2, <1>3, FS_AddElement

\* Ending one that is running counts one less.
LEMMA CountEnd ==
    ASSUME NEW f \in [Procs -> PCs], NEW p \in Procs, f[p] \notin Idle
    PROVE  /\ [f EXCEPT ![p] = "done"] \in [Procs -> PCs]
           /\ LiveIn([f EXCEPT ![p] = "done"]) = LiveIn(f) \ {p}
           /\ Cardinality(LiveIn([f EXCEPT ![p] = "done"])) = Cardinality(LiveIn(f)) - 1
           /\ Cardinality(LiveIn(f)) - 1 \in Nat
<1>1. IsFiniteSet(LiveIn(f))
  BY ProcsFinite, FS_Subset DEF LiveIn
<1>2. LiveIn([f EXCEPT ![p] = "done"]) = LiveIn(f) \ {p}
  BY DEF LiveIn, Idle
<1>3. p \in LiveIn(f)
  BY DEF LiveIn
<1>4. IsFiniteSet(LiveIn(f) \ {p})
        /\ Cardinality(LiveIn(f) \ {p}) = Cardinality(LiveIn(f)) - 1
  BY Zenon, <1>1, <1>3, FS_RemoveElement
<1>5. Cardinality(LiveIn(f) \ {p}) \in Nat
  BY <1>4, FS_CardinalityType
<1>6. [f EXCEPT ![p] = "done"] \in [Procs -> PCs]
  BY DEF PCs
<1>. QED  BY Zenon, <1>2, <1>4, <1>5, <1>6

\* A move of a running goroutine does not change the count.
LEMMA CountMove ==
    ASSUME NEW f \in [Procs -> PCs], NEW p \in Procs, f[p] \notin Idle,
           NEW l \in PCs \ Idle
    PROVE  /\ [f EXCEPT ![p] = l] \in [Procs -> PCs]
           /\ LiveIn([f EXCEPT ![p] = l]) = LiveIn(f)
BY DEF LiveIn

-----------------------------------------------------------------------------
(* The inductive invariant behind the WaitGroup and the closed channel.     *)

\* A goroutine is started at most once: a forwarder with its entry in
\* m.watched, the follower with the mux, a joiner with its Added event.
Shape ==
    /\ \A n \in Namespaces : n \notin watched => pc[Forwarder(n)] = "off"
    /\ ctor # "open" => /\ pc[Follower] = "off"
                        /\ nsConn = "none"
                        /\ \A n \in Namespaces : pc[Joiner(n)] = "off"
    /\ ctor = "open" => pc[Follower] # "off" /\ nsConn # "none"
    /\ \A n \in present \cup added : n \in Existing \/ born[n] > 0
    /\ \A n \in Namespaces : pc[Joiner(n)] # "off" => n \in Existing \/ born[n] > 0
    /\ \A n \in added : pc[Joiner(n)] = "off"

\* Every upstream watch that is open has a goroutine reading it, and nothing
\* runs once m.result is closed.
Attached ==
    /\ nsConn \in {"open", "ended"} => pc[Follower] \notin Idle
    /\ \A n \in Namespaces : conn[n] = "open" => pc[Forwarder(n)] \notin Idle
    /\ closed => ctor = "open" /\ LiveIn(pc) = {}

Counted == wg = Cardinality(LiveIn(pc))

CountInv == TypeOK /\ Counted /\ Shape /\ Attached

\* The initial state has no goroutine and no watch.
LEMMA CountInit == Init => CountInv
<1>. SUFFICES ASSUME Init PROVE CountInv
  OBVIOUS
<1>. USE NamespacesAssumption, OptionsAssumption
<1>1. LiveIn(pc) = {}
  BY DEF Init, LiveIn, Idle
<1>2. Counted
  BY Zenon, <1>1, FS_EmptySet DEF Init, Counted
<1>3. TypeOK
  <2>1. log \in Seq(Namespaces \cup {Elsewhere})
    BY DEF Init
  <2>2. NoBookmark \in MergedBookmark
    BY DEF NoBookmark, MergedBookmark
  <2>. QED  BY Zenon, <2>1, <2>2 DEF Init, TypeOK, TypeWorld, PCs
<1>4. Shape /\ Attached
  BY ProcFacts, <1>1 DEF Init, Shape, Attached, Idle
<1>. QED  BY <1>2, <1>3, <1>4 DEF CountInv

\* A goroutine that returns leaves the invariant intact.
LEMMA CountReturns ==
    ASSUME CountInv, NEW p \in Procs, pc[p] \notin Idle, Returns(p),
           held' \in [Namespaces -> Nat], expiring' \in {"idle", "running", "done"}
    PROVE  CountInv'
<1>. USE DEF CountInv
<1>1. /\ pc' \in [Procs -> PCs]
      /\ LiveIn(pc') = LiveIn(pc) \ {p}
      /\ wg' = Cardinality(LiveIn(pc'))
      /\ wg' \in Nat
  BY ZenonT(60), CountEnd DEF Returns, Goto, Counted, TypeOK
<1>2. TypeOK'
  BY SMTT(60), <1>1
     DEF Returns, TypeOK, TypeWorld, worldVars, streamVars, openVars, progressVars, clientVars
<1>3. Counted'
  BY <1>1 DEF Counted
<1>4. /\ \A q \in Procs : q # p => pc'[q] = pc[q]
      /\ pc'[p] = "done"
  BY SMTT(60) DEF Returns, Goto, TypeOK
<1>5. Shape'
  BY SMTT(60), <1>4, ProcFacts
  DEF Shape, Returns, worldVars, openVars, progressVars, Idle, TypeOK
<1>6. Attached'
  BY <1>1, <1>4, ProcFacts DEF Attached, Returns, openVars, TypeOK
<1>. QED  BY Zenon, <1>2, <1>3, <1>5, <1>6

\* So does one that moves between two places where it runs.
LEMMA CountMoves ==
    ASSUME CountInv, NEW p \in Procs, pc[p] \notin Idle, NEW l \in PCs \ Idle,
           Goto(p, l), TypeOK',
           UNCHANGED <<worldVars, openVars, wg, conn, nsConn, watched, closed>>
    PROVE  CountInv'
<1>. USE DEF CountInv
<1>1. LiveIn(pc') = LiveIn(pc)
  BY Zenon, CountMove DEF Goto, TypeOK
<1>2. Counted'
  BY <1>1 DEF Counted
<1>3. /\ \A q \in Procs : q # p => pc'[q] = pc[q]
      /\ pc'[p] \notin Idle
  BY SMTT(60) DEF Goto, TypeOK
<1>4. Shape'
  BY <1>3, ProcFacts DEF Shape, worldVars, openVars, Idle, TypeOK
<1>5. Attached'
  BY <1>1, <1>3, ProcFacts DEF Attached, openVars
<1>. QED  BY <1>2, <1>4, <1>5

\* A step that touches no goroutine, no watch and no namespace.
LEMMA CountQuiet ==
    ASSUME CountInv, TypeOK',
           UNCHANGED <<runVars, present, born, added, watched, closed>>,
           (ctor' = "open") = (ctor = "open")
    PROVE  CountInv'
<1>. USE DEF CountInv, runVars
<1>1. Counted'
  BY DEF Counted
<1>2. Shape' /\ Attached'
  BY DEF Shape, Attached
<1>. QED  BY <1>1, <1>2

\* What a successful add does to the types, to the goroutines and the watches.
AddTypes ==
    /\ wg' \in Nat
    /\ pc' \in [Procs -> PCs]
    /\ watched' \subseteq Namespaces
    /\ conn' \in [Namespaces -> {"none", "open", "ended", "stopped"}]
    /\ start' \in [Namespaces -> Nat] /\ pos' \in [Namespaces -> Nat]
    /\ snapshot' \in [Namespaces -> SUBSET Nat]
    /\ replay' \in [Namespaces -> SUBSET Nat]
    /\ endDue' \in [Namespaces -> BOOLEAN]
    /\ revision' \in [Namespaces -> Nat]

AddEffect(n, base) ==
    /\ wg' = Cardinality(LiveIn(pc'))
    /\ \A q \in Procs : q # Forwarder(n) => pc'[q] = base[q]
    /\ \A m \in Namespaces : m \notin watched' => pc'[Forwarder(m)] = base[Forwarder(m)]
    /\ \A m \in Namespaces : m # n => conn'[m] = conn[m]
    /\ conn'[n] = "open" => pc'[Forwarder(n)] \notin Idle
    /\ watched' = watched \cup {n}

\* add opens a stream that is not there and starts its forwarder.
LEMMA CountAdd ==
    ASSUME CountInv, NEW n \in Namespaces, NEW rv \in Nat, NEW count \in Nat,
           NEW base \in [Procs -> PCs], base[Forwarder(n)] = pc[Forwarder(n)],
           count = Cardinality(LiveIn(base)),
           Add(n, rv, base, count)
    PROVE  AddTypes /\ AddEffect(n, base)
<1>. USE DEF CountInv
<1>0. Forwarder(n) \in Procs /\ \A m \in Namespaces : Forwarder(m) \in Procs
  BY Zenon, ProcFacts
<1>1. CASE n \in watched
  BY Zenon, <1>1, <1>0 DEF AddTypes, AddEffect, Add, streamVars, TypeOK, Attached
<1>2. CASE n \notin watched
  <2>1. pc[Forwarder(n)] = "off"
    BY <1>2 DEF Shape
  <2>2. "select" \in PCs \ Idle
    BY SMTT(60) DEF PCs, Idle
  <2>3. /\ pc' = [base EXCEPT ![Forwarder(n)] = "select"]
        /\ wg' = count + 1
        /\ watched' = watched \cup {n}
        /\ revision' = [revision EXCEPT ![n] = rv]
        /\ conn' = [conn EXCEPT ![n] = "open"]
    BY <1>2 DEF Add
  <2>4. /\ wg' = Cardinality(LiveIn(pc')) /\ wg' \in Nat
        /\ pc' \in [Procs -> PCs]
    <3>1. base[Forwarder(n)] \in Idle
      BY <2>1 DEF Idle
    <3>. DEFINE f == [base EXCEPT ![Forwarder(n)] = "select"]
    <3>2. f \in [Procs -> PCs] /\ Cardinality(LiveIn(f)) = Cardinality(LiveIn(base)) + 1
      BY ZenonT(60), <1>0, <2>2, <3>1, CountStart
    <3>. QED  BY <2>3, <3>2
  <2>5. /\ start' \in [Namespaces -> Nat] /\ pos' \in [Namespaces -> Nat]
        /\ snapshot' \in [Namespaces -> SUBSET Nat]
        /\ replay' \in [Namespaces -> SUBSET Nat]
        /\ endDue' \in [Namespaces -> BOOLEAN]
    <3>. DEFINE replays == InitialEvents \/ rv = 0
                from == IF replays THEN Len(log) ELSE rv
                objects == IF replays /\ n \in present THEN EventsAfter(n, 0) ELSE {}
    <3>1. from \in Nat /\ objects \in SUBSET Nat
      BY SMTT(60) DEF TypeOK, TypeWorld, EventsAfter
    <3>2. /\ start' = [start EXCEPT ![n] = from]
          /\ pos' = [pos EXCEPT ![n] = from]
          /\ snapshot' = [snapshot EXCEPT ![n] = objects]
          /\ replay' = [replay EXCEPT ![n] = objects]
          /\ endDue' = [endDue EXCEPT ![n] = InitialEvents /\ Bookmarks]
      BY <1>2 DEF Add
    <3>. HIDE DEF from, objects
    <3>. QED  BY ZenonT(60), <3>1, <3>2, OptionsAssumption DEF TypeOK
  <2>. QED
    BY ZenonT(60), <1>0, <1>2, <2>2, <2>3, <2>4, <2>5, ProcFacts DEF AddTypes, AddEffect, TypeOK
<1>. QED  BY <1>1, <1>2

\* onBookmark: the forwarder goes on, or to the send of the merged bookmark.
LEMMA CountFold ==
    ASSUME CountInv, NEW n \in Namespaces, NEW rev \in Nat, NEW end \in BOOLEAN,
           pc[Forwarder(n)] = "select", FoldBookmark(n, rev, end),
           pos' \in [Namespaces -> Nat], endDue' \in [Namespaces -> BOOLEAN]
    PROVE  CountInv'
<1>. USE DEF CountInv
<1>. DEFINE announce == InitialEvents /\ AllReplayed(ended') /\ ~replayed
<1>1. /\ revision' \in [Namespaces -> Nat]
      /\ ended' \subseteq Namespaces
      /\ UNCHANGED <<idleVars, wg, conn, nsConn, start, snapshot, replay, watched,
                     clientVars, held>>
  BY DEF FoldBookmark, TypeOK
<1>2. announce \in BOOLEAN
  BY Zenon
<1>3. PICK w \in Watermark(revision') :
          /\ replayed' = (replayed \/ announce)
          /\ emitted' = IF w > emitted THEN w ELSE emitted
          /\ IF Worthwhile(w, announce)
             THEN /\ merged' = [merged EXCEPT ![n] =
                                 [rev |-> w, over |-> watched, end |-> announce]]
                  /\ Goto(Forwarder(n), "bookmark")
             ELSE UNCHANGED <<merged, pc>>
  BY Zenon DEF FoldBookmark
<1>4. w \in Nat
  BY Zenon, <1>1, <1>3 DEF Watermark, TypeOK
<1>. HIDE DEF announce
<1>5. replayed' \in BOOLEAN /\ emitted' \in Nat
  BY Zenon, <1>2, <1>3, <1>4 DEF TypeOK
<1>6. CASE Worthwhile(w, announce)
  <2>1. [rev |-> w, over |-> watched, end |-> announce] \in MergedBookmark
    BY Zenon, <1>2, <1>4 DEF MergedBookmark, TypeOK
  <2>2. merged' \in [Namespaces -> MergedBookmark]
    BY ZenonT(60), <1>3, <1>6, <2>1 DEF TypeOK
  <2>3. Goto(Forwarder(n), "bookmark") /\ Forwarder(n) \in Procs
    BY Zenon, <1>3, <1>6, ProcFacts
  <2>4. "bookmark" \in PCs \ Idle /\ pc[Forwarder(n)] \notin Idle
    BY Zenon DEF PCs, Idle
  <2>5. TypeWorld' /\ pc' \in [Procs -> PCs]
    BY Zenon, <1>1, <2>3, <2>4 DEF TypeOK, TypeWorld, Goto, idleVars, worldVars
  <2>6. TypeOK'
    BY SMTT(60), <1>1, <1>5, <2>2, <2>5 DEF TypeOK, idleVars, openVars, stopVars, clientVars
  <2>. QED
    BY Zenon, <1>1, <2>3, <2>4, <2>6, CountMoves DEF idleVars
<1>7. CASE ~Worthwhile(w, announce)
  <2>1. UNCHANGED <<merged, pc>>
    BY Zenon, <1>3, <1>7
  <2>2. TypeWorld'
    BY ZenonT(60), <1>1 DEF TypeOK, TypeWorld, idleVars, worldVars
  <2>3. TypeOK'
    BY SMTT(60), <1>1, <1>5, <2>1, <2>2 DEF TypeOK, idleVars, openVars, stopVars, clientVars
  <2>. QED
    BY Zenon, <1>1, <2>1, <2>3, CountQuiet DEF idleVars, worldVars, openVars, runVars
<1>. QED  BY ZenonT(60), <1>6, <1>7

\* The upstream's and the client's own steps.
LEMMA CountEnvironment == CountInv /\ Environment => CountInv'
<1>. SUFFICES ASSUME CountInv, Environment PROVE CountInv'
  BY Zenon
<1>. USE NamespacesAssumption
<1>. USE DEF CountInv, muxVars, idleVars, worldVars, runVars, streamVars, openVars,
             stopVars, progressVars, clientVars
<1>1. CASE WriteElsewhere
  <2>1. TypeWorld'
    BY SMTT(60), <1>1 DEF WriteElsewhere, TypeOK, TypeWorld
  <2>2. TypeOK'
    BY SMTT(60), <1>1, <2>1 DEF WriteElsewhere, TypeOK
  <2>. QED  BY ZenonT(60), <1>1, <2>2, CountQuiet DEF WriteElsewhere
<1>2. CASE NamespaceStreamEnds
  <2>1. TypeOK'
    BY SMTT(60), <1>2 DEF NamespaceStreamEnds, TypeOK, TypeWorld
  <2>. QED  BY ZenonT(60), <1>2, <2>1 DEF NamespaceStreamEnds, Counted, Shape, Attached
<1>3. CASE ClientLeaves
  <2>1. TypeOK'
    BY SMTT(60), <1>3 DEF ClientLeaves, ClientMoves, TypeOK, TypeWorld
  <2>. QED  BY <1>3, <2>1, CountQuiet DEF ClientLeaves, ClientMoves
<1>4. ASSUME NEW n \in Namespaces, Write(n) PROVE CountInv'
  <2>1. TypeWorld'
    BY SMTT(60), <1>4 DEF Write, TypeOK, TypeWorld
  <2>2. TypeOK'
    BY SMTT(60), <1>4, <2>1 DEF Write, TypeOK
  <2>. QED  BY ZenonT(60), <1>4, <2>2, CountQuiet DEF Write
<1>5. ASSUME NEW n \in Namespaces, CreateNamespace(n) PROVE CountInv'
  <2>1. TypeWorld'
    BY SMTT(60), <1>5 DEF CreateNamespace, TypeOK, TypeWorld
  <2>2. TypeOK'
    BY SMTT(60), <1>5, <2>1 DEF CreateNamespace, TypeOK
  <2>3. Counted' /\ Attached'
    BY <1>5 DEF CreateNamespace, Counted, Attached
  <2>4. Shape'
    BY SMTT(60), <1>5 DEF CreateNamespace, Shape, TypeOK, TypeWorld
  <2>. QED  BY <2>2, <2>3, <2>4
<1>6. ASSUME NEW n \in Namespaces, DeleteNamespace(n) PROVE CountInv'
  <2>1. TypeWorld'
    BY SMTT(60), <1>6 DEF DeleteNamespace, TypeOK, TypeWorld
  <2>2. TypeOK'
    BY SMTT(60), <1>6, <2>1 DEF DeleteNamespace, TypeOK
  <2>. QED  BY ZenonT(60), <1>6, <2>2 DEF DeleteNamespace, Counted, Shape, Attached
<1>7. ASSUME NEW n \in Namespaces, StreamEnds(n) PROVE CountInv'
  <2>1. TypeOK'
    BY SMTT(60), <1>7 DEF StreamEnds, TypeOK, TypeWorld
  <2>. QED  BY Zenon, <1>7, <2>1 DEF StreamEnds, TypeOK, TypeWorld, Counted, Shape, Attached
<1>8. ASSUME NEW n \in Namespaces, ForwardReceiveError(n) PROVE CountInv'
  <2>1. TypeOK'
    BY SMTT(60), <1>8, ProcFacts DEF ForwardReceiveError, Goto, TypeOK, TypeWorld, PCs
  <2>2. LiveIn(pc') = LiveIn(pc)
    <3>1. "send" \in PCs \ Idle /\ pc[Forwarder(n)] \notin Idle
      BY <1>8 DEF ForwardReceiveError, PCs, Idle
    <3>2. LiveIn([pc EXCEPT ![Forwarder(n)] = "send"]) = LiveIn(pc)
      BY ZenonT(60), <3>1, ProcFacts, CountMove DEF TypeOK, TypeWorld
    <3>. QED  BY <1>8, <3>2 DEF ForwardReceiveError, Goto
  <2>3. Counted'
    BY SMTT(60), <1>8, <2>2 DEF ForwardReceiveError, Counted
  <2>4. Shape'
    BY <1>8, ProcFacts DEF ForwardReceiveError, Goto, TypeOK, TypeWorld, Shape
  <2>5. Attached'
    BY Zenon, <1>8, <2>2, ProcFacts
       DEF ForwardReceiveError, Goto, TypeOK, TypeWorld, Attached, Idle
  <2>. QED  BY Zenon, <2>1, <2>3, <2>4, <2>5
<1>9. ASSUME NEW n \in Namespaces, ForwardBookmark(n) PROVE CountInv'
  <2>1. PICK b \in 1..Len(log) : pos' = [pos EXCEPT ![n] = b] /\ FoldBookmark(n, b, FALSE)
    BY ZenonT(60), <1>9 DEF ForwardBookmark
  <2>2. b \in Nat
    BY SMTT(60) DEF TypeOK, TypeWorld
  <2>3. pos' \in [Namespaces -> Nat] /\ endDue' \in [Namespaces -> BOOLEAN]
    BY Zenon, <1>9, <2>1, <2>2 DEF ForwardBookmark, TypeOK
  <2>. QED  BY ZenonT(60), <1>9, <2>1, <2>2, <2>3, CountFold DEF ForwardBookmark
<1>. QED
  BY ZenonT(60), <1>1, <1>2, <1>3, <1>4, <1>5, <1>6, <1>7, <1>8, <1>9 DEF Environment

\* Watch and newWatchMux.
LEMMA CountOpen == CountInv /\ OpenStep => CountInv'
<1>. SUFFICES ASSUME CountInv, OpenStep PROVE CountInv'
  OBVIOUS
<1>. USE DEF CountInv, worldVars, runVars, streamVars, openVars, stopVars,
             progressVars, clientVars
<1>1. CASE ListNamespaces
  <2>1. TypeOK'
    BY SMTT(60), <1>1 DEF ListNamespaces, TypeOK, TypeWorld
  <2>. QED  BY ZenonT(60), <1>1, <2>1, CountQuiet DEF ListNamespaces
<1>2. CASE OpenFails
  <2>1. TypeOK'
    BY SMTT(60), <1>2 DEF OpenFails, TypeOK, TypeWorld
  <2>. QED  BY Zenon, <1>2, <2>1, CountQuiet DEF OpenFails
<1>3. CASE OpenReturnsError
  <2>1. TypeOK'
    BY SMTT(60), <1>3 DEF OpenReturnsError, TypeOK, TypeWorld
  <2>. QED  BY ZenonT(60), <1>3, <2>1, CountQuiet DEF OpenReturnsError
<1>4. CASE FollowNamespaces
  <2>1. pc[Follower] \in Idle /\ "select" \in PCs \ Idle /\ Follower \in Procs
    BY Zenon, <1>4, ProcFacts DEF FollowNamespaces, Shape, Idle, PCs
  <2>2. /\ [pc EXCEPT ![Follower] = "select"] \in [Procs -> PCs]
        /\ Cardinality(LiveIn([pc EXCEPT ![Follower] = "select"])) = Cardinality(LiveIn(pc)) + 1
    BY ZenonT(60), <2>1, CountStart DEF TypeOK
  <2>3. Counted'
    BY SMTT(60), <1>4, <2>2 DEF FollowNamespaces, Goto, Counted
  <2>4. TypeOK'
    BY SMTT(60), <1>4, <2>2 DEF FollowNamespaces, Goto, TypeOK, TypeWorld
  <2>5. pc'[Follower] = "select" /\ \A q \in Procs : q # Follower => pc'[q] = pc[q]
    BY <1>4, <2>1 DEF FollowNamespaces, Goto, TypeOK
  <2>6. Shape'
    BY ZenonT(60), <1>4, <2>5, ProcFacts DEF FollowNamespaces, Shape, TypeOK, TypeWorld
  <2>7. Attached'
    BY Zenon, <1>4, <2>5, ProcFacts DEF FollowNamespaces, Attached, Idle, TypeOK
  <2>. QED  BY Zenon, <2>3, <2>4, <2>6, <2>7
<1>5. ASSUME NEW n \in Namespaces, OpenNamespace(n) PROVE CountInv'
  <2>1. Add(n, StartRev, pc, wg) /\ UNCHANGED <<ctor, added, tries>> /\ todo' \subseteq Namespaces
    BY Zenon, <1>5 DEF OpenNamespace, TypeOK
  <2>2. StartRev \in Nat
    BY SMTT(60), OptionsAssumption
  <2>3. AddTypes /\ AddEffect(n, pc)
    <3>1. wg = Cardinality(LiveIn(pc)) /\ wg \in Nat /\ pc \in [Procs -> PCs]
      BY Zenon DEF Counted, TypeOK
    <3>. QED  BY Zenon, <2>1, <2>2, <3>1, CountAdd
  <2>4. UNCHANGED <<worldVars, nsConn, stopVars, ended, emitted, replayed, clientVars,
                    held, merged, closed>>
    BY Zenon, <2>1 DEF Add
  <2>5. TypeWorld'
    BY ZenonT(60), <2>4 DEF TypeOK, TypeWorld
  <2>6. TypeOK'
    BY SMTT(60), <2>1, <2>3, <2>4, <2>5 DEF AddTypes, TypeOK
  <2>7. Shape'
    BY ZenonT(60), <2>1, <2>3, <2>4, ProcFacts DEF AddTypes, AddEffect, Shape, TypeOK
  <2>8. Attached'
    BY ZenonT(60), <1>5, <2>1, <2>3, <2>4, ProcFacts
       DEF AddTypes, AddEffect, OpenNamespace, Attached, TypeOK
  <2>. QED  BY Zenon, <2>3, <2>6, <2>7, <2>8 DEF AddEffect, Counted
<1>. QED
  BY ZenonT(60), <1>1, <1>2, <1>3, <1>4, <1>5 DEF OpenStep

\* A goroutine that only changes its place.
LEMMA CountMovesOnly ==
    ASSUME CountInv, NEW p \in Procs, NEW from \in PCs \ Idle, NEW l \in PCs \ Idle,
           Moves(p, from, l)
    PROVE  CountInv'
<1>. USE DEF CountInv
<1>1. /\ pc[p] = from /\ Goto(p, l)
      /\ UNCHANGED <<idleVars, wg, conn, nsConn, streamVars, progressVars, clientVars,
                     held, merged>>
  BY Zenon DEF Moves
<1>2. TypeWorld' /\ pc' \in [Procs -> PCs]
  BY ZenonT(60), <1>1 DEF Goto, TypeOK, TypeWorld, idleVars, worldVars
<1>3. TypeOK'
  BY SMTT(60), <1>1, <1>2
     DEF TypeOK, idleVars, openVars, stopVars, streamVars, progressVars,
                    clientVars
<1>. QED  BY Zenon, <1>1, <1>3, CountMoves DEF idleVars, progressVars

\* A goroutine that returns because the mux is stopped.
LEMMA CountReturnsOnStop ==
    ASSUME CountInv, NEW p \in Procs, NEW from \in PCs \ Idle, ReturnsOnStop(p, from)
    PROVE  CountInv'
BY Zenon, CountReturns DEF ReturnsOnStop, CountInv, TypeOK

\* expire, and Stop where it returns to a goroutine.
LEMMA CountExpire == ASSUME CountInv, NEW p \in Procs, ExpireStep(p) PROVE CountInv'
<1>. USE DEF CountInv
<1>0. /\ {"expire", "send410", "stopping"} \subseteq PCs \ Idle
      /\ held \in [Namespaces -> Nat] /\ expiring \in {"idle", "running", "done"}
  BY Zenon DEF PCs, Idle, TypeOK
<1>1. CASE ExpireFirst(p)
  <2>1. CASE stopped
    BY Zenon, <1>0, <1>1, <2>1, CountReturns DEF ExpireFirst
  <2>2. CASE ~stopped
    <3>1. /\ pc[p] = "expire" /\ Goto(p, "send410") /\ expiring' = "running"
          /\ UNCHANGED <<worldVars, wg, conn, nsConn, streamVars, openVars, stopped,
                         stopOnce, progressVars, clientVars, held, merged, closed>>
      BY Zenon, <1>1, <2>2 DEF ExpireFirst
    <3>2. TypeWorld' /\ pc' \in [Procs -> PCs]
      BY ZenonT(60), <1>0, <3>1 DEF Goto, TypeOK, TypeWorld, worldVars
    <3>3. TypeOK'
      BY SMTT(60), <3>1, <3>2 DEF TypeOK, openVars, streamVars, progressVars, clientVars
    <3>. QED  BY Zenon, <1>0, <3>1, <3>3, CountMoves DEF progressVars
  <2>. QED  BY Zenon, <2>1, <2>2
<1>2. CASE ExpireAgain(p)
  BY Zenon, <1>0, <1>2, CountReturns DEF ExpireAgain
<1>3. CASE Send410(p)
  <2>1. /\ pc[p] = "send410" /\ Goto(p, "stopping")
        /\ told' \in BOOLEAN /\ client' \in {"reading", "leaving", "gone"}
        /\ UNCHANGED <<idleVars, wg, conn, nsConn, streamVars, progressVars, delivered,
                       resume, synced, held, merged>>
    BY ZenonT(60), <1>3 DEF Send410, TypeOK
  <2>2. TypeWorld' /\ pc' \in [Procs -> PCs]
    BY SMTT(60), <1>0, <2>1 DEF Goto, TypeOK, TypeWorld, idleVars, worldVars
  <2>3. TypeOK'
    BY <2>1, <2>2 DEF TypeOK, idleVars, openVars, stopVars, streamVars, progressVars
  <2>. QED  BY Zenon, <1>0, <2>1, <2>3, CountMoves DEF idleVars, progressVars
<1>4. CASE ExpireReturns(p)
  BY <1>0, <1>4, CountReturns DEF ExpireReturns
<1>. QED  BY Zenon, <1>1, <1>2, <1>3, <1>4 DEF ExpireStep

\* The follower.
LEMMA CountFollow == CountInv /\ FollowStep => CountInv'
<1>. SUFFICES ASSUME CountInv, FollowStep PROVE CountInv'
  OBVIOUS
<1>0. Follower \in Procs /\ {"select", "expire", "try"} \subseteq PCs \ Idle
  BY Zenon, ProcFacts DEF PCs, Idle
<1>1. CASE FollowEnded
  BY Zenon, <1>0, <1>1, CountMovesOnly DEF FollowEnded
<1>2. CASE FollowStop
  BY Zenon, <1>0, <1>2, CountReturnsOnStop DEF FollowStop
<1>3. CASE ExpireStep(Follower)
  BY Zenon, <1>0, <1>3, CountExpire
<1>4. ASSUME NEW n \in Namespaces, GoJoin(n) PROVE CountInv'
  <2>. USE DEF CountInv
  <2>1. /\ pc[Follower] = "select" /\ n \in added /\ added' = added \ {n}
        /\ pc' = [pc EXCEPT ![Joiner(n)] = "try"] /\ wg' = wg + 1
        /\ UNCHANGED <<worldVars, conn, nsConn, streamVars, ctor, todo, tries, stopVars,
                       progressVars, clientVars, held, merged, closed>>
    BY Zenon, <1>4 DEF GoJoin, Goto
  <2>2. Joiner(n) \in Procs /\ pc[Joiner(n)] \in Idle
    BY Zenon, <2>1, ProcFacts DEF Shape, Idle
  <2>3. /\ [pc EXCEPT ![Joiner(n)] = "try"] \in [Procs -> PCs]
        /\ Cardinality(LiveIn([pc EXCEPT ![Joiner(n)] = "try"])) = Cardinality(LiveIn(pc)) + 1
    BY ZenonT(60), <1>0, <2>2, CountStart DEF TypeOK
  <2>4. Counted'
    BY SMTT(60), <2>1, <2>3 DEF Counted
  <2>5. TypeWorld' /\ added' \subseteq Namespaces
    BY SMTT(60), <2>1 DEF TypeOK, TypeWorld, worldVars
  <2>6. TypeOK'
    BY <2>1, <2>3, <2>5 DEF TypeOK, stopVars, streamVars, progressVars, clientVars
  <2>7. pc'[Joiner(n)] = "try" /\ \A q \in Procs : q # Joiner(n) => pc'[q] = pc[q]
    BY ZenonT(60), <2>1, <2>2 DEF TypeOK
  <2>8. Shape'
    BY SMTT(60), <2>1, <2>7, ProcFacts DEF Shape, TypeOK, TypeWorld, worldVars, progressVars
  <2>9. ~closed
    BY Zenon, <1>0, <2>1 DEF Attached, LiveIn
  <2>10. Attached'
    BY Zenon, <2>1, <2>7, <2>9, ProcFacts DEF Attached
  <2>. QED  BY Zenon, <2>4, <2>6, <2>8, <2>10
<1>. QED  BY Zenon, <1>1, <1>2, <1>3, <1>4 DEF FollowStep

\* The joiners.
LEMMA CountJoin == ASSUME CountInv, NEW n \in Namespaces, JoinStep(n) PROVE CountInv'
<1>0. Joiner(n) \in Procs /\ {"backoff", "expire", "try"} \subseteq PCs \ Idle
  BY Zenon, ProcFacts DEF PCs, Idle
<1>1. CASE JoinAdds(n)
  <2>. USE DEF CountInv
  <2>. DEFINE base == [pc EXCEPT ![Joiner(n)] = "done"]
  <2>1. Add(n, born[n], base, wg - 1) /\ UNCHANGED openVars /\ pc[Joiner(n)] = "try"
    BY Zenon, <1>1 DEF JoinAdds
  <2>2. pc \in [Procs -> PCs] /\ pc[Joiner(n)] \notin Idle /\ born[n] \in Nat
    BY Zenon, <1>0, <2>1 DEF TypeOK, TypeWorld
  <2>3. /\ base \in [Procs -> PCs]
        /\ wg - 1 = Cardinality(LiveIn(base)) /\ wg - 1 \in Nat
    BY ZenonT(60), <1>0, <2>2, CountEnd DEF Counted
  <2>4. base[Forwarder(n)] = pc[Forwarder(n)]
    BY SMTT(60), <1>0, <2>2, ProcFacts
  <2>5. base[Joiner(n)] = "done" /\ \A q \in Procs : q # Joiner(n) => base[q] = pc[q]
    BY SMTT(60), <1>0, <2>2
  <2>. HIDE DEF base
  <2>6. AddTypes /\ AddEffect(n, base)
    BY SMTT(60), <2>1, <2>2, <2>3, <2>4, CountAdd
  <2>7. UNCHANGED <<worldVars, nsConn, stopVars, ended, emitted, replayed, clientVars,
                    held, merged, closed>>
    BY <2>1 DEF Add
  <2>8. TypeWorld'
    BY ZenonT(60), <2>7 DEF TypeOK, TypeWorld, worldVars
  <2>9. TypeOK'
    BY SMTT(60), <2>1, <2>6, <2>7, <2>8 DEF AddTypes, TypeOK, openVars, stopVars, clientVars
  <2>10. Shape'
    BY ZenonT(60), <1>0, <2>1, <2>5, <2>6, <2>7, ProcFacts
    DEF AddTypes, AddEffect, Shape, TypeOK, openVars, worldVars
  <2>11. ~closed
    BY Zenon, <1>0, <2>2 DEF Attached, LiveIn
  <2>12. Attached'
    BY ZenonT(60), <1>0, <2>1, <2>5, <2>6, <2>7, <2>11, ProcFacts
    DEF AddTypes, AddEffect, Attached, TypeOK, openVars
  <2>. QED  BY ZenonT(60), <2>6, <2>9, <2>10, <2>12 DEF AddEffect, Counted
<1>2. CASE JoinForbidden(n)
  <2>. USE DEF CountInv
  <2>1. /\ pc[Joiner(n)] = "try" /\ Goto(Joiner(n), "backoff")
        /\ tries' = [tries EXCEPT ![n] = @ + 1]
        /\ UNCHANGED <<worldVars, wg, conn, nsConn, streamVars, ctor, todo, added,
                       stopVars, progressVars, clientVars, held, merged, closed>>
    BY ZenonT(60), <1>2 DEF JoinForbidden
  <2>2. TypeWorld' /\ pc' \in [Procs -> PCs] /\ tries' \in [Namespaces -> Nat]
    BY SMTT(60), <1>0, <2>1 DEF Goto, TypeOK, TypeWorld, worldVars
  <2>3. TypeOK'
    BY SMTT(60), <2>1, <2>2 DEF TypeOK, stopVars, streamVars, progressVars, clientVars
  <2>4. LiveIn(pc') = LiveIn(pc)
    <3>1. pc \in [Procs -> PCs] /\ pc[Joiner(n)] \notin Idle /\ "backoff" \in PCs \ Idle
      BY Zenon, <1>0, <2>1 DEF TypeOK
    <3>2. LiveIn([pc EXCEPT ![Joiner(n)] = "backoff"]) = LiveIn(pc)
      BY ZenonT(60), <1>0, <3>1, CountMove
    <3>. QED  BY Zenon, <2>1, <3>2 DEF Goto
  <2>5. /\ \A q \in Procs : q # Joiner(n) => pc'[q] = pc[q]
        /\ pc'[Joiner(n)] = "backoff"
    BY <1>0, <2>1 DEF Goto, TypeOK
  <2>6. Shape'
    BY ZenonT(60), <1>0, <2>1, <2>5, ProcFacts
       DEF Shape, TypeOK, TypeWorld, worldVars, progressVars
  <2>7. Attached'
    BY ZenonT(60), <2>1, <2>4, <2>5, ProcFacts DEF Attached
  <2>. QED  BY Zenon, <2>1, <2>3, <2>4, <2>6, <2>7 DEF Counted
<1>3. CASE JoinBackoffEnds(n)
  BY Zenon, <1>0, <1>3, CountMovesOnly DEF JoinBackoffEnds
<1>4. CASE JoinStop(n)
  BY Zenon, <1>0, <1>4, CountReturnsOnStop DEF JoinStop
<1>5. CASE JoinFails(n)
  BY Zenon, <1>0, <1>5, CountMovesOnly DEF JoinFails
<1>6. CASE ExpireStep(Joiner(n))
  BY Zenon, <1>0, <1>6, CountExpire
<1>. QED  BY ZenonT(60), <1>1, <1>2, <1>3, <1>4, <1>5, <1>6 DEF JoinStep

\* The forwarders.
LEMMA CountForward == ASSUME CountInv, NEW n \in Namespaces, ForwardStep(n) PROVE CountInv'
<1>0. /\ Forwarder(n) \in Procs
      /\ {"select", "send", "record", "bookmark", "expire"} \subseteq PCs \ Idle
  BY Zenon, ProcFacts DEF PCs, Idle
<1>1. CASE ForwardReceive(n)
  <2>. USE DEF CountInv
  <2>1. /\ pc[Forwarder(n)] = "select" /\ Goto(Forwarder(n), "send")
        /\ UNCHANGED <<idleVars, wg, conn, nsConn, start, snapshot, endDue, progressVars,
                       clientVars, merged>>
    BY Zenon, <1>1 DEF ForwardReceive
  <2>2. PICK e \in NextEvents(n) :
            /\ held' = [held EXCEPT ![n] = e]
            /\ replay' = [replay EXCEPT ![n] = @ \ {e}]
            /\ pos' = [pos EXCEPT ![n] = IF replay[n] = {} THEN e ELSE @]
    BY ZenonT(60), <1>1 DEF ForwardReceive
  <2>3. e \in Nat
    BY SMTT(60) DEF NextEvents, EventsAfter, TypeOK, TypeWorld
  <2>4. /\ held' \in [Namespaces -> Nat] /\ replay' \in [Namespaces -> SUBSET Nat]
        /\ pos' \in [Namespaces -> Nat]
    BY <2>2, <2>3 DEF TypeOK
  <2>5. TypeWorld' /\ pc' \in [Procs -> PCs]
    BY ZenonT(60), <1>0, <2>1 DEF Goto, TypeOK, TypeWorld, idleVars, worldVars
  <2>6. TypeOK'
    BY SMTT(60), <2>1, <2>4, <2>5
       DEF TypeOK, idleVars, openVars, stopVars, progressVars, clientVars
  <2>. QED  BY ZenonT(60), <1>0, <2>1, <2>6, CountMoves DEF idleVars, progressVars
<1>2. CASE ForwardReplayEnd(n)
  <2>1. /\ start[n] \in Nat /\ pos' \in [Namespaces -> Nat]
        /\ endDue' \in [Namespaces -> BOOLEAN]
    BY Zenon, <1>2 DEF ForwardReplayEnd, CountInv, TypeOK
  <2>. QED  BY Zenon, <1>2, <2>1, CountFold DEF ForwardReplayEnd
<1>3. CASE ForwardSend(n)
  <2>. USE DEF CountInv
  <2>1. /\ pc[Forwarder(n)] = "send" /\ Goto(Forwarder(n), "record")
        /\ told' \in BOOLEAN /\ client' \in {"reading", "leaving", "gone"}
        /\ delivered' \subseteq Nat
        /\ UNCHANGED <<idleVars, wg, conn, nsConn, streamVars, progressVars, resume,
                       synced, held, merged>>
    <3>1. held[n] \in Nat /\ delivered \subseteq Nat
      BY SMTT(60) DEF TypeOK
    <3>2. /\ told \in BOOLEAN /\ client \in {"reading", "leaving", "gone"}
      BY DEF TypeOK
    <3>. QED  BY ZenonT(60), <1>3, <3>1, <3>2 DEF ForwardSend
  <2>2. TypeWorld' /\ pc' \in [Procs -> PCs]
    BY ZenonT(60), <1>0, <2>1 DEF Goto, TypeOK, TypeWorld, idleVars, worldVars
  <2>3. TypeOK'
    BY SMTT(60), <2>1, <2>2
       DEF TypeOK, idleVars, openVars, stopVars, streamVars, progressVars
  <2>. QED  BY ZenonT(60), <1>0, <2>1, <2>3, CountMoves DEF idleVars, progressVars
<1>4. CASE ForwardDrop(n)
  BY Zenon, <1>0, <1>4, CountReturns DEF ForwardDrop, CountInv, TypeOK
<1>5. CASE RecordRevision(n)
  <2>. USE DEF CountInv
  <2>1. /\ pc[Forwarder(n)] = "record" /\ Goto(Forwarder(n), "select")
        /\ revision' \in [Namespaces -> Nat] /\ held' \in [Namespaces -> Nat]
        /\ UNCHANGED <<idleVars, wg, conn, nsConn, streamVars, watched, ended, emitted,
                       replayed, clientVars, merged>>
    BY Zenon, <1>5 DEF RecordRevision, TypeOK
  <2>2. TypeWorld' /\ pc' \in [Procs -> PCs]
    BY ZenonT(60), <1>0, <2>1 DEF Goto, TypeOK, TypeWorld, idleVars, worldVars
  <2>3. TypeOK'
    BY SMTT(60), <2>1, <2>2 DEF TypeOK, idleVars, openVars, stopVars, streamVars, clientVars
  <2>. QED  BY Zenon, <1>0, <2>1, <2>3, CountMoves DEF idleVars
<1>6. CASE SendBookmark(n)
  <2>. USE DEF CountInv
  <2>0. merged[n] \in MergedBookmark /\ merged[n].end \in BOOLEAN /\ NoBookmark \in MergedBookmark
    BY Zenon DEF TypeOK, MergedBookmark, NoBookmark
  <2>1. /\ pc[Forwarder(n)] = "bookmark" /\ Goto(Forwarder(n), "select")
        /\ resume' \in MergedBookmark /\ synced' \in BOOLEAN
        /\ merged' \in [Namespaces -> MergedBookmark]
        /\ UNCHANGED <<idleVars, wg, conn, nsConn, streamVars, progressVars, client,
                       delivered, told, held>>
    BY ZenonT(60), <1>6, <2>0 DEF SendBookmark, TypeOK
  <2>2. TypeWorld' /\ pc' \in [Procs -> PCs]
    BY ZenonT(60), <1>0, <2>1 DEF Goto, TypeOK, TypeWorld, idleVars, worldVars
  <2>3. TypeOK'
    BY SMTT(60), <2>1, <2>2
       DEF TypeOK, idleVars, openVars, stopVars, streamVars, progressVars
  <2>. QED  BY SMTT(60), <1>0, <2>1, <2>3, CountMoves DEF idleVars, progressVars
<1>7. CASE ForwardEnded(n)
  BY ZenonT(60), <1>0, <1>7, CountMovesOnly DEF ForwardEnded
<1>8. CASE ForwardStop(n)
  BY Zenon, <1>0, <1>8, CountReturnsOnStop DEF ForwardStop
<1>9. CASE ExpireStep(Forwarder(n))
  BY Zenon, <1>0, <1>9, CountExpire
<1>. QED
  BY ZenonT(60), <1>1, <1>2, <1>3, <1>4, <1>5, <1>6, <1>7, <1>8, <1>9 DEF ForwardStep

\* Stop, the closer and the client's departure.
LEMMA CountStop == CountInv /\ StopStep => CountInv'
<1>. SUFFICES ASSUME CountInv, StopStep PROVE CountInv'
  OBVIOUS
<1>. USE DEF CountInv, worldVars, runVars, streamVars, openVars, stopVars,
             progressVars, clientVars
<1>1. CASE CloseStop
  <2>1. TypeOK'
    BY SMTT(60), <1>1 DEF CloseStop, TypeOK, TypeWorld
  <2>. QED  BY ZenonT(60), <1>1, <2>1, CountQuiet DEF CloseStop
<1>2. CASE StopWatched
  <2>1. TypeOK'
    BY SMTT(60), <1>2 DEF StopWatched, TypeOK, TypeWorld
  <2>. QED  BY ZenonT(60), <1>2, <2>1 DEF StopWatched, Counted, Shape, Attached
<1>3. CASE ClientGone
  <2>1. TypeOK'
    BY SMTT(60), <1>3 DEF ClientGone, ClientMoves, idleVars, TypeOK, TypeWorld
  <2>. QED  BY SMTT(60), <1>3, <2>1, CountQuiet DEF ClientGone, ClientMoves, idleVars
<1>4. CASE CloseResult
  <2>1. TypeOK'
    BY SMTT(60), <1>4 DEF CloseResult, TypeOK, TypeWorld
  <2>2. IsFiniteSet(LiveIn(pc)) /\ Cardinality(LiveIn(pc)) = 0
    BY <1>4, ProcsFinite, FS_Subset DEF CloseResult, Counted, LiveIn
  <2>3. LiveIn(pc) = {}
    BY <2>2, FS_EmptySet
  <2>. QED  BY ZenonT(60), <1>4, <2>1, <2>3 DEF CloseResult, Counted, Shape, Attached
<1>. QED  BY Zenon, <1>1, <1>2, <1>3, <1>4 DEF StopStep

\* Every step of the mux and its surroundings preserves the invariant.
LEMMA CountNext == CountInv /\ [Next]_vars => CountInv'
<1>. SUFFICES ASSUME CountInv, [Next]_vars PROVE CountInv'
  OBVIOUS
<1>1. CASE UNCHANGED vars
  <2>. USE <1>1 DEF vars, worldVars, muxVars, runVars, streamVars, openVars, stopVars,
                    progressVars, clientVars
  <2>1. TypeOK'
    BY SMTT(60) DEF CountInv, TypeOK, TypeWorld
  <2>. QED  BY ZenonT(60), <2>1, CountQuiet
<1>2. CASE Terminated
  <2>. USE <1>2 DEF Terminated, vars, worldVars, muxVars, runVars, streamVars, openVars,
                    stopVars, progressVars, clientVars
  <2>1. TypeOK'
    BY SMTT(60) DEF CountInv, TypeOK, TypeWorld
  <2>. QED  BY SMTT(60), <2>1, CountQuiet
<1>. QED
  BY SMTT(60), <1>1, <1>2, CountEnvironment, CountOpen, CountFollow, CountForward, CountJoin,
     CountStop DEF Next

\* The state machine keeps its types: every variable of the mux stays in its set.
THEOREM TypeCorrect == Spec => []TypeOK
<1>1. Spec => []CountInv
  BY CountInit, CountNext, PTL DEF Spec
<1>. QED  BY <1>1, PTL DEF CountInv

\* forwarder counts the goroutines that have not returned (goJoin, add,
\* followNamespaces and the deferred Done).
THEOREM WaitGroupSound == Spec => []WaitGroupCounts
<1>1. Spec => []CountInv
  BY CountInit, CountNext, PTL DEF Spec
<1>2. CountInv => WaitGroupCounts
  BY SMTT(60) DEF CountInv, Counted, WaitGroupCounts, Live, LiveIn, Idle
<1>. QED  BY <1>1, <1>2, PTL

\* No goroutine runs, so none sends, once m.result is closed.
THEOREM ClosedMeansQuiet == Spec => []NoSendOnClosedResult
<1>1. Spec => []CountInv
  BY CountInit, CountNext, PTL DEF Spec
<1>2. CountInv => NoSendOnClosedResult
  BY SMTT(60) DEF CountInv, Attached, NoSendOnClosedResult, Live, LiveIn, Idle
<1>. QED  BY <1>1, <1>2, PTL

\* No upstream watch is left open when m.result is closed.
THEOREM ClosedMeansReleased == Spec => []NoLeakedWatch
<1>1. Spec => []CountInv
  BY CountInit, CountNext, PTL DEF Spec
<1>2. CountInv => NoLeakedWatch
  BY Zenon, ProcFacts DEF CountInv, Attached, Shape, NoLeakedWatch, LiveIn, TypeOK
<1>. QED  BY <1>1, <1>2, PTL

-----------------------------------------------------------------------------
(* A resumed watch: the client gave a revision and no stream replays.       *)

Resumed == StartRev > 0 /\ ~InitialEvents

\* Where a forwarder still reads its stream.
Reads == {"select", "send", "record", "bookmark"}

\* Nothing is replayed and no position is ahead of the cluster.
NoReplay ==
    /\ StartRev <= Len(log)
    /\ \A n \in Namespaces : snapshot[n] = {} /\ replay[n] = {} /\ endDue[n] = FALSE
    /\ \A n \in added : born[n] > 0
    /\ \A n \in Namespaces : pc[Joiner(n)] # "off" => born[n] > 0
    /\ \A n \in Namespaces : /\ born[n] <= Len(log)
                             /\ start[n] <= pos[n]
                             /\ pos[n] <= Len(log)
                             /\ revision[n] <= Len(log)

\* What is behind a stream's recorded revision is delivered.
Recorded ==
    \A n \in watched : \A e \in EventsAfter(n, start[n]) :
        e <= revision[n] => e \in delivered

\* What a stream has read is delivered, but for the event its forwarder holds.
ReadOn ==
    /\ \A n \in watched : pc[Forwarder(n)] \in Reads =>
           \A e \in EventsAfter(n, start[n]) :
               e <= pos[n] => \/ e \in delivered
                              \/ pc[Forwarder(n)] = "send" /\ e = held[n]
    /\ \A n \in Namespaces : pc[Forwarder(n)] \in {"send", "record"} => held[n] <= pos[n]

\* A bookmark, to be sent or received, is behind every stream it was made from.
Behind(bookmark) == \A m \in bookmark.over : m \in watched /\ bookmark.rev <= revision[m]

BookmarkInv ==
    /\ CountInv /\ NoReplay /\ Recorded /\ ReadOn
    /\ \A n \in Namespaces : Behind(merged[n])
    /\ Behind(resume)

-----------------------------------------------------------------------------
\* The initial state has no stream and no bookmark.
LEMMA BookmarkInit == ASSUME Resumed, Init PROVE BookmarkInv
<1>1. CountInv
  BY Zenon, CountInit
<1>2. NoReplay
  BY SMTT(60), ProcFacts, OptionsAssumption DEF NoReplay, Init
<1>3. Recorded /\ ReadOn
  BY Zenon, ProcFacts DEF Recorded, ReadOn, Reads, Init
<1>4. Behind(resume) /\ \A n \in Namespaces : Behind(merged[n])
  BY DEF Behind, Init, NoBookmark
<1>. QED  BY Zenon, <1>1, <1>2, <1>3, <1>4 DEF BookmarkInv

\* The order of the revisions that recordRevision and onBookmark compare.
LEMMA Ascending ==
    /\ \A v \in Nat : v >= v
    /\ \A u, v, w \in Nat : u <= v /\ w >= v => u <= w
    /\ \A u, v \in Nat : u <= v \/ u > v
    /\ \A u, v \in Nat : u <= v /\ v <= u => u = v
    /\ \A u \in Nat : u > 0 => u # 0
  OBVIOUS

\* A revision between two others, and the same one.
LEMMA Between ==
    /\ \A u, v, w \in Nat : u <= v /\ v <= w => u <= w
    /\ \A u, v, w \in Nat : u <= v /\ w > v => u <= w
    /\ \A u, v \in Nat : u > v => u >= v /\ ~(u <= v)
    /\ \A v \in Nat : v <= v
  OBVIOUS

\* The revision of the next write.
LEMMA Successor ==
    /\ \A v \in Nat : v + 1 \in Nat /\ v + 1 > 0 /\ v + 1 <= v + 1
    /\ \A u, v \in Nat : u <= v => u <= v + 1
  OBVIOUS

\* The revisions of a log are numbers, from 1 to its length.
LEMMA Numbers == \A k \in Nat : \A u \in 1..k : u \in Nat /\ u > 0 /\ u <= k
  OBVIOUS

\* The revision a watch starts from is one.
LEMMA StartIsRevision == StartRev \in Nat
  BY OptionsAssumption

\* The log has a length.
LEMMA LogLength == CountInv => Len(log) \in Nat
<1>. SUFFICES ASSUME NEW l \in Seq(Namespaces \cup {Elsewhere}) PROVE Len(l) \in Nat
  BY Zenon DEF CountInv, TypeOK, TypeWorld
<1>. QED  OBVIOUS

\* A write adds the newest revision and no other.
LEMMA LogGrows ==
    ASSUME TypeWorld, NEW x \in Namespaces \cup {Elsewhere}, log' = Append(log, x)
    PROVE  /\ Len(log) \in Nat
           /\ Len(log') = Len(log) + 1
           /\ \A n, r : \A e \in EventsAfter(n, r)' : e <= Len(log) => e \in EventsAfter(n, r)
<1>1. Len(log) \in Nat /\ Len(log') = Len(log) + 1
  BY DEF TypeWorld
<1>2. \A i \in 1..Len(log) : log'[i] = log[i]
  BY SMTT(60) DEF TypeWorld
<1>. QED  BY SMTT(60), <1>1, <1>2 DEF EventsAfter

\* A write disturbs nothing: it is ahead of every position and revision.
LEMMA BookmarkWrite ==
    ASSUME BookmarkInv, CountInv', NEW x \in Namespaces \cup {Elsewhere},
           log' = Append(log, x),
           \A n \in Namespaces : born'[n] = born[n] \/ born'[n] = Len(log) + 1,
           \A n \in added' : born'[n] > 0,
           UNCHANGED <<pc, streamVars, held, merged, watched, revision, delivered, resume>>
    PROVE  BookmarkInv'
<1>. USE DEF BookmarkInv
<1>1. TypeWorld
  BY Zenon DEF CountInv, TypeOK
<1>2. /\ Len(log) \in Nat
      /\ Len(log') = Len(log) + 1
      /\ \A n, r : \A e \in EventsAfter(n, r)' : e <= Len(log) => e \in EventsAfter(n, r)
  BY Zenon, <1>1, LogGrows
<1>3. \A n \in Namespaces : born[n] \in Nat /\ pos[n] \in Nat /\ revision[n] \in Nat
  BY ZenonT(60) DEF CountInv, TypeOK, TypeWorld
<1>4. watched \subseteq Namespaces /\ StartRev \in Nat
  <2>1. StartRev \in Nat
    BY Zenon, StartIsRevision
  <2>. QED  BY Zenon, <2>1 DEF CountInv, TypeOK
<1>5. NoReplay'
  <2>1. StartRev <= Len(log')
    BY ZenonT(60), <1>2, <1>4, Successor DEF NoReplay
  <2>2. ASSUME NEW n \in Namespaces
        PROVE  /\ born'[n] <= Len(log') /\ (born[n] > 0 => born'[n] > 0)
               /\ pos[n] <= Len(log') /\ revision[n] <= Len(log')
    <3>1. born[n] <= Len(log) /\ pos[n] <= Len(log) /\ revision[n] <= Len(log)
      BY Zenon DEF NoReplay
    <3>. QED  BY ZenonT(60), <1>2, <1>3, <3>1, Successor
  <2>. QED  BY ZenonT(60), <2>1, <2>2 DEF NoReplay, streamVars
<1>6. \A n, r : \A e \in EventsAfter(n, r)' : e \in Nat
  BY ZenonT(60), <1>2, Successor, Numbers DEF EventsAfter
<1>7. Recorded'
  <2>. SUFFICES ASSUME NEW n \in watched, NEW e \in EventsAfter(n, start[n])',
                       e <= revision[n]
                PROVE  e \in delivered
    BY Zenon DEF Recorded, streamVars
  <2>1. e <= Len(log)
    BY ZenonT(60), <1>2, <1>3, <1>4, <1>6, Between DEF NoReplay
  <2>2. e \in EventsAfter(n, start[n])
    BY Zenon, <1>2, <2>1 DEF streamVars
  <2>. QED  BY Zenon, <2>2 DEF Recorded
<1>8. ReadOn'
  <2>1. ASSUME NEW n \in watched, pc[Forwarder(n)] \in Reads,
               NEW e \in EventsAfter(n, start[n])', e <= pos[n]
        PROVE  e \in delivered \/ (pc[Forwarder(n)] = "send" /\ e = held[n])
    <3>1. e <= Len(log)
      BY ZenonT(60), <1>2, <1>3, <1>4, <1>6, <2>1, Between DEF NoReplay
    <3>2. e \in EventsAfter(n, start[n])
      BY Zenon, <1>2, <3>1 DEF streamVars
    <3>. QED  BY ZenonT(60), <2>1, <3>2 DEF ReadOn
  <2>. QED  BY Zenon, <2>1 DEF ReadOn, streamVars
<1>9. Behind(resume)' /\ \A n \in Namespaces : Behind(merged[n])'
  BY Zenon DEF Behind
<1>. QED  BY Zenon, <1>5, <1>7, <1>8, <1>9

\* Steps that read no stream, record nothing and send nothing.
LEMMA BookmarkQuiet ==
    ASSUME BookmarkInv, CountInv',
           UNCHANGED <<log, born, streamVars, merged, watched, revision, resume>>,
           delivered \subseteq delivered',
           \A n \in added' : born[n] > 0,
           \A n \in Namespaces : pc'[Joiner(n)] # "off" => pc[Joiner(n)] # "off" \/ born[n] > 0,
           \A n \in Namespaces : pc'[Forwarder(n)] \in Reads =>
               pc'[Forwarder(n)] = pc[Forwarder(n)] /\ held'[n] = held[n]
    PROVE  BookmarkInv'
<1>. USE DEF BookmarkInv
<1>0. \A n, r : EventsAfter(n, r)' = EventsAfter(n, r)
  BY Zenon DEF EventsAfter
<1>1. NoReplay'
  BY Zenon DEF NoReplay, streamVars
<1>2. Recorded'
  BY Zenon, <1>0 DEF Recorded, streamVars
<1>3. ReadOn'
  <2>1. watched \subseteq Namespaces /\ {"send", "record"} \subseteq Reads
    BY Zenon DEF CountInv, TypeOK, Reads
  <2>. QED  BY Zenon, <1>0, <2>1 DEF ReadOn, streamVars
<1>4. Behind(resume)' /\ \A n \in Namespaces : Behind(merged[n])'
  BY Zenon DEF Behind
<1>. QED  BY Zenon, <1>1, <1>2, <1>3, <1>4

\* add opens a stream where it also starts to count.
LEMMA BookmarkAdd ==
    ASSUME Resumed, BookmarkInv, CountInv', added' = added,
           NEW n \in Namespaces, NEW rv \in Nat, rv > 0, rv <= Len(log),
           NEW base \in [Procs -> PCs], NEW count, Add(n, rv, base, count),
           \A m \in Namespaces : /\ base[Forwarder(m)] = pc[Forwarder(m)]
                                 /\ base[Joiner(m)] # "off" => pc[Joiner(m)] # "off"
    PROVE  BookmarkInv'
<1>. USE DEF BookmarkInv
<1>0. UNCHANGED <<log, born, merged, delivered, resume, held>>
  BY Zenon DEF Add, worldVars, clientVars
<1>1. CASE n \in watched
  <2>1. pc' = base /\ UNCHANGED <<streamVars, watched, revision>>
    BY Zenon, <1>1 DEF Add
  <2>2. \A m \in added : born[m] > 0
    BY Zenon DEF NoReplay
  <2>. QED  BY Zenon, <1>0, <2>1, <2>2, BookmarkQuiet
<1>2. CASE n \notin watched
  <2>0. /\ \A m \in Namespaces : Forwarder(m) \in Procs /\ Joiner(m) \in Procs
        /\ \A m \in Namespaces : m # n => Forwarder(m) # Forwarder(n)
        /\ \A m \in Namespaces : Joiner(m) # Forwarder(n)
    BY Zenon, ProcFacts
  <2>1. /\ pc' = [base EXCEPT ![Forwarder(n)] = "select"]
        /\ watched' = watched \cup {n}
        /\ revision' = [revision EXCEPT ![n] = rv]
        /\ start' = [start EXCEPT ![n] = rv]
        /\ pos' = [pos EXCEPT ![n] = rv]
        /\ snapshot' = [snapshot EXCEPT ![n] = {}]
        /\ replay' = [replay EXCEPT ![n] = {}]
        /\ endDue' = [endDue EXCEPT ![n] = FALSE]
    <3>1. ~(InitialEvents \/ rv = 0) /\ (InitialEvents /\ Bookmarks) = FALSE
      BY Zenon, Ascending DEF Resumed
    <3>. QED  BY ZenonT(60), <1>2, <3>1 DEF Add
  <2>2. /\ pc'[Forwarder(n)] = "select"
        /\ \A m \in Namespaces : pc'[Joiner(m)] = base[Joiner(m)]
        /\ \A m \in Namespaces : m # n => pc'[Forwarder(m)] = pc[Forwarder(m)]
    BY ZenonT(60), <2>0, <2>1
  <2>3. /\ revision'[n] = rv /\ start'[n] = rv /\ pos'[n] = rv
        /\ \A m \in Namespaces : m # n => /\ revision'[m] = revision[m]
                                          /\ start'[m] = start[m]
                                          /\ pos'[m] = pos[m]
    <3>1. /\ revision \in [Namespaces -> Nat]
          /\ start \in [Namespaces -> Nat] /\ pos \in [Namespaces -> Nat]
      BY Zenon DEF CountInv, TypeOK
    <3>. QED  BY ZenonT(60), <2>1, <3>1
  <2>4. \A m \in Namespaces : snapshot'[m] = {} /\ replay'[m] = {} /\ endDue'[m] = FALSE
    BY ZenonT(60), <2>1 DEF CountInv, TypeOK, NoReplay
  <2>5. NoReplay'
    <3>1. \A m \in Namespaces : /\ born'[m] <= Len(log')
                                /\ start'[m] <= pos'[m]
                                /\ pos'[m] <= Len(log')
                                /\ revision'[m] <= Len(log')
      <4>. SUFFICES ASSUME NEW m \in Namespaces
                    PROVE  /\ born'[m] <= Len(log') /\ start'[m] <= pos'[m]
                           /\ pos'[m] <= Len(log') /\ revision'[m] <= Len(log')
        BY Zenon
      <4>1. /\ born[m] <= Len(log) /\ start[m] <= pos[m]
            /\ pos[m] <= Len(log) /\ revision[m] <= Len(log)
        BY Zenon DEF NoReplay
      <4>2. rv <= rv
        BY Zenon, Between
      <4>3. CASE m = n
        BY Zenon, <1>0, <2>3, <4>1, <4>2, <4>3
      <4>4. CASE m # n
        BY Zenon, <1>0, <2>3, <4>1, <4>4
      <4>. QED  BY Zenon, <4>3, <4>4
    <3>. QED  BY ZenonT(60), <1>0, <2>2, <2>4, <3>1 DEF NoReplay
  <2>6. \A m, r : EventsAfter(m, r)' = EventsAfter(m, r)
    BY Zenon, <1>0 DEF EventsAfter
  <2>7. watched \subseteq Namespaces
    BY ZenonT(60) DEF CountInv, TypeOK
  <2>8. \A e \in EventsAfter(n, rv) : ~(e <= rv)
    BY ZenonT(60), LogLength, Numbers, Between DEF EventsAfter
  <2>9. Recorded'
    BY ZenonT(60), <1>0, <1>2, <2>1, <2>3, <2>6, <2>7, <2>8 DEF Recorded
  <2>10. ReadOn'
    <3>1. ASSUME NEW m \in watched', pc'[Forwarder(m)] \in Reads,
                 NEW e \in EventsAfter(m, start'[m]), e <= pos'[m]
          PROVE  e \in delivered \/ (pc'[Forwarder(m)] = "send" /\ e = held[m])
      <4>1. CASE m = n
        BY ZenonT(60), <2>3, <2>8, <3>1, <4>1
      <4>2. CASE m # n
        <5>1. m \in watched /\ m \in Namespaces
          BY Zenon, <2>1, <2>7, <4>2
        <5>. QED  BY ZenonT(60), <2>2, <2>3, <3>1, <4>2, <5>1 DEF ReadOn
      <4>. QED  BY Zenon, <4>1, <4>2
    <3>2. ASSUME NEW m \in Namespaces, pc'[Forwarder(m)] \in {"send", "record"}
          PROVE  held[m] <= pos'[m]
      <4>1. m # n
        BY Zenon, <2>2, <3>2
      <4>. QED  BY ZenonT(60), <2>2, <2>3, <3>2, <4>1 DEF ReadOn
    <3>. QED  BY ZenonT(60), <1>0, <2>6, <3>1, <3>2 DEF ReadOn
  <2>11. Behind(resume)' /\ \A m \in Namespaces : Behind(merged[m])'
    BY ZenonT(60), <1>0, <1>2, <2>1, <2>3, <2>7 DEF Behind
  <2>. QED  BY ZenonT(60), <2>5, <2>9, <2>10, <2>11
<1>. QED  BY Zenon, <1>1, <1>2

\* A bookmark of one stream moves its revision to where it has read, and the
\* merged one is the least of all.
LEMMA BookmarkFold ==
    ASSUME BookmarkInv, CountInv', NEW n \in Namespaces, ForwardBookmark(n)
    PROVE  BookmarkInv'
<1>. USE DEF BookmarkInv
<1>1. PICK b \in 1..Len(log) :
          /\ b > pos[n]
          /\ \A e \in EventsAfter(n, pos[n]) : e > b
          /\ pos' = [pos EXCEPT ![n] = b]
          /\ FoldBookmark(n, b, FALSE)
  BY ZenonT(60) DEF ForwardBookmark
<1>2. /\ revision' = [revision EXCEPT ![n] = IF b > @ THEN b ELSE @]
      /\ UNCHANGED <<log, born, added, start, snapshot, replay, watched, delivered,
                     resume, held>>
  BY ZenonT(60), <1>1 DEF FoldBookmark, idleVars, worldVars, openVars, clientVars
<1>3. pc[Forwarder(n)] = "select" /\ endDue' = endDue
  BY Zenon DEF ForwardBookmark
<1>4. /\ Len(log) \in Nat /\ b \in Nat /\ pos[n] \in Nat /\ revision[n] \in Nat
      /\ watched \subseteq Namespaces
      /\ \A m \in Namespaces : revision[m] \in Nat /\ pos[m] \in Nat /\ start[m] \in Nat
  BY ZenonT(60), LogLength, Numbers DEF CountInv, TypeOK
<1>5. /\ pos'[n] = b /\ revision'[n] = IF b > revision[n] THEN b ELSE revision[n]
      /\ \A m \in Namespaces : m # n => revision'[m] = revision[m] /\ pos'[m] = pos[m]
  <2>1. revision \in [Namespaces -> Nat] /\ pos \in [Namespaces -> Nat]
    BY Zenon DEF CountInv, TypeOK
  <2>. QED  BY ZenonT(60), <1>1, <1>2, <2>1
<1>6. /\ \A m \in Namespaces : pc'[Joiner(m)] = pc[Joiner(m)]
      /\ \A m \in Namespaces : m # n => pc'[Forwarder(m)] = pc[Forwarder(m)]
      /\ pc'[Forwarder(n)] \in {"select", "bookmark"}
  <2>1. pc' = pc \/ pc' = [pc EXCEPT ![Forwarder(n)] = "bookmark"]
    BY ZenonT(60), <1>1 DEF FoldBookmark, Goto
  <2>2. pc \in [Procs -> PCs]
    BY Zenon DEF CountInv, TypeOK
  <2>. QED  BY ZenonT(60), <1>3, <2>1, <2>2, ProcFacts
<1>7. NoReplay'
  <2>1. /\ b <= Len(log) /\ start[n] <= b
        /\ revision'[n] <= Len(log)
    BY ZenonT(60), <1>1, <1>4, <1>5, Numbers, Between DEF NoReplay
  <2>2. \A m \in Namespaces : /\ born'[m] <= Len(log')
                              /\ start'[m] <= pos'[m]
                              /\ pos'[m] <= Len(log')
                              /\ revision'[m] <= Len(log')
    BY Zenon, <1>2, <1>5, <2>1 DEF NoReplay
  <2>. QED  BY ZenonT(60), <1>2, <1>3, <1>6, <2>2 DEF NoReplay
<1>8. \A m, r : EventsAfter(m, r)' = EventsAfter(m, r)
  BY <1>2 DEF EventsAfter
<1>9. ASSUME n \in watched, NEW e \in EventsAfter(n, start[n]), e <= b PROVE e \in delivered
  <2>1. e \in Nat
    BY Zenon, <1>4, Numbers DEF EventsAfter
  <2>2. e <= pos[n]
    <3>. SUFFICES ASSUME e > pos[n] PROVE FALSE
      BY Zenon, <1>4, <2>1, Ascending
    <3>1. e \in EventsAfter(n, pos[n])
      BY Zenon DEF EventsAfter
    <3>. QED  BY ZenonT(60), <1>1, <1>4, <1>9, <2>1, <3>1, Between
  <2>. QED  BY ZenonT(60), <1>3, <1>9, <2>2 DEF ReadOn, Reads
<1>10. Recorded'
  BY ZenonT(60), <1>2, <1>4, <1>5, <1>8, <1>9 DEF Recorded
<1>11. ReadOn'
  BY ZenonT(60), <1>2, <1>4, <1>5, <1>6, <1>8, <1>9 DEF ReadOn
<1>12. \A m \in Namespaces : revision'[m] >= revision[m] /\ revision'[m] \in Nat
  BY ZenonT(60), <1>4, <1>5, Ascending, Between
<1>13. Behind(resume)'
  <2>1. resume.rev \in Nat /\ resume.over \subseteq Namespaces
    BY Zenon DEF CountInv, TypeOK, MergedBookmark
  <2>. QED  BY ZenonT(60), <1>2, <1>4, <1>12, <2>1, Ascending DEF Behind
<1>14. \A m \in Namespaces : Behind(merged[m])'
  <2>. DEFINE made(w, a) == [rev |-> w, over |-> watched, end |-> a]
  <2>1. PICK w \in Watermark(revision'), a \in BOOLEAN :
            UNCHANGED merged \/ merged' = [merged EXCEPT ![n] = made(w, a)]
    BY Zenon, <1>1 DEF FoldBookmark
  <2>2. \A k \in watched : w <= revision'[k]
    BY Zenon DEF Watermark
  <2>3. \A m \in Namespaces : merged'[m] = merged[m] \/ merged'[m] = made(w, a)
    BY ZenonT(60), <2>1 DEF CountInv, TypeOK
  <2>4. ASSUME NEW m \in Namespaces, NEW k \in merged'[m].over
        PROVE  k \in watched' /\ merged'[m].rev <= revision'[k]
    <3>1. CASE merged'[m] = merged[m]
      <4>1. merged[m].rev \in Nat /\ merged[m].over \subseteq Namespaces
        BY Zenon DEF CountInv, TypeOK, MergedBookmark
      <4>2. k \in watched /\ merged[m].rev <= revision[k]
        BY ZenonT(60), <2>4, <3>1 DEF Behind
      <4>. QED  BY ZenonT(60), <1>2, <1>4, <1>12, <3>1, <4>1, <4>2, Ascending
    <3>2. CASE merged'[m] = made(w, a)
      <4>1. made(w, a).over = watched /\ made(w, a).rev = w
        BY Zenon
      <4>. QED  BY ZenonT(60), <1>2, <2>2, <2>4, <3>2, <4>1
    <3>. QED  BY Zenon, <2>3, <3>1, <3>2
  <2>. QED  BY Zenon, <2>4 DEF Behind
<1>. QED  BY ZenonT(60), <1>7, <1>10, <1>11, <1>13, <1>14

\* A forwarder that changes its own place, its held event, its position and
\* its revision, or sends the bookmark it made.
LEMMA BookmarkForwarder ==
    ASSUME BookmarkInv, CountInv', NEW n \in Namespaces, NEW l \in PCs,
           Goto(Forwarder(n), l),
           UNCHANGED <<log, born, added, start, snapshot, replay, endDue, watched>>,
           resume' \in {resume, merged[n]},
           \A m \in Namespaces : merged'[m] \in {merged[m], NoBookmark},
           delivered \subseteq delivered',
           \A m \in Namespaces : m # n =>
               held'[m] = held[m] /\ pos'[m] = pos[m] /\ revision'[m] = revision[m],
           pos'[n] >= pos[n], pos'[n] <= Len(log),
           revision'[n] >= revision[n], revision'[n] <= Len(log),
           l \in {"send", "record"} => held'[n] <= pos'[n],
           n \in watched =>
               \A e \in EventsAfter(n, start[n]) :
                   /\ e <= revision'[n] => e \in delivered'
                   /\ e <= pos'[n] => e \in delivered' \/ (l = "send" /\ e = held'[n])
    PROVE  BookmarkInv'
<1>1. /\ watched \subseteq Namespaces
      /\ Len(log) \in Nat
      /\ \A m \in Namespaces : revision[m] \in Nat /\ pos[m] \in Nat /\ start[m] \in Nat
      /\ \A m \in Namespaces : revision'[m] \in Nat /\ pos'[m] \in Nat
  BY ZenonT(60), LogLength DEF BookmarkInv, CountInv, TypeOK
<1>2. /\ pc'[Forwarder(n)] = l
      /\ \A m \in Namespaces : pc'[Joiner(m)] = pc[Joiner(m)]
      /\ \A m \in Namespaces : m # n => pc'[Forwarder(m)] = pc[Forwarder(m)]
  BY ZenonT(60), ProcFacts DEF BookmarkInv, Goto, CountInv, TypeOK
<1>3. \A m, r : EventsAfter(m, r)' = EventsAfter(m, r)
  BY Zenon DEF EventsAfter
<1>4. NoReplay'
  <2>1. \A m \in Namespaces : /\ start'[m] <= pos'[m]
                              /\ pos'[m] <= Len(log')
                              /\ revision'[m] <= Len(log')
    <3>. SUFFICES ASSUME NEW m \in Namespaces
                  PROVE  /\ start'[m] <= pos'[m]
                         /\ pos'[m] <= Len(log')
                         /\ revision'[m] <= Len(log')
      BY Zenon
    <3>1. /\ start[m] <= pos[m] /\ pos[m] <= Len(log) /\ revision[m] <= Len(log)
          /\ start'[m] = start[m] /\ Len(log') = Len(log)
      BY Zenon DEF BookmarkInv, NoReplay
    <3>2. CASE m = n
      BY ZenonT(60), <1>1, <3>1, <3>2, Ascending
    <3>3. CASE m # n
      BY Zenon, <3>1, <3>3
    <3>. QED  BY Zenon, <3>2, <3>3
  <2>. QED  BY Zenon, <1>2, <2>1 DEF BookmarkInv, NoReplay
<1>5. Recorded'
  BY ZenonT(60), <1>1, <1>3 DEF BookmarkInv, Recorded
<1>6. ReadOn'
  BY ZenonT(60), <1>1, <1>2, <1>3 DEF BookmarkInv, ReadOn
<1>7. \A m \in Namespaces : revision'[m] >= revision[m]
  <2>. SUFFICES ASSUME NEW m \in Namespaces  PROVE  revision'[m] >= revision[m]
    BY Zenon
  <2>1. CASE m = n
    BY Zenon, <2>1
  <2>2. CASE m # n
    BY ZenonT(60), <1>1, <2>2, Ascending
  <2>. QED  BY Zenon, <2>1, <2>2
<1>8. ASSUME NEW bookmark \in MergedBookmark, Behind(bookmark), NEW m \in bookmark.over
      PROVE  m \in watched' /\ bookmark.rev <= revision'[m]
  <2>1. bookmark.rev \in Nat /\ m \in Namespaces
    BY Zenon DEF MergedBookmark
  <2>2. watched' = watched /\ m \in watched /\ bookmark.rev <= revision[m]
    BY Zenon, <1>8 DEF Behind
  <2>. QED  BY ZenonT(60), <1>1, <1>7, <2>1, <2>2, Ascending
<1>9. resume \in MergedBookmark /\ \A m \in Namespaces : merged[m] \in MergedBookmark
  BY Zenon DEF BookmarkInv, CountInv, TypeOK
<1>10. Behind(resume)' /\ \A m \in Namespaces : Behind(merged[m])'
  <2>1. NoBookmark.over = {}
    BY Zenon DEF NoBookmark
  <2>. QED  BY ZenonT(60), <1>8, <1>9, <2>1 DEF BookmarkInv, Behind
<1>. QED  BY ZenonT(60), <1>4, <1>5, <1>6, <1>10 DEF BookmarkInv

\* What a forwarder does on its own.
LEMMA BookmarkForward ==
    ASSUME BookmarkInv, CountInv', NEW n \in Namespaces,
           \/ ForwardReceive(n) \/ ForwardReceiveError(n) \/ ForwardSend(n)
           \/ RecordRevision(n) \/ SendBookmark(n)
    PROVE  BookmarkInv'
<1>. USE DEF BookmarkInv
<1>0. /\ watched \subseteq Namespaces
      /\ Len(log) \in Nat
      /\ \A m \in Namespaces : revision[m] \in Nat /\ pos[m] \in Nat /\ held[m] \in Nat
      /\ held \in [Namespaces -> Nat] /\ pos \in [Namespaces -> Nat]
      /\ revision \in [Namespaces -> Nat]
      /\ pos[n] <= Len(log) /\ revision[n] <= Len(log)
  <2>1. /\ held \in [Namespaces -> Nat] /\ pos \in [Namespaces -> Nat]
        /\ revision \in [Namespaces -> Nat] /\ watched \subseteq Namespaces
    BY ZenonT(60) DEF CountInv, TypeOK
  <2>2. Len(log) \in Nat
    BY Zenon, LogLength
  <2>3. pos[n] <= Len(log) /\ revision[n] <= Len(log)
    BY Zenon DEF NoReplay
  <2>. QED  BY Zenon, <2>1, <2>2, <2>3
<1>000. /\ "select" \in PCs /\ "send" \in PCs /\ "record" \in PCs
        /\ "select" \in Reads /\ "send" \in Reads /\ "record" \in Reads
        /\ "bookmark" \in Reads
  BY ZenonT(60) DEF PCs, Reads
<1>00. \A e \in EventsAfter(n, start[n]) : e \in Nat /\ e > 0
  BY Zenon, <1>0, Numbers DEF EventsAfter
<1>1. CASE ForwardReceive(n)
  <2>1. PICK e \in NextEvents(n) :
            /\ held' = [held EXCEPT ![n] = e]
            /\ replay' = [replay EXCEPT ![n] = @ \ {e}]
            /\ pos' = [pos EXCEPT ![n] = IF replay[n] = {} THEN e ELSE @]
    BY Zenon, <1>1 DEF ForwardReceive
  <2>2. replay[n] = {} /\ replay \in [Namespaces -> SUBSET Nat]
    BY Zenon DEF NoReplay, CountInv, TypeOK
  <2>3. /\ e \in EventsAfter(n, pos[n])
        /\ \A d \in EventsAfter(n, pos[n]) : e <= d
    BY Zenon, <2>2 DEF NextEvents
  <2>4. e \in 1..Len(log) /\ e > pos[n]
    BY Zenon, <2>3 DEF EventsAfter
  <2>5. replay' = replay /\ held'[n] = e /\ pos'[n] = e
    BY ZenonT(60), <1>0, <1>000, <2>1, <2>2
  <2>6. \A m \in Namespaces : m # n => held'[m] = held[m] /\ pos'[m] = pos[m]
    BY ZenonT(60), <1>0, <1>000, <2>1
  <2>7. /\ pc[Forwarder(n)] = "select" /\ Goto(Forwarder(n), "send")
        /\ UNCHANGED <<log, born, added, start, snapshot, endDue, watched, resume,
                       merged, delivered, revision>>
    BY Zenon, <1>1
       DEF ForwardReceive, idleVars, worldVars, openVars, progressVars, clientVars
  <2>8. ASSUME n \in watched, NEW d \in EventsAfter(n, start[n])
        PROVE  /\ d <= revision[n] => d \in delivered
               /\ d <= e => d \in delivered \/ d = e
    <3>1. d <= revision[n] => d \in delivered
      BY <2>8 DEF Recorded
    <3>2. d <= pos[n] => d \in delivered
      BY ZenonT(60), <1>0, <1>000, <2>7, <2>8 DEF ReadOn
    <3>3. d > pos[n] => e <= d
      BY ZenonT(60), <2>3 DEF EventsAfter
    <3>4. d \in Nat /\ pos[n] \in Nat /\ e \in Nat
      BY ZenonT(60), <1>0, <1>00, <2>3, <2>8, Numbers DEF EventsAfter
    <3>. QED  BY ZenonT(60), <3>1, <3>2, <3>3, <3>4, Ascending
  <2>9. e <= Len(log) /\ e >= pos[n] /\ e <= e /\ revision[n] >= revision[n]
    BY SMTT(60), <1>0, <1>000, <2>4
  <2>. QED
    BY ZenonT(60), <1>0, <1>000, <2>5, <2>6, <2>7, <2>8, <2>9, BookmarkForwarder
<1>2. CASE ForwardReceiveError(n)
  <2>1. /\ pc[Forwarder(n)] = "select" /\ Goto(Forwarder(n), "send")
        /\ held' = [held EXCEPT ![n] = 0]
        /\ UNCHANGED <<log, born, added, start, pos, snapshot, replay, endDue, watched,
                       resume, merged, delivered, revision>>
    BY Zenon, <1>2 DEF ForwardReceiveError, idleVars, worldVars, openVars, streamVars,
                progressVars, clientVars
  <2>2. held'[n] = 0 /\ \A m \in Namespaces : m # n => held'[m] = held[m]
    BY ZenonT(60), <1>0, <1>000, <2>1
  <2>3. ASSUME n \in watched, NEW d \in EventsAfter(n, start[n])
        PROVE  /\ d <= revision[n] => d \in delivered
               /\ d <= pos[n] => d \in delivered
    BY ZenonT(60), <1>0, <1>000, <2>1, <2>3 DEF Recorded, ReadOn
  <2>4. pos[n] >= pos[n] /\ revision[n] >= revision[n] /\ 0 <= pos[n]
    BY SMTT(60), <1>0
  <2>. QED  BY ZenonT(60), <1>0, <1>000, <2>1, <2>2, <2>3, <2>4, BookmarkForwarder
<1>3. CASE ForwardSend(n)
  <2>1. /\ pc[Forwarder(n)] = "send" /\ Goto(Forwarder(n), "record")
        /\ held[n] # 0 => held[n] \in delivered'
        /\ delivered \subseteq delivered'
        /\ UNCHANGED <<log, born, added, start, pos, snapshot, replay, endDue, watched,
                       resume, merged, held, revision>>
    BY Zenon, <1>3 DEF ForwardSend, idleVars, worldVars, openVars, streamVars, progressVars
  <2>2. held[n] <= pos[n]
    BY Zenon, <2>1 DEF ReadOn
  <2>3. ASSUME n \in watched, NEW d \in EventsAfter(n, start[n])
        PROVE  /\ d <= revision[n] => d \in delivered'
               /\ d <= pos[n] => d \in delivered'
    <3>1. d # 0
      BY ZenonT(60), <1>00, <2>3, Ascending
    <3>. QED  BY ZenonT(60), <1>0, <1>000, <2>1, <2>3, <3>1 DEF Recorded, ReadOn
  <2>4. pos[n] >= pos[n] /\ revision[n] >= revision[n]
    BY <1>0
  <2>. QED  BY ZenonT(60), <1>0, <1>000, <2>1, <2>2, <2>3, <2>4, BookmarkForwarder
<1>4. CASE RecordRevision(n)
  <2>1. /\ pc[Forwarder(n)] = "record" /\ Goto(Forwarder(n), "select")
        /\ revision' = [revision EXCEPT ![n] = IF held[n] > @ THEN held[n] ELSE @]
        /\ held' = [held EXCEPT ![n] = 0]
        /\ UNCHANGED <<log, born, added, start, pos, snapshot, replay, endDue, watched,
                       resume, merged, delivered>>
    BY Zenon, <1>4 DEF RecordRevision, idleVars, worldVars, openVars, streamVars, clientVars
  <2>2. held[n] <= pos[n]
    BY Zenon, <2>1 DEF ReadOn
  <2>3. /\ revision'[n] = IF held[n] > revision[n] THEN held[n] ELSE revision[n]
        /\ \A m \in Namespaces : m # n => held'[m] = held[m] /\ revision'[m] = revision[m]
    BY ZenonT(60), <1>0, <1>000, <2>1
  <2>4. ASSUME n \in watched, NEW d \in EventsAfter(n, start[n])
        PROVE  /\ d <= revision'[n] => d \in delivered
               /\ d <= pos[n] => d \in delivered
    <3>1. d <= revision[n] => d \in delivered
      BY Zenon, <2>4 DEF Recorded
    <3>2. d <= pos[n] => d \in delivered
      BY ZenonT(60), <1>0, <1>000, <2>1, <2>4 DEF ReadOn
    <3>. QED  BY ZenonT(60), <1>0, <1>00, <2>2, <2>3, <2>4, <3>1, <3>2, Between
  <2>5. /\ pos[n] >= pos[n] /\ revision'[n] >= revision[n]
        /\ revision'[n] <= Len(log)
    BY ZenonT(60), <1>0, <2>2, <2>3, Ascending, Between
  <2>. QED  BY ZenonT(60), <1>0, <1>000, <2>1, <2>3, <2>4, <2>5, BookmarkForwarder
<1>5. CASE SendBookmark(n)
  <2>1. /\ pc[Forwarder(n)] = "bookmark" /\ Goto(Forwarder(n), "select")
        /\ resume' \in {resume, merged[n]}
        /\ merged' = [merged EXCEPT ![n] = NoBookmark]
        /\ UNCHANGED <<log, born, added, start, pos, snapshot, replay, endDue, watched,
                       held, delivered, revision>>
    BY ZenonT(60), <1>5 DEF SendBookmark, idleVars, worldVars, openVars, streamVars, progressVars
  <2>2. \A m \in Namespaces : merged'[m] \in {merged[m], NoBookmark}
    BY Zenon, <2>1 DEF CountInv, TypeOK
  <2>3. ASSUME n \in watched, NEW d \in EventsAfter(n, start[n])
        PROVE  /\ d <= revision[n] => d \in delivered
               /\ d <= pos[n] => d \in delivered
    BY ZenonT(60), <1>0, <1>000, <2>1, <2>3 DEF Recorded, ReadOn
  <2>4. pos[n] >= pos[n] /\ revision[n] >= revision[n]
    BY <1>0
  <2>. QED  BY ZenonT(60), <1>0, <1>000, <2>1, <2>2, <2>3, <2>4, BookmarkForwarder
<1>. QED  BY ZenonT(60), <1>1, <1>2, <1>3, <1>4, <1>5

\* A goroutine that leaves for a place where no stream is read.
LEMMA BookmarkGoto ==
    ASSUME BookmarkInv, CountInv', NEW p \in Procs, NEW l \in PCs \ Reads, Goto(p, l),
           pc[p] # "off" \/ \E n \in added : p = Joiner(n),
           UNCHANGED <<log, born, streamVars, merged, watched, revision, resume>>,
           added' \subseteq added, delivered \subseteq delivered',
           \A n \in Namespaces : p # Forwarder(n) => held'[n] = held[n]
    PROVE  BookmarkInv'
<1>. USE DEF BookmarkInv
<1>1. pc \in [Procs -> PCs]
  BY Zenon DEF CountInv, TypeOK
<1>2. \A q \in Procs : pc'[q] = IF q = p THEN l ELSE pc[q]
  BY Zenon, <1>1 DEF Goto
<1>3. added \subseteq Namespaces /\ \A n \in added : born[n] > 0
  BY Zenon DEF CountInv, TypeOK, NoReplay
<1>4. \A n \in Namespaces :
          pc'[Joiner(n)] # "off" => pc[Joiner(n)] # "off" \/ born[n] > 0
  BY Zenon, <1>2, <1>3, ProcFacts
<1>5. \A n \in Namespaces : pc'[Forwarder(n)] \in Reads =>
          pc'[Forwarder(n)] = pc[Forwarder(n)] /\ held'[n] = held[n]
  BY Zenon, <1>2, ProcFacts
<1>6. \A n \in added' : born[n] > 0
  BY Zenon, <1>3
<1>. QED  BY ZenonT(60), <1>4, <1>5, <1>6, BookmarkQuiet

\* The places where no stream is read.
LEMMA NotReads == /\ {"try", "backoff", "expire", "send410", "stopping", "done"}
                         \subseteq PCs \ Reads
BY Zenon DEF PCs, Reads

\* expire, and Stop where it returns to a goroutine.
LEMMA BookmarkExpire ==
    ASSUME BookmarkInv, CountInv', NEW p \in Procs, ExpireStep(p)
    PROVE  BookmarkInv'
<1>1. pc[p] \in {"expire", "send410", "stopping"}
  BY Zenon DEF ExpireStep, ExpireFirst, ExpireAgain, Send410, ExpireReturns
<1>2. \E l \in {"send410", "stopping", "done"} : Goto(p, l)
  BY Zenon DEF ExpireStep, ExpireFirst, ExpireAgain, Send410, ExpireReturns, Returns
<1>3. UNCHANGED <<log, born, streamVars, merged, watched, revision, resume, added,
                  delivered, held>>
  BY Zenon DEF ExpireStep, ExpireFirst, ExpireAgain, Send410, ExpireReturns, Returns,
         idleVars, worldVars, openVars, progressVars, clientVars
<1>. QED  BY ZenonT(60), <1>1, <1>2, <1>3, NotReads, BookmarkGoto

\* A goroutine that only moves, or that returns because the mux is stopped.
LEMMA BookmarkMoves ==
    ASSUME BookmarkInv, CountInv', NEW p \in Procs, NEW from, from # "off",
           \/ \E l \in {"try", "expire"} : Moves(p, from, l)
           \/ ReturnsOnStop(p, from)
    PROVE  BookmarkInv'
<1>1. pc[p] # "off"
  BY Zenon DEF Moves, ReturnsOnStop
<1>2. \E l \in {"try", "expire", "done"} : Goto(p, l)
  BY Zenon DEF Moves, ReturnsOnStop, Returns
<1>3. UNCHANGED <<log, born, streamVars, merged, watched, revision, resume, added,
                  delivered, held>>
  BY Zenon DEF Moves, ReturnsOnStop, Returns, idleVars, worldVars, openVars, progressVars,
         clientVars
<1>. QED  BY ZenonT(60), <1>1, <1>2, <1>3, NotReads, BookmarkGoto

\* The forwarder of n.
LEMMA BookmarkForwardStep ==
    ASSUME BookmarkInv, CountInv', NEW n \in Namespaces, ForwardStep(n)
    PROVE  BookmarkInv'
<1>. USE DEF BookmarkInv
<1>0. Forwarder(n) \in Procs
  BY Zenon, ProcFacts
<1>1. CASE ForwardReceive(n) \/ ForwardSend(n) \/ RecordRevision(n) \/ SendBookmark(n)
  BY Zenon, <1>1, BookmarkForward
<1>2. CASE ForwardReplayEnd(n)
  BY Zenon, <1>2 DEF ForwardReplayEnd, NoReplay
<1>3. CASE ForwardDrop(n)
  <2>1. pc[Forwarder(n)] = "send" /\ Goto(Forwarder(n), "done")
    BY Zenon, <1>3 DEF ForwardDrop, Returns
  <2>2. UNCHANGED <<log, born, streamVars, merged, watched, revision, resume, added,
                    delivered>>
    BY Zenon, <1>3 DEF ForwardDrop, Returns, worldVars, openVars, progressVars, clientVars
  <2>3. \A m \in Namespaces : Forwarder(n) # Forwarder(m) => held'[m] = held[m]
    BY Zenon, <1>3 DEF ForwardDrop, CountInv, TypeOK
  <2>. QED  BY ZenonT(60), <1>0, <2>1, <2>2, <2>3, NotReads, BookmarkGoto
<1>4. CASE ForwardEnded(n) \/ ForwardStop(n)
  BY ZenonT(60), <1>0, <1>4, BookmarkMoves DEF ForwardEnded, ForwardStop
<1>5. CASE ExpireStep(Forwarder(n))
  BY ZenonT(60), <1>0, <1>5, BookmarkExpire
<1>. QED  BY ZenonT(60), <1>1, <1>2, <1>3, <1>4, <1>5 DEF ForwardStep

\* The joiner of n opens its stream at the revision the namespace was created.
LEMMA BookmarkJoinStep ==
    ASSUME Resumed, BookmarkInv, CountInv', NEW n \in Namespaces, JoinStep(n)
    PROVE  BookmarkInv'
<1>. USE DEF BookmarkInv
<1>0. Joiner(n) \in Procs
  BY Zenon, ProcFacts
<1>1. CASE JoinAdds(n)
  <2>. DEFINE base == [pc EXCEPT ![Joiner(n)] = "done"]
  <2>1. pc[Joiner(n)] = "try" /\ Add(n, born[n], base, wg - 1) /\ added' = added
    BY Zenon, <1>1 DEF JoinAdds, openVars
  <2>2. born[n] \in Nat /\ born[n] > 0 /\ born[n] <= Len(log)
    BY ZenonT(60), <2>1 DEF NoReplay, CountInv, TypeOK, TypeWorld
  <2>3. pc \in [Procs -> PCs]
    BY Zenon DEF CountInv, TypeOK
  <2>4. base \in [Procs -> PCs]
    BY ZenonT(60), <2>3, NotReads
  <2>5. \A m \in Namespaces : /\ base[Forwarder(m)] = pc[Forwarder(m)]
                              /\ base[Joiner(m)] # "off" => pc[Joiner(m)] # "off"
    BY ZenonT(60), <2>1, <2>3, ProcFacts
  <2>. HIDE DEF base
  <2>. QED  BY ZenonT(60), <2>1, <2>2, <2>4, <2>5, BookmarkAdd
<1>2. CASE JoinForbidden(n)
  <2>1. pc[Joiner(n)] = "try" /\ Goto(Joiner(n), "backoff")
    BY Zenon, <1>2 DEF JoinForbidden
  <2>2. UNCHANGED <<log, born, streamVars, merged, watched, revision, resume, added,
                    delivered, held>>
    BY Zenon, <1>2 DEF JoinForbidden, worldVars, progressVars, clientVars
  <2>. QED  BY ZenonT(60), <1>0, <2>1, <2>2, NotReads, BookmarkGoto
<1>3. CASE JoinFails(n) \/ JoinBackoffEnds(n) \/ JoinStop(n)
  BY ZenonT(60), <1>0, <1>3, BookmarkMoves DEF JoinFails, JoinBackoffEnds, JoinStop
<1>4. CASE ExpireStep(Joiner(n))
  BY ZenonT(60), <1>0, <1>4, BookmarkExpire
<1>. QED  BY ZenonT(60), <1>1, <1>2, <1>3, <1>4 DEF JoinStep

\* The follower starts joiners only for namespaces created after the start.
LEMMA BookmarkFollowStep ==
    ASSUME BookmarkInv, CountInv', FollowStep
    PROVE  BookmarkInv'
<1>. USE DEF BookmarkInv
<1>0. Follower \in Procs
  BY Zenon, ProcFacts
<1>1. CASE FollowEnded \/ FollowStop
  BY Zenon, <1>0, <1>1, BookmarkMoves DEF FollowEnded, FollowStop
<1>2. CASE ExpireStep(Follower)
  BY ZenonT(60), <1>0, <1>2, BookmarkExpire
<1>3. ASSUME NEW n \in Namespaces, GoJoin(n) PROVE BookmarkInv'
  <2>1. n \in added /\ Goto(Joiner(n), "try") /\ added' \subseteq added
    BY Zenon, <1>3 DEF GoJoin
  <2>2. UNCHANGED <<log, born, streamVars, merged, watched, revision, resume,
                    delivered, held>>
    BY Zenon, <1>3 DEF GoJoin, worldVars, progressVars, clientVars
  <2>3. Joiner(n) \in Procs
    BY Zenon, ProcFacts
  <2>. QED  BY ZenonT(60), <2>1, <2>2, <2>3, NotReads, BookmarkGoto
<1>. QED  BY ZenonT(60), <1>1, <1>2, <1>3 DEF FollowStep

\* newWatchMux opens every stream at the client's revision.
LEMMA BookmarkOpenStep ==
    ASSUME Resumed, BookmarkInv, CountInv', OpenStep
    PROVE  BookmarkInv'
<1>. USE DEF BookmarkInv
<1>0. StartRev \in Nat /\ StartRev > 0 /\ StartRev <= Len(log) /\ pc \in [Procs -> PCs]
  BY ZenonT(60), StartIsRevision DEF Resumed, NoReplay, CountInv, TypeOK
<1>1. CASE ListNamespaces \/ OpenFails \/ OpenReturnsError
  <2>1. UNCHANGED <<log, born, pc, streamVars, merged, watched, revision, resume, added,
                    delivered, held>>
    BY Zenon, <1>1 DEF ListNamespaces, OpenFails, OpenReturnsError, worldVars, runVars,
                progressVars, clientVars
  <2>2. \A n \in added : born[n] > 0
    BY Zenon DEF NoReplay
  <2>. QED  BY ZenonT(60), <2>1, <2>2, BookmarkQuiet
<1>2. CASE FollowNamespaces
  <2>1. /\ UNCHANGED <<log, born, streamVars, merged, watched, revision, resume,
                       delivered, held>>
        /\ Goto(Follower, "select")
        /\ added' = {n \in Namespaces : born[n] > 0}
    BY ZenonT(60), <1>0, <1>2, Ascending DEF FollowNamespaces, worldVars, progressVars, clientVars
  <2>2. \A n \in Namespaces : /\ pc'[Joiner(n)] = pc[Joiner(n)]
                              /\ pc'[Forwarder(n)] = pc[Forwarder(n)]
    BY ZenonT(60), <1>0, <2>1, ProcFacts DEF Goto
  <2>. QED  BY ZenonT(60), <2>1, <2>2, BookmarkQuiet
<1>3. ASSUME NEW n \in Namespaces, OpenNamespace(n) PROVE BookmarkInv'
  <2>1. Add(n, StartRev, pc, wg) /\ added' = added
    BY Zenon, <1>3 DEF OpenNamespace
  <2>. QED  BY ZenonT(60), <1>0, <2>1, BookmarkAdd
<1>. QED  BY ZenonT(60), <1>1, <1>2, <1>3 DEF OpenStep

\* A step that touches no stream, no goroutine and no bookmark.
LEMMA BookmarkIdle ==
    ASSUME BookmarkInv, CountInv',
           UNCHANGED <<log, born, pc, streamVars, merged, watched, revision, resume, added,
                       delivered, held>>
    PROVE  BookmarkInv'
<1>1. \A n \in added : born[n] > 0
  BY Zenon DEF BookmarkInv, NoReplay
<1>. QED  BY Zenon, <1>1, BookmarkQuiet

\* What the upstream cluster and the client do of their own accord.
LEMMA BookmarkEnvironment ==
    ASSUME BookmarkInv, CountInv', Environment
    PROVE  BookmarkInv'
<1>. USE DEF BookmarkInv
<1>0. born \in [Namespaces -> Nat] /\ Len(log) \in Nat /\ \A n \in added : born[n] > 0
  BY SMTT(60) DEF CountInv, TypeOK, TypeWorld, NoReplay
<1>1. CASE WriteElsewhere
  BY ZenonT(60), <1>0, <1>1, BookmarkWrite
  DEF WriteElsewhere, muxVars, runVars, openVars, progressVars, clientVars
<1>2. CASE NamespaceStreamEnds \/ ClientLeaves
  <2>1. UNCHANGED <<log, born, pc, streamVars, merged, watched, revision, resume, added,
                    delivered, held>>
    BY Zenon, <1>2 DEF NamespaceStreamEnds, ClientLeaves, ClientMoves, idleVars, worldVars,
                openVars, runVars, progressVars, clientVars
  <2>. QED  BY Zenon, <2>1, BookmarkIdle
<1>3. ASSUME NEW n \in Namespaces, Write(n) \/ DeleteNamespace(n) PROVE BookmarkInv'
  <2>1. /\ log' = Append(log, n) \/ log' = Append(log, Elsewhere)
        /\ UNCHANGED <<born, added, pc, streamVars, held, merged, watched, revision,
                       delivered, resume>>
    BY Zenon, <1>3 DEF Write, DeleteNamespace, muxVars, runVars, openVars, progressVars,
                clientVars
  <2>. QED  BY ZenonT(60), <1>0, <2>1, BookmarkWrite
<1>4. ASSUME NEW n \in Namespaces, CreateNamespace(n) PROVE BookmarkInv'
  <2>1. /\ log' = Append(log, Elsewhere)
        /\ born' = [born EXCEPT ![n] = Len(log) + 1]
        /\ added' = added \cup {n}
        /\ UNCHANGED <<pc, streamVars, held, merged, watched, revision, delivered, resume>>
    BY Zenon, <1>4 DEF CreateNamespace, runVars, progressVars, clientVars
  <2>2. \A m \in Namespaces : born'[m] = IF m = n THEN Len(log) + 1 ELSE born[m]
    BY ZenonT(60), <1>0, <2>1
  <2>3. added \subseteq Namespaces
    BY Zenon DEF CountInv, TypeOK
  <2>4. \A m \in added' : born'[m] > 0
    BY SMTT(60), <1>0, <2>1, <2>2, <2>3
  <2>. QED  BY ZenonT(60), <2>1, <2>2, <2>4, BookmarkWrite
<1>5. ASSUME NEW n \in Namespaces, StreamEnds(n) PROVE BookmarkInv'
  <2>1. UNCHANGED <<log, born, pc, streamVars, merged, watched, revision, resume, added,
                    delivered, held>>
    BY Zenon, <1>5 DEF StreamEnds, idleVars, worldVars, openVars, progressVars, clientVars
  <2>. QED  BY Zenon, <2>1, BookmarkIdle
<1>. QED
  BY ZenonT(60), <1>1, <1>2, <1>3, <1>4, <1>5, BookmarkForward, BookmarkFold DEF Environment

\* Stop, the closer and the client's departure.
LEMMA BookmarkStop ==
    ASSUME BookmarkInv, CountInv', StopStep
    PROVE  BookmarkInv'
<1>1. UNCHANGED <<log, born, pc, streamVars, merged, watched, revision, resume, added,
                  delivered, held>>
  BY Zenon
     DEF StopStep, CloseStop, StopWatched, ClientGone, ClientMoves, CloseResult, idleVars,
         worldVars, openVars, runVars, progressVars, clientVars
<1>. QED  BY Zenon, <1>1, BookmarkIdle

\* Every step of the mux keeps the bookmarks behind what is delivered.
LEMMA BookmarkNext == ASSUME Resumed PROVE BookmarkInv /\ [Next]_vars => BookmarkInv'
<1>. SUFFICES ASSUME BookmarkInv, [Next]_vars PROVE BookmarkInv'
  BY Zenon
<1>1. CountInv'
  BY Zenon, CountNext DEF BookmarkInv
<1>2. CASE UNCHANGED vars
  BY ZenonT(60), <1>1, <1>2, BookmarkIdle DEF vars, worldVars, muxVars, runVars, openVars,
                                  progressVars, clientVars
<1>3. CASE Terminated
  BY ZenonT(60), <1>1, <1>3, BookmarkIdle
     DEF Terminated, vars, worldVars, muxVars, runVars, openVars,
                                  progressVars, clientVars
<1>. QED
  BY ZenonT(60), <1>1, <1>2, <1>3, BookmarkEnvironment, BookmarkOpenStep, BookmarkFollowStep,
     BookmarkForwardStep, BookmarkJoinStep, BookmarkStop DEF Next

\* What is behind the client's bookmark has been delivered.
LEMMA BookmarkImplies == BookmarkInv => BookmarkSafe
<1>. SUFFICES ASSUME BookmarkInv, NEW n \in resume.over, NEW e \in Owed(n, resume.rev)
              PROVE  e \in delivered
  BY Zenon DEF BookmarkSafe
<1>. USE DEF BookmarkInv
<1>1. resume \in MergedBookmark /\ revision \in [Namespaces -> Nat]
  BY Zenon DEF CountInv, TypeOK
<1>2. n \in Namespaces /\ resume.rev \in Nat /\ revision[n] \in Nat
  BY Zenon, <1>1 DEF MergedBookmark
<1>3. n \in watched /\ resume.rev <= revision[n]
  BY Zenon DEF Behind
<1>4. e \in EventsAfter(n, start[n]) /\ e <= resume.rev
  BY ZenonT(60), <1>2 DEF Owed, NoReplay
<1>5. e \in Nat
  BY SMTT(60), <1>4 DEF EventsAfter
<1>6. e <= revision[n]
  BY SMTT(60), <1>2, <1>3, <1>4, <1>5
<1>. QED  BY ZenonT(60), <1>3, <1>4, <1>6 DEF Recorded

\* A client that resumes a watch is never given a bookmark that passes an event
\* it has not got: forward records a revision after the send, recordRevision
\* never goes back, and onBookmark takes the minimum over the streams.
THEOREM BookmarksAreSafe == ASSUME Resumed PROVE Spec => []BookmarkSafe
<1>1. Init => BookmarkInv
  BY ZenonT(60), BookmarkInit
<1>2. BookmarkInv /\ [Next]_vars => BookmarkInv'
  BY BookmarkNext
<1>. QED  BY <1>1, <1>2, BookmarkImplies, PTL DEF Spec

-----------------------------------------------------------------------------
(* The bookmark that announces the end of the replay, of any watch.         *)

\* While a forwarder reads its stream, what the stream replays is still to come,
\* delivered, or the event the forwarder holds.
Replaying(n) ==
    pc[Forwarder(n)] \in Reads =>
        \A e \in snapshot[n] : \/ e \in replay[n]
                               \/ e \in delivered
                               \/ pc[Forwarder(n)] = "send" /\ e = held[n]

\* A bookmark that ends the replay is made from streams that have ended theirs.
Announces(bookmark) == bookmark.end => bookmark.over \subseteq ended

ReplayInv ==
    /\ CountInv
    /\ \A n \in Namespaces : 0 \notin snapshot[n] /\ Replaying(n)
    /\ ended \subseteq watched
    /\ \A n \in ended : snapshot[n] \subseteq delivered
    /\ Announces(resume)
    /\ \A n \in Namespaces : Announces(merged[n])

\* The initial state has nothing to replay.
LEMMA ReplayInit == Init => ReplayInv
<1>. SUFFICES ASSUME Init PROVE ReplayInv
  BY Zenon
<1>1. CountInv
  BY Zenon, CountInit
<1>2. \A n \in Namespaces : snapshot[n] = {}
  BY Zenon DEF Init
<1>3. NoBookmark.end = FALSE
  BY Zenon DEF NoBookmark
<1>4. Announces(resume) /\ \A n \in Namespaces : Announces(merged[n])
  BY Zenon, <1>3 DEF Announces, Init
<1>5. ended = {}
  BY Zenon DEF Init
<1>. QED  BY Zenon, <1>1, <1>2, <1>4, <1>5 DEF ReplayInv, Replaying

\* Steps that read no stream and make no bookmark.
LEMMA ReplayQuiet ==
    ASSUME ReplayInv, CountInv',
           UNCHANGED <<snapshot, replay, watched, ended, merged, resume>>,
           delivered \subseteq delivered',
           \A n \in Namespaces : pc'[Forwarder(n)] \in Reads =>
               pc'[Forwarder(n)] = pc[Forwarder(n)] /\ held'[n] = held[n]
    PROVE  ReplayInv'
<1>1. \A n \in Namespaces : Replaying(n)'
  BY Zenon DEF ReplayInv, Replaying
<1>2. Announces(resume)' /\ \A n \in Namespaces : Announces(merged[n])'
  BY Zenon DEF ReplayInv, Announces
<1>. QED  BY Zenon, <1>1, <1>2 DEF ReplayInv

\* A goroutine that leaves for a place where no stream is read.
LEMMA ReplayGoto ==
    ASSUME ReplayInv, CountInv', NEW p \in Procs, NEW l \in PCs \ Reads, Goto(p, l),
           UNCHANGED <<snapshot, replay, watched, ended, merged, resume, delivered>>,
           \A n \in Namespaces : p # Forwarder(n) => held'[n] = held[n]
    PROVE  ReplayInv'
<1>1. \A q \in Procs : pc'[q] = IF q = p THEN l ELSE pc[q]
  BY Zenon DEF Goto, ReplayInv, CountInv, TypeOK
<1>2. \A n \in Namespaces : pc'[Forwarder(n)] \in Reads =>
          pc'[Forwarder(n)] = pc[Forwarder(n)] /\ held'[n] = held[n]
  BY Zenon, <1>1, ProcFacts
<1>. QED  BY Zenon, <1>2, ReplayQuiet

\* A step that touches no stream, no goroutine and no bookmark.
LEMMA ReplayIdle ==
    ASSUME ReplayInv, CountInv',
           UNCHANGED <<pc, snapshot, replay, watched, ended, merged, resume, delivered, held>>
    PROVE  ReplayInv'
BY Zenon, ReplayQuiet

\* add opens a stream that has all of its replay to come.
LEMMA ReplayAdd ==
    ASSUME ReplayInv, CountInv', NEW n \in Namespaces, NEW rv,
           NEW base \in [Procs -> PCs], NEW count, Add(n, rv, base, count),
           \A m \in Namespaces : base[Forwarder(m)] = pc[Forwarder(m)]
    PROVE  ReplayInv'
<1>0. UNCHANGED <<ended, merged, delivered, resume, held>>
  BY Zenon DEF Add, clientVars
<1>1. CASE n \in watched
  <2>1. pc' = base /\ UNCHANGED <<snapshot, replay, watched>>
    BY Zenon, <1>1 DEF Add, streamVars
  <2>. QED  BY Zenon, <1>0, <2>1, ReplayQuiet
<1>2. CASE n \notin watched
  <2>. DEFINE replays == InitialEvents \/ rv = 0
              objects == IF replays /\ n \in present THEN EventsAfter(n, 0) ELSE {}
  <2>1. 0 \notin objects
    BY SMTT(60) DEF EventsAfter
  <2>2. /\ pc' = [base EXCEPT ![Forwarder(n)] = "select"]
        /\ watched' = watched \cup {n}
        /\ snapshot' = [snapshot EXCEPT ![n] = objects]
        /\ replay' = [replay EXCEPT ![n] = objects]
    BY ZenonT(60), <1>2 DEF Add
  <2>. HIDE DEF objects
  <2>3. /\ snapshot'[n] = objects /\ replay'[n] = objects
        /\ \A m \in Namespaces : m # n => snapshot'[m] = snapshot[m] /\ replay'[m] = replay[m]
    BY ZenonT(60), <2>2 DEF ReplayInv, CountInv, TypeOK
  <2>4. \A m \in Namespaces : m # n => pc'[Forwarder(m)] = pc[Forwarder(m)]
    BY ZenonT(60), <2>2, ProcFacts
  <2>5. \A m \in Namespaces : 0 \notin snapshot'[m] /\ Replaying(m)'
    <3>. SUFFICES ASSUME NEW m \in Namespaces  PROVE  0 \notin snapshot'[m] /\ Replaying(m)'
      BY Zenon
    <3>1. CASE m = n
      BY Zenon, <2>1, <2>3, <3>1 DEF Replaying
    <3>2. CASE m # n
      BY Zenon, <1>0, <2>3, <2>4, <3>2 DEF ReplayInv, Replaying
    <3>. QED  BY Zenon, <3>1, <3>2
  <2>6. \A m \in ended' : snapshot'[m] \subseteq delivered'
    <3>1. \A m \in ended : m \in Namespaces /\ m # n
      BY Zenon, <1>2 DEF ReplayInv, CountInv, TypeOK
    <3>. QED  BY Zenon, <1>0, <2>3, <3>1 DEF ReplayInv
  <2>7. Announces(resume)' /\ \A m \in Namespaces : Announces(merged[m])'
    BY Zenon, <1>0 DEF ReplayInv, Announces
  <2>8. ended' \subseteq watched'
    BY Zenon, <1>0, <2>2 DEF ReplayInv
  <2>. QED  BY Zenon, <2>5, <2>6, <2>7, <2>8 DEF ReplayInv
<1>. QED  BY Zenon, <1>1, <1>2

\* onBookmark: a stream whose replay has ended has it delivered, and a merged
\* bookmark announces the end when every stream's has.
LEMMA ReplayFold ==
    ASSUME ReplayInv, CountInv', NEW n \in Namespaces, NEW rev, NEW end,
           pc[Forwarder(n)] = "select", end => replay[n] = {},
           FoldBookmark(n, rev, end)
    PROVE  ReplayInv'
<1>. DEFINE announce == InitialEvents /\ AllReplayed(ended') /\ ~replayed
            made(w) == [rev |-> w, over |-> watched, end |-> announce]
<1>1. UNCHANGED <<snapshot, replay, watched, resume, delivered, held>>
  BY Zenon DEF FoldBookmark, clientVars
<1>2. ended \subseteq ended' /\ ended' \subseteq ended \cup {n} /\ (~end => ended' = ended)
  BY Zenon DEF FoldBookmark
<1>3. n \in watched
  BY Zenon DEF ReplayInv, CountInv, Shape
<1>4. \A m \in Namespaces : pc'[Forwarder(m)] \in Reads =>
          \/ pc'[Forwarder(m)] = pc[Forwarder(m)]
          \/ pc'[Forwarder(m)] = "bookmark" /\ pc[Forwarder(m)] = "select"
  <2>1. UNCHANGED pc \/ Goto(Forwarder(n), "bookmark")
    BY Zenon DEF FoldBookmark
  <2>. QED  BY ZenonT(60), <2>1, ProcFacts DEF Goto, ReplayInv, CountInv, TypeOK
<1>5. \A m \in Namespaces : Replaying(m)'
  <2>1. "select" \in Reads /\ "select" # "send" /\ "bookmark" # "send"
    BY Zenon DEF Reads
  <2>. QED  BY ZenonT(60), <1>1, <1>4, <2>1 DEF ReplayInv, Replaying
<1>6. \A m \in ended' : snapshot'[m] \subseteq delivered'
  <2>1. "select" \in Reads /\ "select" # "send"
    BY Zenon DEF Reads
  <2>2. end => snapshot[n] \subseteq delivered
    BY ZenonT(60), <2>1 DEF ReplayInv, Replaying
  <2>. QED  BY ZenonT(60), <1>1, <1>2, <2>2 DEF ReplayInv
<1>7. \E w : \A m \in Namespaces : merged'[m] = merged[m] \/ merged'[m] = made(w)
  <2>1. PICK w : UNCHANGED merged \/ merged' = [merged EXCEPT ![n] = made(w)]
    BY ZenonT(60) DEF FoldBookmark
  <2>. HIDE DEF made
  <2>. QED  BY ZenonT(60), <2>1 DEF ReplayInv, CountInv, TypeOK
<1>8. ASSUME NEW w  PROVE  made(w).end => made(w).over \subseteq ended'
  <2>1. made(w).end = announce /\ made(w).over = watched
    BY Zenon
  <2>. QED  BY Zenon, <2>1 DEF AllReplayed
<1>. HIDE DEF made, announce
<1>9. \A m \in Namespaces : Announces(merged[m])'
  BY ZenonT(60), <1>2, <1>7, <1>8 DEF ReplayInv, Announces
<1>10. Announces(resume)'
  BY Zenon, <1>1, <1>2 DEF ReplayInv, Announces
<1>11. ended' \subseteq watched'
  BY Zenon, <1>1, <1>2, <1>3 DEF ReplayInv
<1>. QED  BY Zenon, <1>1, <1>5, <1>6, <1>9, <1>10, <1>11 DEF ReplayInv

\* A forwarder that goes on with the events of its stream, or sends the bookmark
\* it made.
LEMMA ReplayForwarder ==
    ASSUME ReplayInv, CountInv', NEW n \in Namespaces, NEW l \in PCs,
           Goto(Forwarder(n), l),
           UNCHANGED <<snapshot, watched, ended>>,
           resume' \in {resume, merged[n]},
           \A m \in Namespaces : merged'[m] \in {merged[m], NoBookmark},
           delivered \subseteq delivered',
           \A m \in Namespaces : m # n => held'[m] = held[m] /\ replay'[m] = replay[m],
           \A e \in snapshot[n] : \/ e \in replay'[n]
                                  \/ e \in delivered'
                                  \/ l = "send" /\ e = held'[n]
    PROVE  ReplayInv'
<1>1. /\ pc'[Forwarder(n)] = l
      /\ \A m \in Namespaces : m # n => pc'[Forwarder(m)] = pc[Forwarder(m)]
  BY ZenonT(60), ProcFacts DEF ReplayInv, Goto, CountInv, TypeOK
<1>2. \A m \in Namespaces : Replaying(m)'
  <2>. SUFFICES ASSUME NEW m \in Namespaces  PROVE  Replaying(m)'
    BY Zenon
  <2>1. CASE m = n
    BY Zenon, <1>1, <2>1 DEF Replaying
  <2>2. CASE m # n
    BY Zenon, <1>1, <2>2 DEF ReplayInv, Replaying
  <2>. QED  BY Zenon, <2>1, <2>2
<1>3. NoBookmark.end = FALSE
  BY Zenon DEF NoBookmark
<1>4. Announces(resume)' /\ \A m \in Namespaces : Announces(merged[m])'
  BY Zenon, <1>3 DEF ReplayInv, Announces
<1>. QED  BY Zenon, <1>2, <1>4 DEF ReplayInv


\* What a forwarder does with the events and the bookmarks of its stream.
LEMMA ReplayForward ==
    ASSUME ReplayInv, CountInv', NEW n \in Namespaces,
           \/ ForwardReceive(n) \/ ForwardReceiveError(n) \/ ForwardSend(n)
           \/ RecordRevision(n) \/ SendBookmark(n)
           \/ ForwardBookmark(n) \/ ForwardReplayEnd(n)
    PROVE  ReplayInv'
<1>0. /\ "select" \in PCs /\ "send" \in PCs /\ "record" \in PCs
      /\ "select" \in Reads /\ "send" \in Reads /\ "record" \in Reads
      /\ "bookmark" \in Reads
  BY ZenonT(60) DEF PCs, Reads
<1>00. /\ held \in [Namespaces -> Nat] /\ replay \in [Namespaces -> SUBSET Nat]
       /\ merged \in [Namespaces -> MergedBookmark]
       /\ 0 \notin snapshot[n] /\ Replaying(n)
  BY Zenon DEF ReplayInv, CountInv, TypeOK
<1>1. CASE ForwardReceive(n)
  <2>1. PICK e \in NextEvents(n) : /\ held' = [held EXCEPT ![n] = e]
                                   /\ replay' = [replay EXCEPT ![n] = @ \ {e}]
    BY Zenon, <1>1 DEF ForwardReceive
  <2>2. /\ pc[Forwarder(n)] = "select" /\ Goto(Forwarder(n), "send")
        /\ UNCHANGED <<snapshot, watched, ended, resume, merged, delivered>>
    BY Zenon, <1>1 DEF ForwardReceive, progressVars, clientVars
  <2>3. /\ held'[n] = e /\ replay'[n] = replay[n] \ {e}
        /\ \A m \in Namespaces : m # n => held'[m] = held[m] /\ replay'[m] = replay[m]
    BY ZenonT(60), <1>00, <2>1
  <2>4. \A d \in snapshot[n] : d \in replay'[n] \/ d \in delivered' \/ d = held'[n]
    BY ZenonT(60), <1>0, <1>00, <2>2, <2>3 DEF Replaying
  <2>. QED  BY ZenonT(60), <1>0, <2>2, <2>3, <2>4, ReplayForwarder
<1>2. CASE ForwardReceiveError(n)
  <2>1. /\ pc[Forwarder(n)] = "select" /\ Goto(Forwarder(n), "send")
        /\ held' = [held EXCEPT ![n] = 0]
        /\ UNCHANGED <<snapshot, replay, watched, ended, resume, merged, delivered>>
    BY Zenon, <1>2 DEF ForwardReceiveError, streamVars, progressVars, clientVars
  <2>2. \A m \in Namespaces : m # n => held'[m] = held[m]
    BY ZenonT(60), <1>00, <2>1
  <2>3. \A d \in snapshot[n] : d \in replay'[n] \/ d \in delivered'
    BY ZenonT(60), <1>0, <1>00, <2>1 DEF Replaying
  <2>. QED  BY ZenonT(60), <1>0, <2>1, <2>2, <2>3, ReplayForwarder
<1>3. CASE ForwardSend(n)
  <2>1. /\ pc[Forwarder(n)] = "send" /\ Goto(Forwarder(n), "record")
        /\ held[n] # 0 => held[n] \in delivered'
        /\ delivered \subseteq delivered'
        /\ UNCHANGED <<snapshot, replay, watched, ended, resume, merged, held>>
    BY Zenon, <1>3 DEF ForwardSend, streamVars, progressVars
  <2>2. \A d \in snapshot[n] : d \in replay'[n] \/ d \in delivered'
    BY ZenonT(60), <1>0, <1>00, <2>1 DEF Replaying
  <2>. QED  BY ZenonT(60), <1>0, <2>1, <2>2, ReplayForwarder
<1>4. CASE RecordRevision(n) \/ SendBookmark(n)
  <2>1. /\ pc[Forwarder(n)] \in {"record", "bookmark"} /\ Goto(Forwarder(n), "select")
        /\ resume' \in {resume, merged[n]}
        /\ held' = [held EXCEPT ![n] = 0] \/ held' = held
        /\ merged' = [merged EXCEPT ![n] = NoBookmark] \/ merged' = merged
        /\ UNCHANGED <<snapshot, replay, watched, ended, delivered>>
    BY ZenonT(60), <1>4 DEF RecordRevision, SendBookmark, streamVars, progressVars, clientVars
  <2>2. /\ \A m \in Namespaces : m # n => held'[m] = held[m]
        /\ \A m \in Namespaces : merged'[m] \in {merged[m], NoBookmark}
    BY ZenonT(60), <1>00, <2>1
  <2>3. \A d \in snapshot[n] : d \in replay'[n] \/ d \in delivered'
    BY ZenonT(60), <1>0, <1>00, <2>1 DEF Replaying
  <2>. QED  BY ZenonT(60), <1>0, <2>1, <2>2, <2>3, ReplayForwarder
<1>5. CASE ForwardBookmark(n)
  <2>1. pc[Forwarder(n)] = "select" /\ \E b : FoldBookmark(n, b, FALSE)
    BY Zenon, <1>5 DEF ForwardBookmark
  <2>. QED  BY ZenonT(60), <2>1, ReplayFold
<1>6. CASE ForwardReplayEnd(n)
  <2>1. pc[Forwarder(n)] = "select" /\ replay[n] = {} /\ FoldBookmark(n, start[n], TRUE)
    BY Zenon, <1>6 DEF ForwardReplayEnd
  <2>. QED  BY ZenonT(60), <2>1, ReplayFold
<1>. QED  BY ZenonT(60), <1>1, <1>2, <1>3, <1>4, <1>5, <1>6

\* A goroutine that returns, moves on or expires the watch.
LEMMA ReplayLeave ==
    ASSUME ReplayInv, CountInv', NEW p \in Procs,
           \/ ExpireStep(p)
           \/ \E from, l : l \in {"try", "expire"} /\ Moves(p, from, l)
           \/ \E from : ReturnsOnStop(p, from)
    PROVE  ReplayInv'
<1>1. \E l \in {"try", "expire", "send410", "stopping", "done"} : Goto(p, l)
  BY ZenonT(60) DEF ExpireStep, ExpireFirst, ExpireAgain, Send410, ExpireReturns, Returns,
         Moves, ReturnsOnStop
<1>2. UNCHANGED <<snapshot, replay, watched, ended, merged, resume, delivered, held>>
  BY ZenonT(60) DEF ExpireStep, ExpireFirst, ExpireAgain, Send410, ExpireReturns, Returns,
         Moves, ReturnsOnStop, streamVars, progressVars, clientVars
<1>. QED  BY ZenonT(60), <1>1, <1>2, NotReads, ReplayGoto

\* The forwarder of n.
LEMMA ReplayForwardStep ==
    ASSUME ReplayInv, CountInv', NEW n \in Namespaces, ForwardStep(n)
    PROVE  ReplayInv'
<1>0. Forwarder(n) \in Procs
  BY Zenon, ProcFacts
<1>1. CASE ForwardDrop(n)
  <2>1. Goto(Forwarder(n), "done")
    BY Zenon, <1>1 DEF ForwardDrop, Returns
  <2>2. UNCHANGED <<snapshot, replay, watched, ended, merged, resume, delivered>>
    BY Zenon, <1>1 DEF ForwardDrop, Returns, streamVars, progressVars, clientVars
  <2>3. \A m \in Namespaces : Forwarder(n) # Forwarder(m) => held'[m] = held[m]
    BY Zenon, <1>1 DEF ForwardDrop, ReplayInv, CountInv, TypeOK
  <2>. QED  BY ZenonT(60), <1>0, <2>1, <2>2, <2>3, NotReads, ReplayGoto
<1>2. CASE ForwardEnded(n) \/ ForwardStop(n) \/ ExpireStep(Forwarder(n))
  BY ZenonT(60), <1>0, <1>2, ReplayLeave DEF ForwardEnded, ForwardStop
<1>. QED  BY ZenonT(60), <1>1, <1>2, ReplayForward DEF ForwardStep

\* The joiner of n and the follower.
LEMMA ReplayJoinStep ==
    ASSUME ReplayInv, CountInv', NEW n \in Namespaces, JoinStep(n) \/ GoJoin(n)
    PROVE  ReplayInv'
<1>0. Joiner(n) \in Procs
  BY Zenon, ProcFacts
<1>1. CASE JoinAdds(n)
  <2>. DEFINE base == [pc EXCEPT ![Joiner(n)] = "done"]
  <2>1. Add(n, born[n], base, wg - 1)
    BY Zenon, <1>1 DEF JoinAdds
  <2>2. pc \in [Procs -> PCs]
    BY Zenon DEF ReplayInv, CountInv, TypeOK
  <2>3. base \in [Procs -> PCs]
    BY ZenonT(60), <2>2, NotReads
  <2>4. \A m \in Namespaces : base[Forwarder(m)] = pc[Forwarder(m)]
    BY ZenonT(60), <2>2, ProcFacts
  <2>. HIDE DEF base
  <2>. QED  BY ZenonT(60), <2>1, <2>3, <2>4, ReplayAdd
<1>2. CASE JoinForbidden(n) \/ GoJoin(n)
  <2>1. \E l \in {"try", "backoff"} : Goto(Joiner(n), l)
    BY Zenon, <1>2 DEF JoinForbidden, GoJoin
  <2>2. UNCHANGED <<snapshot, replay, watched, ended, merged, resume, delivered, held>>
    BY Zenon, <1>2 DEF JoinForbidden, GoJoin, streamVars, progressVars, clientVars
  <2>. QED  BY ZenonT(60), <1>0, <2>1, <2>2, NotReads, ReplayGoto
<1>3. CASE JoinFails(n) \/ JoinBackoffEnds(n) \/ JoinStop(n) \/ ExpireStep(Joiner(n))
  BY ZenonT(60), <1>0, <1>3, ReplayLeave DEF JoinFails, JoinBackoffEnds, JoinStop
<1>. QED  BY ZenonT(60), <1>1, <1>2, <1>3 DEF JoinStep

\* The steps of what follows the tenant's namespaces.
LEMMA ReplayFollowStep == ASSUME ReplayInv, CountInv', FollowStep PROVE ReplayInv'
<1>0. Follower \in Procs
  BY Zenon, ProcFacts
<1>1. CASE FollowEnded \/ FollowStop \/ ExpireStep(Follower)
  BY ZenonT(60), <1>0, <1>1, ReplayLeave DEF FollowEnded, FollowStop
<1>. QED  BY ZenonT(60), <1>1, ReplayJoinStep DEF FollowStep

\* newWatchMux opens the streams and starts the follower.
LEMMA ReplayOpenStep == ASSUME ReplayInv, CountInv', OpenStep PROVE ReplayInv'
<1>0. pc \in [Procs -> PCs]
  BY Zenon DEF ReplayInv, CountInv, TypeOK
<1>1. CASE ListNamespaces \/ OpenFails \/ OpenReturnsError
  <2>1. UNCHANGED <<pc, snapshot, replay, watched, ended, merged, resume, delivered, held>>
    BY ZenonT(60), <1>1 DEF ListNamespaces, OpenFails, OpenReturnsError, runVars, streamVars,
                progressVars, clientVars
  <2>. QED  BY ZenonT(60), <2>1, ReplayIdle
<1>2. CASE FollowNamespaces
  <2>1. /\ Goto(Follower, "select")
        /\ UNCHANGED <<snapshot, replay, watched, ended, merged, resume, delivered, held>>
    BY Zenon, <1>2 DEF FollowNamespaces, streamVars, progressVars, clientVars
  <2>2. \A n \in Namespaces : pc'[Forwarder(n)] = pc[Forwarder(n)]
    BY ZenonT(60), <1>0, <2>1, ProcFacts DEF Goto
  <2>. QED  BY ZenonT(60), <2>1, <2>2, ReplayQuiet
<1>3. ASSUME NEW n \in Namespaces, OpenNamespace(n) PROVE ReplayInv'
  <2>1. Add(n, StartRev, pc, wg)
    BY Zenon, <1>3 DEF OpenNamespace
  <2>. QED  BY ZenonT(60), <1>0, <2>1, ReplayAdd
<1>. QED  BY ZenonT(60), <1>1, <1>2, <1>3 DEF OpenStep

\* The upstream cluster, the client, Stop and the closer.
LEMMA ReplayElse ==
    ASSUME ReplayInv, CountInv', Environment \/ StopStep
    PROVE  ReplayInv'
<1>1. CASE StopStep \/ WriteElsewhere \/ NamespaceStreamEnds \/ ClientLeaves
  <2>1. UNCHANGED <<pc, snapshot, replay, watched, ended, merged, resume, delivered, held>>
    BY ZenonT(60), <1>1
       DEF StopStep, CloseStop, StopWatched, ClientGone, ClientMoves, CloseResult,
           WriteElsewhere, NamespaceStreamEnds, ClientLeaves, muxVars, runVars, streamVars,
           progressVars, clientVars
  <2>. QED  BY ZenonT(60), <2>1, ReplayIdle
<1>2. ASSUME NEW n \in Namespaces,
             Write(n) \/ CreateNamespace(n) \/ DeleteNamespace(n) \/ StreamEnds(n)
      PROVE  ReplayInv'
  <2>1. UNCHANGED <<pc, snapshot, replay, watched, ended, merged, resume, delivered, held>>
    BY ZenonT(60), <1>2
       DEF Write, CreateNamespace, DeleteNamespace, StreamEnds, muxVars, runVars, streamVars,
           progressVars, clientVars
  <2>. QED  BY ZenonT(60), <2>1, ReplayIdle
<1>. QED  BY ZenonT(60), <1>1, <1>2, ReplayForward DEF Environment

\* Every step of the mux keeps what an announcement rests on.
LEMMA ReplayNext == ReplayInv /\ [Next]_vars => ReplayInv'
<1>. SUFFICES ASSUME ReplayInv, [Next]_vars PROVE ReplayInv'
  BY Zenon
<1>1. CountInv'
  BY Zenon, CountNext DEF ReplayInv
<1>2. CASE UNCHANGED vars \/ Terminated
  BY ZenonT(60), <1>1, <1>2, ReplayIdle
     DEF Terminated, vars, muxVars, runVars, streamVars, progressVars, clientVars
<1>. QED
  BY ZenonT(60), <1>1, <1>2, ReplayElse, ReplayOpenStep, ReplayFollowStep,
     ReplayForwardStep, ReplayJoinStep DEF Next

\* A client that is told the replay is over has got every object of the streams
\* the bookmark was made from, whatever joins while they replay: a stream ends
\* its replay after its last object, which its forwarder has then sent, and
\* onBookmark announces the end when all of them have.
THEOREM ReplayEndIsComplete == Spec => []ReplayEndComplete
<1>1. ReplayInv => ReplayEndComplete
  BY ZenonT(60) DEF ReplayInv, Announces, ReplayEndComplete
<1>. QED  BY <1>1, ReplayInit, ReplayNext, PTL DEF Spec
=============================================================================
