------------------------------ MODULE WatchMux ------------------------------
(***************************************************************************)
(* The merged watch of pkg/proxy/watchmux.go: a tenant has no cluster to   *)
(* watch, so a watch without a namespace holds one upstream watch per      *)
(* namespace of the tenant and merges them into one stream.                *)
(*                                                                         *)
(* Goroutines are the elements of Procs: one forwarder and one joiner per  *)
(* namespace, and the follower of the namespace list.  Sections the code   *)
(* runs under m.mu are single steps; the unbuffered channel m.result is a  *)
(* rendezvous, a step of the sender that needs a reading client.           *)
(*                                                                         *)
(* An upstream revision is an index of log; an event is the revision of    *)
(* the object written (0 is a watch.Error event).                          *)
(***************************************************************************)
EXTENDS Integers, Sequences, FiniteSets

CONSTANTS
    Namespaces,     \* every namespace the tenant may have
    Existing,       \* those it has when the client gets its revision
    Elsewhere,      \* stands in log for a write outside every Namespaces
    History,        \* the upstream log when the client asks for its watch
    StartRev,       \* options.ResourceVersion; 0 is "" and "0"
    Bookmarks,      \* options.AllowWatchBookmarks
    InitialEvents,  \* options.SendInitialEvents: the client sent a WatchList
    Attempts,       \* how often join tries (60 in the code)
    MaxRev          \* bound: the upstream revisions of a behaviour

ASSUME NamespacesAssumption ==
    /\ IsFiniteSet(Namespaces)
    /\ Existing \subseteq Namespaces
    /\ Elsewhere \notin Namespaces

ASSUME OptionsAssumption ==
    /\ History \in Seq(Existing \cup {Elsewhere}) /\ History # <<>>
    /\ StartRev \in 0..Len(History)
    /\ Bookmarks \in BOOLEAN
    /\ InitialEvents \in BOOLEAN
    /\ Attempts \in Nat \ {0}
    /\ MaxRev \in Nat

VARIABLES
    log,       \* upstream: log[r] is the namespace revision r wrote to
    present,   \* upstream: the tenant's namespaces
    born,      \* upstream: revision a namespace was created at, 0 before StartRev
    conn,      \* upstream: the watch on a namespace
    start,     \* upstream: the revision from which that watch streams
    pos,       \* upstream: how far that watch has streamed
    snapshot,  \* upstream: the objects that watch replays first
    replay,    \* upstream: those it has not sent yet
    endDue,    \* upstream: it still owes its end-of-replay bookmark
    nsConn,    \* upstream: the watch on the namespace list
    added,     \* upstream: Added events that watch has not sent yet
    ctor,      \* Watch and newWatchMux
    todo,      \* newWatchMux: namespaces still to open
    pc,        \* where each goroutine is
    held,      \* forward: the event read from the stream
    merged,    \* onBookmark: the bookmark about to be sent
    tries,     \* join: attempts made
    stopped,   \* m.stop is closed
    stopOnce,  \* m.stopOnce, and Stop's sweep over m.watched
    expiring,  \* m.expiring
    wg,        \* m.forwarder, the WaitGroup's counter
    closed,    \* m.result is closed
    watched,   \* the keys of m.watched and m.streams
    revision,  \* m.streams[ns].revision
    ended,     \* the streams with endOfReplay
    emitted,   \* m.emitted
    replayed,  \* m.replayed
    client,    \* proxyWatch and the client behind it
    delivered, \* the events the client has got
    resume,    \* the last bookmark the client has got
    synced,    \* the client has been told that the replay is over
    told       \* the client has got an error event

worldVars == <<log, present, born>>
runVars == <<pc, wg, conn, nsConn>>
streamVars == <<start, pos, snapshot, replay, endDue>>
openVars == <<ctor, todo, added, tries>>
stopVars == <<stopped, stopOnce, expiring>>
progressVars == <<watched, revision, ended, emitted, replayed>>
clientVars == <<client, delivered, resume, synced, told>>

\* What only goroutines change, and what a forwarder at work leaves alone.
muxVars == <<runVars, streamVars, openVars, stopVars, progressVars, clientVars,
             held, merged, closed>>
idleVars == <<worldVars, openVars, stopVars, closed>>

vars == <<worldVars, muxVars>>

-----------------------------------------------------------------------------
Forwarder(n) == <<"forward", n>>
Joiner(n) == <<"join", n>>
Follower == <<"follow", Elsewhere>>
Procs == ({"forward", "join"} \X Namespaces) \cup {Follower}

PCs == {"off", "select", "send", "record", "bookmark", "try", "backoff",
        "expire", "send410", "stopping", "done"}

\* Goroutines that have been started and have not called forwarder.Done().
Live == {p \in Procs : pc[p] \notin {"off", "done"}}

\* A merged bookmark: the watermark, the streams it is the minimum of, and
\* whether it announces the end of the replay.
MergedBookmark == [rev : Nat, over : SUBSET Namespaces, end : BOOLEAN]
NoBookmark == [rev |-> 0, over |-> {}, end |-> FALSE]

TypeWorld ==
    /\ log \in Seq(Namespaces \cup {Elsewhere})
    /\ present \subseteq Namespaces
    /\ born \in [Namespaces -> Nat]

TypeOK ==
    /\ TypeWorld
    /\ conn \in [Namespaces -> {"none", "open", "ended", "stopped"}]
    /\ start \in [Namespaces -> Nat]
    /\ pos \in [Namespaces -> Nat]
    /\ snapshot \in [Namespaces -> SUBSET Nat]
    /\ replay \in [Namespaces -> SUBSET Nat]
    /\ endDue \in [Namespaces -> BOOLEAN]
    /\ nsConn \in {"none", "open", "ended", "stopped"}
    /\ added \subseteq Namespaces
    /\ ctor \in {"list", "adding", "failing", "failed", "open"}
    /\ todo \subseteq Namespaces
    /\ pc \in [Procs -> PCs]
    /\ held \in [Namespaces -> Nat]
    /\ merged \in [Namespaces -> MergedBookmark]
    /\ tries \in [Namespaces -> Nat]
    /\ stopped \in BOOLEAN
    /\ stopOnce \in {"idle", "sweeping", "done"}
    /\ expiring \in {"idle", "running", "done"}
    /\ wg \in Nat
    /\ closed \in BOOLEAN
    /\ watched \subseteq Namespaces
    /\ revision \in [Namespaces -> Nat]
    /\ ended \subseteq Namespaces
    /\ emitted \in Nat
    /\ replayed \in BOOLEAN
    /\ client \in {"reading", "leaving", "gone"}
    /\ delivered \subseteq Nat
    /\ resume \in MergedBookmark
    /\ synced \in BOOLEAN
    /\ told \in BOOLEAN

Init ==
    /\ log = History
    /\ present = Existing
    /\ born = [n \in Namespaces |-> 0]
    /\ conn = [n \in Namespaces |-> "none"]
    /\ start = [n \in Namespaces |-> 0]
    /\ pos = [n \in Namespaces |-> 0]
    /\ snapshot = [n \in Namespaces |-> {}]
    /\ replay = [n \in Namespaces |-> {}]
    /\ endDue = [n \in Namespaces |-> FALSE]
    /\ nsConn = "none" /\ added = {}
    /\ ctor = "list" /\ todo = {}
    /\ pc = [p \in Procs |-> "off"]
    /\ held = [n \in Namespaces |-> 0]
    /\ merged = [n \in Namespaces |-> NoBookmark]
    /\ tries = [n \in Namespaces |-> 0]
    /\ stopped = FALSE /\ stopOnce = "idle" /\ expiring = "idle"
    /\ wg = 0 /\ closed = FALSE
    /\ watched = {}
    /\ revision = [n \in Namespaces |-> 0]
    /\ ended = {} /\ emitted = 0 /\ replayed = FALSE
    /\ client = "reading" /\ delivered = {} /\ resume = NoBookmark
    /\ synced = FALSE /\ told = FALSE

-----------------------------------------------------------------------------
(* The upstream cluster, external to the gateway.                          *)

\* Revisions of n's objects in log after the revision r.
EventsAfter(n, r) == {e \in 1..Len(log) : e > r /\ log[e] = n}

\* Bound: the cluster has MaxRev revisions, and is of interest while there is
\* a client to tell.
Going == Len(log) < MaxRev /\ client = "reading" /\ ctor \notin {"failing", "failed"}

\* An object of one of the tenant's namespaces is written.
Write(n) ==
    /\ Going
    /\ n \in present
    /\ log' = Append(log, n)
    /\ UNCHANGED <<present, born, muxVars>>

\* Something outside the tenant is written: the cluster's revision moves on.
WriteElsewhere ==
    /\ Going
    /\ log' = Append(log, Elsewhere)
    /\ UNCHANGED <<present, born, muxVars>>

\* The tenant creates a namespace (each name at most once in a behaviour).
CreateNamespace(n) ==
    /\ Going
    /\ n \notin present /\ n \notin Existing /\ born[n] = 0
    /\ log' = Append(log, Elsewhere)
    /\ present' = present \cup {n}
    /\ born' = [born EXCEPT ![n] = Len(log) + 1]
    /\ added' = added \cup {n}
    /\ UNCHANGED <<runVars, streamVars, ctor, todo, tries, stopVars, progressVars,
                   clientVars, held, merged, closed>>

\* A namespace is gone; the deletions of its objects were writes before.
DeleteNamespace(n) ==
    /\ Going
    /\ n \in present
    /\ log' = Append(log, Elsewhere)
    /\ present' = present \ {n}
    /\ UNCHANGED <<born, muxVars>>

\* The apiserver ends a watch: its own timeout, a restart, a transient close.
StreamEnds(n) ==
    /\ conn[n] = "open"
    /\ conn' = [conn EXCEPT ![n] = "ended"]
    /\ UNCHANGED <<idleVars, pc, wg, nsConn, streamVars, progressVars, clientVars,
                   held, merged>>

NamespaceStreamEnds ==
    /\ nsConn = "open"
    /\ nsConn' = "ended"
    /\ UNCHANGED <<idleVars, pc, wg, conn, streamVars, progressVars, clientVars,
                   held, merged>>

-----------------------------------------------------------------------------
(* Goroutine bookkeeping.                                                  *)

Goto(p, label) == pc' = [pc EXCEPT ![p] = label]

\* Goroutine p does nothing but get from one place to another.
Moves(p, from, label) ==
    /\ pc[p] = from
    /\ Goto(p, label)
    /\ UNCHANGED <<idleVars, wg, conn, nsConn, streamVars, progressVars, clientVars,
                   held, merged>>

\* Variant of Returns: the watch a goroutine reads is left to Stop's sweep.
ReturnsWithoutStop(p) ==
    /\ Goto(p, "done")
    /\ wg' = wg - 1
    /\ UNCHANGED <<conn, nsConn, worldVars, streamVars, openVars, stopped, stopOnce,
                   progressVars, clientVars, merged, closed>>

\* Variant of Returns: forwarder.Done() is not deferred.
ReturnsWithoutDone(p) ==
    /\ Goto(p, "done")
    /\ conn' = [n \in Namespaces |-> IF p = Forwarder(n) THEN "stopped" ELSE conn[n]]
    /\ nsConn' = IF p = Follower THEN "stopped" ELSE nsConn
    /\ UNCHANGED <<wg, worldVars, streamVars, openVars, stopped, stopOnce,
                   progressVars, clientVars, merged, closed>>

\* The deferred w.Stop() and forwarder.Done(): goroutine p returns.
Returns(p) ==
    /\ Goto(p, "done")
    /\ wg' = wg - 1
    /\ conn' = [n \in Namespaces |-> IF p = Forwarder(n) THEN "stopped" ELSE conn[n]]
    /\ nsConn' = IF p = Follower THEN "stopped" ELSE nsConn
    /\ UNCHANGED <<worldVars, streamVars, openVars, stopped, stopOnce, progressVars,
                   clientVars, merged, closed>>

\* <-m.stop in a select: p returns.
ReturnsOnStop(p, from) ==
    /\ pc[p] = from
    /\ stopped
    /\ Returns(p)
    /\ UNCHANGED <<expiring, held>>

\* Some reader is at the other end of m.result.
Reading == ctor = "open" /\ client = "reading"

\* add, once the upstream Watch has answered: open the stream of n at rv and
\* start its forwarder.  base is the pc function the step starts from, count
\* what the caller's own step does to the WaitGroup.
Add(n, rv, base, count) ==
    /\ UNCHANGED <<worldVars, nsConn, stopVars, ended, emitted, replayed, clientVars,
                   held, merged, closed>>
    /\ IF n \in watched
       THEN /\ pc' = base
            /\ wg' = count
            /\ UNCHANGED <<conn, streamVars, watched, revision>>
       ELSE LET replays == InitialEvents \/ rv = 0
                from == IF replays THEN Len(log) ELSE rv
                objects == IF replays /\ n \in present THEN EventsAfter(n, 0) ELSE {}
            IN /\ watched' = watched \cup {n}
               /\ revision' = [revision EXCEPT ![n] = rv]
               /\ conn' = [conn EXCEPT ![n] = "open"]
               /\ start' = [start EXCEPT ![n] = from]
               /\ pos' = [pos EXCEPT ![n] = from]
               /\ snapshot' = [snapshot EXCEPT ![n] = objects]
               /\ replay' = [replay EXCEPT ![n] = objects]
               /\ endDue' = [endDue EXCEPT ![n] = InitialEvents /\ Bookmarks]
               /\ pc' = [base EXCEPT ![Forwarder(n)] = "select"]
               /\ wg' = count + 1

-----------------------------------------------------------------------------
(* tenantProxy.Watch and newWatchMux.                                      *)

\* Watch enumerates the tenant's namespaces as they are now.
ListNamespaces ==
    /\ ctor = "list"
    /\ ctor' = "adding"
    /\ todo' = present
    /\ UNCHANGED <<worldVars, runVars, streamVars, added, tries, stopVars,
                   progressVars, clientVars, held, merged, closed>>

OpenNamespace(n) ==
    /\ ctor = "adding"
    /\ n \in todo
    /\ todo' = todo \ {n}
    /\ Add(n, StartRev, pc, wg)
    /\ UNCHANGED <<ctor, added, tries>>

\* An add or the namespace watch fails: Stop, and report the error.
OpenFails ==
    /\ ctor = "adding"
    /\ ctor' = "failing"
    /\ UNCHANGED <<worldVars, runVars, streamVars, todo, added, tries, stopVars,
                   progressVars, clientVars, held, merged, closed>>

\* followNamespaces starts the follower and newWatchMux the closer.  The
\* namespace watch replays every namespace when it has no revision to start
\* from, and otherwise the ones created since.
FollowNamespaces ==
    /\ ctor = "adding"
    /\ todo = {}
    /\ ctor' = "open"
    /\ nsConn' = "open"
    /\ added' = IF StartRev = 0 THEN present ELSE {n \in Namespaces : born[n] > 0}
    /\ Goto(Follower, "select")
    /\ wg' = wg + 1
    /\ UNCHANGED <<worldVars, conn, streamVars, todo, tries, stopVars, progressVars,
                   clientVars, held, merged, closed>>

\* Variant of CloseResult: the channel is closed as soon as the mux is stopped.
CloseResultOnStop ==
    /\ ctor = "open"
    /\ stopped
    /\ ~closed
    /\ closed' = TRUE
    /\ UNCHANGED <<worldVars, runVars, streamVars, openVars, stopVars, progressVars,
                   clientVars, held, merged>>

\* The closer: m.forwarder.Wait(), then close(m.result).
CloseResult ==
    /\ ctor = "open"
    /\ wg = 0
    /\ ~closed
    /\ closed' = TRUE
    /\ UNCHANGED <<worldVars, runVars, streamVars, openVars, stopVars, progressVars,
                   clientVars, held, merged>>

-----------------------------------------------------------------------------
(* forward.                                                                *)

\* The event the stream of n sends next: its replayed objects in the order of
\* their keys, which is any order of their revisions, then the writes.
NextEvents(n) ==
    IF replay[n] # {} THEN replay[n]
    ELSE {e \in EventsAfter(n, pos[n]) : \A d \in EventsAfter(n, pos[n]) : e <= d}

ForwardReceive(n) ==
    /\ pc[Forwarder(n)] = "select"
    /\ conn[n] = "open"
    /\ replay[n] = {} => ~endDue[n]
    /\ \E e \in NextEvents(n) :
          /\ held' = [held EXCEPT ![n] = e]
          /\ replay' = [replay EXCEPT ![n] = @ \ {e}]
          /\ pos' = [pos EXCEPT ![n] = IF replay[n] = {} THEN e ELSE @]
    /\ Goto(Forwarder(n), "send")
    /\ UNCHANGED <<idleVars, wg, conn, nsConn, start, snapshot, endDue, progressVars,
                   clientVars, merged>>

\* The stream reports an error and ends: an event like any other here, and
\* one without a revision.
ForwardReceiveError(n) ==
    /\ pc[Forwarder(n)] = "select"
    /\ conn[n] = "open"
    /\ held' = [held EXCEPT ![n] = 0]
    /\ conn' = [conn EXCEPT ![n] = "ended"]
    /\ Goto(Forwarder(n), "send")
    /\ UNCHANGED <<idleVars, wg, nsConn, streamVars, progressVars, clientVars, merged>>

\* m.result <- event.  proxyWatch ends on an error event.
ForwardSend(n) ==
    /\ pc[Forwarder(n)] = "send"
    /\ Reading
    /\ Goto(Forwarder(n), "record")
    /\ IF held[n] = 0
       THEN told' = TRUE /\ client' = "leaving" /\ UNCHANGED delivered
       ELSE delivered' = delivered \cup {held[n]} /\ UNCHANGED <<client, told>>
    /\ UNCHANGED <<idleVars, wg, conn, nsConn, streamVars, progressVars, resume,
                   synced, held, merged>>

\* <-m.stop while an event is held: the forwarder returns without sending it.
ForwardDrop(n) ==
    /\ pc[Forwarder(n)] = "send"
    /\ stopped
    /\ held' = [held EXCEPT ![n] = 0]
    /\ Returns(Forwarder(n))
    /\ UNCHANGED expiring

\* recordRevision.
RecordRevision(n) ==
    /\ pc[Forwarder(n)] = "record"
    /\ revision' = [revision EXCEPT ![n] = IF held[n] > @ THEN held[n] ELSE @]
    /\ held' = [held EXCEPT ![n] = 0]
    /\ Goto(Forwarder(n), "select")
    /\ UNCHANGED <<idleVars, wg, conn, nsConn, streamVars, watched, ended, emitted,
                   replayed, clientVars, merged>>

\* Variant of Watermark: the greatest of the streams' revisions.
WatermarkMax(rev) == {rev[m] : m \in {m \in watched : \A k \in watched : rev[m] >= rev[k]}}

\* The minimum of the streams' revisions, as a set of one element.
Watermark(rev) == {rev[m] : m \in {m \in watched : \A k \in watched : rev[m] <= rev[k]}}

\* Variant of AllReplayed: one stream's end is taken for everybody's.
SomeReplayed(ends) == watched \cap ends # {}

AllReplayed(ends) == watched \subseteq ends

\* Variant of Worthwhile: a bookmark that does not advance is never sent.
AdvancedOnly(w, announce) == Bookmarks /\ w > emitted

\* onBookmark's two early returns.
Worthwhile(w, announce) == Bookmarks /\ w # 0 /\ (w > emitted \/ announce)

\* onBookmark up to its unlock, for a bookmark at rev that says end.
FoldBookmark(n, rev, end) ==
    /\ revision' = [revision EXCEPT ![n] = IF rev > @ THEN rev ELSE @]
    /\ ended' = IF end THEN ended \cup {n} ELSE ended
    /\ \E w \in Watermark(revision') :
          LET announce == InitialEvents /\ AllReplayed(ended') /\ ~replayed
          IN /\ replayed' = (replayed \/ announce)
             /\ emitted' = IF w > emitted THEN w ELSE emitted
             /\ IF Worthwhile(w, announce)
                THEN /\ merged' = [merged EXCEPT ![n] =
                                    [rev |-> w, over |-> watched, end |-> announce]]
                     /\ Goto(Forwarder(n), "bookmark")
                ELSE UNCHANGED <<merged, pc>>
    /\ UNCHANGED <<idleVars, wg, conn, nsConn, start, snapshot, replay, watched,
                   clientVars, held>>

\* The stream's periodic bookmark, at a revision it has nothing more below.
ForwardBookmark(n) ==
    /\ pc[Forwarder(n)] = "select"
    /\ conn[n] = "open"
    /\ Bookmarks
    /\ replay[n] = {} /\ ~endDue[n]
    /\ \E b \in 1..Len(log) :
          /\ b > pos[n]
          /\ \A e \in EventsAfter(n, pos[n]) : e > b
          /\ pos' = [pos EXCEPT ![n] = b]
          /\ FoldBookmark(n, b, FALSE)
    /\ UNCHANGED endDue

\* The bookmark that ends the stream's replay, at the revision of its snapshot.
ForwardReplayEnd(n) ==
    /\ pc[Forwarder(n)] = "select"
    /\ conn[n] = "open"
    /\ replay[n] = {} /\ endDue[n]
    /\ endDue' = [endDue EXCEPT ![n] = FALSE]
    /\ FoldBookmark(n, start[n], TRUE)
    /\ UNCHANGED pos

\* onBookmark's send of the merged bookmark, or <-m.stop.
SendBookmark(n) ==
    /\ pc[Forwarder(n)] = "bookmark"
    /\ \/ /\ Reading
          /\ resume' = merged[n]
          /\ synced' = (synced \/ merged[n].end)
       \/ /\ stopped
          /\ UNCHANGED <<resume, synced>>
    /\ merged' = [merged EXCEPT ![n] = NoBookmark]
    /\ Goto(Forwarder(n), "select")
    /\ UNCHANGED <<idleVars, wg, conn, nsConn, streamVars, progressVars, client,
                   delivered, told, held>>

\* Variant of ForwardEnded: the forwarder retires in silence.
ForwardEndsSilently(n) ==
    /\ pc[Forwarder(n)] = "select"
    /\ conn[n] \in {"ended", "stopped"}
    /\ Returns(Forwarder(n))
    /\ UNCHANGED <<expiring, held>>

\* The stream's channel is closed: expire.
ForwardEnded(n) == conn[n] \in {"ended", "stopped"} /\ Moves(Forwarder(n), "select", "expire")

ForwardStop(n) == ReturnsOnStop(Forwarder(n), "select")

-----------------------------------------------------------------------------
(* The follower, goJoin and join.                                          *)

\* Variant of GoJoin: the joiner is not counted in the WaitGroup.
GoJoinUncounted(n) ==
    /\ pc[Follower] = "select"
    /\ nsConn = "open"
    /\ n \in added
    /\ added' = added \ {n}
    /\ Goto(Joiner(n), "try")
    /\ UNCHANGED <<worldVars, wg, conn, nsConn, streamVars, ctor, todo, tries,
                   stopVars, progressVars, clientVars, held, merged, closed>>

\* An Added event: a joiner is started and counted on this goroutine.
GoJoin(n) ==
    /\ pc[Follower] = "select"
    /\ nsConn = "open"
    /\ n \in added
    /\ added' = added \ {n}
    /\ Goto(Joiner(n), "try")
    /\ wg' = wg + 1
    /\ UNCHANGED <<worldVars, conn, nsConn, streamVars, ctor, todo, tries, stopVars,
                   progressVars, clientVars, held, merged, closed>>

\* The namespace watch closed or reported an error: expire.
FollowEnded == nsConn = "ended" /\ Moves(Follower, "select", "expire")

FollowStop == ReturnsOnStop(Follower, "select")

\* add succeeds, from the namespace's own revision, and the joiner returns.
JoinAdds(n) ==
    /\ pc[Joiner(n)] = "try"
    /\ Add(n, born[n], [pc EXCEPT ![Joiner(n)] = "done"], wg - 1)
    /\ UNCHANGED openVars

\* Variant of JoinForbidden: the attempts are counted down from nothing.
JoinForbiddenCountsDown(n) ==
    /\ pc[Joiner(n)] = "try"
    /\ n \notin watched
    /\ tries' = [tries EXCEPT ![n] = @ - 1]
    /\ Goto(Joiner(n), "backoff")
    /\ UNCHANGED <<worldVars, wg, conn, nsConn, streamVars, ctor, todo, added,
                   stopVars, progressVars, clientVars, held, merged, closed>>

\* add is Forbidden: back off.
JoinForbidden(n) ==
    /\ pc[Joiner(n)] = "try"
    /\ n \notin watched
    /\ tries' = [tries EXCEPT ![n] = @ + 1]
    /\ Goto(Joiner(n), "backoff")
    /\ UNCHANGED <<worldVars, wg, conn, nsConn, streamVars, ctor, todo, added,
                   stopVars, progressVars, clientVars, held, merged, closed>>

\* Variant of JoinBackoffEnds: the last attempt is given up with a log line.
JoinGivesUpQuietly(n) ==
    \/ tries[n] < Attempts /\ Moves(Joiner(n), "backoff", "try")
    \/ /\ pc[Joiner(n)] = "backoff"
       /\ tries[n] >= Attempts
       /\ Returns(Joiner(n))
       /\ UNCHANGED <<expiring, held>>

\* Then try again, or give up after the last attempt.
JoinBackoffEnds(n) ==
    Moves(Joiner(n), "backoff", IF tries[n] < Attempts THEN "try" ELSE "expire")

JoinStop(n) == ReturnsOnStop(Joiner(n), "backoff")

\* add fails for another reason: give up at once.
JoinFails(n) == n \notin watched /\ Moves(Joiner(n), "try", "expire")

-----------------------------------------------------------------------------
(* expire and Stop.                                                        *)

\* The first goroutine in expiring.Do: nothing to say once m.stop is closed.
ExpireFirst(p) ==
    /\ pc[p] = "expire"
    /\ expiring = "idle"
    /\ IF stopped
       THEN /\ expiring' = "done"
            /\ Returns(p)
       ELSE /\ expiring' = "running"
            /\ Goto(p, "send410")
            /\ UNCHANGED <<worldVars, wg, conn, nsConn, streamVars, openVars, stopped,
                           stopOnce, progressVars, clientVars, merged, closed>>
    /\ UNCHANGED held

\* Any other waits for the first to be through with it, and returns.
ExpireAgain(p) ==
    /\ pc[p] = "expire"
    /\ expiring = "done"
    /\ Returns(p)
    /\ UNCHANGED <<expiring, held>>

\* m.result <- the 410, or <-m.stop.
Send410(p) ==
    /\ pc[p] = "send410"
    /\ \/ Reading /\ told' = TRUE /\ client' = "leaving"
       \/ stopped /\ UNCHANGED <<told, client>>
    /\ Goto(p, "stopping")
    /\ UNCHANGED <<idleVars, wg, conn, nsConn, streamVars, progressVars, delivered,
                   resume, synced, held, merged>>

\* The first caller of Stop closes m.stop.
CloseStop ==
    /\ stopOnce = "idle"
    /\ ctor = "failing" \/ client = "leaving" \/ \E p \in Procs : pc[p] = "stopping"
    /\ stopOnce' = "sweeping"
    /\ stopped' = TRUE
    /\ UNCHANGED <<worldVars, runVars, streamVars, openVars, expiring, progressVars,
                   clientVars, held, merged, closed>>

\* Then, under the lock, it stops the watches there are.
StopWatched ==
    /\ stopOnce = "sweeping"
    /\ stopOnce' = "done"
    /\ conn' = [n \in Namespaces |-> IF n \in watched THEN "stopped" ELSE conn[n]]
    /\ UNCHANGED <<worldVars, pc, wg, nsConn, streamVars, openVars, stopped, expiring,
                   progressVars, clientVars, held, merged, closed>>

\* Stop returns to the goroutine that called it from expire.
ExpireReturns(p) ==
    /\ pc[p] = "stopping"
    /\ stopOnce = "done"
    /\ expiring' = "done"
    /\ Returns(p)
    /\ UNCHANGED held

\* ... to newWatchMux, which reports the error.
OpenReturnsError ==
    /\ ctor = "failing"
    /\ stopOnce = "done"
    /\ ctor' = "failed"
    /\ UNCHANGED <<worldVars, runVars, streamVars, todo, added, tries, stopVars,
                   progressVars, clientVars, held, merged, closed>>

\* The client goes its way: the mux changes nothing in this step.
ClientMoves(from, to) ==
    /\ client = from
    /\ client' = to
    /\ UNCHANGED <<idleVars, runVars, streamVars, progressVars, delivered, resume,
                   synced, told, held, merged>>

\* ... to proxyWatch, which stopped the mux on its way out.
ClientGone == stopOnce = "done" /\ ClientMoves("leaving", "gone")

\* proxyWatch ends: its client went away or timed out, or an object could not
\* be converted.
ClientLeaves == ctor = "open" /\ ClientMoves("reading", "leaving")

\* The watch is over and every goroutine has returned.
Terminated ==
    /\ client = "gone" \/ ctor = "failed"
    /\ Live = {}
    /\ UNCHANGED vars

-----------------------------------------------------------------------------
ExpireStep(p) == ExpireFirst(p) \/ ExpireAgain(p) \/ Send410(p) \/ ExpireReturns(p)

ForwardStep(n) ==
    \/ ForwardReceive(n) \/ ForwardReplayEnd(n)
    \/ ForwardSend(n) \/ ForwardDrop(n) \/ RecordRevision(n)
    \/ SendBookmark(n)
    \/ ForwardEnded(n) \/ ForwardStop(n)
    \/ ExpireStep(Forwarder(n))

JoinStep(n) ==
    \/ JoinAdds(n) \/ JoinForbidden(n) \/ JoinFails(n)
    \/ JoinBackoffEnds(n) \/ JoinStop(n)
    \/ ExpireStep(Joiner(n))

FollowStep ==
    \/ FollowEnded \/ FollowStop \/ ExpireStep(Follower)
    \/ \E n \in Namespaces : GoJoin(n)

OpenStep ==
    \/ ListNamespaces \/ OpenFails \/ FollowNamespaces \/ OpenReturnsError
    \/ \E n \in Namespaces : OpenNamespace(n)

StopStep == CloseStop \/ StopWatched \/ ClientGone \/ CloseResult

\* What the upstream and the client do of their own accord.
Environment ==
    \/ WriteElsewhere \/ NamespaceStreamEnds \/ ClientLeaves
    \/ \E n \in Namespaces :
          \/ Write(n) \/ CreateNamespace(n) \/ DeleteNamespace(n)
          \/ StreamEnds(n) \/ ForwardReceiveError(n) \/ ForwardBookmark(n)

Next ==
    \/ Environment
    \/ OpenStep
    \/ FollowStep
    \/ \E n \in Namespaces : ForwardStep(n) \/ JoinStep(n)
    \/ StopStep
    \/ Terminated

Spec == Init /\ [][Next]_vars

\* What the scheduler, the streams and a reading client do.
Progress ==
    \/ OpenStep \/ FollowStep \/ StopStep
    \/ \E n \in Namespaces : ForwardStep(n) \/ JoinStep(n)

\* The scheduler does not leave every goroutine waiting while one can run, an
\* open stream delivers what it has, and a client that is reading takes the
\* next event.  Nothing forces a write, a failure, a bookmark or a departure.
FairSpec == Spec /\ WF_vars(Progress)

-----------------------------------------------------------------------------
(* Properties.                                                             *)

\* forwarder counts exactly the goroutines that have not returned, joiners
\* included, so Wait cannot return while one may still send (goJoin, Add in
\* add and followNamespaces, the deferred Done).
WaitGroupCounts == wg = Cardinality(Live)

\* No goroutine is alive once the closer has closed m.result: none can send on
\* a closed channel, which would panic (expire, goJoin).
NoSendOnClosedResult == closed => Live = {}

\* When m.result is closed no upstream watch is left open: what Stop's sweep
\* misses, a stream joined after it, its own forwarder stops.
NoLeakedWatch == closed => nsConn = "stopped" /\ \A n \in Namespaces : conn[n] # "open"

\* The revisions of n that a client resuming from rev will not be sent again.
Owed(n, rev) == {e \in snapshot[n] \cup EventsAfter(n, start[n]) : e <= rev}

\* A bookmark the client has got passes no event of a stream it was computed
\* over that the client has not got (forward records after the send, onBookmark
\* takes the minimum).
BookmarkSafe == \A n \in resume.over : Owed(n, resume.rev) \subseteq delivered

\* A bookmark that announces the end of the replay comes after every object the
\* streams replay has been delivered (onBookmark's allReplayed).
ReplayEndComplete ==
    resume.end => \A n \in resume.over : snapshot[n] \subseteq delivered

\* Of a namespace the tenant has, no write is behind a bookmark the client has
\* got and unknown to the client: the bookmark is a revision "a client can
\* safely resume this merged stream from" (onBookmark's comment).
BookmarkCoversNewNamespaces ==
    \A n \in Namespaces \ Existing :
        \A e \in EventsAfter(n, StartRev) : e <= resume.rev => e \in delivered

\* The same of the namespaces the client listed: "list, then watch from the
\* revision the list returned -- holds" (the comment on watchMux).
BookmarkCoversListedNamespaces ==
    \A n \in Existing :
        \A e \in EventsAfter(n, StartRev) : e <= resume.rev => e \in delivered

\* Once the mux is stopped every goroutine returns, m.result is closed if it
\* was handed out, and no upstream watch stays open (Stop, and the <-m.stop arm
\* of every blocking select).
Drains ==
    []<>(stopped => /\ Live = {}
                    /\ ctor = "open" => closed
                    /\ \A n \in Namespaces : conn[n] # "open")

\* A stream that ends is never lost in silence, nor is one its goroutine has
\* stopped: the client is told, or has gone, or was refused the watch (expire).
CoverageLossTold ==
    []<>((\E c \in {nsConn} \cup {conn[n] : n \in Namespaces} : c \in {"ended", "stopped"})
            => (told \/ client # "reading" \/ ctor = "failed"))

\* Of a watch that resumes (a replay shows what is left, not what was): while a
\* write to a namespace that is covered, or was created after the client's
\* revision, has not reached a client that stays and was not told to list again,
\* some goroutine has a step left to take: nothing forgets the write.
WritesReachClient ==
    \/ \A e \in (StartRev + 1)..MaxRev :
          (\E n \in Namespaces : e \in EventsAfter(n, StartRev) /\ (n \in watched \/ born[n] > 0))
              => (e \in delivered \/ client # "reading" \/ ctor = "failed")
    \/ ENABLED Progress

\* A WatchList client that stays is told that the replay is over, even when
\* namespaces join while it runs (onBookmark's announceReplayEnd).
ReplayEndAnnounced ==
    []<>((InitialEvents /\ Bookmarks /\ ctor = "open" /\ watched # {})
            => (synced \/ client # "reading"))
=============================================================================
