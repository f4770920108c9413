---------------------------- MODULE SnapshotList ----------------------------
(***************************************************************************)
(* What a paginated list promises: the pages, put one after another, are   *)
(* the state of the cluster at one revision, in key order, each object     *)
(* once, whatever is written meanwhile.  The revision is the one the client*)
(* asked for exactly, or else the one current when the first page was asked*)
(* for.  Or the list fails, with 410 only when that revision is compacted. *)
(***************************************************************************)
EXTENDS Integers, Sequences

CONSTANTS
    Listed(_),      \* the keys a list of a state of the cluster returns
    Less(_, _)      \* the order of the keys

VARIABLES
    store,          \* store[r]: the state of the cluster at revision r
    oldest,         \* the oldest revision that can still be read
    asked,          \* the revision the client asks for exactly, or 0
    at,             \* the revision the list is a snapshot of
    got,            \* the keys received, in the order they came
    status          \* "start", "paging", "done", "expired" or "refused"

listVars == <<asked, at, got, status>>
vars == <<store, oldest, listVars>>

Received(s) == {s[i] : i \in DOMAIN s}

\* s is the beginning of S in key order.
BeginningOf(s, S) ==
    /\ Received(s) \subseteq S
    /\ \A i, j \in DOMAIN s : i < j => Less(s[i], s[j])
    /\ \A i \in DOMAIN s : \A k \in S : Less(k, s[i]) => k \in Received(s)

Extends(s, t) == Len(s) <= Len(t) /\ \A i \in DOMAIN s : s[i] = t[i]

Init ==
    /\ Len(store) > 0
    /\ oldest = 1
    /\ asked <= Len(store) /\ at = 0 /\ got = <<>> /\ status = "start"

\* The cluster moves on.
Advance ==
    /\ Extends(store, store')
    /\ oldest' >= oldest /\ oldest' <= Len(store')
    /\ UNCHANGED listVars

\* The revision a list that starts now is a snapshot of.
Wanted == IF asked = 0 THEN Len(store) ELSE asked

\* The first page is asked for, and is to be read.
Pin ==
    /\ status = "start"
    /\ Wanted >= oldest
    /\ at' = Wanted
    /\ status' = "paging"
    /\ UNCHANGED <<store, oldest, asked, got>>

\* A page; the one that says there is no more completes the snapshot.
Deliver ==
    /\ \/ status = "start" /\ Wanted >= oldest /\ at' = Wanted
       \/ status = "paging" /\ at' = at
    /\ Extends(got, got')
    /\ BeginningOf(got', Listed(store[at']))
    /\ \/ status' = "paging"
       \/ status' = "done" /\ Received(got') = Listed(store[at'])
    /\ UNCHANGED <<store, oldest, asked>>

Fail ==
    /\ \/ status = "paging" /\ at < oldest /\ status' = "expired"
       \/ status = "start" /\ Wanted < oldest /\ status' = "expired"
       \/ status \in {"start", "paging"} /\ status' = "refused"
    /\ UNCHANGED <<store, oldest, asked, at, got>>

Restart ==
    /\ status \in {"done", "expired", "refused"}
    /\ asked' <= Len(store) /\ at' = 0 /\ got' = <<>> /\ status' = "start"
    /\ UNCHANGED <<store, oldest>>

Next == Advance \/ Pin \/ Deliver \/ Fail \/ Restart

Spec == Init /\ [][Next]_vars
=============================================================================
