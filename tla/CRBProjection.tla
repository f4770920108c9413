---------------------------- MODULE CRBProjection ----------------------------
(***************************************************************************)
(* clusterRoleBindingProjection (pkg/proxy/crbprojection.go): a tenant's   *)
(* ClusterRoleBinding is a record in its kube-system and a copy of it in   *)
(* every other namespace it owns.  Each upstream call of a request is a    *)
(* step; requests of several clients, the tenant's namespaces and the      *)
(* controller that repairs the copies move in between.                     *)
(*                                                                         *)
(* What a binding grants is the number of the write it came from, 0 where  *)
(* there is no object.                                                     *)
(***************************************************************************)
EXTENDS Integers, FiniteSets

CONSTANTS
    Spaces,         \* namespaces the tenant may own
    Home,           \* canonicalNamespace, where the records are
    Bindings,       \* names of ClusterRoleBindings
    Clients,        \* concurrent requests
    Verbs,          \* bound: what the clients do to each binding
    Limit,          \* maxClusterRoleBindingsFor, 0 for no cap
    MaxWrites,      \* bound: writes of records
    MaxCalls        \* bound: requests, deletions of namespaces included

ASSUME ProjectionAssumption ==
    /\ Home \in Spaces /\ IsFiniteSet(Spaces)
    /\ IsFiniteSet(Bindings) /\ IsFiniteSet(Clients)
    /\ Verbs \in [Bindings -> SUBSET {"create", "update", "apply", "delete", "deletecollection"}]
    /\ Limit \in Nat /\ MaxWrites \in Nat /\ MaxCalls \in Nat

VARIABLES
    spaces,         \* the namespaces the tenant owns
    record,         \* record[b]: what the record grants
    copy,           \* copy[b][n]: what the copy in n grants
    writes, calls,  \* how many writes and requests there were
    pc, req,        \* a request: where it is, and what it holds (Requests)
    uncounted,      \* how many creates went through without being counted for
    kept            \* the last thing done to the record was to write it

worldVars == <<spaces, record, copy, writes, kept, uncounted>>
vars == <<worldVars, calls, pc, req>>

PCs == {"idle", "count", "write", "delete", "list", "read", "copy", "get",
        "update", "remove"}

AllVerbs == {"create", "update", "apply", "delete", "deletecollection"}

Requests ==
    [verb : AllVerbs, on : Bindings,    \* the verb and the binding
     todo : SUBSET Spaces, at : Spaces, \* namespaces to visit, and the one visited
     seen : Nat,                        \* the record project read back
     fresh : BOOLEAN,                   \* the version read of a copy is still current
     rest : SUBSET Bindings,            \* what DeleteCollection has yet to delete
     quiet : BOOLEAN]                   \* nothing failed and nobody else moved

NoRequest ==
    [verb |-> "none", on |-> "none", todo |-> {}, at |-> Home, seen |-> 0,
     fresh |-> FALSE, rest |-> {}, quiet |-> FALSE]

TypeOK ==
    /\ spaces \subseteq Spaces
    /\ record \in [Bindings -> Nat] /\ kept \in [Bindings -> BOOLEAN]
    /\ copy \in [Bindings -> [Spaces -> Nat]]
    /\ writes \in Nat /\ calls \in Nat /\ uncounted \in Nat
    /\ pc \in [Clients -> PCs]
    /\ DOMAIN req = Clients
    /\ \A c \in Clients : IF pc[c] = "idle" THEN req[c] = NoRequest ELSE req[c] \in Requests

Init ==
    /\ spaces = Spaces
    /\ record = [b \in Bindings |-> 0] /\ kept = [b \in Bindings |-> FALSE]
    /\ copy = [b \in Bindings |-> [n \in Spaces |-> 0]]
    /\ writes = 0 /\ calls = 0 /\ uncounted = 0
    /\ pc = [c \in Clients |-> "idle"] /\ req = [c \in Clients |-> NoRequest]

Records == {b \in Bindings : record[b] # 0}

-----------------------------------------------------------------------------
(* Steps of a request.                                                     *)

\* Request c goes on with r; the others hold what rs says.
GoesAmong(rs, c, from, label, r) ==
    /\ pc[c] = from
    /\ pc' = [pc EXCEPT ![c] = label]
    /\ req' = [rs EXCEPT ![c] = IF label = "idle" THEN NoRequest ELSE r]

Goes(c, from, label, r) == GoesAmong(req, c, from, label, r) /\ UNCHANGED calls

Moves(c, from, label, r) == Goes(c, from, label, r) /\ UNCHANGED worldVars

\* An upstream call of c fails: the request is no longer quiet.
Failing(c, from, label, r) == Moves(c, from, label, [r EXCEPT !.quiet = FALSE])

\* A request begins; it overlaps with every request that is running.
Begin(c, label, v, b, rest) ==
    LET alone == \A d \in Clients \ {c} : pc[d] = "idle" IN
    /\ calls < MaxCalls /\ calls' = calls + 1
    /\ GoesAmong([d \in Clients |-> [req[d] EXCEPT !.quiet = FALSE]], c, "idle", label,
                 [NoRequest EXCEPT !.verb = v, !.on = b, !.rest = rest, !.quiet = alone])
    /\ UNCHANGED worldVars

\* Create, Update, a server-side apply (an Update that may create) and Delete.
BeginOne(c) ==
    \E b \in Bindings : \E v \in Verbs[b] \ {"deletecollection"} :
        Begin(c, CASE v = "create" -> "count"
                   [] v = "delete" -> "delete"
                   [] OTHER        -> "write", v, b, {})

\* DeleteCollection lists the records and deletes them one by one.
BeginCollection(c) ==
    \E b \in Records :
        /\ "deletecollection" \in Verbs[b]
        /\ Begin(c, "delete", "deletecollection", b, Records \ {b})

\* Variant of UnderCap: one too many.
UpToCap == Limit = 0 \/ Cardinality(Records) <= Limit

\* The comparison in refuseTooManyBindings.
UnderCap == Limit = 0 \/ Cardinality(Records) < Limit

\* refuseTooManyBindings ...
CountBindings(c) == Moves(c, "count", IF UnderCap THEN "write" ELSE "idle", req[c])

\* ... which lets the request through when it cannot count.
CountFails(c) ==
    /\ Goes(c, "count", "write", [req[c] EXCEPT !.quiet = FALSE])
    /\ uncounted' = uncounted + 1
    /\ UNCHANGED <<spaces, record, copy, writes, kept>>

\* inner.Create, inner.Update and what an apply makes of them: one that creates
\* the record has come past refuseTooManyBindings.
WriteRecord(c) ==
    LET b == req[c].on IN
    /\ Goes(c, "write", "list", req[c])
    /\ writes < MaxWrites /\ writes' = writes + 1
    /\ req[c].verb = "create" => record[b] = 0
    /\ req[c].verb = "update" => record[b] # 0
    /\ record' = [record EXCEPT ![b] = writes + 1]
    /\ kept' = [kept EXCEPT ![b] = TRUE]
    /\ uncounted' = uncounted + (IF req[c].verb = "apply" /\ record[b] = 0 THEN 1 ELSE 0)
    /\ UNCHANGED <<spaces, copy>>

\* AlreadyExists, NotFound or any other refusal of the write ends the request.
WriteFails(c) == Failing(c, "write", "idle", req[c])

\* inner.Delete of the record.
DeleteRecord(c) ==
    LET b == req[c].on IN
    /\ Goes(c, "delete", "list", req[c])
    /\ record[b] # 0
    /\ record' = [record EXCEPT ![b] = 0]
    /\ kept' = [kept EXCEPT ![b] = FALSE]
    /\ UNCHANGED <<spaces, copy, writes, uncounted>>

\* NotFound or a refusal; DeleteCollection stops at the first.
DeleteFails(c) == Failing(c, "delete", "idle", req[c])

Deleting(c) == req[c].verb \in {"delete", "deletecollection"}

\* project and unproject list the tenant's namespaces ...
ListNamespaces(c) ==
    IF Deleting(c)
    THEN Moves(c, "list", "remove", [req[c] EXCEPT !.todo = spaces])
    ELSE Moves(c, "list", "read", [req[c] EXCEPT !.todo = spaces \ {Home}])

\* ... or cannot, and leave the copies to the controller.  DeleteCollection
\* goes on with the next record.
ListFails(c) == Failing(c, "list", IF Deleting(c) THEN "remove" ELSE "idle", req[c])

\* project reads the record back.
ReadRecord(c) ==
    /\ pc[c] = "read" /\ record[req[c].on] # 0
    /\ Moves(c, "read", "copy", [req[c] EXCEPT !.seen = record[req[c].on]])

\* The record is gone already, or cannot be read.
ReadFails(c) == Failing(c, "read", "idle", req[c])

\* The requests once the copy of b in n is written: whoever has read it holds
\* an old version.
Outdated(b, n) ==
    [c \in Clients |-> [req[c] EXCEPT !.fresh = @ /\ ~(req[c].on = b /\ req[c].at = n)]]

Visiting(c, n) == [req[c] EXCEPT !.at = n, !.todo = @ \ {n}]

\* project creates the copy, if there is none.
CreateCopy(c, n) ==
    LET b == req[c].on IN
    /\ GoesAmong(Outdated(b, n), c, "copy", "copy", [req[c] EXCEPT !.todo = @ \ {n}])
    /\ n \in req[c].todo \cap spaces
    /\ copy[b][n] = 0
    /\ copy' = [copy EXCEPT ![b][n] = req[c].seen]
    /\ UNCHANGED <<spaces, record, writes, kept, uncounted, calls>>

\* The create is refused: there is one, the namespace is gone, or it fails.
CreateCopyFails(c, n) ==
    /\ pc[c] = "copy" /\ n \in req[c].todo
    /\ Moves(c, "copy", "get", [Visiting(c, n) EXCEPT !.quiet = @ /\ copy[req[c].on][n] # 0])

\* It reads the version of the copy that is there ...
GetCopy(c) ==
    /\ pc[c] = "get" /\ copy[req[c].on][req[c].at] # 0
    /\ Moves(c, "get", "update", [req[c] EXCEPT !.fresh = TRUE])

GetCopyFails(c) == Failing(c, "get", "copy", req[c])

\* Variant of UpdateCopy: an existing copy is left as it is.
KeepCopy(c) == Moves(c, "update", "copy", [req[c] EXCEPT !.fresh = FALSE])

\* ... and overwrites it, if it is still that one.
UpdateCopy(c) ==
    LET b == req[c].on
        n == req[c].at
    IN
    /\ GoesAmong(Outdated(b, n), c, "update", "copy", [req[c] EXCEPT !.fresh = FALSE])
    /\ req[c].fresh /\ n \in spaces
    /\ copy' = [copy EXCEPT ![b][n] = req[c].seen]
    /\ UNCHANGED <<spaces, record, writes, kept, uncounted, calls>>

\* A conflict or a failure leaves it stale.
UpdateCopyFails(c) == Failing(c, "update", "copy", [req[c] EXCEPT !.fresh = FALSE])

\* unproject deletes what is called like the record in every namespace listed.
RemoveCopy(c, n) ==
    LET b == req[c].on IN
    /\ GoesAmong(Outdated(b, n), c, "remove", "remove", [req[c] EXCEPT !.todo = @ \ {n}])
    /\ n \in req[c].todo
    /\ IF n = Home
       THEN record' = [record EXCEPT ![b] = 0] /\ UNCHANGED copy
       ELSE copy' = [copy EXCEPT ![b][n] = 0] /\ UNCHANGED record
    /\ UNCHANGED <<spaces, writes, kept, uncounted, calls>>

RemoveCopyFails(c, n) ==
    /\ pc[c] = "remove" /\ n \in req[c].todo
    /\ Failing(c, "remove", "remove", [req[c] EXCEPT !.todo = @ \ {n}])

\* Every namespace has been visited.
Visited(c) == pc[c] \in {"copy", "remove"} /\ req[c].todo = {}

\* The request returns, or DeleteCollection goes on to the next record.
Finish(c) ==
    /\ Visited(c)
    /\ \/ req[c].rest = {} /\ Moves(c, pc[c], "idle", req[c])
       \/ \E b \in req[c].rest :
             Moves(c, pc[c], "delete", [req[c] EXCEPT !.on = b, !.rest = @ \ {b}])

-----------------------------------------------------------------------------
(* The tenant's namespaces, and the controller, external to the gateway.   *)

Disturbed == [c \in Clients |-> [req[c] EXCEPT !.quiet = FALSE]]

CreateNamespace(n) ==
    /\ n \notin spaces
    /\ spaces' = spaces \cup {n}
    /\ req' = Disturbed
    /\ UNCHANGED <<record, copy, writes, kept, uncounted, calls, pc>>

\* Its copies go with it.  The record's namespace is recreated and stays.
DeleteNamespace(n) ==
    /\ n \in spaces \ {Home}
    /\ calls < MaxCalls /\ calls' = calls + 1
    /\ spaces' = spaces \ {n}
    /\ copy' = [b \in Bindings |-> [copy[b] EXCEPT ![n] = 0]]
    /\ req' = [c \in Clients |-> [req[c] EXCEPT !.quiet = FALSE,
                                                !.fresh = @ /\ req[c].at # n]]
    /\ UNCHANGED <<record, writes, kept, uncounted, pc>>

\* Variant of Repair: copies that are there are taken to be right.
RepairMissing(b, n) ==
    /\ n \in spaces \ {Home}
    /\ copy[b][n] = 0 /\ record[b] # 0
    /\ copy' = [copy EXCEPT ![b][n] = record[b]]
    /\ req' = Outdated(b, n)
    /\ UNCHANGED <<spaces, record, writes, kept, uncounted, calls, pc>>

\* The controller makes a copy what the record is, and removes an orphan.
Repair(b, n) ==
    /\ n \in spaces \ {Home}
    /\ copy[b][n] # record[b]
    /\ copy' = [copy EXCEPT ![b][n] = record[b]]
    /\ req' = Outdated(b, n)
    /\ UNCHANGED <<spaces, record, writes, kept, uncounted, calls, pc>>

\* The bound on requests is reached and all have been answered.
Finished == calls = MaxCalls /\ (\A c \in Clients : pc[c] = "idle") /\ UNCHANGED vars

-----------------------------------------------------------------------------
RequestStep(c) ==
    \/ CountBindings(c) \/ CountFails(c)
    \/ WriteRecord(c) \/ WriteFails(c) \/ DeleteRecord(c) \/ DeleteFails(c)
    \/ ListNamespaces(c) \/ ListFails(c) \/ ReadRecord(c) \/ ReadFails(c)
    \/ GetCopy(c) \/ GetCopyFails(c) \/ UpdateCopy(c) \/ UpdateCopyFails(c)
    \/ \E n \in Spaces : \/ CreateCopy(c, n) \/ CreateCopyFails(c, n)
                         \/ RemoveCopy(c, n) \/ RemoveCopyFails(c, n)
    \/ Finish(c)

Next ==
    \/ \E c \in Clients : BeginOne(c) \/ BeginCollection(c) \/ RequestStep(c)
    \/ \E n \in Spaces : CreateNamespace(n) \/ DeleteNamespace(n)
    \/ \E b \in Bindings, n \in Spaces : Repair(b, n)
    \/ Finished

Spec == Init /\ [][Next]_vars

\* A step of a request, or of the controller's resync of a namespace.
Progress ==
    \/ \E c \in Clients : RequestStep(c)
    \/ \E b \in Bindings, n \in Spaces : Repair(b, n)

\* Requests are served, and the controller resyncs every namespace: not all of
\* them wait while one can go on.
FairSpec == Spec /\ WF_vars(Progress)

-----------------------------------------------------------------------------
(* Properties.                                                             *)

\* A request that nothing disturbed returns with every namespace granting
\* exactly what the record says, whatever earlier requests left behind: a chart
\* can use its binding, and a deleted one grants nothing (project, unproject).
InlineProjection ==
    \A c \in Clients : Visited(c) /\ req[c].quiet =>
        \A n \in spaces \ {Home} : copy[req[c].on][n] = record[req[c].on]

\* The check-then-create of refuseTooManyBindings overshoots the cap by at most
\* the requests that run beside the one that reaches it, the creates it could
\* not count for and those it is not asked about, which are the applies.
CapOvershoot ==
    Limit # 0 => Cardinality(Records) <= Limit + Cardinality(Clients) - 1 + uncounted

\* A tenant never owns more bindings than the cap.
CapHolds == Limit # 0 => Cardinality(Records) <= Limit

\* A record that was written and not deleted since is there: withdrawing the
\* copies of a deleted binding does not take the one written after it.
WrittenRecordStays == \A b \in Bindings : kept[b] => record[b] # 0

\* Whatever races and failures there were, in the end every namespace grants
\* what the record says.
CopiesConverge ==
    <>[](\A b \in Bindings, n \in spaces \ {Home} : copy[b][n] = record[b])
=============================================================================
