---------------------------- MODULE TenantObjects ----------------------------
(***************************************************************************)
(* One object of a tenant, written and read through the gateway while the  *)
(* platform goes on: the front door (pkg/filters/suspension.go), what      *)
(* tenantProxy refuses (pkg/proxy/proxy.go, ephemeralvolume.go), the       *)
(* published classes (pkg/publishedclass), the resolver of the tenant      *)
(* (pkg/tenantdns) and the convertors.  All but the convertors judge by    *)
(* caches, which are behind what they follow and empty after a restart.    *)
(*                                                                         *)
(* The kind of the object is chosen at the start.  A request is one step:  *)
(* its upstream calls and the writers it races are those of                *)
(* TenantProxyWrite, and it reads each cache once.  The class that a       *)
(* published set may hold is named after the set.                          *)
(***************************************************************************)
EXTENDS Conversions, FiniteSets

CONSTANTS
    Addresses,      \* addresses of a Service
    MaxChanges      \* bound: what the platform changes, and restarts

\* An id has six characters, so it is not the name of the namespace below.
ASSUME ObjectsAssumption ==
    /\ Tenant # "ns"
    /\ Addresses \subseteq STRING \ {NoAddress, "None"}
    /\ MaxChanges \in Nat

Sets == {"storage", "attributes", "ingress"}

Published == {"none", "true", "deprecated"}     \* the label of a class

Modes == {"none", "readonly", "frozen", "other"}    \* spec.suspension of the tenant

VARIABLES
    kind,           \* the kind of the object
    stored,         \* the object upstream, or Absent
    wrote,          \* what its tenant wrote and should read
    static,         \* the sets whose class is named on the command line
    label,          \* label[s]: the label of the class of set s ...
    seen,           \* ... in the informer's store,
    synced,         \* the sets whose store has been filled,
    carried,        \* and the labels that it has had
    suspension,     \* the suspension of the tenant ...
    tenantSeen,     \* ... in the tenant lister, "missing" if the tenant is
    groups,         \* the groups of the tenant's definitions, as the lister has them
    resolver,       \* the Service and the endpoints of the tenant's resolver ...
    resolverSeen,   \* ... in the two stores,
    had,            \* and the addresses and the readiness that it has had
    changes

object == <<kind, stored, wrote>>
classes == <<label, seen, synced, carried>>
door == <<suspension, tenantSeen>>
dns == <<resolver, resolverSeen, had>>
vars == <<object, static, classes, door, groups, dns, changes>>

Absent == [absent |-> TRUE]

----------------------------------------------------------------------------
(***************************************************************************)
(* publishedclass.labelledSet                                              *)
(***************************************************************************)

ClassOf(s) == <<s>>

\* The label of class n in set s, as the store has it.
Value(s, n) == IF s \in synced /\ n = ClassOf(s) THEN seen[s] ELSE "none"

IsStatic(s, n) == s \in static /\ n = ClassOf(s)

Visible(s, n) == IsStatic(s, n) \/ Value(s, n) # "none"

Retired(s, n) == ~IsStatic(s, n) /\ Value(s, n) = "deprecated"

HasSynced(s) == s \in synced

----------------------------------------------------------------------------
(***************************************************************************)
(* tenantdns.Resolver                                                      *)
(***************************************************************************)

NoResolver == [ip |-> NoAddress, ann |-> NoAddress, ready |-> FALSE]

\* nameserverFor: where a pod reaches the Service.
NameserverFor(r) == ShowTenantClusterIP(r).ip

HasAddress(r) == r.ip \notin {NoAddress, "None"}

\* Variant of For that does not ask for a ready endpoint.
ForDeclared ==
    IF HasAddress(resolverSeen) THEN NameserverFor(resolverSeen) ELSE NoAddress

\* For: the nameserver, if there is one and it serves as far as is known.
For ==
    IF HasAddress(resolverSeen) /\ resolverSeen.ready
    THEN NameserverFor(resolverSeen)
    ELSE NoAddress

----------------------------------------------------------------------------
(***************************************************************************)
(* WithTenantSuspension                                                    *)
(***************************************************************************)

Requests == {"discovery", "read", "review", "write", "exec", "token"}

\* Variant of AllowedUnderSuspension in which an unknown mode is read-only.
AllowedUnlessFrozen(r, mode) ==
    r = "discovery" \/ (mode # "frozen" /\ r \in {"read", "review"})

AllowedUnderSuspension(r, mode) ==
    r = "discovery" \/ (mode = "readonly" /\ r \in {"read", "review"})

\* A tenant that the lister does not have is not suspended.
Allowed(r) ==
    tenantSeen \in {"missing", "none"} \/ AllowedUnderSuspension(r, tenantSeen)

----------------------------------------------------------------------------
(***************************************************************************)
(* What the gateway reads                                                  *)
(***************************************************************************)

Env ==
    [ingress |-> {n \in {ClassOf("ingress")} : Visible("ingress", n)},
     groups |-> groups,
     nameserver |-> For]

Spellings == {<<"ns">>, <<Tenant, "ns">>}

\* echoRequestNamespace: the namespace as the caller spelled it.
EchoNamespace(o, ns) ==
    IF kind \notin ClusterScoped /\ UpstreamNamespace(o.ns) = UpstreamNamespace(ns)
    THEN [o EXCEPT !.ns = ns]
    ELSE o

\* readForUpdate: the object without the views that a tenant is shown.
StorageView(s, ns) == EchoNamespace(Backward(kind, s, Env), ns)

TenantView(s, ns) ==
    LET v == Backward(kind, s, Env)
    IN  EchoNamespace(IF kind = "service" THEN ShowTenantClusterIP(v) ELSE v, ns)

----------------------------------------------------------------------------
(***************************************************************************)
(* What tenantProxy refuses: "none", "retry" or "invalid"                  *)
(***************************************************************************)

\* Variant of RefuseUnpublishedClass that does not wait for the store.
RefuseBeforeSync(s, n) ==
    IF n # Empty /\ (~Visible(s, n) \/ Retired(s, n)) THEN "invalid" ELSE "none"

\* Variant of RefuseUnpublishedClass that lets everything through until then.
AdmitBeforeSync(s, n) ==
    IF n # Empty /\ HasSynced(s) /\ (~Visible(s, n) \/ Retired(s, n))
    THEN "invalid" ELSE "none"

RefuseUnpublishedClass(s, n) ==
    CASE n = Empty -> "none"
      [] n # Empty /\ ~HasSynced(s) -> "retry"
      [] n # Empty /\ HasSynced(s) ->
            IF ~Visible(s, n) \/ Retired(s, n) THEN "invalid" ELSE "none"

RefuseUnpublishedStorageClass(o) ==
    IF kind = "claim" THEN RefuseUnpublishedClass("storage", o.class) ELSE "none"

RefuseUnpublishedVolumeAttributesClass(o, old) ==
    IF kind = "claim" /\ ~(old # Absent /\ old.vac = o.vac)
    THEN RefuseUnpublishedClass("attributes", o.vac)
    ELSE "none"

\* The claim that a volume of the template is made of.
RefuseUnpublishedEphemeralClasses(o, old) ==
    IF kind # "workload" THEN "none"
    ELSE LET storage == RefuseUnpublishedClass("storage", o.class)
         IN  IF storage # "none" THEN storage
             ELSE IF old # Absent /\ old.vac = o.vac THEN "none"
             ELSE RefuseUnpublishedClass("attributes", o.vac)

InvalidIf(b) == IF b THEN "invalid" ELSE "none"

RefuseTenantChosenNode(o) == InvalidIf(kind = "pod" /\ o.node # NotGiven)

RefuseExternalNameService(o) == InvalidIf(kind = "service" /\ o.type = "ExternalName")

Kept(f, old) == IF old = Absent THEN {} ELSE old[f]

RefuseNewExternalIPs(o, old) ==
    InvalidIf(kind = "service" /\ ~(o.ips \subseteq Kept("ips", old)))

RefuseNodePorts(o, old) ==
    InvalidIf(/\ kind = "service"
              /\ o.type = "NodePort" \/ ~(o.ports \subseteq Kept("ports", old)))

RefuseForeignClusterIP(o, old) ==
    InvalidIf(kind = "service" /\ old # Absent /\ ~AddressKept(o, old))

\* The first answer that is not "none".
First(answers) ==
    LET refusals == {i \in DOMAIN answers : answers[i] # "none"}
    IN  IF refusals = {} THEN "none"
        ELSE answers[CHOOSE i \in refusals : \A j \in refusals : i <= j]

CreateAnswer(o) ==
    First(<<InvalidIf(ForwardFails(kind, o, Env)),
            RefuseUnpublishedStorageClass(o),
            RefuseUnpublishedVolumeAttributesClass(o, Absent),
            RefuseTenantChosenNode(o),
            RefuseExternalNameService(o),
            RefuseUnpublishedEphemeralClasses(o, Absent),
            RefuseNewExternalIPs(o, Absent),
            RefuseNodePorts(o, Absent),
            RefuseForeignClusterIP(o, Absent)>>)

\* Variant of UpdateAnswer that judges the storage class and the node of an
\* object that has been created.
UpdateAnswerAsCreate(o, old) ==
    First(<<RefuseUnpublishedStorageClass(o),
            RefuseUnpublishedVolumeAttributesClass(o, old),
            RefuseTenantChosenNode(o),
            RefuseExternalNameService(o),
            RefuseUnpublishedEphemeralClasses(o, old),
            RefuseNewExternalIPs(o, old),
            RefuseForeignClusterIP(o, old),
            RefuseNodePorts(o, old),
            InvalidIf(ForwardFails(kind, o, Env))>>)

UpdateAnswer(o, old) ==
    First(<<RefuseUnpublishedVolumeAttributesClass(o, old),
            RefuseExternalNameService(o),
            RefuseUnpublishedEphemeralClasses(o, old),
            RefuseNewExternalIPs(o, old),
            RefuseForeignClusterIP(o, old),
            RefuseNodePorts(o, old),
            InvalidIf(ForwardFails(kind, o, Env))>>)

----------------------------------------------------------------------------
(***************************************************************************)
(* What is sent upstream, and what is stored there                         *)
(***************************************************************************)

\* What Create sends.
Created(o) ==
    LET up == Forward(kind, o, Env)
    IN  IF kind = "pod" THEN CreatePod(up, Env) ELSE up

\* What Update and guaranteedUpdate send.
Updated(o, old) ==
    Forward(kind,
            IF kind = "service" THEN RestoreUpstreamClusterIP(o, old) ELSE o,
            Env)

\* External: the upstream server makes a name from generateName, ...
Named(o) ==
    IF kind = "volume" /\ o.name = Empty THEN [o EXCEPT !.name = o.generate \o <<"1">>] ELSE o

\* ... gives a Service its address ...
Allocated(o) ==
    IF kind = "service" /\ o.ip = NoAddress THEN [o EXCEPT !.ip = "upstream"] ELSE Named(o)

\* ... and refuses to change what is immutable.
ImmutableKept(o, s) ==
    /\ kind = "claim" =>
        /\ o.class = s.class
        /\ s.volume # Empty => o.volume = s.volume
    /\ kind = "service" => o.ip = s.ip
    /\ kind = "pod" => o = s
    /\ kind = "custom" => o.group = s.group
    /\ kind = "binding" => o.clusterRole = s.clusterRole
    /\ kind \in ClusterScoped => o.name = s.name

----------------------------------------------------------------------------
(***************************************************************************)
(* The objects a tenant writes                                             *)
(***************************************************************************)

Subjects ==
    {[kind |-> "User", ns |-> Empty, name |-> <<"jo">>],
     [kind |-> "ServiceAccount", ns |-> <<"ns">>, name |-> <<"jo">>],
     [kind |-> "ServiceAccount", ns |-> Empty, name |-> <<"jo">>],
     [kind |-> "Accounts", ns |-> Empty, name |-> <<"ns">>],
     [kind |-> "Group", ns |-> Empty, name |-> <<"system", "authenticated">>]}

Optional(n) == {Empty, n}

Owners ==
    {[scope |-> "Namespaced", group |-> <<"apps">>, name |-> <<"a">>],
     [scope |-> "Namespaced", group |-> <<"group">>, name |-> <<"a">>],
     [scope |-> "Cluster", group |-> <<"group">>, name |-> <<"a">>]}

\* Of a pod, of a PersistentVolume, and of things in a group of the tenant.
References ==
    {[scope |-> "Namespaced", group |-> Empty, ns |-> <<"ns">>, name |-> <<"a">>],
     [scope |-> "Cluster", group |-> Empty, ns |-> Empty, name |-> <<"a">>],
     [scope |-> "Namespaced", group |-> <<"group">>, ns |-> <<"ns">>, name |-> <<"a">>],
     [scope |-> "Cluster", group |-> <<"group">>, ns |-> Empty, name |-> <<"a">>],
     [scope |-> "none", group |-> Empty, ns |-> <<"ns">>, name |-> <<"a">>],
     [scope |-> "none", group |-> Empty, ns |-> Empty, name |-> <<"a">>]}

Manifests(k) ==
    CASE k = "claim" ->
            [ns : Spellings, class : Optional(ClassOf("storage")),
             vac : Optional(ClassOf("attributes")), volume : Optional(<<"vol">>),
             bound : {FALSE}, from : Optional(<<"ns">>)]
      [] k = "ingress" ->
            [ns : Spellings, class : {Empty, ClassOf("ingress"), <<"mine">>}]
      [] k = "service" ->
            [ns : Spellings, type : {"ClusterIP", "NodePort", "ExternalName"},
             ports : SUBSET {"http", "health"}, ips : SUBSET {"ip"},
             ip : {NoAddress, "None", "chosen"}, ann : {NoAddress}]
      [] k = "pod" ->
            [ns : Spellings, node : {NotGiven, "node"}, pool : {FALSE},
             token : {"upstream"}, dns : {"default"}]
      [] k = "workload" ->
            [ns : Spellings, class : Optional(ClassOf("storage")),
             vac : Optional(ClassOf("attributes")), node : {NotGiven, "node"},
             pool : {FALSE}, token : {"upstream"}, dns : {"default"}]
      [] k = "role" ->
            [ns : Spellings, groups : SUBSET {<<"group">>, <<"apps">>},
             names : SUBSET {<<"a">>, <<"b">>}]
      [] k = "binding" ->
            [ns : Spellings, subjects : SUBSET Subjects,
             clusterRole : Optional(<<"view">>)]
      [] k = "policy" ->
            [ns : Spellings,
             peers : SUBSET [selects : {TRUE}, name : Optional(<<"ns">>), confined : {FALSE}]]
      [] k = "custom" ->
            [ns : Spellings, group : {<<"group">>} \cup SharedGroups]
      [] k = "namespace" ->
            [name : {<<"ns">>, <<Tenant, "ns">>}, generate : {Empty},
             label : {NotGiven, Tenant, "other"}, level : {NotGiven, "weak"}]
      [] k = "dependent" ->
            [ns : Spellings, owners : SUBSET Owners]
      [] k = "event" ->
            [ns : Spellings, about : References, message : {{"ns"}}]
      [] k = "volume" ->
            {v \in [name : Optional(<<"vol">>), generate : Optional(<<"gen">>),
                    source : SafeSources \cup UnsafeSources,
                    claim : [ns : Optional(<<"ns">>), name : Optional(<<"pvc">>)]] :
                v.name = Empty <=> v.generate # Empty}
      [] k = "webhook" ->
            [name : {<<"hook">>}, generate : {Empty}, service : Optional(<<"ns">>), url : BOOLEAN,
             confined : {FALSE}]
      [] k = "crd" ->
            [plural : {"things"}, group : {<<"group">>}, service : Optional(<<"ns">>),
             name : {<<"things", "group">>, <<"others", "group">>}, url : BOOLEAN]

\* What the tenant of an object decides.
Owned ==
    [claim |-> {"class", "vac", "volume", "from"}, ingress |-> {"class"},
     service |-> {"type", "ports", "ips"}, pod |-> {}, workload |-> {"class", "vac"},
     role |-> {"groups", "names"}, binding |-> {"subjects", "clusterRole"},
     policy |-> {"peers"}, dependent |-> {"owners"}, event |-> {"about", "message"}, custom |-> {"group"},
     namespace |-> {"name"}, volume |-> {"name", "generate", "source", "claim"},
     webhook |-> {"name", "service", "url"},
     crd |-> {"name", "plural", "group", "service", "url"}]

Own(o) == [f \in Owned[kind] |-> o[f]]

\* Object v with what the tenant decides as in o, and a Service with address ip.
Edit(v, o, ip) ==
    LET e == [f \in DOMAIN v |-> IF f \in Owned[kind] THEN o[f] ELSE v[f]]
    IN  IF kind = "service" THEN [e EXCEPT !.ip = ip] ELSE e

----------------------------------------------------------------------------
(***************************************************************************)
(* The tenant                                                              *)
(***************************************************************************)

TenantCreate(o) ==
    /\ Allowed("write")
    /\ stored = Absent
    /\ CreateAnswer(o) = "none"
    /\ stored' = Allocated(Created(o))
    /\ wrote' = Own(Named(o))
    /\ UNCHANGED <<kind, static, classes, door, groups, dns, changes>>

\* A put of what was read, or a patch of what is stored, with some of it changed.
TenantUpdate(o) ==
    /\ Allowed("write")
    /\ stored # Absent
    /\ ~BackwardFails(kind, stored, Env)
    /\ UpdateAnswer(o, StorageView(stored, <<"ns">>)) = "none"
    /\ LET up == Updated(o, StorageView(stored, <<"ns">>))
       IN  /\ ImmutableKept(up, stored)
           /\ stored' = up
    /\ wrote' = IF Own(o) = Own(TenantView(stored, <<"ns">>)) THEN wrote ELSE Own(o)
    /\ UNCHANGED <<kind, static, classes, door, groups, dns, changes>>

TenantDelete ==
    /\ Allowed("write")
    /\ stored # Absent
    /\ stored' = Absent /\ wrote' = <<>>
    /\ UNCHANGED <<kind, static, classes, door, groups, dns, changes>>

Edits ==
    LET v == TenantView(stored, <<"ns">>)
        ips == IF kind = "service" THEN {v.ip, stored.ip, "third", NoAddress} ELSE {NoAddress}
    IN  {Edit(v, o, ip) : o \in Manifests(kind), ip \in ips} \cup {v}

TenantStep ==
    \/ \E o \in Manifests(kind) : TenantCreate(o)
    \/ stored # Absent /\ \E o \in Edits : TenantUpdate(o)
    \/ TenantDelete

----------------------------------------------------------------------------
(***************************************************************************)
(* The platform's controllers, which write the object upstream             *)
(***************************************************************************)

\* External: the PersistentVolume controller binds a claim to a volume.
BindClaim ==
    /\ kind = "claim" /\ stored # Absent /\ stored.volume = Empty
    /\ stored' = [stored EXCEPT !.volume = <<"pvc-1">>, !.bound = TRUE]
    /\ wrote' = [wrote EXCEPT !.volume = <<"pvc-1">>]
    /\ UNCHANGED <<kind, static, classes, door, groups, dns, changes>>

\* External: the data plane allocates an address for a Service.
ShowAddress(a) ==
    /\ kind = "service" /\ stored # Absent /\ stored.ann # a
    /\ stored' = [stored EXCEPT !.ann = a]
    /\ UNCHANGED <<kind, wrote, static, classes, door, groups, dns, changes>>

\* External: the scheduler binds a pod.
Schedule ==
    /\ kind = "pod" /\ stored # Absent /\ stored.node = NotGiven
    /\ stored' = [stored EXCEPT !.node = "node"]
    /\ UNCHANGED <<kind, wrote, static, classes, door, groups, dns, changes>>

Node == [scope |-> "Cluster", group |-> Empty, ns |-> Empty, name |-> <<"node">>]

\* External: a controller tells of an object of the tenant, or of a node, in
\* the terms of the platform.
Reported ==
    {OwnerForward(r) : r \in {r \in References : r.scope # "none"}}

Report(r) ==
    LET a == [r EXCEPT !.ns = UpstreamNamespace(@)]
    IN  /\ kind = "event" /\ stored = Absent
        /\ stored' = [ns |-> <<Tenant, "ns">>, about |-> a, message |-> {Tenant, "ns"}]
        /\ wrote' = [about |-> [OwnerBackward(r) EXCEPT !.ns = TrimTenantIDPrefix(@)],
                     message |-> {"ns"}]
        /\ UNCHANGED <<kind, static, classes, door, groups, dns, changes>>

ControllerStep ==
    \/ BindClaim \/ Schedule
    \/ \E r \in Reported \cup {Node} : Report(r)
    \/ \E a \in Addresses : ShowAddress(a)

----------------------------------------------------------------------------
(***************************************************************************)
(* The platform, as far as the kind of the object depends on it            *)
(***************************************************************************)

\* What the answers about an object of a kind depend on.
DependsOn(s) ==
    \/ kind \in {"claim", "workload"} /\ s \in {"storage", "attributes"}
    \/ kind = "ingress" /\ s = "ingress"

Change == changes < MaxChanges /\ changes' = changes + 1

\* Bound: there are published classes or there is a resolver, not both.  No
\* answer depends on both of them.
NothingYet == [at |-> {NoAddress}, ready |-> FALSE]

\* External: a class is published, retired or withdrawn.
Label(s, v) ==
    /\ Change
    /\ DependsOn(s) /\ label[s] # v
    /\ had = NothingYet
    /\ label' = [label EXCEPT ![s] = v]
    /\ carried' = [carried EXCEPT ![s] = @ \cup {v}]
    /\ UNCHANGED <<object, static, seen, synced, door, groups, dns>>

\* External: the tenant is suspended, or its suspension changed or lifted.
Suspend(m) ==
    /\ Change
    /\ suspension # m
    /\ suspension' = m
    /\ UNCHANGED <<object, static, classes, tenantSeen, groups, dns>>

\* External: a definition of the tenant comes to the lister, or goes.
Define ==
    /\ Change
    /\ kind \in {"role", "dependent", "event"}
    /\ groups' = {<<Tenant, "group">>} \ groups
    /\ UNCHANGED <<object, static, classes, door, dns>>

\* External: the resolver of the tenant is set up, moved or lost.
Resolve(r) ==
    /\ Change
    /\ kind \in {"pod", "workload"}
    /\ static = {} /\ \A s \in Sets : carried[s] = {"none"}
    /\ resolver # r
    /\ resolver' = r
    /\ had' = [at |-> had.at \cup {r.ip, r.ann}, ready |-> had.ready \/ r.ready]
    /\ UNCHANGED <<object, static, classes, door, groups, resolverSeen>>

\* The gateway starts again, with empty stores.
Restart ==
    /\ Change
    /\ synced' = {} /\ seen' = [s \in Sets |-> "none"]
    /\ tenantSeen' = "missing"
    /\ groups' = {}
    /\ resolverSeen' = NoResolver
    /\ UNCHANGED <<object, static, label, carried, suspension, resolver, had>>

Resolvers ==
    [ip : Addresses \cup {NoAddress, "None"}, ann : Addresses \cup {NoAddress},
     ready : BOOLEAN]

PlatformStep ==
    \/ \E s \in Sets, v \in Published : Label(s, v)
    \/ \E m \in Modes : Suspend(m)
    \/ Define
    \/ \E r \in Resolvers : Resolve(r)
    \/ Restart

----------------------------------------------------------------------------
(***************************************************************************)
(* External: the informers                                                 *)
(***************************************************************************)

SeeClass(s) ==
    /\ s \notin synced \/ seen[s] # label[s]
    /\ seen' = [seen EXCEPT ![s] = label[s]]
    /\ synced' = synced \cup {s}
    /\ UNCHANGED <<object, static, label, carried, door, groups, dns, changes>>

SeeTenant ==
    /\ tenantSeen # suspension
    /\ tenantSeen' = suspension
    /\ UNCHANGED <<object, static, classes, suspension, groups, dns, changes>>

SeeResolverService ==
    /\ \/ resolverSeen.ip # resolver.ip
       \/ resolverSeen.ann # resolver.ann
    /\ resolverSeen' = [resolver EXCEPT !.ready = resolverSeen.ready]
    /\ UNCHANGED <<object, static, classes, door, groups, resolver, had, changes>>

SeeEndpoints ==
    /\ resolverSeen.ready # resolver.ready
    /\ resolverSeen' = [resolverSeen EXCEPT !.ready = resolver.ready]
    /\ UNCHANGED <<object, static, classes, door, groups, resolver, had, changes>>

SeeStep ==
    \/ \E s \in Sets : DependsOn(s) /\ SeeClass(s)
    \/ SeeTenant
    \/ SeeResolverService
    \/ SeeEndpoints

----------------------------------------------------------------------------

\* Services from before the rule about node ports and external addresses, and
\* namespaces from before the level of their pods was pinned.
Legacy ==
    CASE kind = "service" ->
            [ns : {<<Tenant, "ns">>}, type : {"ClusterIP"}, ports : {{"http", "health"}},
             ips : {{"ip"}}, ip : {"upstream", "None"}, ann : {NoAddress}]
      [] kind = "namespace" ->
            [name : {<<Tenant, "ns">>}, generate : {Empty}, label : {Tenant}, level : {NotGiven, "weak"}]
      [] kind \notin {"service", "namespace"} -> {}

Init ==
    /\ kind \in Kinds
    /\ stored \in {Absent} \cup Legacy
    /\ wrote = IF stored = Absent THEN <<>> ELSE Own(Backward(kind, stored, Env))
    /\ static \in IF kind \in {"claim", "workload"} THEN SUBSET {"storage"}
                  ELSE IF kind = "ingress" THEN SUBSET {"ingress"} ELSE {{}}
    /\ label \in {l \in [Sets -> {"none", "true"}] : \A s \in Sets : DependsOn(s) \/ l[s] = "none"}
    /\ seen = [s \in Sets |-> "none"] /\ synced = {}
    /\ carried = [s \in Sets |-> {label[s]}]
    /\ suspension = "none" /\ tenantSeen = "missing"
    /\ groups = {}
    /\ resolver = NoResolver /\ resolverSeen = NoResolver
    /\ had = NothingYet
    /\ changes = 0

Next == TenantStep \/ ControllerStep \/ PlatformStep \/ SeeStep

Spec == Init /\ [][Next]_vars

\* Informers catch up; nobody else has to do anything.
FairSpec == Spec /\ WF_vars(SeeStep)

TypeOK ==
    /\ kind \in Kinds
    /\ stored # Absent => \E m \in Manifests(kind) : DOMAIN stored = DOMAIN m
    /\ stored # Absent => DOMAIN wrote = Owned[kind]
    /\ stored # Absent /\ kind \in {"pod", "workload"} =>
        stored.dns \in Addresses \cup {"default"}
    /\ static \subseteq Sets
    /\ label \in [Sets -> Published] /\ seen \in [Sets -> Published]
    /\ synced \subseteq Sets
    /\ carried \in [Sets -> SUBSET Published]
    /\ suspension \in Modes /\ tenantSeen \in Modes \cup {"missing"}
    /\ groups \subseteq {<<Tenant, "group">>}
    /\ resolver \in Resolvers /\ resolverSeen \in Resolvers
    /\ had.at \subseteq Addresses \cup {NoAddress, "None"} /\ had.ready \in BOOLEAN
    /\ changes \in 0..MaxChanges

----------------------------------------------------------------------------
(***************************************************************************)
(* Properties                                                              *)
(***************************************************************************)

\* The object refers to a kind of the tenant's that the lister does not have.
Unresolved ==
    LET Lost(r) == HasPrefix(r.group) /\ ~Known(r, Env)
    IN  \/ kind = "dependent" /\ \E r \in stored.owners : Lost(r)
        \/ kind = "event" /\ Lost(stored.about)

\* Whatever the platform publishes, withdraws, defines or restarts after a
\* write, the object can be read and the tenant reads what it wrote, in the
\* spelling of the namespace it asks in (Backward undoes Forward, and
\* echoRequestNamespace the rest).  What controllers write is read in
\* the tenant's terms.  Only references to unknown kinds are left out.
ReadsAsWritten ==
    stored # Absent /\ ~Unresolved =>
        /\ ~BackwardFails(kind, stored, Env)
        /\ \A ns \in Spellings :
            LET v == TenantView(stored, ns)
            IN  /\ Own(v) = wrote
                /\ kind \notin ClusterScoped => v.ns = ns

\* Nothing that a tenant has stored becomes unreadable: the comment on
\* trimIfAttributable says what a failing conversion costs, a whole list.  It
\* does not hold of an object whose owner is of a definition that is gone, or
\* not in the lister yet.
AlwaysReadable == stored # Absent => ~BackwardFails(kind, stored, Env)

\* Every reference in a stored object is to something of the tenant's own, to
\* a class that was published, or was put there by the platform.
Confined ==
    stored # Absent =>
        /\ kind \notin ClusterScoped => HasPrefix(stored.ns)
        /\ kind = "claim" =>
            /\ stored.bound \/ stored.volume = Empty \/ HasPrefix(stored.volume)
            /\ stored.from = Empty \/ HasPrefix(stored.from)
        /\ kind = "ingress" =>
            \/ stored.class = Empty \/ HasPrefix(stored.class)
            \/ "ingress" \in static \/ carried["ingress"] # {"none"}
        /\ kind = "binding" =>
            /\ \A s \in stored.subjects :
                IF s.kind = "ServiceAccount" THEN s.ns = Empty \/ HasPrefix(s.ns)
                                             ELSE HasPrefix(s.name)
            /\ stored.clusterRole = Empty \/ HasPrefix(stored.clusterRole)
        /\ kind = "custom" => stored.group \in SharedGroups \/ HasPrefix(stored.group)
        /\ kind = "namespace" =>
            /\ HasPrefix(stored.name) /\ ~HasPrefix(Tail(stored.name))
            /\ stored.label = Tenant
            /\ stored.level = "pinned" \/ stored \in Legacy
        /\ kind = "dependent" =>
            \A r \in stored.owners :
                /\ r.group \in NativeGroups \/ HasPrefix(r.group)
                /\ r.scope = "Cluster" => HasPrefix(r.name)
        /\ kind = "event" =>
            HasPrefix(stored.about.ns) \/ HasPrefix(stored.about.name) \/ stored.about = Node
        /\ kind = "policy" =>
            \A p \in stored.peers : p.selects =>
                p.confined /\ (p.name = Empty \/ HasPrefix(p.name))
        /\ kind = "volume" =>
            HasPrefix(stored.name) /\ HasPrefix(stored.claim.ns) /\ stored.claim.name # Empty
        /\ kind \in {"webhook", "crd"} =>
            ~stored.url /\ (stored.service = Empty \/ HasPrefix(stored.service))
        /\ kind = "crd" => HasPrefix(stored.group) /\ stored.name = CRDName(stored)
        /\ kind \in {"pod", "workload"} => stored.pool /\ stored.token = "tenant"
        /\ kind = "workload" => stored.node = NotGiven

\* A put of exactly what was read, in either spelling, is accepted by the gateway
\* and by the upstream server, whatever has happened to the classes, the
\* resolver, the caches and the object since it was created.  The comment on
\* refuseUnpublishedStorageClass calls the opposite a reconcile loop the tenant
\* has no way out of.
Reapplied ==
    \A ns \in Spellings :
        LET v == TenantView(stored, ns)
            old == StorageView(stored, ns)
        IN  UpdateAnswer(v, old) = "none" /\ ImmutableKept(Updated(v, old), stored)

ReapplyAccepted ==
    stored # Absent /\ kind # "workload" /\ ~BackwardFails(kind, stored, Env) => Reapplied

\* The same of an object with a template, which the comment in
\* refuseUnpublishedEphemeralClasses promises.  It does not hold.
TemplateReapplyAccepted == stored # Absent /\ kind = "workload" => Reapplied

\* What is written back as it was read is stored as it was, if nothing has
\* changed in between: no conversion adds something at every round.
RewriteKeeps ==
    stored = Absent => \A o \in Manifests(kind) :
        CreateAnswer(o) = "none" =>
            LET s == Allocated(Created(o))
            IN  \A ns \in Spellings :
                    Updated(TenantView(s, ns), StorageView(s, ns)) = s

\* An access review asks about what a request of the tenant would reach: about
\* the subjects its bindings name, in either spelling, and about the group its
\* custom resources are in.  The comment on AccessReviewTransformer has the
\* opposite: "answered no while the very same create succeeded".
ReviewAgrees ==
    /\ stored # Absent /\ kind = "binding" =>
        \A s \in wrote.subjects :
            /\ s.kind = "User" => ReviewSubject(s) \in stored.subjects
            /\ s.kind = "Accounts" => \A n \in Spellings :
                ReviewSubject([s EXCEPT !.name = n]) \in stored.subjects
            /\ s.kind = "ServiceAccount" /\ s.ns # Empty => \A n \in Spellings :
                ReviewSubject([s EXCEPT !.ns = n]) \in stored.subjects
    /\ stored # Absent /\ kind = "custom" /\ wrote.group \notin SharedGroups =>
        \A ns \in Spellings :
            ReviewAttributes([ns |-> ns, group |-> wrote.group])
                = [ns |-> stored.ns, group |-> stored.group]

\* A claim, or a template of one, names a class only if the platform has
\* offered it, also when it is written before the caches are filled.
OnlyOffered ==
    stored # Absent /\ kind \in {"claim", "workload"} =>
        /\ stored.class = Empty \/ "storage" \in static \/ "true" \in carried["storage"]
        /\ stored.vac = Empty \/ "true" \in carried["attributes"]

\* A class that has been offered all along is never refused for good: before
\* the caches are filled the tenant is told to retry, never that what it named
\* does not exist.
SteadyNotRefused ==
    stored = Absent /\ kind \in {"claim", "workload"} =>
        \A o \in Manifests(kind) :
            CreateAnswer(o) = "invalid" =>
                \/ o.class # Empty /\ "storage" \notin static /\ carried["storage"] # {"true"}
                \/ o.vac # Empty /\ carried["attributes"] # {"true"}

\* An ingress class that is published all along passes through, so an ingress
\* that names it is stored as it was written.  It does not hold: the set of
\* the ingress classes is asked before it has been filled.
PublishedPassesThrough ==
    stored # Absent /\ kind = "ingress" /\ wrote.class = ClassOf("ingress")
                    /\ carried["ingress"] = {"true"} =>
        stored.class = ClassOf("ingress")

\* A resolver that pods are pointed at, dnsPolicy None being without any
\* fallback, had that address and a ready endpoint at some time.
NameserverServed ==
    stored # Absent /\ kind \in {"pod", "workload"} /\ stored.dns # "default" =>
        stored.dns \in had.at \ {NoAddress} /\ had.ready

\* Once the platform leaves a suspension alone the front door follows it: a
\* suspended tenant writes nothing, one that is frozen, or suspended in a mode
\* that is not known, reads nothing, and one that is not suspended is let in.
SuspensionTakesHold ==
    <>[](/\ Allowed("write") <=> suspension = "none"
         /\ Allowed("read") <=> suspension \in {"none", "readonly"}
         /\ Allowed("exec") <=> suspension = "none"
         /\ Allowed("discovery"))

=============================================================================
