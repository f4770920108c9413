----------------------------- MODULE Conversions -----------------------------
(***************************************************************************)
(* The convertors of pkg/convert: what an object of a tenant becomes on    *)
(* its way upstream (Forward) and what the tenant is given back            *)
(* (Backward), for the kinds that refer to something outside themselves.   *)
(*                                                                         *)
(* A name is the sequence of its parts, so the prefix of the tenant is a   *)
(* first part and a name may carry it twice.  An object is a record of the *)
(* fields that are converted or judged.  What a convertor looks up besides *)
(* the object is the record env: the ingress classes that are visible, the *)
(* groups of the tenant's custom resource definitions as they are called   *)
(* upstream, and the nameserver of the tenant's resolver.                  *)
(***************************************************************************)
EXTENDS Naturals, Sequences

CONSTANT Tenant         \* the tenant's id

ASSUME TenantAssumption == Tenant \in STRING

Empty == <<>>           \* the name that is not given

NotGiven == "not given"   \* the empty string: a field that is left out
NoAddress == NotGiven     \* a clusterIP or nameserver that is not given

ClusterScoped == {"volume", "crd", "webhook", "namespace"}

Kinds ==
    {"claim", "ingress", "service", "pod", "workload", "role", "binding",
     "policy", "dependent", "event", "custom"} \cup ClusterScoped

----------------------------------------------------------------------------
(***************************************************************************)
(* Names                                                                   *)
(***************************************************************************)

AddTenantIDPrefix(n) == <<Tenant>> \o n

HasPrefix(n) == Len(n) > 1 /\ Head(n) = Tenant

TrimTenantIDPrefix(n) == IF HasPrefix(n) THEN Tail(n) ELSE n

\* A tenant may call a namespace by the name it has upstream.
UpstreamNamespace(n) ==
    IF n = Empty \/ HasPrefix(n) THEN n ELSE AddTenantIDPrefix(n)

Prefixed(n) == IF n = Empty THEN n ELSE AddTenantIDPrefix(n)

----------------------------------------------------------------------------
(***************************************************************************)
(* What is the same for every kind: the namespace of a namespaced object   *)
(* and the name, or generateName, of any other.                            *)
(***************************************************************************)

\* Variant of DefaultForward that prefixes a namespace in either spelling.
ForwardEither(kind, o) ==
    IF kind \in ClusterScoped
    THEN [o EXCEPT !.name = Prefixed(@), !.generate = Prefixed(@)]
    ELSE [o EXCEPT !.ns = Prefixed(@)]

DefaultForward(kind, o) ==
    IF kind \in ClusterScoped
    THEN [o EXCEPT !.name = Prefixed(@), !.generate = Prefixed(@)]
    ELSE [o EXCEPT !.ns = UpstreamNamespace(@)]

DefaultBackward(kind, o) ==
    IF kind \in ClusterScoped
    THEN [o EXCEPT !.name = TrimTenantIDPrefix(@), !.generate = TrimTenantIDPrefix(@)]
    ELSE [o EXCEPT !.ns = TrimTenantIDPrefix(@)]

----------------------------------------------------------------------------
(***************************************************************************)
(* References to other objects: the group of the object and, if it has no  *)
(* namespace, its name.  checkGroupKind knows the groups that are not      *)
(* custom and those of the tenant's definitions.  What it says of a kind   *)
(* that it knows is the scope of the reference, "none" if no kind is given.*)
(***************************************************************************)

NativeGroups == {Empty, <<"apps">>}

Known(r, env) == r.scope # "none" /\ r.group \in NativeGroups \cup env.groups

OwnerForward(r) ==
    [r EXCEPT !.name = IF r.scope = "Cluster" THEN Prefixed(@) ELSE @,
              !.group = IF @ \in NativeGroups THEN @ ELSE AddTenantIDPrefix(@)]

OwnerBackward(r) ==
    [r EXCEPT !.name = IF r.scope = "Cluster" THEN TrimTenantIDPrefix(@) ELSE @,
              !.group = IF @ \in NativeGroups THEN @ ELSE TrimTenantIDPrefix(@)]

\* What an owner is, an object reference may be of a kind that is not known.  It
\* is then converted by what it has, a namespace or a name.
ReferenceForward(r, env) ==
    CASE Known(OwnerForward(r), env) ->
            [OwnerForward(r) EXCEPT !.ns = IF r.scope = "Namespaced" THEN UpstreamNamespace(@) ELSE @]
      [] ~Known(OwnerForward(r), env) /\ r.ns # Empty -> [r EXCEPT !.ns = UpstreamNamespace(@)]
      [] ~Known(OwnerForward(r), env) /\ r.ns = Empty -> [r EXCEPT !.name = Prefixed(@)]

ReferenceBackward(r, env) ==
    CASE Known(r, env) ->
            [OwnerBackward(r) EXCEPT !.ns = IF r.scope = "Namespaced" THEN TrimTenantIDPrefix(@) ELSE @]
      [] ~Known(r, env) /\ r.ns # Empty -> [r EXCEPT !.ns = TrimTenantIDPrefix(@)]
      [] ~Known(r, env) /\ r.ns = Empty -> [r EXCEPT !.name = TrimTenantIDPrefix(@)]

\* Any kind may have owners.
OwnersForward(o) == [o EXCEPT !.owners = {OwnerForward(r) : r \in @}]

OwnersBackward(o) == [o EXCEPT !.owners = {OwnerBackward(r) : r \in @}]

\* An event is about an object, and its message, the set of the parts of the
\* names in it, is for the tenant to read.
EventForward(o, env) == [o EXCEPT !.about = ReferenceForward(@, env)]

EventBackward(o, env) ==
    [o EXCEPT !.about = ReferenceBackward(@, env),
              !.message = @ \ {Tenant}]

----------------------------------------------------------------------------
(***************************************************************************)
(* Custom resources: their group, unless it is one that the platform       *)
(* shares with every tenant.                                               *)
(***************************************************************************)

SharedGroups == {<<"shared">>}

UpstreamGroup(g) == IF g \in SharedGroups THEN g ELSE AddTenantIDPrefix(g)

CustomForward(o) == [o EXCEPT !.group = UpstreamGroup(@)]

CustomBackward(o) ==
    [o EXCEPT !.group = IF @ \in SharedGroups THEN @ ELSE TrimTenantIDPrefix(@)]

----------------------------------------------------------------------------
(***************************************************************************)
(* Namespace: it is labelled with its tenant and with the level its pods   *)
(* are held to.  Its name may not look like one that has the prefix.       *)
(***************************************************************************)

RefuseNamespace(o) == HasPrefix(o.name) \/ o.label \notin {NotGiven, Tenant}

NamespaceForward(o) == [o EXCEPT !.label = Tenant, !.level = "pinned"]

----------------------------------------------------------------------------
(***************************************************************************)
(* PersistentVolumeClaim: the volume it asks for, unless the controller    *)
(* chose it, and the namespace its data comes from.                        *)
(***************************************************************************)

ClaimForward(o) ==
    [o EXCEPT !.volume = IF o.bound THEN @ ELSE Prefixed(@),
              !.from = UpstreamNamespace(@)]

ClaimBackward(o) ==
    [o EXCEPT !.volume = IF o.bound THEN @ ELSE TrimTenantIDPrefix(@),
              !.from = TrimTenantIDPrefix(@)]

----------------------------------------------------------------------------
(***************************************************************************)
(* PersistentVolume: the claim it is reserved for.                         *)
(***************************************************************************)

SafeSources == {"csi", "nfs"}       \* with no reference to a Secret

UnsafeSources == {"csi with a secret", "hostPath"}

RefuseUnreservedPV(o) == o.claim.ns = Empty \/ o.claim.name = Empty

VolumeForward(o) == [o EXCEPT !.claim.ns = UpstreamNamespace(@)]

VolumeBackward(o) == [o EXCEPT !.claim.ns = TrimTenantIDPrefix(@)]

----------------------------------------------------------------------------
(***************************************************************************)
(* Ingress: its class, unless the platform publishes a class of that name. *)
(***************************************************************************)

\* Variant of IngressForward that leaves the class alone.
ForwardAsNamed(o, env) == o

IngressForward(o, env) ==
    [o EXCEPT !.class = IF @ \in env.ingress THEN @ ELSE Prefixed(@)]

IngressBackward(o, env) ==
    [o EXCEPT !.class = IF @ \in env.ingress THEN @ ELSE TrimTenantIDPrefix(@)]

----------------------------------------------------------------------------
(***************************************************************************)
(* Role and ClusterRole: the groups that are the tenant's own, and every   *)
(* resource name in both spellings.                                        *)
(***************************************************************************)

RuleForward(o, env) ==
    LET Up(g) == IF AddTenantIDPrefix(g) \in env.groups THEN AddTenantIDPrefix(g) ELSE g
    IN  [o EXCEPT !.groups = {Up(g) : g \in @},
                  !.names = @ \cup {AddTenantIDPrefix(n) : n \in @}]

\* Variant of RuleBackward that trims the groups that are the tenant's now.
BackwardByGroup(o, env) ==
    [o EXCEPT !.groups = {IF g \in env.groups THEN TrimTenantIDPrefix(g) ELSE g : g \in @},
              !.names = {n \in @ : ~HasPrefix(n)}]

RuleBackward(o, env) ==
    [o EXCEPT !.groups = {TrimTenantIDPrefix(g) : g \in @},
              !.names = {n \in @ : ~HasPrefix(n)}]

----------------------------------------------------------------------------
(***************************************************************************)
(* RoleBinding and ClusterRoleBinding: their subjects, and the ClusterRole *)
(* they refer to.  The group of a namespace's service accounts is of kind  *)
(* "Accounts" and has that namespace for its name.                         *)
(***************************************************************************)

SubjectForward(s) ==
    IF s.kind = "ServiceAccount"
    THEN [s EXCEPT !.ns = Prefixed(@)]
    ELSE [s EXCEPT !.name = Prefixed(@)]

\* Whether transformSubjectToTenant accepts the subject.
Attributable(s) ==
    CASE s.kind = "ServiceAccount" -> s.ns = Empty \/ HasPrefix(s.ns)
      [] s.kind \in {"User", "Accounts"} -> HasPrefix(s.name)
      [] s.kind = "Group" -> TRUE

SubjectBackward(s) ==
    IF s.kind = "ServiceAccount"
    THEN [s EXCEPT !.ns = TrimTenantIDPrefix(@)]
    ELSE [s EXCEPT !.name = TrimTenantIDPrefix(@)]

BindingForward(o) ==
    [o EXCEPT !.subjects = {SubjectForward(s) : s \in @},
              !.clusterRole = Prefixed(@)]

BindingBackward(o) ==
    [o EXCEPT !.subjects = {SubjectBackward(s) : s \in @},
              !.clusterRole = TrimTenantIDPrefix(@)]

----------------------------------------------------------------------------
(***************************************************************************)
(* Access reviews: the question of what a subject may do in a namespace    *)
(* and a group, asked in the tenant's terms.  It is not stored.            *)
(***************************************************************************)

\* Variant of ReviewSubject that knows one spelling of a namespace.
ReviewSubjectPrefixed(s) ==
    IF s.kind = "ServiceAccount"
    THEN [s EXCEPT !.ns = Prefixed(@)]
    ELSE [s EXCEPT !.name = Prefixed(@)]

\* forwardUsername and forwardGroup.  The group is the one of everybody.
ReviewSubject(s) ==
    CASE s.kind = "ServiceAccount" -> [s EXCEPT !.ns = UpstreamNamespace(@)]
      [] s.kind = "Accounts"       -> [s EXCEPT !.name = UpstreamNamespace(@)]
      [] s.kind = "User"           -> [s EXCEPT !.name = Prefixed(@)]
      [] s.kind = "Group"          -> s

\* forwardResourceAttributes.
ReviewAttributes(a) ==
    [a EXCEPT !.ns = UpstreamNamespace(@),
              !.group = IF @ \in NativeGroups THEN @ ELSE AddTenantIDPrefix(@)]

----------------------------------------------------------------------------
(***************************************************************************)
(* NetworkPolicy: the namespaces its peers are selected from.  The label   *)
(* of the tenant's namespaces is put on every namespace selector.          *)
(***************************************************************************)

PolicyForward(o) ==
    LET Confine(p) ==
            IF p.selects
            THEN [p EXCEPT !.name = UpstreamNamespace(@), !.confined = TRUE]
            ELSE p
    IN  [o EXCEPT !.peers = {Confine(p) : p \in @}]

PolicyBackward(o) ==
    LET Release(p) ==
            IF p.selects
            THEN [p EXCEPT !.name = TrimTenantIDPrefix(@), !.confined = FALSE]
            ELSE p
    IN  [o EXCEPT !.peers = {Release(p) : p \in @}]

----------------------------------------------------------------------------
(***************************************************************************)
(* Webhook configurations, and the conversion webhook of a definition: the *)
(* service that is called.  A webhook is confined to the tenant's          *)
(* namespaces and to namespaced objects, and stays so in what is read.     *)
(***************************************************************************)

WebhookForward(o) == [o EXCEPT !.service = Prefixed(@), !.confined = TRUE]

WebhookBackward(o) == [o EXCEPT !.service = TrimTenantIDPrefix(@)]

\* The name of a definition is its plural and its group.
CRDName(o) == <<o.plural>> \o o.group

CRDForward(o) ==
    LET up == [o EXCEPT !.group = AddTenantIDPrefix(@), !.service = Prefixed(@)]
    IN  [up EXCEPT !.name = CRDName(up)]

CRDBackward(o) ==
    LET down == [o EXCEPT !.group = TrimTenantIDPrefix(@),
                          !.service = TrimTenantIDPrefix(@)]
    IN  [down EXCEPT !.name = CRDName(down)]

----------------------------------------------------------------------------
(***************************************************************************)
(* Pods, and the objects that carry a template of one: the node pool, the  *)
(* namespace a pod believes it is in and the resolver it asks.             *)
(***************************************************************************)

Place(o) == [o EXCEPT !.pool = TRUE]

ProjectNamespace(o) == [o EXCEPT !.token = "tenant"]

SetTenantDNS(o, env) ==
    IF env.nameserver = NoAddress THEN o ELSE [o EXCEPT !.dns = env.nameserver]

TemplateForward(o, env) ==
    [SetTenantDNS(ProjectNamespace(Place(o)), env) EXCEPT !.node = NotGiven]

\* What could be changed in a live pod is set when it is created only.
PodForward(o, env) == o

\* What Create does to a pod besides.
CreatePod(o, env) == SetTenantDNS(ProjectNamespace(Place(o)), env)

----------------------------------------------------------------------------
(***************************************************************************)
(* Service: the address a tenant is shown is the one its data plane        *)
(* allocated, which is kept in an annotation.                              *)
(***************************************************************************)

\* TenantClusterIP: the address shown in the place of ip, if any.
Translated(o) == o.ip \notin {NoAddress, "None"} /\ o.ann \notin {NoAddress, o.ip}

ShowTenantClusterIP(o) == IF Translated(o) THEN [o EXCEPT !.ip = o.ann] ELSE o

\* RestoreUpstreamClusterIP accepts the address of o ...
AddressKept(o, old) ==
    \/ o.ip = old.ip
    \/ o.ip \notin {NoAddress, "None"} /\ Translated(old) /\ o.ip = old.ann

\* ... and puts the one upstream has in its place.
RestoreUpstreamClusterIP(o, old) == [o EXCEPT !.ip = old.ip]

----------------------------------------------------------------------------
(***************************************************************************)
(* NativeObjectConvertor: the convertor of a kind.                         *)
(***************************************************************************)

\* What a Forward refuses.
ForwardFails(kind, o, env) ==
    \/ kind = "dependent" /\ \E r \in o.owners : ~Known(OwnerForward(r), env)
    \/ kind = "volume" /\ (o.source \in UnsafeSources \/ RefuseUnreservedPV(o))
    \/ kind = "crd" /\ (o.name # CRDName(o) \/ o.url)
    \/ kind = "webhook" /\ o.url
    \/ kind = "namespace" /\ RefuseNamespace(o)

\* What a Backward refuses: the object cannot be read.
BackwardFails(kind, o, env) ==
    \/ kind = "dependent" /\ \E r \in o.owners : ~Known(r, env)
    \/ kind = "binding" /\ \E s \in o.subjects : ~Attributable(s)
    \/ kind = "crd" /\ ~HasPrefix(o.group)

Forward(kind, o, env) ==
    LET d == IF kind = "crd" THEN o ELSE DefaultForward(kind, o)
    IN  CASE kind = "claim"    -> ClaimForward(d)
          [] kind = "volume"   -> VolumeForward(d)
          [] kind = "ingress"  -> IngressForward(d, env)
          [] kind = "role"     -> RuleForward(d, env)
          [] kind = "binding"  -> BindingForward(d)
          [] kind = "policy"   -> PolicyForward(d)
          [] kind = "webhook"  -> WebhookForward(d)
          [] kind = "crd"      -> CRDForward(d)
          [] kind = "namespace" -> NamespaceForward(d)
          [] kind = "custom"   -> CustomForward(d)
          [] kind = "dependent" -> OwnersForward(d)
          [] kind = "event"    -> EventForward(d, env)
          [] kind = "workload" -> TemplateForward(d, env)
          [] kind = "pod"      -> PodForward(d, env)
          [] kind = "service"  -> d

Backward(kind, o, env) ==
    LET d == IF kind = "crd" THEN o ELSE DefaultBackward(kind, o)
    IN  CASE kind = "claim"    -> ClaimBackward(d)
          [] kind = "volume"   -> VolumeBackward(d)
          [] kind = "ingress"  -> IngressBackward(d, env)
          [] kind = "role"     -> RuleBackward(d, env)
          [] kind = "binding"  -> BindingBackward(d)
          [] kind = "policy"   -> PolicyBackward(d)
          [] kind = "webhook"  -> WebhookBackward(d)
          [] kind = "crd"      -> CRDBackward(d)
          [] kind = "custom"   -> CustomBackward(d)
          [] kind = "dependent" -> OwnersBackward(d)
          [] kind = "event"    -> EventBackward(d, env)
          [] kind \in {"workload", "pod", "service", "namespace"} -> d

=============================================================================
