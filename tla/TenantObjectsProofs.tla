------------------------- MODULE TenantObjectsProofs -------------------------
(***************************************************************************)
(* What a tenant writes stays within the tenant and is read as it was      *)
(* written, for every tenant, every set of addresses and any number of     *)
(* changes of the platform.                                                *)
(***************************************************************************)
EXTENDS ConversionProofs, TLAPS

----------------------------------------------------------------------------
(***************************************************************************)
(* A class that is offered all along                                       *)
(***************************************************************************)

\* A class that has been offered all along is never refused for good: before
\* the store is filled refuseUnpublishedClass says to retry, and from then on
\* the store has what the class carries or carried.
THEOREM SteadyClassNotRefused == Spec => []SteadyNotRefused
<1>1. CacheInv => SteadyNotRefused
  <2>. SUFFICES ASSUME CacheInv, kind \in {"claim", "workload"}, NEW o \in Manifests(kind),
                       CreateAnswer(o) = "invalid",
                       ~(o.class # Empty /\ "storage" \notin static /\ carried["storage"] # {"true"}),
                       ~(o.vac # Empty /\ carried["attributes"] # {"true"})
                PROVE  FALSE
    BY ZenonT(60) DEF SteadyNotRefused
  <2>1. /\ InvalidIf(ForwardFails(kind, o, Env)) # "invalid"
        /\ RefuseTenantChosenNode(o) # "invalid" /\ RefuseExternalNameService(o) # "invalid"
        /\ RefuseNewExternalIPs(o, Absent) # "invalid" /\ RefuseNodePorts(o, Absent) # "invalid"
        /\ RefuseForeignClusterIP(o, Absent) # "invalid"
    BY ZenonT(60) DEF InvalidIf, ForwardFails, RefuseTenantChosenNode, RefuseExternalNameService,
           RefuseNewExternalIPs, RefuseNodePorts, RefuseForeignClusterIP
  <2>2. o.class \in {Empty, ClassOf("storage")} /\ o.vac \in {Empty, ClassOf("attributes")}
    BY ZenonT(60) DEF Manifests, Optional
  <2>3. "storage" \in Sets /\ "attributes" \in Sets /\ "attributes" \notin static
    BY DEF Sets, CacheInv
  <2>4. RefuseUnpublishedClass("storage", o.class) # "invalid"
    BY Zenon, <2>2, <2>3, OfferFacts
  <2>5. RefuseUnpublishedClass("attributes", o.vac) # "invalid"
    BY Zenon, <2>2, <2>3, OfferFacts
  <2>6. "none" # "invalid"
    OBVIOUS
  <2>7. /\ RefuseUnpublishedStorageClass(o) # "invalid"
        /\ RefuseUnpublishedVolumeAttributesClass(o, Absent) # "invalid"
        /\ RefuseUnpublishedEphemeralClasses(o, Absent) # "invalid"
    BY Zenon, <2>4, <2>5, <2>6 DEF RefuseUnpublishedStorageClass,
       RefuseUnpublishedVolumeAttributesClass, RefuseUnpublishedEphemeralClasses
  <2>. QED  BY Zenon, <2>1, <2>7, CreateFacts
<1>2. CacheInv /\ [Next]_vars => CacheInv'
  BY Zenon, CacheNext
<1>. QED  BY <1>1, <1>2, CacheInit, PTL DEF Spec

----------------------------------------------------------------------------
(***************************************************************************)
(* The object                                                              *)
(***************************************************************************)

\* What a tenant owns of an object.
OwnOf(k, o) == [f \in Owned[k] |-> o[f]]

\* The object is one of those upstream, and w is what its tenant should read of
\* it.
Written(k, s, w) ==
    /\ s \in UpstreamOf(k)
    /\ k # "event" => \A e \in Envs : OwnOf(k, Backward(k, s, e)) = w
    /\ k = "event" => w = [about |-> RefView(s.about), message |-> {"ns"}]

\* What is stored reads as what was written last.
ObjectInv == stored # Absent => Written(kind, stored, wrote)

\* What a tenant owns of an object is a matter of the fields it owns.
LEMMA OwnFacts ==
    /\ \A o : Own(o) = OwnOf(kind, o)
    /\ \A k, a, b : (\A f \in Owned[k] : a[f] = b[f]) => OwnOf(k, a) = OwnOf(k, b)
<1>1. ASSUME NEW k, NEW a, NEW b, \A f \in Owned[k] : a[f] = b[f] PROVE OwnOf(k, a) = OwnOf(k, b)
  BY Zenon, <1>1 DEF OwnOf
<1>. QED  BY Zenon, <1>1 DEF Own, OwnOf

\* What the tenant of an event decides.
LEMMA EventOwn ==
    \A o :
        OwnOf("event", o) = [about |-> o.about, message |-> o.message]
<1>. TAKE o
<1>1. Owned["event"] = {"about", "message"}
  BY ZenonT(60) DEF Owned
<1>2. [f \in {"about", "message"} |-> o[f]] = [about |-> o.about, message |-> o.message]
  OBVIOUS
<1>. QED  BY ZenonT(60), <1>1, <1>2 DEF OwnOf

\* What is sent upstream is read as it was written.
LEMMA SentWritten ==
    \A k \in Kinds : \A o \in DraftsOf(k), e \in Envs :
    ~ForwardFails(k, o, e) /\ (k = "event" => o.about.group # OwnGroupUpstream) =>
        Written(k, Forward(k, o, e), OwnOf(k, o))
<1>. TAKE k \in Kinds
<1>. TAKE o \in DraftsOf(k), e \in Envs
<1>. HAVE ~ForwardFails(k, o, e) /\ (k = "event" => o.about.group # OwnGroupUpstream)
<1>1. Forward(k, o, e) \in UpstreamOf(k)
  BY Zenon, KindConversion DEF Mapped
<1>2. ASSUME k # "event", NEW d \in Envs PROVE OwnOf(k, Backward(k, Forward(k, o, e), d)) = OwnOf(k, o)
  <2>1. \A f \in Owned[k] : Backward(k, Forward(k, o, e), d)[f] = o[f]
    <3>1. Converted(k, DraftsOf(k), UpstreamOf(k))
      <4>1. k \in Kinds \ {"event"}
        BY Zenon, <1>2
      <4>. QED  BY Zenon, <4>1, KindConversion
    <3>. QED  BY Zenon, <3>1, <1>2 DEF Converted
  <2>. QED  BY Zenon, <2>1, OwnFacts
<1>3. ASSUME k = "event"
      PROVE  OwnOf(k, o) = [about |-> RefView(Forward(k, o, e).about), message |-> {"ns"}]
  <2>1. o \in EventDrafts
    BY Zenon, <1>3, KindFacts
  <2>2. o.about \in RefDrafts /\ o.message = {"ns"}
    BY <2>1 DEF EventDrafts
  <2>3. Forward("event", o, e).about = ReferenceForward(o.about, e)
    BY <2>1, EventConversion
  <2>4. RefView(ReferenceForward(o.about, e)) = RefPlain(o.about)
    BY Zenon, <2>2, RefFacts
  <2>5. RefPlain(o.about) = o.about
    <3>1. RefGroupPlain(o.about.group) = o.about.group
      BY Zenon, <1>3 DEF RefGroupPlain
    <3>. QED  BY <2>2, <3>1 DEF RefPlain, RefDrafts, RefRecords
  <2>. QED  BY ZenonT(60), <1>3, <2>2, <2>3, <2>4, <2>5, EventOwn
<1>. QED  BY Zenon, <1>1, <1>2, <1>3 DEF Written

\* A Service as it is shown differs from the stored one at most in its address.
LEMMA ShownFacts ==
    \A v \in ServiceDrafts :
        /\ ShowTenantClusterIP(v) \in ServiceDrafts
        /\ ShowTenantClusterIP(v) \in
             [ns : {v.ns}, type : {v.type}, ports : {v.ports}, ips : {v.ips},
              ip : {IF Translated(v) THEN v.ann ELSE v.ip}, ann : {v.ann}]
<1>. TAKE v \in ServiceDrafts
<1>1. CASE Translated(v)
  <2>1. ShowTenantClusterIP(v) = [v EXCEPT !.ip = v.ann]
    BY Zenon, <1>1 DEF ShowTenantClusterIP
  <2>2. (IF Translated(v) THEN v.ann ELSE v.ip) = v.ann
    BY ZenonT(60), <1>1
  <2>. QED  BY <2>1, <2>2 DEF ServiceDrafts, ServiceIPs
<1>2. CASE ~Translated(v)
  <2>1. ShowTenantClusterIP(v) = v
    BY Zenon, <1>2 DEF ShowTenantClusterIP
  <2>2. (IF Translated(v) THEN v.ann ELSE v.ip) = v.ip
    BY Zenon, <1>2
  <2>. QED  BY <2>1, <2>2 DEF ServiceDrafts
<1>. QED  BY Zenon, <1>1, <1>2

\* What a tenant reads and what an update is made of.
LEMMA ViewFacts ==
    CacheInv => \A s \in UpstreamOf(kind), ns \in Spellings :
        /\ Backward(kind, s, Env) \in DraftsOf(kind)
        /\ StorageView(s, ns) = Respelled(kind, Backward(kind, s, Env), ns)
        /\ kind # "service" => TenantView(s, ns) = StorageView(s, ns)
        /\ kind = "service" =>
             TenantView(s, ns) = Respelled(kind, ShowTenantClusterIP(Backward(kind, s, Env)), ns)
        /\ TenantView(s, ns) \in DraftsOf(kind) /\ StorageView(s, ns) \in DraftsOf(kind)
        /\ \A f \in Owned[kind] : TenantView(s, ns)[f] = Backward(kind, s, Env)[f]
        /\ kind \notin ClusterScoped => TenantView(s, ns).ns = ns
\* echoRequestNamespace gives the namespace as the caller spelled it.
<1>EchoFacts. kind \in Kinds => \A v \in DraftsOf(kind), ns \in Spellings :
                  EchoNamespace(v, ns) = Respelled(kind, v, ns)
  <2>. HAVE kind \in Kinds
  <2>. TAKE v \in DraftsOf(kind), ns \in Spellings
  <2>1. CASE kind \in ClusterScoped
    BY Zenon, <2>1 DEF EchoNamespace, Respelled
  <2>2. CASE kind \notin ClusterScoped
    <3>1. v.ns \in Spellings
      BY Zenon, <2>2, RespelledFacts
    <3>2. UpstreamNamespace(v.ns) = UpstreamNamespace(ns)
      BY Zenon, <3>1, SpellingFacts
    <3>. QED  BY Zenon, <2>2, <3>2 DEF EchoNamespace, Respelled
  <2>. QED  BY Zenon, <2>1, <2>2
<1>. HAVE CacheInv
<1>. TAKE s \in UpstreamOf(kind), ns \in Spellings
<1>0. kind \in Kinds /\ Env \in Envs
  BY Zenon, EnvFacts DEF CacheInv
<1>. PICK b : b = Backward(kind, s, Env)
  BY Zenon
<1>1. b \in DraftsOf(kind)
  BY Zenon, <1>0, KindConversion DEF Mapped
<1>2. StorageView(s, ns) = Respelled(kind, b, ns)
  BY ZenonT(60), <1>0, <1>1, <1>EchoFacts DEF StorageView
<1>3. StorageView(s, ns) \in DraftsOf(kind)
  BY ZenonT(60), <1>0, <1>1, <1>2, RespelledFacts
<1>4. CASE kind # "service"
  <2>1. TenantView(s, ns) = StorageView(s, ns)
    BY Zenon, <1>4 DEF TenantView, StorageView
  <2>2. \A f \in Owned[kind] : Respelled(kind, b, ns)[f] = b[f]
    BY ZenonT(60), <1>0, <1>1, RespelledFacts
  <2>3. kind \notin ClusterScoped => Respelled(kind, b, ns).ns = ns
    BY ZenonT(60), <1>0, <1>1, RespelledFacts
  <2>. QED  BY ZenonT(60), <1>1, <1>2, <1>3, <1>4, <2>1, <2>2, <2>3
<1>5. CASE kind = "service"
  <2>. PICK c : c = ShowTenantClusterIP(b)
    OBVIOUS
  <2>1. b \in ServiceDrafts /\ DraftsOf(kind) = ServiceDrafts
    BY ZenonT(60), <1>1, <1>5, KindFacts
  <2>2. c \in DraftsOf(kind)
    BY ZenonT(60), <2>1, ShownFacts
  <2>3. c.type = b.type /\ c.ports = b.ports /\ c.ips = b.ips
    BY <2>1, ShownFacts
  <2>4. TenantView(s, ns) = Respelled(kind, c, ns)
    BY ZenonT(60), <1>0, <1>5, <2>2, <1>EchoFacts DEF TenantView
  <2>5. Respelled(kind, c, ns) \in DraftsOf(kind)
    BY ZenonT(60), <1>0, <2>2, RespelledFacts
  <2>6. \A f \in Owned[kind] : Respelled(kind, c, ns)[f] = c[f]
    BY ZenonT(60), <1>0, <2>2, RespelledFacts
  <2>7. \A f \in Owned[kind] : c[f] = b[f]
    BY ZenonT(60), <1>5, <2>3 DEF Owned
  <2>8. kind \notin ClusterScoped => Respelled(kind, c, ns).ns = ns
    BY ZenonT(60), <1>0, <2>2, RespelledFacts
  <2>. QED  BY ZenonT(60), <1>1, <1>2, <1>3, <1>5, <2>4, <2>5, <2>6, <2>7, <2>8
<1>. QED  BY Zenon, <1>4, <1>5

\* A put of what was read sends what the conversion makes of it: the address
\* that a Service was shown with is replaced by the one upstream has.
LEMMA PutBack ==
    CacheInv => \A s \in UpstreamOf(kind), ns \in Spellings :
        Updated(TenantView(s, ns), StorageView(s, ns))
          = Forward(kind, Respelled(kind, Backward(kind, s, Env), ns), Env)
<1>. HAVE CacheInv
<1>. TAKE s \in UpstreamOf(kind), ns \in Spellings
<1>01. PICK b : b = Backward(kind, s, Env)
  BY Zenon
<1>02. kind \in Kinds
  BY Zenon DEF CacheInv
<1>1. b \in DraftsOf(kind) /\ StorageView(s, ns) = Respelled(kind, b, ns)
  BY Zenon, <1>01, ViewFacts
<1>2. CASE kind # "service"
  BY ZenonT(60), <1>01, <1>1, <1>2, ViewFacts DEF Updated
<1>3. CASE kind = "service"
  <2>01. PICK c : c = ShowTenantClusterIP(b)
    BY Zenon
  <2>1. b \in ServiceDrafts /\ c \in ServiceDrafts
    BY ZenonT(60), <1>1, <1>3, <2>01, KindFacts, ShownFacts
  <2>2. "service" \notin ClusterScoped
    BY DEF ClusterScoped
  <2>3. /\ TenantView(s, ns) = [c EXCEPT !.ns = ns]
        /\ StorageView(s, ns) = [b EXCEPT !.ns = ns]
        /\ Respelled(kind, b, ns) = [b EXCEPT !.ns = ns]
    BY ZenonT(60), <1>01, <1>1, <1>3, <2>01, <2>2, ViewFacts DEF Respelled
  <2>4. c.type = b.type /\ c.ports = b.ports /\ c.ips = b.ips /\ c.ann = b.ann
    BY <2>1, <2>01, ShownFacts
  <2>5. RestoreUpstreamClusterIP([c EXCEPT !.ns = ns], [b EXCEPT !.ns = ns]) = [b EXCEPT !.ns = ns]
    BY ZenonT(60), <2>1, <2>4 DEF RestoreUpstreamClusterIP, ServiceDrafts
  <2>. QED  BY ZenonT(60), <1>01, <1>3, <2>3, <2>5 DEF Updated
<1>. QED  BY Zenon, <1>2, <1>3

\* The volumes with the given fields; there is one.
VolumeWith(a, b, c, d, f) ==
    [name : {a}, generate : {b}, source : {c}, claim : [ns : {d}, name : {f}]]

\* The name that the server makes of generateName is the one of the tenant with
\* the prefix.
LEMMA NamedFacts ==
    kind = "volume" => \A o \in VolumeDrafts : o.name # Empty \/ o.generate # Empty => \A e :
        /\ Named(o) \in VolumeDrafts /\ Named(o).name # Empty
        /\ Named(o).source = o.source /\ Named(o).claim = o.claim
        /\ Named(Forward("volume", o, e)) = Forward("volume", Named(o), e)
\* A volume is determined by its fields.
<1>SameVolume. \A a, b, c, d, f : \A x \in VolumeWith(a, b, c, d, f), y \in VolumeWith(a, b, c, d, f) :
                   x = y
  <2>. TAKE a, b, c, d, f
  <2>. TAKE x \in VolumeWith(a, b, c, d, f), y \in VolumeWith(a, b, c, d, f)
  <2>1. x.claim = y.claim
    <3>1. x.claim \in [ns : {d}, name : {f}] /\ y.claim \in [ns : {d}, name : {f}]
      BY DEF VolumeWith
    <3>. QED  BY <3>1
  <2>01. PICK C : C = [ns : {d}, name : {f}]
    BY ZenonT(60)
  <2>2. /\ x \in [name : {a}, generate : {b}, source : {c}, claim : C]
        /\ y \in [name : {a}, generate : {b}, source : {c}, claim : C]
    BY Zenon, <2>01 DEF VolumeWith
  <2>. QED  BY <2>1, <2>2
<1>. HAVE kind = "volume"
<1>. TAKE o \in VolumeDrafts
<1>. HAVE o.name # Empty \/ o.generate # Empty
<1>. TAKE e
<1>01. PICK u : u = Forward("volume", o, e)
  BY Zenon
<1>02. PICK m : m = o.generate \o <<"1">>
  BY Zenon
<1>03. PICK g, t, l : g = o.generate /\ t = <<Tenant>> /\ l = <<"1">>
  BY Zenon
<1>1. /\ u \in [name : {Prefixed(o.name)}, generate : {Prefixed(o.generate)}, source : {o.source},
                claim : [ns : {Prefixed(o.claim.ns)}, name : {o.claim.name}]]
      /\ o.name \in Names /\ o.generate \in Names
  <2>1. o.name \in Names /\ o.generate \in Names
    BY DEF VolumeDrafts
  <2>. QED  BY ZenonT(60), <2>1, <1>01, VolumeConversion
<1>2. CASE o.name # Empty
  <2>1. Named(o) = o
    BY ZenonT(60), <1>2 DEF Named
  <2>2. u.name # Empty
    <3>1. u.name = Prefixed(o.name)
      BY <1>1
    <3>. QED  BY ZenonT(60), <1>1, <1>2, <3>1, UpstreamFacts
  <2>3. Named(u) = u
    BY Zenon, <2>2 DEF Named
  <2>. QED  BY ZenonT(60), <1>01, <1>2, <2>1, <2>3
<1>3. CASE o.name = Empty
  <2>1. o.generate # Empty
    BY Zenon, <1>3
  <2>2. <<"1">> \in Names /\ <<"1">> # Empty
    <3>1. "1" \in Words
      BY Zenon, WordFacts
    <3>. QED  BY Zenon, <3>1, WordNames
  <2>3. m \in Names /\ m # Empty
    <3>1. m \in Names
      BY ZenonT(60), <1>1, <1>02, <2>2, JoinedFacts DEF Names
    <3>2. m = Empty => o.generate = Empty
      <4>1. g \in Seq(Words) /\ l \in Seq(Words)
        BY ZenonT(60), <1>1, <1>03, <2>2 DEF Names
      <4>2. g \o l = << >> => g = << >>
        BY <4>1, JoinedFacts
      <4>. QED  BY ZenonT(60), <1>02, <1>03, <4>2 DEF Empty
    <3>. QED  BY ZenonT(60), <2>1, <3>1, <3>2
  <2>4. Named(o) = [o EXCEPT !.name = m]
    BY Zenon, <1>02, <1>3 DEF Named
  <2>5. /\ Named(o) \in VolumeDrafts /\ Named(o).name = m /\ Named(o).generate = o.generate
        /\ Named(o).source = o.source /\ Named(o).claim = o.claim
    BY <2>3, <2>4 DEF VolumeDrafts
  <2>6. u.name = Empty /\ u.generate = Prefixed(o.generate)
    <3>1. u.name = Prefixed(o.name) /\ u.generate = Prefixed(o.generate)
      BY <1>1
    <3>. QED  BY ZenonT(60), <1>3, <3>1, EmptyFacts
  <2>7. u.generate \o <<"1">> = Prefixed(m)
    <3>1. Prefixed(o.generate) = <<Tenant>> \o o.generate /\ Prefixed(m) = <<Tenant>> \o m
      BY ZenonT(60), <2>1, <2>3 DEF Prefixed, AddTenantIDPrefix
    <3>2. <<Tenant>> \in Names
      <4>1. Tenant \in Words
        BY Zenon, WordFacts
      <4>. QED  BY Zenon, <4>1, WordNames
    <3>3. (<<Tenant>> \o o.generate) \o <<"1">> = <<Tenant>> \o (o.generate \o <<"1">>)
      <4>1. t \in Seq(Words) /\ g \in Seq(Words) /\ l \in Seq(Words)
        BY ZenonT(60), <1>1, <1>03, <2>2, <3>2 DEF Names
      <4>2. (t \o g) \o l = t \o (g \o l)
        BY SMTT(60), <4>1, JoinedFacts
      <4>. QED  BY ZenonT(60), <1>03, <4>2
    <3>. QED  BY ZenonT(60), <1>02, <2>6, <3>1, <3>3
  <2>8. Named(u) = [u EXCEPT !.name = Prefixed(m)]
    BY Zenon, <2>6, <2>7 DEF Named
  <2>9. Named(u) \in [name : {Prefixed(m)}, generate : {Prefixed(o.generate)}, source : {o.source},
                      claim : [ns : {Prefixed(o.claim.ns)}, name : {o.claim.name}]]
    BY <1>1, <2>8
  <2>10. Forward("volume", Named(o), e) \in
            [name : {Prefixed(m)}, generate : {Prefixed(o.generate)}, source : {o.source},
             claim : [ns : {Prefixed(o.claim.ns)}, name : {o.claim.name}]]
    BY ZenonT(60), <2>5, VolumeConversion
  <2>11. Named(u) = Forward("volume", Named(o), e)
    <3>1. /\ Named(u) \in VolumeWith(Prefixed(m), Prefixed(o.generate), o.source,
                                    Prefixed(o.claim.ns), o.claim.name)
          /\ Forward("volume", Named(o), e) \in
                VolumeWith(Prefixed(m), Prefixed(o.generate), o.source,
                           Prefixed(o.claim.ns), o.claim.name)
      BY ZenonT(60), <2>9, <2>10 DEF VolumeWith
    <3>. QED  BY ZenonT(60), <3>1, <1>SameVolume
  <2>. QED  BY ZenonT(60), <1>01, <2>3, <2>5, <2>11
<1>. QED  BY Zenon, <1>2, <1>3

\* A Service that is accepted has an address, and is otherwise as it was sent.
LEMMA ServiceCreated ==
    kind = "service" => \A o \in ServiceDrafts, e \in Envs : Env = e =>
        /\ Allocated(Created(o)) \in ServicesUpstream
        /\ Allocated(Created(o)).type = o.type
        /\ Written("service", Allocated(Created(o)), OwnOf("service", o))
<1>. HAVE kind = "service"
<1>. TAKE o \in ServiceDrafts, e \in Envs
<1>. HAVE Env = e
<1>01. PICK u : u = Forward("service", o, e)
  BY Zenon
<1>02. PICK s : s = Allocated(u)
  BY Zenon
<1>1. u \in [ns : {<<Tenant, "ns">>}, type : {o.type}, ports : {o.ports}, ips : {o.ips},
             ip : {o.ip}, ann : {o.ann}]
  BY Zenon, <1>01, ServiceConversion
<1>2. Created(o) = u
  BY ZenonT(60), <1>01 DEF Created
<1>3. s \in ServicesUpstream /\ s.type = o.type /\ s.ports = o.ports /\ s.ips = o.ips
  <2>1. CASE o.ip = NoAddress
    <3>1. s = [u EXCEPT !.ip = "upstream"]
      <4>1. u.ip = NoAddress
        BY SMTT(60), <1>1, <2>1
      <4>. QED  BY ZenonT(60), <1>02, <4>1 DEF Allocated
    <3>. QED  BY <1>1, <3>1 DEF ServicesUpstream, ServiceDrafts, ServiceIPs
  <2>2. CASE o.ip # NoAddress
    <3>1. s = u
      <4>1. u.ip # NoAddress
        BY <1>1, <2>2
      <4>. QED  BY ZenonT(60), <1>02, <4>1 DEF Allocated, Named
    <3>. QED  BY <1>1, <3>1 DEF ServicesUpstream, ServiceDrafts
  <2>. QED  BY ZenonT(60), <2>1, <2>2
<1>4. ASSUME NEW d \in Envs PROVE OwnOf("service", Backward("service", s, d)) = OwnOf("service", o)
  <2>1. Backward("service", s, d) \in
          [ns : {<<"ns">>}, type : {s.type}, ports : {s.ports}, ips : {s.ips}, ip : {s.ip}, ann : {s.ann}]
    BY ZenonT(60), <1>3, ServiceConversion
  <2>2. \A f \in Owned["service"] : Backward("service", s, d)[f] = o[f]
    BY ZenonT(60), <1>3, <2>1 DEF Owned
  <2>. QED  BY ZenonT(60), <2>2, OwnFacts
<1>5. s \in UpstreamOf("service") /\ "service" # "event"
  BY <1>3, KindFacts
<1>. QED  BY ZenonT(60), <1>02, <1>2, <1>3, <1>4, <1>5 DEF Written

\* A pod that is created is placed, sees the tenant's namespace and asks the
\* tenant's resolver, if there is one.
LEMMA PodCreated ==
    kind = "pod" => \A o \in PodDrafts, e \in Envs : Env = e =>
        /\ Allocated(Created(o)) \in
             [ns : {<<Tenant, "ns">>}, node : {o.node}, pool : {TRUE}, token : {"tenant"},
              dns : {DNSUp(o.dns, e)}]
        /\ Allocated(Created(o)) \in PodsUpstream
        /\ Written("pod", Allocated(Created(o)), OwnOf("pod", o))
<1>. HAVE kind = "pod"
<1>. TAKE o \in PodDrafts, e \in Envs
<1>. HAVE Env = e
<1>01. PICK u : u = Forward("pod", o, e)
  BY Zenon
<1>02. PICK s : s = CreatePod(u, e)
  BY Zenon
<1>03. PICK t : t = TRUE
  BY ZenonT(60)
<1>1. u \in [ns : {<<Tenant, "ns">>}, node : {o.node}, pool : {o.pool}, token : {o.token}, dns : {o.dns}]
  BY Zenon, <1>01, PodConversion
<1>2. Allocated(Created(o)) = s
  <2>1. Created(o) = s
    BY Zenon, <1>01, <1>02 DEF Created
  <2>. QED  BY <2>1 DEF Allocated, Named
<1>3. ProjectNamespace(Place(u)) \in
        [ns : {<<Tenant, "ns">>}, node : {o.node}, pool : {t}, token : {"tenant"}, dns : {o.dns}]
  BY ZenonT(60), <1>1, <1>03 DEF ProjectNamespace, Place
<1>4. s \in [ns : {<<Tenant, "ns">>}, node : {o.node}, pool : {t}, token : {"tenant"}, dns : {DNSUp(o.dns, e)}]
  BY <1>02, <1>3 DEF CreatePod, SetTenantDNS, DNSUp
<1>5. DNSUp(o.dns, e) \in Addresses \cup {"default"} /\ o.node \in {NotGiven, "node"}
  <2>1. e.nameserver \in Addresses \cup {NoAddress} /\ o.dns \in Addresses \cup {"default"}
    BY SMTT(60) DEF Envs, PodDrafts
  <2>. QED  BY <2>1 DEF DNSUp, PodDrafts
<1>6. s \in PodsUpstream
  BY ZenonT(60), <1>03, <1>4, <1>5 DEF PodsUpstream
<1>7. ASSUME NEW d \in Envs PROVE OwnOf("pod", Backward("pod", s, d)) = OwnOf("pod", o)
  <2>1. Owned["pod"] = {}
    BY DEF Owned
  <2>. QED  BY Zenon, <2>1, OwnFacts
<1>8. s \in UpstreamOf("pod") /\ "pod" # "event"
  BY <1>6, KindFacts
<1>. QED  BY ZenonT(60), <1>03, <1>2, <1>4, <1>6, <1>7, <1>8 DEF Written

\* What a create leaves upstream is read as the tenant wrote it, and is what a
\* conversion makes of a draft, except for what was added to a Service and a
\* pod.
LEMMA CreateWritten ==
    CacheInv => \A o \in Manifests(kind) : CreateAnswer(o) = "none" =>
        /\ Written(kind, Allocated(Created(o)), OwnOf(kind, Named(o)))
        /\ kind \notin {"service", "pod"} =>
             \E d \in DraftsOf(kind) :
                 /\ ~ForwardFails(kind, d, Env)
                 /\ Allocated(Created(o)) = Forward(kind, d, Env)
                 /\ kind # "volume" => d = o
                 /\ kind = "volume" => d.name # Empty
<1>. HAVE CacheInv
<1>. TAKE o \in Manifests(kind)
<1>. HAVE CreateAnswer(o) = "none"
<1>0. kind \in Kinds /\ Env \in Envs /\ ~ForwardFails(kind, o, Env) /\ o \in DraftsOf(kind)
  <2>1. kind \in Kinds
    BY Zenon DEF CacheInv
  <2>2. Manifests(kind) \subseteq DraftsOf(kind)
    BY Zenon, <2>1, KindConversion DEF Mapped
  <2>. QED  BY ZenonT(60), <2>1, <2>2, EnvFacts, CreateFacts
<1>1. CASE kind = "service"
  <2>1. o \in ServiceDrafts
    BY ZenonT(60), <1>0, <1>1, KindFacts
  <2>2. Named(o) = o
    BY <1>1 DEF Named
  <2>. QED  BY ZenonT(60), <1>0, <1>1, <2>1, <2>2, ServiceCreated
<1>2. CASE kind = "pod"
  <2>1. o \in PodDrafts
    BY ZenonT(60), <1>0, <1>2, KindFacts
  <2>2. Named(o) = o
    BY <1>2 DEF Named
  <2>. QED  BY ZenonT(60), <1>0, <1>2, <2>1, <2>2, PodCreated
<1>3. CASE kind = "volume"
  <2>1. o \in VolumeDrafts /\ "volume" \notin {"service", "pod", "event"}
    BY SMTT(60), <1>0, <1>3, KindFacts
  <2>2. o.name # Empty \/ o.generate # Empty
    BY <1>3 DEF Manifests
  <2>3. /\ Named(o) \in DraftsOf(kind) /\ Named(o).name # Empty
        /\ Named(o).source = o.source /\ Named(o).claim = o.claim
        /\ Named(Forward(kind, o, Env)) = Forward(kind, Named(o), Env)
    BY ZenonT(60), <1>3, <2>1, <2>2, NamedFacts, KindFacts
  <2>4. Allocated(Created(o)) = Named(Forward(kind, o, Env))
    BY SMTT(60), <1>3 DEF Allocated, Created
  <2>5. ~ForwardFails(kind, Named(o), Env)
    BY ZenonT(60), <1>0, <1>3, <2>3 DEF ForwardFails, RefuseUnreservedPV
  <2>6. Written(kind, Forward(kind, Named(o), Env), OwnOf(kind, Named(o)))
    BY ZenonT(60), <1>0, <1>3, <2>1, <2>3, <2>5, SentWritten
  <2>. QED  BY ZenonT(60), <1>3, <2>3, <2>4, <2>5, <2>6
<1>4. CASE kind \notin {"service", "pod", "volume"}
  <2>1. Named(o) = o /\ Allocated(Created(o)) = Forward(kind, o, Env)
    BY <1>4 DEF Named, Allocated, Created
  <2>2. ASSUME kind = "event" PROVE o.about.group # OwnGroupUpstream
    <3>1. o.about \in References
      BY SMTT(60), <2>2 DEF Manifests
    <3>2. o.about.group \in {Empty, OwnGroup}
      BY <3>1 DEF References, OwnGroup
    <3>. QED  BY Zenon, <3>2, OwnGroupFacts
  <2>3. Written(kind, Forward(kind, o, Env), OwnOf(kind, o))
    BY ZenonT(60), <1>0, <2>2, SentWritten
  <2>. QED  BY ZenonT(60), <1>0, <1>4, <2>1, <2>3
<1>. QED  BY ZenonT(60), <1>1, <1>2, <1>3, <1>4

\* What an update may be of: a draft, which is either as it was read or has
\* what the tenant decides from a manifest.
LEMMA EditFacts ==
    CacheInv /\ stored \in UpstreamOf(kind) => \A o \in Edits :
        /\ o \in DraftsOf(kind)
        /\ \/ o = TenantView(stored, <<"ns">>)
           \/ \E m \in Manifests(kind) : \A f \in Owned[kind] : o[f] = m[f]
<1>. HAVE CacheInv /\ stored \in UpstreamOf(kind)
<1>. TAKE o \in Edits
<1>0. kind \in Kinds /\ <<"ns">> \in Spellings
  BY Zenon DEF CacheInv, Spellings
<1>01. PICK v : v = TenantView(stored, <<"ns">>)
  BY Zenon
<1>1. v \in DraftsOf(kind)
  BY ZenonT(60), <1>0, <1>01, ViewFacts
<1>2. CASE o = v
  BY ZenonT(60), <1>01, <1>1, <1>2
<1>3. CASE o # v
  <2>1. PICK m \in Manifests(kind), ip \in IF kind = "service" THEN {v.ip, stored.ip, "third", NoAddress}
                                           ELSE {NoAddress} : o = Edit(v, m, ip)
    BY <1>01, <1>3 DEF Edits
  <2>02. PICK e : e = Mixed(v, m, Owned[kind])
    BY Zenon
  <2>2. m \in DraftsOf(kind)
    BY Zenon, <1>0, KindConversion DEF Mapped
  <2>3. e \in DraftsOf(kind) /\ Owned[kind] \subseteq DOMAIN v
    BY ZenonT(60), <1>0, <1>1, <2>02, <2>2, KindConversion DEF Mapped
  <2>4. \A f \in Owned[kind] : e[f] = m[f]
    BY Zenon, <2>02, <2>3 DEF Mixed
  <2>5. CASE kind # "service"
    <3>1. o = e
      BY ZenonT(60), <2>1, <2>02, <2>5 DEF Edit, Mixed
    <3>. QED  BY Zenon, <2>3, <2>4, <3>1
  <2>6. CASE kind = "service"
    <3>1. o = [e EXCEPT !.ip = ip]
      BY ZenonT(60), <2>1, <2>02, <2>6 DEF Edit, Mixed
    <3>2. DraftsOf(kind) = ServiceDrafts /\ stored \in ServicesUpstream
      BY Zenon, <2>6, KindFacts
    <3>3. ip \in ServiceIPs
      <4>1. v.ip \in ServiceIPs /\ stored.ip \in ServiceIPs
        BY <1>1, <3>2 DEF ServiceDrafts, ServicesUpstream
      <4>2. ip = v.ip \/ ip = stored.ip \/ ip = "third" \/ ip = NoAddress
        BY Zenon, <2>6
      <4>3. "third" \in ServiceIPs /\ NoAddress \in ServiceIPs
        BY Zenon DEF ServiceIPs
      <4>. QED  BY ZenonT(60), <4>1, <4>2, <4>3
    <3>4. o \in ServiceDrafts /\ o.type = e.type /\ o.ports = e.ports /\ o.ips = e.ips
      BY SMTT(60), <2>3, <3>1, <3>2, <3>3 DEF ServiceDrafts
    <3>5. \A f \in Owned[kind] : o[f] = e[f]
      BY ZenonT(60), <2>6, <3>4 DEF Owned
    <3>. QED  BY ZenonT(60), <2>4, <3>2, <3>4, <3>5
  <2>. QED  BY ZenonT(60), <2>5, <2>6
<1>. QED  BY Zenon, <1>2, <1>3

\* What an update sends is converted from a draft with what the tenant decides.
LEMMA UpdateSent ==
    CacheInv /\ stored \in UpstreamOf(kind) => \A o \in DraftsOf(kind) :
    ~ForwardFails(kind, o, Env) =>
        \E d \in DraftsOf(kind) :
          /\ Updated(o, StorageView(stored, <<"ns">>)) = Forward(kind, d, Env)
          /\ ~ForwardFails(kind, d, Env)
          /\ \A f \in Owned[kind] : d[f] = o[f]
          /\ kind # "service" => d = o
<1>. HAVE CacheInv /\ stored \in UpstreamOf(kind)
<1>. TAKE o \in DraftsOf(kind)
<1>. HAVE ~ForwardFails(kind, o, Env)
<1>01. PICK old : old = StorageView(stored, <<"ns">>)
  BY Zenon
<1>1. CASE kind # "service"
  BY Zenon, <1>01, <1>1 DEF Updated
<1>2. CASE kind = "service"
  <2>01. PICK d : d = RestoreUpstreamClusterIP(o, old)
    BY Zenon
  <2>1. <<"ns">> \in Spellings
    BY Zenon DEF Spellings
  <2>2. old \in ServiceDrafts /\ o \in ServiceDrafts /\ DraftsOf(kind) = ServiceDrafts
    BY ZenonT(60), <1>01, <1>2, <2>1, ViewFacts, KindFacts
  <2>3. d \in ServiceDrafts /\ d.type = o.type /\ d.ports = o.ports /\ d.ips = o.ips
    BY SMTT(60), <2>01, <2>2 DEF RestoreUpstreamClusterIP, ServiceDrafts
  <2>4. \A f \in Owned[kind] : d[f] = o[f]
    BY SMTT(60), <1>2, <2>3 DEF Owned
  <2>5. ~ForwardFails(kind, d, Env)
    BY <1>2 DEF ForwardFails
  <2>. QED  BY ZenonT(60), <1>01, <1>2, <2>01, <2>2, <2>3, <2>4, <2>5 DEF Updated
<1>. QED  BY Zenon, <1>1, <1>2

\* A put of the tenant stores what the tenant then reads.
LEMMA UpdateWritten ==
    CacheInv /\ stored # Absent /\ Written(kind, stored, wrote) => \A o \in Edits :
    TenantUpdate(o) =>
        Written(kind, stored', wrote')
<1>. HAVE CacheInv /\ stored # Absent /\ Written(kind, stored, wrote)
<1>. TAKE o \in Edits
<1>. HAVE TenantUpdate(o)
<1>0. kind \in Kinds /\ <<"ns">> \in Spellings /\ Env \in Envs /\ stored \in UpstreamOf(kind)
  BY Zenon, EnvFacts DEF CacheInv, Spellings, Written
<1>01. PICK v : v = TenantView(stored, <<"ns">>)
  BY Zenon
<1>1. /\ ~ForwardFails(kind, o, Env)
      /\ stored' = Updated(o, StorageView(stored, <<"ns">>))
      /\ wrote' = IF OwnOf(kind, o) = OwnOf(kind, v) THEN wrote ELSE OwnOf(kind, o)
  BY Zenon, <1>01, UpdateFacts, OwnFacts DEF TenantUpdate
<1>2. o \in DraftsOf(kind) /\ (o = v \/ \E m \in Manifests(kind) : \A f \in Owned[kind] : o[f] = m[f])
  BY Zenon, <1>0, <1>01, EditFacts
<1>3. PICK d \in DraftsOf(kind) :
        /\ stored' = Forward(kind, d, Env) /\ ~ForwardFails(kind, d, Env)
        /\ \A f \in Owned[kind] : d[f] = o[f]
        /\ kind # "service" => d = o
  BY ZenonT(60), <1>0, <1>1, <1>2, UpdateSent
<1>4. \A f \in Owned[kind] : v[f] = Backward(kind, stored, Env)[f]
  BY Zenon, <1>0, <1>01, ViewFacts
<1>5. CASE kind # "event"
  <2>1. Written(kind, stored', OwnOf(kind, d))
    BY ZenonT(60), <1>0, <1>3, <1>5, SentWritten
  <2>2. OwnOf(kind, d) = OwnOf(kind, o)
    BY Zenon, <1>3, OwnFacts
  <2>3. OwnOf(kind, v) = wrote
    <3>1. OwnOf(kind, v) = OwnOf(kind, Backward(kind, stored, Env))
      BY Zenon, <1>4, OwnFacts
    <3>. QED  BY ZenonT(60), <1>0, <1>5, <3>1 DEF Written
  <2>4. wrote' = OwnOf(kind, o)
    BY Zenon, <1>1, <2>3
  <2>. QED  BY Zenon, <2>1, <2>2, <2>4
<1>6. CASE kind = "event"
  <2>1. d = o /\ o \in EventDrafts /\ stored \in EventsUpstream
    <3>1. "event" # "service"
      OBVIOUS
    <3>. QED  BY ZenonT(60), <1>0, <1>2, <1>3, <1>6, <3>1, KindFacts
  <2>2. o.about \in RefDrafts /\ o.message = {"ns"} /\ stored.about \in RefsUpstream
    BY <2>1 DEF EventDrafts, EventsUpstream
  <2>3. stored' \in UpstreamOf(kind)
    BY Zenon, <1>0, <1>3, KindConversion DEF Mapped
  <2>4. RefView(stored'.about) = RefPlain(o.about)
    <3>1. Forward("event", o, Env).about = ReferenceForward(o.about, Env)
      BY SMTT(60), <1>0, <2>1, EventConversion
    <3>. QED  BY ZenonT(60), <1>0, <1>3, <1>6, <2>1, <2>2, <3>1, RefFacts
  <2>5. wrote = [about |-> RefView(stored.about), message |-> {"ns"}]
    BY Zenon, <1>6 DEF Written
  <2>6. v.about = ReferenceBackward(stored.about, Env)
    <3>1. Backward("event", stored, Env).about = ReferenceBackward(stored.about, Env)
      BY SMTT(60), <1>0, <2>1, EventConversion
    <3>2. "about" \in Owned["event"]
      BY ZenonT(60) DEF Owned
    <3>. QED  BY ZenonT(60), <1>4, <1>6, <3>1, <3>2
  <2>7. RefPlain(v.about) = RefView(stored.about)
    BY ZenonT(60), <1>0, <2>2, <2>6, RefFacts
  <2>8. wrote' = [about |-> RefPlain(o.about), message |-> {"ns"}]
    <3>1. CASE OwnOf(kind, o) = OwnOf(kind, v)
      <4>1. [about |-> o.about, message |-> o.message] = [about |-> v.about, message |-> v.message]
        BY ZenonT(60), <1>6, <3>1, EventOwn
      <4>2. o.about = v.about
        BY <4>1
      <4>. QED  BY ZenonT(60), <1>1, <2>5, <2>7, <3>1, <4>2
    <3>2. CASE OwnOf(kind, o) # OwnOf(kind, v)
      <4>1. PICK m \in Manifests(kind) : \A f \in Owned[kind] : o[f] = m[f]
        BY Zenon, <1>2, <3>2
      <4>2. m.about \in References
        BY SMTT(60), <1>6 DEF Manifests
      <4>3. o.about.group \in {Empty, OwnGroup}
        <5>1. "about" \in Owned["event"]
          BY DEF Owned
        <5>2. o.about = m.about
          BY Zenon, <1>6, <4>1, <5>1
        <5>. QED  BY SMTT(60), <4>2, <5>2 DEF References, OwnGroup
      <4>4. RefGroupPlain(o.about.group) = o.about.group
        BY Zenon, <4>3, OwnGroupFacts DEF RefGroupPlain
      <4>5. RefPlain(o.about) = o.about
        BY <2>2, <4>4 DEF RefPlain, RefDrafts, RefRecords
      <4>6. OwnOf(kind, o) = [about |-> o.about, message |-> {"ns"}]
        BY Zenon, <1>6, <2>2, EventOwn
      <4>. QED  BY ZenonT(60), <1>1, <3>2, <4>5, <4>6
    <3>. QED  BY Zenon, <3>1, <3>2
  <2>. QED  BY ZenonT(60), <1>6, <2>3, <2>4, <2>8 DEF Written
<1>. QED  BY Zenon, <1>5, <1>6

\* A claim that is bound shows the volume that was chosen for it.
LEMMA BoundWritten ==
    Written(kind, stored, wrote) /\ BindClaim =>
        Written(kind, stored', wrote')
<1>. HAVE Written(kind, stored, wrote) /\ BindClaim
<1>01. PICK n : n = <<"pvc-1">>
  BY Zenon
<1>02. PICK t : t = TRUE
  OBVIOUS
<1>1. kind = "claim" /\ kind' = kind /\ "claim" # "event"
  BY DEF BindClaim
<1>2. stored' = [stored EXCEPT !.volume = n, !.bound = t] /\ wrote' = [wrote EXCEPT !.volume = n]
  BY Zenon, <1>01, <1>02 DEF BindClaim
<1>3. stored \in ClaimsUpstream /\ \A e \in Envs : OwnOf("claim", Backward("claim", stored, e)) = wrote
  BY Zenon, <1>1, KindFacts DEF Written
<1>4. n \in Names
  <2>1. "pvc-1" \in Words
    BY Zenon, WordFacts
  <2>. QED  BY Zenon, <1>01, <2>1, WordNames
<1>5. /\ stored' \in ClaimsUpstream /\ stored'.class = stored.class /\ stored'.vac = stored.vac
      /\ stored'.volume = n /\ stored'.bound /\ stored'.from = stored.from
  BY ZenonT(60), <1>02, <1>2, <1>3, <1>4 DEF ClaimsUpstream
<1>6. ASSUME NEW e \in Envs PROVE OwnOf("claim", Backward("claim", stored', e)) = wrote'
  <2>01. PICK b, c : b = Backward("claim", stored, e) /\ c = Backward("claim", stored', e)
    BY Zenon
  <2>02. PICK S : S = Owned["claim"]
    BY Zenon
  <2>1. /\ c \in [ns : {<<"ns">>}, class : {stored'.class}, vac : {stored'.vac},
                  volume : {IF stored'.bound THEN stored'.volume ELSE TrimTenantIDPrefix(stored'.volume)},
                  bound : {stored'.bound}, from : {TrimTenantIDPrefix(stored'.from)}]
        /\ b \in [ns : {<<"ns">>}, class : {stored.class}, vac : {stored.vac},
                  volume : {IF stored.bound THEN stored.volume ELSE TrimTenantIDPrefix(stored.volume)},
                  bound : {stored.bound}, from : {TrimTenantIDPrefix(stored.from)}]
    BY ZenonT(60), <1>3, <1>5, <2>01, ClaimConversion
  <2>2. c.class = b.class /\ c.vac = b.vac /\ c.volume = n /\ c.from = b.from
    BY SMTT(60), <1>5, <2>1
  <2>3. S = {"class", "vac", "volume", "from"}
    BY <2>02 DEF Owned
  <2>4. wrote = [f \in S |-> b[f]]
    BY ZenonT(60), <1>3, <2>01, <2>02 DEF OwnOf
  <2>5. wrote' = [f \in S |-> IF f = "volume" THEN n ELSE b[f]]
    BY SMTT(60), <1>2, <2>3, <2>4
  <2>6. \A f \in S : c[f] = IF f = "volume" THEN n ELSE b[f]
    BY <2>2, <2>3
  <2>7. [f \in S |-> c[f]] = [f \in S |-> IF f = "volume" THEN n ELSE b[f]]
    BY Zenon, <2>6
  <2>. QED  BY Zenon, <2>01, <2>02, <2>5, <2>7 DEF OwnOf
<1>. QED  BY Zenon, <1>1, <1>5, <1>6, KindFacts DEF Written

\* The address of a Service and the node of a pod are not for the tenant to
\* decide.
LEMMA AddressWritten ==
    Written(kind, stored, wrote) => \A a \in Addresses : ShowAddress(a) =>
        Written(kind, stored', wrote')
<1>. HAVE Written(kind, stored, wrote)
<1>. TAKE a \in Addresses
<1>. HAVE ShowAddress(a)
<1>1. kind = "service" /\ kind' = kind /\ "service" # "event"
  BY DEF ShowAddress
<1>2. stored' = [stored EXCEPT !.ann = a] /\ wrote' = wrote
  BY Zenon DEF ShowAddress
<1>3. stored \in ServicesUpstream /\ \A e \in Envs : OwnOf("service", Backward("service", stored, e)) = wrote
  BY Zenon, <1>1, KindFacts DEF Written
<1>4. /\ stored' \in ServicesUpstream /\ stored'.type = stored.type /\ stored'.ports = stored.ports
      /\ stored'.ips = stored.ips
  BY <1>2, <1>3 DEF ServicesUpstream
<1>5. ASSUME NEW e \in Envs PROVE OwnOf("service", Backward("service", stored', e)) = wrote'
  <2>01. PICK b, c : b = Backward("service", stored, e) /\ c = Backward("service", stored', e)
    BY Zenon
  <2>1. /\ c \in [ns : {<<"ns">>}, type : {stored'.type}, ports : {stored'.ports}, ips : {stored'.ips},
                  ip : {stored'.ip}, ann : {stored'.ann}]
        /\ b \in [ns : {<<"ns">>}, type : {stored.type}, ports : {stored.ports}, ips : {stored.ips},
                  ip : {stored.ip}, ann : {stored.ann}]
    BY ZenonT(60), <1>3, <1>4, <2>01, ServiceConversion
  <2>2. \A f \in Owned["service"] : c[f] = b[f]
    BY <1>4, <2>1 DEF Owned
  <2>3. OwnOf("service", c) = OwnOf("service", b)
    BY Zenon, <2>2, OwnFacts
  <2>. QED  BY ZenonT(60), <1>2, <1>3, <2>01, <2>3
<1>. QED  BY ZenonT(60), <1>1, <1>4, <1>5, KindFacts DEF Written

\* Scheduling leaves alone what the tenant wrote.
LEMMA NodeWritten ==
    Written(kind, stored, wrote) /\ Schedule =>
        Written(kind, stored', wrote')
<1>. HAVE Written(kind, stored, wrote) /\ Schedule
<1>1. kind = "pod" /\ kind' = kind /\ "pod" # "event"
  BY DEF Schedule
<1>2. stored' = [stored EXCEPT !.node = "node"] /\ wrote' = wrote
  BY Zenon DEF Schedule
<1>3. stored \in PodsUpstream /\ \A e \in Envs : OwnOf("pod", Backward("pod", stored, e)) = wrote
  BY Zenon, <1>1, KindFacts DEF Written
<1>4. stored' \in PodsUpstream
  BY <1>2, <1>3 DEF PodsUpstream
<1>5. ASSUME NEW e \in Envs PROVE OwnOf("pod", Backward("pod", stored', e)) = wrote'
  <2>1. Owned["pod"] = {}
    BY DEF Owned
  <2>2. OwnOf("pod", Backward("pod", stored', e)) = OwnOf("pod", Backward("pod", stored, e))
    BY Zenon, <2>1, OwnFacts
  <2>. QED  BY ZenonT(60), <1>2, <1>3, <2>2
<1>. QED  BY Zenon, <1>1, <1>4, <1>5, KindFacts DEF Written

----------------------------------------------------------------------------
(***************************************************************************)
(* What the answers have settled                                           *)
(***************************************************************************)

\* The platform has offered the class, or offers it without a label.
Offered(s, n, st, ca) == n = Empty \/ s \in st \/ "true" \in ca[s]

\* The resolver has served at the address.
Served(d, ha) == d = "default" \/ (d \in ha.at \ {NoAddress} /\ ha.ready)

\* What is not said by the shape of an object s of kind k, if st are the sets
\* that are named on the command line, ca the labels that classes have had and
\* ha what the resolver has had.
Settled(k, s, st, ca, ha) ==
    /\ k = "service" => s.type = "ClusterIP"
    /\ k = "volume" => s.name # Empty
    /\ k = "ingress" => s.class \in HeldOnce \/ "ingress" \in st \/ ca["ingress"] # {"none"}
    /\ k = "pod" => s.pool = TRUE /\ s.token = "tenant" /\ Served(s.dns, ha)
    /\ k = "claim" => Offered("storage", s.class, st, ca) /\ Offered("attributes", s.vac, st, ca)
    /\ k = "workload" => /\ Offered("storage", s.class, st, ca)
                         /\ Offered("attributes", s.vac, st, ca)
                         /\ Served(s.dns, ha)
    /\ k = "custom" => GroupView(s.group) \notin NativeGroups

\* What was judged at a write is settled for good.
SettledInv == stored # Absent => Settled(kind, stored, static, carried, had)

\* What is settled, kind by kind.
LEMMA SettledFacts ==
    \A s, st, ca, ha :
        /\ Settled("service", s, st, ca, ha) <=> s.type = "ClusterIP"
        /\ Settled("volume", s, st, ca, ha) <=> s.name # Empty
        /\ Settled("ingress", s, st, ca, ha) <=>
             s.class \in HeldOnce \/ "ingress" \in st \/ ca["ingress"] # {"none"}
        /\ Settled("pod", s, st, ca, ha) <=>
             s.pool = TRUE /\ s.token = "tenant" /\ Served(s.dns, ha)
        /\ Settled("claim", s, st, ca, ha) <=>
             Offered("storage", s.class, st, ca) /\ Offered("attributes", s.vac, st, ca)
        /\ Settled("workload", s, st, ca, ha) <=>
             /\ Offered("storage", s.class, st, ca) /\ Offered("attributes", s.vac, st, ca)
             /\ Served(s.dns, ha)
        /\ Settled("custom", s, st, ca, ha) <=> GroupView(s.group) \notin NativeGroups
<1>. TAKE s, st, ca, ha
<1>1. /\ "service" \notin {"volume", "ingress", "pod", "claim", "workload", "custom"}
      /\ "volume" \notin {"service", "ingress", "pod", "claim", "workload", "custom"}
      /\ "ingress" \notin {"service", "volume", "pod", "claim", "workload", "custom"}
      /\ "pod" \notin {"service", "volume", "ingress", "claim", "workload", "custom"}
      /\ "claim" \notin {"service", "volume", "ingress", "pod", "workload", "custom"}
      /\ "workload" \notin {"service", "volume", "ingress", "pod", "claim", "custom"}
      /\ "custom" \notin {"service", "volume", "ingress", "pod", "claim", "workload"}
  OBVIOUS
<1>2. Settled("service", s, st, ca, ha) <=> s.type = "ClusterIP"
  BY Zenon, <1>1 DEF Settled
<1>3. Settled("volume", s, st, ca, ha) <=> s.name # Empty
  BY Zenon, <1>1 DEF Settled
<1>4. Settled("ingress", s, st, ca, ha) <=>
        s.class \in HeldOnce \/ "ingress" \in st \/ ca["ingress"] # {"none"}
  BY Zenon, <1>1 DEF Settled
<1>5. Settled("pod", s, st, ca, ha) <=> s.pool = TRUE /\ s.token = "tenant" /\ Served(s.dns, ha)
  BY Zenon, <1>1 DEF Settled
<1>6. Settled("claim", s, st, ca, ha) <=>
        Offered("storage", s.class, st, ca) /\ Offered("attributes", s.vac, st, ca)
  BY Zenon, <1>1 DEF Settled
<1>7. Settled("workload", s, st, ca, ha) <=>
        /\ Offered("storage", s.class, st, ca) /\ Offered("attributes", s.vac, st, ca)
        /\ Served(s.dns, ha)
  BY Zenon, <1>1 DEF Settled
<1>8. Settled("custom", s, st, ca, ha) <=> GroupView(s.group) \notin NativeGroups
  BY Zenon, <1>1 DEF Settled
<1>. QED  BY Zenon, <1>2, <1>3, <1>4, <1>5, <1>6, <1>7, <1>8

\* Nothing is to be settled for the other kinds.
LEMMA SettledOther ==
    \A k : k \notin {"service", "volume", "ingress", "pod", "claim", "workload", "custom"} =>
    \A s, st, ca, ha :
        Settled(k, s, st, ca, ha)
<1>. TAKE k
<1>. HAVE k \notin {"service", "volume", "ingress", "pod", "claim", "workload", "custom"}
<1>. TAKE s, st, ca, ha
<1>. QED  BY Zenon DEF Settled

\* What is settled stays so while the platform changes around the object.
LEMMA SettledKept ==
    CacheInv /\ Grown /\ stored' = stored /\ SettledInv =>
        SettledInv'
\* It stays so when the platform has had more.
<1>SettledGrown. \A k, s, st, ca, da, ha, ga :
                 (\A t \in Sets : ca[t] \subseteq da[t]) /\ ca["ingress"] # {} /\ ha.at \subseteq ga.at /\ (ha.ready => ga.ready) /\ Settled(k, s, st, ca, ha) =>
                     Settled(k, s, st, da, ga)
  <2>. TAKE k, s, st, ca, da, ha, ga
  <2>. HAVE (\A t \in Sets : ca[t] \subseteq da[t]) /\ ca["ingress"] # {} /\ ha.at \subseteq ga.at /\ (ha.ready => ga.ready) /\ Settled(k, s, st, ca, ha)
  <2>1. "storage" \in Sets /\ "attributes" \in Sets /\ "ingress" \in Sets
    BY Zenon DEF Sets
  <2>2. /\ \A n : Offered("storage", n, st, ca) => Offered("storage", n, st, da)
        /\ \A n : Offered("attributes", n, st, ca) => Offered("attributes", n, st, da)
    BY Zenon, <2>1 DEF Offered
  <2>3. \A d : Served(d, ha) => Served(d, ga)
    BY Zenon DEF Served
  <2>4. ca["ingress"] # {"none"} => da["ingress"] # {"none"}
    BY Zenon, <2>1
  <2>. QED  BY Zenon, <2>2, <2>3, <2>4 DEF Settled
<1>. HAVE CacheInv /\ Grown /\ stored' = stored /\ SettledInv
<1>1. carried["ingress"] # {}
  <2>1. "ingress" \in Sets
    BY Zenon DEF Sets
  <2>. QED  BY Zenon, <2>1 DEF CacheInv
<1>. QED  BY Zenon, <1>1, <1>SettledGrown DEF SettledInv, Grown

\* A nameserver that a template is given served once.
LEMMA ServedFacts ==
    CacheInv => \A d : Served(d, had) =>
        Served(DNSUp(d, Env), had)
<1>. HAVE CacheInv
<1>. TAKE d
<1>. HAVE Served(d, had)
<1>1. Env.nameserver = NoAddress \/ (Env.nameserver \in had.at \ {NoAddress} /\ had.ready)
  BY ZenonT(60), EnvFacts, NameserverFacts
<1>. QED  BY Zenon, <1>1 DEF Served, DNSUp

\* The class of an ingress is the tenant's own or was published.
LEMMA IngressSettled ==
    CacheInv => \A o \in IngressDrafts :
        Settled("ingress", Forward("ingress", o, Env), static, carried, had)
<1>. HAVE CacheInv
<1>. TAKE o \in IngressDrafts
<1>01. PICK e : e = Env
  BY Zenon
<1>1. e \in Envs
  BY Zenon, <1>01, EnvFacts
<1>2. Forward("ingress", o, e) \in
        [ns : {<<Tenant, "ns">>}, class : {IF o.class \in e.ingress THEN o.class ELSE Prefixed(o.class)}]
  BY ZenonT(60), <1>1, IngressConversion
<1>3. Forward("ingress", o, e).class = IF o.class \in e.ingress THEN o.class ELSE Prefixed(o.class)
  BY <1>2
<1>4. o.class \in Plain /\ e.ingress \subseteq {ClassOf("ingress")}
  BY <1>1 DEF IngressDrafts, Envs
<1>5. Prefixed(o.class) \in HeldOnce
  BY Zenon, <1>4, NameFacts
<1>6. o.class \in e.ingress => "ingress" \in static \/ carried["ingress"] # {"none"}
  BY ZenonT(60), <1>01, <1>4, EnvFacts
<1>. QED  BY ZenonT(60), <1>01, <1>3, <1>5, <1>6, SettledFacts

\* A class that passes is offered, and so is one that passed before.
LEMMA OfferedFacts ==
    CacheInv => \A n :
        /\ RefuseUnpublishedClass("storage", n) = "none" => Offered("storage", n, static, carried)
        /\ RefuseUnpublishedClass("attributes", n) = "none" => Offered("attributes", n, static, carried)
<1>. HAVE CacheInv
<1>. TAKE n
<1>1. "storage" \in Sets /\ "attributes" \in Sets
  BY Zenon DEF Sets
<1>. QED  BY Zenon, <1>1, OfferFacts DEF Offered

\* What create leaves upstream passed the rules.
LEMMA CreateSettled ==
    CacheInv => \A o \in Manifests(kind) : CreateAnswer(o) = "none" =>
        Settled(kind, Allocated(Created(o)), static, carried, had)
<1>. HAVE CacheInv
<1>. TAKE o \in Manifests(kind)
<1>. HAVE CreateAnswer(o) = "none"
<1>01. PICK s : s = Allocated(Created(o))
  BY Zenon
<1>02. PICK e : e = Env
  BY Zenon
<1>0. kind \in Kinds /\ e \in Envs /\ ~ForwardFails(kind, o, e) /\ o \in DraftsOf(kind)
  <2>1. kind \in Kinds
    BY Zenon DEF CacheInv
  <2>2. Manifests(kind) \subseteq DraftsOf(kind)
    BY Zenon, <2>1, KindConversion DEF Mapped
  <2>. QED  BY ZenonT(60), <1>02, <2>1, <2>2, EnvFacts, CreateFacts
<1>1. kind \notin {"service", "pod", "volume"} => s = Forward(kind, o, e)
  BY <1>01, <1>02 DEF Named, Allocated, Created
<1>2. CASE kind = "service"
  <2>1. o \in ServiceDrafts
    BY ZenonT(60), <1>0, <1>2, KindFacts
  <2>2. s.type = o.type
    BY ZenonT(60), <1>0, <1>01, <1>02, <1>2, <2>1, ServiceCreated
  <2>3. o.type # "ExternalName" /\ o.type # "NodePort"
    BY ZenonT(60), <1>2, CreateFacts, InvalidFacts DEF RefuseExternalNameService, RefuseNodePorts
  <2>4. o.type = "ClusterIP"
    BY <2>1, <2>3 DEF ServiceDrafts, ServiceTypes
  <2>. QED  BY ZenonT(60), <1>01, <1>2, <2>2, <2>4, SettledFacts
<1>3. CASE kind = "pod"
  <2>1. o \in PodDrafts
    BY ZenonT(60), <1>0, <1>3, KindFacts
  <2>2. s \in [ns : {<<Tenant, "ns">>}, node : {o.node}, pool : {TRUE}, token : {"tenant"},
               dns : {DNSUp(o.dns, e)}]
    BY ZenonT(60), <1>0, <1>01, <1>02, <1>3, <2>1, PodCreated
  <2>3. s.pool = TRUE /\ s.token = "tenant" /\ s.dns = DNSUp(o.dns, e)
    BY ZenonT(60), <2>2
  <2>4. o.dns = "default"
    BY <1>3 DEF Manifests
  <2>5. Served(s.dns, had)
    <3>1. Served(o.dns, had)
      BY Zenon, <2>4 DEF Served
    <3>. QED  BY Zenon, <1>02, <2>3, <3>1, ServedFacts
  <2>. QED  BY ZenonT(60), <1>01, <1>3, <2>3, <2>5, SettledFacts
<1>4. CASE kind = "volume"
  <2>1. PICK d \in DraftsOf(kind) : s = Forward(kind, d, e) /\ d.name # Empty
    <3>1. "volume" \notin {"service", "pod"}
      OBVIOUS
    <3>. QED  BY ZenonT(60), <1>01, <1>02, <1>4, <3>1, CreateWritten
  <2>2. d \in VolumeDrafts
    BY ZenonT(60), <1>4, KindFacts
  <2>3. s.name = Prefixed(d.name) /\ d.name \in Names
    BY SMTT(60), <1>4, <2>1, <2>2, VolumeConversion DEF VolumeDrafts
  <2>4. s.name # Empty
    BY ZenonT(60), <2>1, <2>3, UpstreamFacts
  <2>. QED  BY ZenonT(60), <1>01, <1>4, <2>4, SettledFacts
<1>5. CASE kind = "ingress"
  <2>1. o \in IngressDrafts /\ "ingress" \notin {"service", "pod", "volume"}
    BY <1>0, <1>5, KindFacts
  <2>. QED  BY ZenonT(60), <1>01, <1>02, <1>1, <1>5, <2>1, IngressSettled
<1>6. CASE kind = "claim"
  <2>1. o \in ClaimDrafts /\ "claim" \notin {"service", "pod", "volume"}
    BY SMTT(60), <1>0, <1>6, KindFacts
  <2>2. s.class = o.class /\ s.vac = o.vac
    BY SMTT(60), <1>1, <1>6, <2>1, ClaimConversion
  <2>3. RefuseUnpublishedClass("storage", o.class) = "none"
    BY Zenon, <1>6, CreateFacts DEF RefuseUnpublishedStorageClass
  <2>4. RefuseUnpublishedClass("attributes", o.vac) = "none"
    BY Zenon, <1>6, CreateFacts DEF RefuseUnpublishedVolumeAttributesClass
  <2>. QED  BY ZenonT(60), <1>01, <1>6, <2>2, <2>3, <2>4, OfferedFacts, SettledFacts
<1>7. CASE kind = "workload"
  <2>1. o \in WorkloadDrafts /\ "workload" \notin {"service", "pod", "volume"}
    BY <1>0, <1>7, KindFacts
  <2>2. s \in TemplateOf(o.class, o.vac, DNSUp(o.dns, e))
    BY ZenonT(60), <1>0, <1>1, <1>7, <2>1, WorkloadConversion
  <2>3. s.class = o.class /\ s.vac = o.vac /\ s.dns = DNSUp(o.dns, e)
    BY <2>2 DEF TemplateOf, TemplateWith
  <2>4. RefuseUnpublishedEphemeralClasses(o, Absent) = "none"
    BY Zenon, CreateFacts
  <2>5. RefuseUnpublishedClass("storage", o.class) = "none"
    BY ZenonT(60), <1>7, <2>4 DEF RefuseUnpublishedEphemeralClasses
  <2>6. RefuseUnpublishedClass("attributes", o.vac) = "none"
    BY ZenonT(60), <1>7, <2>4, <2>5 DEF RefuseUnpublishedEphemeralClasses
  <2>7. Served(s.dns, had)
    <3>1. o.dns = "default"
      BY SMTT(60), <1>7 DEF Manifests
    <3>2. Served(o.dns, had)
      BY Zenon, <3>1 DEF Served
    <3>. QED  BY ZenonT(60), <1>02, <2>3, <3>2, ServedFacts
  <2>. QED  BY ZenonT(60), <1>01, <1>7, <2>3, <2>5, <2>6, <2>7, OfferedFacts, SettledFacts
<1>8. CASE kind \notin {"service", "volume", "ingress", "pod", "claim", "workload", "custom"}
  BY ZenonT(60), <1>01, <1>8, SettledOther
<1>9. CASE kind = "custom"
  <2>1. "custom" \notin {"service", "pod", "volume"} /\ o \in CustomDrafts
    BY SMTT(60), <1>0, <1>9, KindFacts
  <2>2. s.group = UpstreamGroup(o.group) /\ o.group \in Given
    BY SMTT(60), <1>0, <1>1, <1>9, <2>1, CustomConversion DEF CustomDrafts
  <2>3. GroupView(s.group) = o.group
    BY ZenonT(60), <2>2, GroupFacts
  <2>4. o.group = <<"group">> \/ o.group = <<"shared">>
    BY SMTT(60), <1>9 DEF Manifests, SharedGroups
  <2>5. o.group \notin NativeGroups
    <3>1. PICK a, g, h : a = <<"apps">> /\ g = <<"group">> /\ h = <<"shared">>
      BY Zenon
    <3>2. a[1] = "apps" /\ g[1] = "group" /\ h[1] = "shared"
      BY <3>1
    <3>3. g # a /\ h # a
      BY <3>2
    <3>4. g # Empty /\ h # Empty
      BY Zenon, <3>1, WordFacts, WordNames
    <3>. QED  BY Zenon, <2>4, <3>1, <3>3, <3>4 DEF NativeGroups
  <2>. QED  BY ZenonT(60), <1>01, <1>9, <2>3, <2>5, SettledFacts
<1>. QED  BY ZenonT(60), <1>01, <1>2, <1>3, <1>4, <1>5, <1>6, <1>7, <1>8, <1>9

\* An update leaves what was settled, or passed the rules.
LEMMA UpdateSettled ==
    CacheInv /\ stored # Absent /\ stored \in UpstreamOf(kind) => \A o \in Edits :
    TenantUpdate(o) /\ Settled(kind, stored, static, carried, had) =>
        Settled(kind, stored', static, carried, had)
\* The nameserver of a template is not for the tenant to decide.
<1>EditNameserver. CacheInv /\ kind = "workload" /\ stored \in UpstreamOf(kind) => \A o \in Edits :
                       o.dns = stored.dns
  <2>. HAVE CacheInv /\ kind = "workload" /\ stored \in UpstreamOf(kind)
  <2>. TAKE o \in Edits
  <2>01. PICK v : v = TenantView(stored, <<"ns">>)
    BY Zenon
  <2>02. PICK b : b = Backward("workload", stored, Env)
    BY Zenon
  <2>0. <<"ns">> \in Spellings /\ Env \in Envs /\ stored \in WorkloadsUpstream
    BY ZenonT(60), KindFacts, EnvFacts DEF Spellings
  <2>1. b \in [ns : {<<"ns">>}, class : {stored.class}, vac : {stored.vac}, node : {stored.node},
               pool : {stored.pool}, token : {stored.token}, dns : {stored.dns}]
    BY ZenonT(60), <2>0, <2>02, WorkloadConversion
  <2>2. b \in WorkloadDrafts /\ v \in WorkloadDrafts /\ v = Respelled(kind, b, <<"ns">>)
    <3>1. "workload" # "service"
      OBVIOUS
    <3>. QED  BY ZenonT(60), <2>0, <2>01, <2>02, <3>1, ViewFacts, KindFacts
  <2>3. v.dns = stored.dns
    <3>1. b.dns = stored.dns
      BY <2>1
    <3>2. v = [b EXCEPT !.ns = <<"ns">>]
      BY <2>2 DEF Respelled, ClusterScoped
    <3>. QED  BY SMTT(60), <2>2, <3>1, <3>2 DEF WorkloadDrafts
  <2>4. CASE o = v
    BY ZenonT(60), <2>3, <2>4
  <2>5. ASSUME NEW m \in Manifests(kind), NEW ip, o = Edit(v, m, ip) PROVE o.dns = stored.dns
    <3>1. o = Mixed(v, m, Owned["workload"])
      BY SMTT(60), <2>5 DEF Edit, Mixed
    <3>2. "dns" \in DOMAIN v /\ "dns" \notin Owned["workload"]
      BY ZenonT(60), <2>2 DEF WorkloadDrafts, Owned
    <3>3. o.dns = v.dns
      BY ZenonT(60), <3>1, <3>2 DEF Mixed
    <3>. QED  BY ZenonT(60), <2>3, <3>3
  <2>6. CASE o # v
    <3>1. PICK m \in Manifests(kind), ip \in IF kind = "service" THEN {v.ip, stored.ip, "third", NoAddress}
                                             ELSE {NoAddress} : o = Edit(v, m, ip)
      BY <2>01, <2>6 DEF Edits
    <3>. QED  BY ZenonT(60), <2>5, <3>1
  <2>. QED  BY Zenon, <2>4, <2>6
<1>. HAVE CacheInv /\ stored # Absent /\ stored \in UpstreamOf(kind)
<1>. TAKE o \in Edits
<1>. HAVE TenantUpdate(o) /\ Settled(kind, stored, static, carried, had)
<1>01. PICK s : s = stored'
  OBVIOUS
<1>02. PICK old : old = StorageView(stored, <<"ns">>)
  BY Zenon
<1>03. PICK e : e = Env
  BY Zenon
<1>0. kind \in Kinds /\ <<"ns">> \in Spellings /\ e \in Envs /\ o \in DraftsOf(kind)
  BY ZenonT(60), <1>03, EnvFacts, EditFacts DEF CacheInv, Spellings
<1>1. /\ ~ForwardFails(kind, o, Env) /\ s = Updated(o, old) /\ ImmutableKept(s, stored)
      /\ UpdateAnswer(o, old) = "none"
  BY ZenonT(60), <1>01, <1>02, UpdateFacts DEF TenantUpdate
<1>2. PICK d \in DraftsOf(kind) :
        /\ s = Forward(kind, d, e)
        /\ \A f \in Owned[kind] : d[f] = o[f]
        /\ kind # "service" => d = o
  BY ZenonT(60), <1>0, <1>02, <1>03, <1>1, UpdateSent
<1>3. CASE kind = "service"
  <2>1. d \in ServiceDrafts
    BY ZenonT(60), <1>3, KindFacts
  <2>2. s.type = d.type
    BY SMTT(60), <1>2, <1>3, <2>1, ServiceConversion
  <2>3. "type" \in Owned["service"]
    BY DEF Owned
  <2>4. d.type # "ExternalName" /\ d.type # "NodePort"
    <3>1. o.type # "ExternalName" /\ o.type # "NodePort"
      BY ZenonT(60), <1>1, <1>3, UpdateFacts, InvalidFacts DEF RefuseExternalNameService, RefuseNodePorts
    <3>. QED  BY ZenonT(60), <1>2, <1>3, <2>3, <3>1
  <2>5. d.type = "ClusterIP"
    BY <2>1, <2>4 DEF ServiceDrafts, ServiceTypes
  <2>. QED  BY ZenonT(60), <1>01, <1>3, <2>2, <2>5, SettledFacts
<1>4. CASE kind = "pod"
  <2>1. s = stored
    BY Zenon, <1>1, <1>4 DEF ImmutableKept
  <2>. QED  BY Zenon, <1>01, <2>1
<1>5. CASE kind = "volume"
  <2>1. s.name = stored.name
    <3>1. kind \in ClusterScoped
      BY Zenon, <1>5 DEF ClusterScoped
    <3>. QED  BY Zenon, <1>1, <3>1 DEF ImmutableKept
  <2>. QED  BY ZenonT(60), <1>01, <1>5, <2>1, SettledFacts
<1>6. CASE kind = "ingress"
  <2>1. d \in IngressDrafts
    BY Zenon, <1>6, KindFacts
  <2>. QED  BY ZenonT(60), <1>01, <1>03, <1>2, <1>6, <2>1, IngressSettled
<1>7. CASE kind = "claim"
  <2>1. d \in ClaimDrafts /\ d = o /\ stored \in ClaimsUpstream
    <3>1. "claim" # "service"
      OBVIOUS
    <3>. QED  BY ZenonT(60), <1>2, <1>7, <3>1, KindFacts
  <2>2. s.vac = o.vac /\ s.class = stored.class
    <3>1. s.vac = d.vac
      BY SMTT(60), <1>2, <1>7, <2>1, ClaimConversion
    <3>2. s.class = stored.class
      BY Zenon, <1>1, <1>7 DEF ImmutableKept
    <3>. QED  BY ZenonT(60), <2>1, <3>1, <3>2
  <2>3. old.vac = stored.vac
    <3>01. PICK b : b = Backward("claim", stored, e)
      BY ZenonT(60)
    <3>1. b.vac = stored.vac
      BY SMTT(60), <2>1, <3>01, ClaimConversion
    <3>2. b \in DraftsOf(kind) /\ old = Respelled(kind, b, <<"ns">>)
      BY ZenonT(60), <1>0, <1>02, <1>03, <1>7, <3>01, ViewFacts
    <3>3. "vac" \in Owned["claim"]
      BY DEF Owned
    <3>4. \A f \in Owned[kind] : old[f] = b[f]
      BY ZenonT(60), <1>0, <3>2, RespelledFacts
    <3>. QED  BY ZenonT(60), <1>7, <3>1, <3>3, <3>4
  <2>4. RefuseUnpublishedVolumeAttributesClass(o, old) = "none"
    BY Zenon, <1>1, UpdateFacts
  <2>5. o.vac = old.vac \/ RefuseUnpublishedClass("attributes", o.vac) = "none"
    BY Zenon, <1>7, <2>4 DEF RefuseUnpublishedVolumeAttributesClass
  <2>6. Offered("storage", stored.class, static, carried) /\ Offered("attributes", stored.vac, static, carried)
    BY Zenon, <1>7, SettledFacts
  <2>7. Offered("attributes", s.vac, static, carried)
    BY ZenonT(60), <2>2, <2>3, <2>5, <2>6, OfferedFacts
  <2>. QED  BY ZenonT(60), <1>01, <1>7, <2>2, <2>6, <2>7, SettledFacts
<1>8. CASE kind = "workload"
  <2>1. d \in WorkloadDrafts /\ d = o /\ stored \in WorkloadsUpstream
    <3>1. "workload" # "service"
      OBVIOUS
    <3>. QED  BY ZenonT(60), <1>2, <1>8, <3>1, KindFacts
  <2>2. s \in TemplateOf(o.class, o.vac, DNSUp(o.dns, e))
    BY ZenonT(60), <1>0, <1>2, <1>8, <2>1, WorkloadConversion
  <2>3. s.class = o.class /\ s.vac = o.vac /\ s.dns = DNSUp(o.dns, e)
    BY <2>2 DEF TemplateOf, TemplateWith
  <2>4. RefuseUnpublishedEphemeralClasses(o, old) = "none"
    BY ZenonT(60), <1>1, UpdateFacts
  <2>5. RefuseUnpublishedClass("storage", o.class) = "none"
    BY ZenonT(60), <1>8, <2>4 DEF RefuseUnpublishedEphemeralClasses
  <2>6. o.vac = old.vac \/ RefuseUnpublishedClass("attributes", o.vac) = "none"
    BY ZenonT(60), <1>8, <2>4, <2>5 DEF RefuseUnpublishedEphemeralClasses
  <2>7. old.vac = stored.vac
    <3>01. PICK b : b = Backward("workload", stored, e)
      BY ZenonT(60)
    <3>1. b.vac = stored.vac
      BY SMTT(60), <1>0, <2>1, <3>01, WorkloadConversion
    <3>2. b \in DraftsOf(kind) /\ old = Respelled(kind, b, <<"ns">>)
      BY ZenonT(60), <1>0, <1>02, <1>03, <1>8, <3>01, ViewFacts
    <3>3. "vac" \in Owned["workload"]
      BY ZenonT(60) DEF Owned
    <3>4. \A f \in Owned[kind] : old[f] = b[f]
      BY Zenon, <1>0, <3>2, RespelledFacts
    <3>. QED  BY ZenonT(60), <1>8, <3>1, <3>3, <3>4
  <2>8. Offered("attributes", stored.vac, static, carried) /\ Served(stored.dns, had)
    BY ZenonT(60), <1>8, SettledFacts
  <2>9. Offered("storage", s.class, static, carried) /\ Offered("attributes", s.vac, static, carried)
    BY ZenonT(60), <2>3, <2>5, <2>6, <2>7, <2>8, OfferedFacts
  <2>10. Served(s.dns, had)
    <3>1. o.dns = stored.dns
      BY ZenonT(60), <1>8, <1>EditNameserver
    <3>. QED  BY ZenonT(60), <1>03, <2>3, <2>8, <3>1, ServedFacts
  <2>. QED  BY ZenonT(60), <1>01, <1>8, <2>9, <2>10, SettledFacts
<1>9. CASE kind \notin {"service", "volume", "ingress", "pod", "claim", "workload", "custom"}
  BY ZenonT(60), <1>01, <1>9, SettledOther
<1>10. CASE kind = "custom"
  <2>1. s.group = stored.group
    BY ZenonT(60), <1>1, <1>10 DEF ImmutableKept
  <2>. QED  BY ZenonT(60), <1>01, <1>10, <2>1, SettledFacts
<1>. QED  BY ZenonT(60), <1>01, <1>3, <1>4, <1>5, <1>6, <1>7, <1>8, <1>9, <1>10

\* The controllers leave it, too.
LEMMA ControllerSettled ==
    ControllerStep /\ (stored # Absent => stored \in UpstreamOf(kind)) /\ SettledInv =>
        Settled(kind, stored', static, carried, had)
<1>. HAVE ControllerStep /\ (stored # Absent => stored \in UpstreamOf(kind)) /\ SettledInv
<1>1. CASE BindClaim
  <2>1. kind = "claim" /\ stored # Absent /\ stored' = [stored EXCEPT !.volume = <<"pvc-1">>, !.bound = TRUE]
    BY Zenon, <1>1 DEF BindClaim
  <2>2. stored \in ClaimsUpstream
    BY Zenon, <2>1, KindFacts
  <2>3. stored'.class = stored.class /\ stored'.vac = stored.vac
    BY <2>1, <2>2 DEF ClaimsUpstream
  <2>. QED  BY ZenonT(60), <2>1, <2>3, SettledFacts DEF SettledInv
<1>2. CASE Schedule
  <2>1. kind = "pod" /\ stored # Absent /\ stored' = [stored EXCEPT !.node = "node"]
    BY ZenonT(60), <1>2 DEF Schedule
  <2>2. stored \in PodsUpstream
    BY ZenonT(60), <2>1, KindFacts
  <2>3. stored'.pool = stored.pool /\ stored'.token = stored.token /\ stored'.dns = stored.dns
    BY SMTT(60), <2>1, <2>2 DEF PodsUpstream
  <2>. QED  BY ZenonT(60), <2>1, <2>3, SettledFacts DEF SettledInv
<1>3. ASSUME NEW r \in Reported \cup {Node}, Report(r) PROVE Settled(kind, stored', static, carried, had)
  <2>1. kind \notin {"service", "volume", "ingress", "pod", "claim", "workload", "custom"}
    BY <1>3 DEF Report
  <2>. QED  BY ZenonT(60), <2>1, SettledOther
<1>4. ASSUME NEW a \in Addresses, ShowAddress(a) PROVE Settled(kind, stored', static, carried, had)
  <2>1. kind = "service" /\ stored # Absent /\ stored' = [stored EXCEPT !.ann = a]
    BY Zenon, <1>4 DEF ShowAddress
  <2>2. stored \in ServicesUpstream
    BY ZenonT(60), <2>1, KindFacts
  <2>3. stored'.type = stored.type
    BY <2>1, <2>2 DEF ServicesUpstream
  <2>. QED  BY ZenonT(60), <2>1, <2>3, SettledFacts DEF SettledInv
<1>. QED  BY ZenonT(60), <1>1, <1>2, <1>3, <1>4 DEF ControllerStep

----------------------------------------------------------------------------
(***************************************************************************)
(* The inductive invariant                                                 *)
(***************************************************************************)

\* The inductive invariant.
Inv == CacheInv /\ ObjectInv /\ SettledInv

\* The invariant holds at the start, also of an object that is older than the
\* rules.
LEMMA ObjectInit == Init => Inv
<1>. SUFFICES ASSUME Init PROVE Inv
  OBVIOUS
<1>1. CacheInv /\ Env \in Envs
  BY ZenonT(60), CacheInit, EnvFacts
<1>2. wrote = IF stored = Absent THEN <<>> ELSE OwnOf(kind, Backward(kind, stored, Env))
  BY Zenon, OwnFacts DEF Init
<1>3. stored \in {Absent} \cup Legacy
  BY Zenon DEF Init
<1>4. CASE stored = Absent
  BY Zenon, <1>1, <1>4 DEF Inv, ObjectInv, SettledInv
<1>5. CASE stored # Absent /\ kind = "service"
  <2>1. stored \in ServicesUpstream /\ stored.type = "ClusterIP"
    <3>1. stored \in [ns : {<<Tenant, "ns">>}, type : {"ClusterIP"}, ports : {{"http", "health"}},
                      ips : {{"ip"}}, ip : {"upstream", "None"}, ann : {NoAddress}]
      BY <1>3, <1>5 DEF Legacy
    <3>. QED  BY <3>1 DEF ServicesUpstream, ServiceTypes, ServiceIPs
  <2>2. ASSUME NEW e \in Envs PROVE OwnOf(kind, Backward(kind, stored, e)) = wrote
    <3>01. PICK b, c : b = Backward("service", stored, Env) /\ c = Backward("service", stored, e)
      BY Zenon
    <3>1. /\ b \in [ns : {<<"ns">>}, type : {stored.type}, ports : {stored.ports}, ips : {stored.ips},
                    ip : {stored.ip}, ann : {stored.ann}]
          /\ c \in [ns : {<<"ns">>}, type : {stored.type}, ports : {stored.ports}, ips : {stored.ips},
                    ip : {stored.ip}, ann : {stored.ann}]
      BY ZenonT(60), <2>1, <3>01, ServiceConversion
    <3>2. b = c
      BY SMTT(60), <3>1
    <3>. QED  BY ZenonT(60), <1>2, <1>5, <3>01, <3>2
  <2>3. kind # "event" /\ stored \in UpstreamOf(kind)
    BY <1>5, <2>1, KindFacts
  <2>4. Settled(kind, stored, static, carried, had)
    BY ZenonT(60), <1>5, <2>1, SettledFacts
  <2>. QED  BY ZenonT(60), <1>1, <2>2, <2>3, <2>4 DEF Inv, ObjectInv, SettledInv, Written
<1>6. CASE stored # Absent /\ kind = "namespace"
  <2>1. stored \in NamespacesUpstream
    <3>1. stored \in [name : {<<Tenant, "ns">>}, generate : {Empty}, label : {Tenant}, level : {NotGiven, "weak"}]
      BY <1>3, <1>6 DEF Legacy
    <3>. QED  BY <3>1 DEF NamespacesUpstream
  <2>2. ASSUME NEW e \in Envs PROVE OwnOf(kind, Backward(kind, stored, e)) = wrote
    <3>01. PICK b, c : b = Backward("namespace", stored, Env) /\ c = Backward("namespace", stored, e)
      BY Zenon
    <3>1. /\ b \in [name : {<<"ns">>}, generate : {Empty}, label : {stored.label}, level : {stored.level}]
          /\ c \in [name : {<<"ns">>}, generate : {Empty}, label : {stored.label}, level : {stored.level}]
      BY ZenonT(60), <1>1, <2>1, <3>01, NamespaceConversion
    <3>2. b = c
      BY SMTT(60), <3>1
    <3>. QED  BY ZenonT(60), <1>2, <1>6, <3>01, <3>2
  <2>3. kind # "event" /\ stored \in UpstreamOf(kind)
    BY SMTT(60), <1>6, <2>1, KindFacts
  <2>4. Settled(kind, stored, static, carried, had)
    <3>1. kind \notin {"service", "volume", "ingress", "pod", "claim", "workload", "custom"}
      BY <1>6
    <3>. QED  BY ZenonT(60), <3>1, SettledOther
  <2>. QED  BY Zenon, <1>1, <2>2, <2>3, <2>4 DEF Inv, ObjectInv, SettledInv, Written
<1>7. stored # Absent => kind = "service" \/ kind = "namespace"
  BY <1>3 DEF Legacy
<1>. QED  BY ZenonT(60), <1>4, <1>5, <1>6, <1>7

\* A report is read as the controller's object, in the tenant's terms.
LEMMA ReportWritten ==
    \A r \in Reported \cup {Node} : Report(r) =>
        Written(kind, stored', wrote')
\* What controllers tell of is one of the references upstream.
<1>ReportFacts. \A r \in Reported \cup {Node} :
                    LET a == [r EXCEPT !.ns = UpstreamNamespace(@)]
                    IN  /\ a \in RefsUpstream
                        /\ [OwnerBackward(r) EXCEPT !.ns = TrimTenantIDPrefix(@)] = RefView(a)
  \* A reference is determined by its fields.
  <2>SameReference. \A c, g, n, m :
                    \A x \in [scope : {c}, group : {g}, ns : {n}, name : {m}], y \in [scope : {c}, group : {g}, ns : {n}, name : {m}] :
                        x = y
    <3>. TAKE c, g, n, m
    <3>. TAKE x \in [scope : {c}, group : {g}, ns : {n}, name : {m}], y \in [scope : {c}, group : {g}, ns : {n}, name : {m}]
    <3>. QED  OBVIOUS
  <2>. TAKE r \in Reported \cup {Node}
  <2>01. PICK ns, up, na, ta, no : /\ ns = <<"ns">> /\ up = <<Tenant, "ns">>
                                   /\ na = <<"a">> /\ ta = AddTenantIDPrefix(na) /\ no = <<"node">>
    BY Zenon
  <2>1. /\ ns \in Given /\ na \in Given /\ no \in Given /\ up \in HeldOnce /\ up # Empty
        /\ UpstreamNamespace(ns) = up /\ TrimTenantIDPrefix(up) = ns /\ TrimTenantIDPrefix(ns) = ns
    <3>1. "ns" \in Words /\ "a" \in Words /\ "node" \in Words
      BY Zenon, WordFacts
    <3>2. ns \in Given /\ na \in Given /\ no \in Given
      BY ZenonT(60), <2>01, <3>1, WordNames
    <3>3. ns \in Spellings /\ up \in Names /\ HasPrefix(up)
      BY Zenon, <2>01, SpellingFacts DEF Spellings
    <3>4. UpstreamNamespace(ns) = up /\ TrimTenantIDPrefix(up) = ns
      BY ZenonT(60), <2>01, <3>3, SpellingFacts
    <3>5. ns \in Plain /\ TrimTenantIDPrefix(ns) = ns
      BY ZenonT(60), <3>2, NameFacts, GivenFacts
    <3>6. up \in HeldOnce /\ up # Empty
      BY ZenonT(60), <3>3, <3>4, <3>5, TrimFacts DEF HeldOnce, Held
    <3>. QED  BY ZenonT(60), <3>2, <3>4, <3>5, <3>6
  <2>2. /\ ta \in GivenUpstream /\ ta = Prefixed(na) /\ TrimTenantIDPrefix(ta) = na
        /\ TrimTenantIDPrefix(na) = na /\ TrimTenantIDPrefix(no) = no
        /\ na \in Names /\ ta \in Names /\ no \in Names
    <3>1. ta \in GivenUpstream /\ ta = Prefixed(na) /\ TrimTenantIDPrefix(ta) = na
      BY Zenon, <2>01, <2>1, GivenFacts
    <3>. QED  BY ZenonT(60), <2>1, <3>1, GivenFacts, NameFacts
  <2>3. /\ UpstreamNamespace(Empty) = Empty /\ TrimTenantIDPrefix(Empty) = Empty /\ Empty \in HeldOnce
        /\ Empty \in Names
    <3>1. Empty \in Plain /\ Empty \in Names /\ Prefixed(Empty) = Empty /\ TrimTenantIDPrefix(Empty) = Empty
      BY Zenon, EmptyFacts
    <3>. QED  BY Zenon, <3>1, NameFacts
  <2>. DEFINE Shape ==
          \E c \in {"Namespaced", "Cluster"}, g \in {Empty, OwnGroupUpstream} :
              \/ c = "Namespaced" /\ r \in [scope : {c}, group : {g}, ns : {ns}, name : {na}]
              \/ c = "Cluster" /\ r \in [scope : {c}, group : {g}, ns : {Empty}, name : {ta}]
              \/ r = Node
  <2>4. Shape
    <3>1. CASE r = Node
      BY Zenon, <3>1
    <3>2. ASSUME NEW q \in References, q.scope # "none", r = OwnerForward(q) PROVE Shape
      <4>1. \E c \in {"Namespaced", "Cluster"}, g \in {Empty, OwnGroup} :
              \/ c = "Namespaced" /\ q \in [scope : {c}, group : {g}, ns : {ns}, name : {na}]
              \/ c = "Cluster" /\ q \in [scope : {c}, group : {g}, ns : {Empty}, name : {na}]
        BY SMTT(60), <2>01, <3>2 DEF References, OwnGroup
      <4>. PICK c \in {"Namespaced", "Cluster"}, g \in {Empty, OwnGroup} :
              \/ c = "Namespaced" /\ q \in [scope : {c}, group : {g}, ns : {ns}, name : {na}]
              \/ c = "Cluster" /\ q \in [scope : {c}, group : {g}, ns : {Empty}, name : {na}]
        BY <4>1
      <4>02. PICK h : h = OwnerGroupUp(g)
        BY Zenon
      <4>2. h \in {Empty, OwnGroupUpstream}
        BY Zenon, <4>02, OwnGroupFacts DEF OwnerGroupUp
      <4>3. /\ c = "Namespaced" => r \in [scope : {c}, group : {h}, ns : {ns}, name : {na}]
            /\ c = "Cluster" => r \in [scope : {c}, group : {h}, ns : {Empty}, name : {ta}]
        BY ZenonT(60), <2>2, <3>2, <4>02 DEF OwnerForward, OwnerGroupUp
      <4>. QED  BY ZenonT(60), <4>2, <4>3
    <3>. QED  BY Zenon, <3>1, <3>2 DEF Reported
  <2>02. PICK a : a = [r EXCEPT !.ns = UpstreamNamespace(r.ns)]
    BY Zenon
  <2>03. PICK z : z = [OwnerBackward(r) EXCEPT !.ns = TrimTenantIDPrefix(OwnerBackward(r).ns)]
    BY Zenon
  <2>5. a \in RefsUpstream /\ z = RefView(a)
    <3>1. OwnGroupUpstream \notin NativeGroups /\ Empty \in NativeGroups /\ OwnGroupUpstream # Empty
          /\ TrimTenantIDPrefix(OwnGroupUpstream) = OwnGroup
      BY Zenon, OwnGroupFacts
    <3>2. ASSUME NEW g \in {Empty, OwnGroupUpstream},
                 r \in [scope : {"Namespaced"}, group : {g}, ns : {ns}, name : {na}]
          PROVE  a \in RefsUpstream /\ z = RefView(a)
      <4>1. a \in [scope : {"Namespaced"}, group : {g}, ns : {up}, name : {na}]
        BY SMTT(60), <2>02, <2>1, <3>2
      <4>2. a \in RefsUpstream
        BY SMTT(60), <2>1, <2>2, <4>1 DEF RefsUpstream, RefRecords, RefScoped
      <4>3. z \in [scope : {"Namespaced"}, group : {RefGroupPlain(g)}, ns : {ns}, name : {na}]
        BY ZenonT(60), <2>03, <2>1, <3>1, <3>2 DEF OwnerBackward, RefGroupPlain
      <4>4. RefView(a) \in [scope : {"Namespaced"}, group : {RefGroupPlain(g)}, ns : {ns}, name : {na}]
        BY ZenonT(60), <2>1, <2>2, <4>1 DEF RefView
      <4>. QED  BY <4>2, <4>3, <4>4
    <3>3. ASSUME NEW g \in {Empty, OwnGroupUpstream},
                 r \in [scope : {"Cluster"}, group : {g}, ns : {Empty}, name : {ta}]
          PROVE  a \in RefsUpstream /\ z = RefView(a)
      <4>1. a \in [scope : {"Cluster"}, group : {g}, ns : {Empty}, name : {ta}]
        BY SMTT(60), <2>02, <2>3, <3>3
      <4>2. a \in RefsUpstream
        BY SMTT(60), <2>2, <2>3, <4>1 DEF RefsUpstream, RefRecords, RefScoped
      <4>3. z \in [scope : {"Cluster"}, group : {RefGroupPlain(g)}, ns : {Empty}, name : {na}]
        BY ZenonT(60), <2>03, <2>2, <2>3, <3>1, <3>3 DEF OwnerBackward, RefGroupPlain
      <4>4. RefView(a) \in [scope : {"Cluster"}, group : {RefGroupPlain(g)}, ns : {Empty}, name : {na}]
        BY ZenonT(60), <2>2, <2>3, <4>1 DEF RefView
      <4>. QED  BY SMTT(60), <4>2, <4>3, <4>4
    <3>4. CASE r = Node
      <4>1. r \in [scope : {"Cluster"}, group : {Empty}, ns : {Empty}, name : {no}]
        BY <2>01, <3>4 DEF Node
      <4>2. a \in [scope : {"Cluster"}, group : {Empty}, ns : {Empty}, name : {no}]
        BY <2>02, <2>3, <4>1
      <4>3. a = Node
        BY ZenonT(60), <3>4, <4>1, <4>2, <2>SameReference
      <4>4. a \in RefsUpstream
        BY <2>2, <2>3, <4>2, <4>3 DEF RefsUpstream, RefRecords, RefScoped
      <4>5. z \in [scope : {"Cluster"}, group : {Empty}, ns : {Empty}, name : {no}]
        BY ZenonT(60), <2>03, <2>2, <2>3, <3>1, <4>1 DEF OwnerBackward
      <4>6. RefView(a) \in [scope : {"Cluster"}, group : {Empty}, ns : {Empty}, name : {no}]
        BY ZenonT(60), <2>2, <2>3, <3>1, <4>2 DEF RefView, RefGroupPlain
      <4>. QED  BY <4>4, <4>5, <4>6
    <3>. QED  BY Zenon, <2>4, <3>2, <3>3, <3>4
  <2>. QED  BY Zenon, <2>02, <2>03, <2>5
<1>. TAKE r \in Reported \cup {Node}
<1>. HAVE Report(r)
<1>01. PICK a : a = [r EXCEPT !.ns = UpstreamNamespace(@)]
  BY Zenon
<1>1. a \in RefsUpstream /\ [OwnerBackward(r) EXCEPT !.ns = TrimTenantIDPrefix(@)] = RefView(a)
  BY Zenon, <1>01, <1>ReportFacts
<1>2. /\ kind = "event"
      /\ stored' = [ns |-> <<Tenant, "ns">>, about |-> a, message |-> {Tenant, "ns"}]
      /\ wrote' = [about |-> RefView(a), message |-> {"ns"}]
  BY Zenon, <1>01, <1>1 DEF Report
<1>3. stored' \in EventsUpstream /\ stored'.about = a
  BY <1>1, <1>2 DEF EventsUpstream
<1>. QED  BY ZenonT(60), <1>2, <1>3, KindFacts DEF Written

\* Every step keeps the invariant.
LEMMA ObjectNext == Inv /\ [Next]_vars => Inv'
<1>. SUFFICES ASSUME Inv, [Next]_vars PROVE Inv'
  OBVIOUS
<1>1. CacheInv /\ CacheInv' /\ Grown
  BY Zenon, CacheNext DEF Inv
<1>2. stored # Absent => /\ Written(kind, stored, wrote) /\ stored \in UpstreamOf(kind)
                         /\ Settled(kind, stored, static, carried, had)
  BY Zenon DEF Inv, ObjectInv, SettledInv, Written
<1>3. CASE UNCHANGED object
  <2>1. kind' = kind /\ stored' = stored /\ wrote' = wrote
    BY Zenon, <1>3 DEF object
  <2>2. SettledInv'
    BY ZenonT(60), <1>1, <2>1, SettledKept DEF Inv
  <2>3. ObjectInv'
    BY Zenon, <2>1 DEF Inv, ObjectInv
  <2>. QED  BY ZenonT(60), <1>1, <2>2, <2>3 DEF Inv
<1>4. ASSUME TenantStep \/ ControllerStep,
             Written(kind, stored', wrote') /\ Settled(kind, stored', static, carried, had)
      PROVE  Inv'
  <2>1. kind' = kind /\ static' = static /\ carried' = carried /\ had' = had
    BY Zenon, <1>4, CacheWrites DEF classes, dns
  <2>. QED  BY Zenon, <1>1, <1>4, <2>1 DEF Inv, ObjectInv, SettledInv
<1>5. ASSUME NEW o \in Manifests(kind), TenantCreate(o) PROVE Inv'
  <2>1. CreateAnswer(o) = "none" /\ stored' = Allocated(Created(o)) /\ wrote' = OwnOf(kind, Named(o))
    BY Zenon, <1>5, OwnFacts DEF TenantCreate
  <2>2. Written(kind, stored', wrote')
    BY ZenonT(60), <1>1, <2>1, CreateWritten
  <2>3. Settled(kind, stored', static, carried, had)
    BY ZenonT(60), <1>1, <2>1, CreateSettled
  <2>. QED  BY ZenonT(60), <1>4, <1>5, <2>2, <2>3 DEF TenantStep
<1>6. ASSUME stored # Absent, NEW o \in Edits, TenantUpdate(o) PROVE Inv'
  <2>1. Written(kind, stored', wrote')
    BY ZenonT(60), <1>1, <1>2, <1>6, UpdateWritten
  <2>2. Settled(kind, stored', static, carried, had)
    BY ZenonT(60), <1>1, <1>2, <1>6, UpdateSettled
  <2>. QED  BY ZenonT(60), <1>4, <1>6, <2>1, <2>2 DEF TenantStep
<1>7. CASE TenantDelete
  <2>1. stored' = Absent /\ Absent' = Absent
    BY Zenon, <1>7 DEF TenantDelete, Absent
  <2>. QED  BY Zenon, <1>1, <2>1 DEF Inv, ObjectInv, SettledInv
<1>8. CASE ControllerStep
  <2>1. Settled(kind, stored', static, carried, had)
    BY ZenonT(60), <1>2, <1>8, ControllerSettled DEF Inv
  <2>2. Written(kind, stored', wrote')
    <3>1. CASE BindClaim
      BY ZenonT(60), <1>2, <3>1, BoundWritten DEF BindClaim
    <3>2. CASE Schedule
      BY ZenonT(60), <1>2, <3>2, NodeWritten DEF Schedule
    <3>3. CASE \E r \in Reported \cup {Node} : Report(r)
      BY Zenon, <3>3, ReportWritten
    <3>4. CASE \E a \in Addresses : ShowAddress(a)
      BY ZenonT(60), <1>2, <3>4, AddressWritten DEF ShowAddress
    <3>. QED  BY ZenonT(60), <1>8, <3>1, <3>2, <3>3, <3>4 DEF ControllerStep
  <2>. QED  BY ZenonT(60), <1>4, <1>8, <2>1, <2>2
<1>9. ASSUME PlatformStep \/ SeeStep PROVE UNCHANGED object
  BY ZenonT(60), <1>9 DEF PlatformStep, SeeStep, Label, Suspend, Define, Resolve, Restart, SeeClass,
     SeeTenant, SeeResolverService, SeeEndpoints
<1>10. CASE UNCHANGED vars
  BY ZenonT(60), <1>3, <1>10 DEF vars
<1>11. CASE TenantStep
  BY ZenonT(60), <1>5, <1>6, <1>7, <1>11 DEF TenantStep
<1>. QED  BY ZenonT(60), <1>3, <1>8, <1>9, <1>10, <1>11 DEF Next

\* The invariant that the theorems below rest on.
LEMMA Invariant == Spec => []Inv
BY ObjectInit, ObjectNext, PTL DEF Spec

----------------------------------------------------------------------------
(***************************************************************************)
(* What holds of the object                                                *)
(***************************************************************************)

\* Pods are pointed at a nameserver that had its address and a ready endpoint
\* at some time: Resolver.For asks for both, an update does not let the tenant
\* change the nameserver, and what the resolver has had is not forgotten.
THEOREM NameserverHasServed == Spec => []NameserverServed
<1>1. Inv => NameserverServed
  <2>. SUFFICES ASSUME Inv, stored # Absent, kind \in {"pod", "workload"}, stored.dns # "default"
                PROVE  stored.dns \in had.at \ {NoAddress} /\ had.ready
    BY Zenon DEF NameserverServed
  <2>1. Served(stored.dns, had)
    BY ZenonT(60), SettledFacts DEF Inv, SettledInv
  <2>. QED  BY Zenon, <2>1 DEF Served
<1>. QED  BY <1>1, Invariant, PTL

\* A claim or a template names a class only if it is on the command line or was
\* published: the rules wait for the store, and what passed stays in carried.
THEOREM ClassWasOffered == Spec => []OnlyOffered
<1>1. Inv => OnlyOffered
  <2>. SUFFICES ASSUME Inv, stored # Absent, kind \in {"claim", "workload"}
                PROVE  /\ stored.class = Empty \/ "storage" \in static \/ "true" \in carried["storage"]
                       /\ stored.vac = Empty \/ "true" \in carried["attributes"]
    BY Zenon DEF OnlyOffered
  <2>1. Offered("storage", stored.class, static, carried) /\ Offered("attributes", stored.vac, static, carried)
    BY Zenon, SettledFacts DEF Inv, SettledInv
  <2>2. "attributes" \notin static
    BY Zenon DEF Inv, CacheInv
  <2>. QED  BY Zenon, <2>1, <2>2 DEF Offered
<1>. QED  BY <1>1, Invariant, PTL

\* The subjects of a binding are attributable to its tenant, and kept apart
\* from those of others.
LEMMA SubjectUpFacts ==
    \A q \in Subjects :
        /\ Attributable(SubjectForward(q))
        /\ IF SubjectForward(q).kind = "ServiceAccount"
           THEN SubjectForward(q).ns = Empty \/ HasPrefix(SubjectForward(q).ns)
           ELSE HasPrefix(SubjectForward(q).name)
<1>. TAKE q \in Subjects
<1>01. PICK s : s = SubjectForward(q)
  BY Zenon
<1>02. PICK jo, ns, au : jo = <<"jo">> /\ ns = <<"ns">> /\ au = <<"system", "authenticated">>
  BY Zenon
<1>1. jo \in Names /\ jo # Empty /\ ns \in Names /\ ns # Empty /\ au \in Names /\ au # Empty
  <2>1. "jo" \in Words /\ "ns" \in Words /\ "system" \in Words /\ "authenticated" \in Words
    BY Zenon, WordFacts
  <2>2. jo \in Names /\ jo # Empty /\ ns \in Names /\ ns # Empty
    BY Zenon, <1>02, <2>1, WordNames
  <2>3. au \in Names
    BY ZenonT(60), <1>02, <2>1, TwoParts DEF Names
  <2>4. au # Empty
    BY <1>02 DEF Empty
  <2>. QED  BY ZenonT(60), <2>2, <2>3, <2>4
<1>2. /\ HasPrefix(Prefixed(jo)) /\ HasPrefix(Prefixed(ns)) /\ HasPrefix(Prefixed(au))
      /\ Prefixed(Empty) = Empty
  BY ZenonT(60), <1>1, UpstreamFacts, EmptyFacts
<1>3. \/ q \in [kind : {"User"}, ns : {Empty}, name : {jo}]
      \/ q \in [kind : {"ServiceAccount"}, ns : {ns, Empty}, name : {jo}]
      \/ q \in [kind : {"Accounts"}, ns : {Empty}, name : {ns}]
      \/ q \in [kind : {"Group"}, ns : {Empty}, name : {au}]
  BY <1>02 DEF Subjects
<1>4. CASE q \in [kind : {"User"}, ns : {Empty}, name : {jo}]
  <2>1. s.kind = "User" /\ s.name = Prefixed(jo)
    BY <1>01, <1>4 DEF SubjectForward
  <2>. QED  BY SMTT(60), <1>01, <1>2, <2>1 DEF Attributable
<1>5. CASE q \in [kind : {"ServiceAccount"}, ns : {ns, Empty}, name : {jo}]
  <2>1. s.kind = "ServiceAccount" /\ (s.ns = Prefixed(ns) \/ s.ns = Prefixed(Empty))
    BY <1>01, <1>5 DEF SubjectForward
  <2>. QED  BY <1>01, <1>2, <2>1 DEF Attributable
<1>6. CASE q \in [kind : {"Accounts"}, ns : {Empty}, name : {ns}]
  <2>1. s.kind = "Accounts" /\ s.name = Prefixed(ns)
    BY <1>01, <1>6 DEF SubjectForward
  <2>. QED  BY <1>01, <1>2, <2>1 DEF Attributable
<1>7. CASE q \in [kind : {"Group"}, ns : {Empty}, name : {au}]
  <2>1. s.kind = "Group" /\ s.name = Prefixed(au)
    BY SMTT(60), <1>01, <1>7 DEF SubjectForward
  <2>. QED  BY <1>01, <1>2, <2>1 DEF Attributable
<1>. QED  BY ZenonT(60), <1>3, <1>4, <1>5, <1>6, <1>7

\* What the tenant reads is what it wrote, after any changes of the platform:
\* the object is what a conversion made of what was written, and Backward
\* undoes it whatever the gateway knows by then.
THEOREM WhatIsReadWasWritten == Spec => []ReadsAsWritten
<1>1. Inv => ReadsAsWritten
  <2>. SUFFICES ASSUME Inv, stored # Absent, ~Unresolved
                PROVE  /\ ~BackwardFails(kind, stored, Env)
                       /\ \A ns \in Spellings :
                            /\ Own(TenantView(stored, ns)) = wrote
                            /\ kind \notin ClusterScoped => TenantView(stored, ns).ns = ns
    BY Zenon DEF ReadsAsWritten
  <2>0. CacheInv /\ Written(kind, stored, wrote) /\ stored \in UpstreamOf(kind) /\ Env \in Envs
    BY Zenon, EnvFacts DEF Inv, ObjectInv, Written
  <2>1. ASSUME kind = "dependent", NEW r \in stored.owners PROVE Known(r, Env)
    <3>1. stored \in DependentsUpstream
      BY ZenonT(60), <2>0, <2>1, KindFacts
    <3>2. PICK R \in SUBSET OwnerDrafts : stored.owners = OwnersUp(R)
      BY <3>1 DEF DependentsUpstream
    <3>3. PICK q \in OwnerDrafts : r = OwnerForward(q)
      BY Zenon, <2>1, <3>2 DEF OwnersUp
    <3>4. r \in [scope : {q.scope}, group : NativeGroups \cup GivenUpstream, name : Names]
      BY ZenonT(60), <3>3, OwnerFacts
    <3>5. r.scope # "none" /\ r.group \in NativeGroups \cup GivenUpstream
      BY <3>3, <3>4 DEF OwnerDrafts
    <3>6. HasPrefix(r.group) => Known(r, Env)
      BY Zenon, <2>1 DEF Unresolved
    <3>7. r.group \in GivenUpstream => HasPrefix(r.group)
      BY Zenon, GivenFacts
    <3>. QED  BY ZenonT(60), <3>5, <3>6, <3>7 DEF Known
  <2>2. ASSUME kind = "binding", NEW s \in stored.subjects PROVE Attributable(s)
    <3>1. stored \in BindingsUpstream
      BY ZenonT(60), <2>0, <2>2, KindFacts
    <3>2. PICK S \in SUBSET Subjects : stored.subjects = SubjectsUp(S)
      BY <3>1 DEF BindingsUpstream
    <3>3. PICK q \in Subjects : s = SubjectForward(q)
      BY Zenon, <2>2, <3>2 DEF SubjectsUp
    <3>. QED  BY Zenon, <3>3, SubjectUpFacts
  <2>3. ASSUME kind = "crd" PROVE HasPrefix(stored.group)
    <3>1. stored \in CRDsUpstream
      BY ZenonT(60), <2>0, <2>3, KindFacts
    <3>2. stored.group \in GivenUpstream
      BY <3>1 DEF CRDsUpstream
    <3>. QED  BY ZenonT(60), <3>2, GivenFacts
  <2>4. ~BackwardFails(kind, stored, Env)
    BY ZenonT(60), <2>1, <2>2, <2>3 DEF BackwardFails
  <2>5. ASSUME NEW ns \in Spellings
        PROVE  /\ Own(TenantView(stored, ns)) = wrote
               /\ kind \notin ClusterScoped => TenantView(stored, ns).ns = ns
    <3>01. PICK v : v = TenantView(stored, ns)
      BY Zenon
    <3>1. (\A f \in Owned[kind] : v[f] = Backward(kind, stored, Env)[f]) /\ (kind \notin ClusterScoped => v.ns = ns)
      BY ZenonT(60), <2>0, <2>5, <3>01, ViewFacts
    <3>2. CASE kind # "event"
      <4>1. OwnOf(kind, v) = OwnOf(kind, Backward(kind, stored, Env))
        BY ZenonT(60), <3>1, OwnFacts
      <4>2. OwnOf(kind, Backward(kind, stored, Env)) = wrote
        BY Zenon, <2>0, <3>2 DEF Written
      <4>. QED  BY ZenonT(60), <3>01, <3>1, <4>1, <4>2, OwnFacts
    <3>3. CASE kind = "event"
      <4>1. stored \in EventsUpstream
        BY ZenonT(60), <2>0, <3>3, KindFacts
      <4>2. stored.about \in RefsUpstream
        BY <4>1 DEF EventsUpstream
      <4>3. HasPrefix(stored.about.group) => Known(stored.about, Env)
        BY Zenon, <3>3 DEF Unresolved
      <4>4. ReferenceBackward(stored.about, Env) = RefView(stored.about)
        BY ZenonT(60), <2>0, <4>2, <4>3, RefFacts
      <4>5. /\ Backward("event", stored, Env).about = ReferenceBackward(stored.about, Env)
            /\ Backward("event", stored, Env).message = {"ns"}
        BY SMTT(60), <2>0, <4>1, EventConversion
      <4>6. "about" \in Owned["event"] /\ "message" \in Owned["event"]
        BY DEF Owned
      <4>7. v.about = RefView(stored.about) /\ v.message = {"ns"}
        BY ZenonT(60), <3>1, <3>3, <4>4, <4>5, <4>6
      <4>8. OwnOf(kind, v) = [about |-> RefView(stored.about), message |-> {"ns"}]
        BY ZenonT(60), <3>3, <4>7, EventOwn
      <4>. QED  BY ZenonT(60), <2>0, <3>01, <3>1, <3>3, <4>8, OwnFacts DEF Written
    <3>. QED  BY ZenonT(60), <3>2, <3>3
  <2>. QED  BY Zenon, <2>4, <2>5
<1>. QED  BY <1>1, Invariant, PTL

\* Every namespaced object is in a namespace of the tenant.
LEMMA NamespaceHeld ==
    \A k \in Kinds \ ClusterScoped : \A s \in UpstreamOf(k) :
        HasPrefix(s.ns)
<1>. TAKE k \in Kinds \ ClusterScoped
<1>. TAKE s \in UpstreamOf(k)
<1>1. ASSUME s.ns = <<Tenant, "ns">> PROVE HasPrefix(s.ns)
  BY Zenon, <1>1, SpellingFacts
<1>2. CASE k = "claim"
  <2>1. s \in ClaimsUpstream
    BY ZenonT(60), <1>2, KindFacts
  <2>2. s.ns = <<Tenant, "ns">>
    BY SMTT(60), <2>1 DEF ClaimsUpstream
  <2>. QED  BY ZenonT(60), <1>1, <2>2
<1>3. CASE k = "ingress"
  <2>1. s \in IngressesUpstream
    BY ZenonT(60), <1>3, KindFacts
  <2>2. s.ns = <<Tenant, "ns">>
    BY SMTT(60), <2>1 DEF IngressesUpstream
  <2>. QED  BY Zenon, <1>1, <2>2
<1>4. CASE k = "service"
  <2>1. s \in ServicesUpstream
    BY ZenonT(60), <1>4, KindFacts
  <2>2. s.ns = <<Tenant, "ns">>
    BY SMTT(60), <2>1 DEF ServicesUpstream
  <2>. QED  BY Zenon, <1>1, <2>2
<1>5. CASE k = "pod"
  <2>1. s \in PodsUpstream
    BY ZenonT(60), <1>5, KindFacts
  <2>2. s.ns = <<Tenant, "ns">>
    BY SMTT(60), <2>1 DEF PodsUpstream
  <2>. QED  BY Zenon, <1>1, <2>2
<1>6. CASE k = "workload"
  <2>1. s \in WorkloadsUpstream
    BY ZenonT(60), <1>6, KindFacts
  <2>2. s.ns = <<Tenant, "ns">>
    BY SMTT(60), <2>1 DEF WorkloadsUpstream
  <2>. QED  BY Zenon, <1>1, <2>2
<1>7. CASE k = "role"
  <2>1. s \in RolesUpstream
    BY ZenonT(60), <1>7, KindFacts
  <2>2. s.ns = <<Tenant, "ns">>
    BY SMTT(60), <2>1 DEF RolesUpstream
  <2>. QED  BY Zenon, <1>1, <2>2
<1>8. CASE k = "binding"
  <2>1. s \in BindingsUpstream
    BY ZenonT(60), <1>8, KindFacts
  <2>2. s.ns = <<Tenant, "ns">>
    BY SMTT(60), <2>1 DEF BindingsUpstream
  <2>. QED  BY Zenon, <1>1, <2>2
<1>9. CASE k = "policy"
  <2>1. s \in PoliciesUpstream
    BY ZenonT(60), <1>9, KindFacts
  <2>2. s.ns = <<Tenant, "ns">>
    BY SMTT(60), <2>1 DEF PoliciesUpstream
  <2>. QED  BY Zenon, <1>1, <2>2
<1>10. CASE k = "dependent"
  <2>1. s \in DependentsUpstream
    BY ZenonT(60), <1>10, KindFacts
  <2>2. s.ns = <<Tenant, "ns">>
    BY SMTT(60), <2>1 DEF DependentsUpstream
  <2>. QED  BY Zenon, <1>1, <2>2
<1>11. CASE k = "event"
  <2>1. s \in EventsUpstream
    BY ZenonT(60), <1>11, KindFacts
  <2>2. s.ns = <<Tenant, "ns">>
    BY SMTT(60), <2>1 DEF EventsUpstream
  <2>. QED  BY Zenon, <1>1, <2>2
<1>12. CASE k = "custom"
  <2>1. s \in CustomsUpstream
    BY ZenonT(60), <1>12, KindFacts
  <2>2. s.ns = <<Tenant, "ns">>
    BY <2>1 DEF CustomsUpstream
  <2>. QED  BY Zenon, <1>1, <2>2
<1>13. k \notin {"volume", "crd", "webhook", "namespace"} /\ k \in Kinds
  BY ZenonT(60) DEF ClusterScoped
<1>. QED  BY ZenonT(60), <1>2, <1>3, <1>4, <1>5, <1>6, <1>7, <1>8, <1>9, <1>10, <1>11, <1>12, <1>13, KindCases

\* Every reference in a stored object is to something of the tenant's, to a
\* class that was published, or the platform's: what Forward makes of any draft
\* refers to nothing else, and the rules have settled the rest.
THEOREM ReferencesConfined == Spec => []Confined
<1>1. Inv => Confined
  <2>. SUFFICES ASSUME Inv, stored # Absent PROVE Confined
    BY Zenon DEF Confined
  <2>0. /\ kind \in Kinds /\ stored \in UpstreamOf(kind)
        /\ Settled(kind, stored, static, carried, had)
    BY Zenon DEF Inv, CacheInv, ObjectInv, SettledInv, Written
  <2>00. /\ \A n \in Held : n = Empty \/ HasPrefix(n)
         /\ \A n \in HeldOnce : n = Empty \/ HasPrefix(n)
         /\ \A n \in GivenUpstream : HasPrefix(n)
    BY Zenon, GivenFacts DEF Held, HeldOnce
  <2>1. kind \notin ClusterScoped => HasPrefix(stored.ns)
    BY ZenonT(60), <2>0, NamespaceHeld
  <2>2. ASSUME kind = "claim"
        PROVE  /\ stored.bound \/ stored.volume = Empty \/ HasPrefix(stored.volume)
               /\ stored.from = Empty \/ HasPrefix(stored.from)
    <3>1. stored \in ClaimsUpstream
      BY ZenonT(60), <2>0, <2>2, KindFacts
    <3>2. (stored.bound \/ stored.volume \in Held) /\ stored.from \in HeldOnce
      BY <3>1 DEF ClaimsUpstream
    <3>. QED  BY ZenonT(60), <2>00, <3>2
  <2>3. ASSUME kind = "ingress"
        PROVE  \/ stored.class = Empty \/ HasPrefix(stored.class)
               \/ "ingress" \in static \/ carried["ingress"] # {"none"}
    BY ZenonT(60), <2>0, <2>00, <2>3, SettledFacts
  <2>4. ASSUME kind = "binding"
        PROVE  /\ \A s \in stored.subjects :
                    IF s.kind = "ServiceAccount" THEN s.ns = Empty \/ HasPrefix(s.ns)
                                                 ELSE HasPrefix(s.name)
               /\ stored.clusterRole = Empty \/ HasPrefix(stored.clusterRole)
    <3>1. stored \in BindingsUpstream
      BY ZenonT(60), <2>0, <2>4, KindFacts
    <3>2. PICK S \in SUBSET Subjects : stored.subjects = SubjectsUp(S)
      BY <3>1 DEF BindingsUpstream
    <3>3. stored.clusterRole \in Held
      BY <3>1 DEF BindingsUpstream
    <3>4. ASSUME NEW s \in stored.subjects
          PROVE  IF s.kind = "ServiceAccount" THEN s.ns = Empty \/ HasPrefix(s.ns)
                                              ELSE HasPrefix(s.name)
      <4>1. PICK q \in Subjects : s = SubjectForward(q)
        BY ZenonT(60), <3>2, <3>4 DEF SubjectsUp
      <4>. QED  BY ZenonT(60), <4>1, SubjectUpFacts
    <3>. QED  BY ZenonT(60), <2>00, <3>3, <3>4
  <2>5. ASSUME kind = "custom" PROVE stored.group \in SharedGroups \/ HasPrefix(stored.group)
    <3>1. stored \in CustomsUpstream
      BY ZenonT(60), <2>0, <2>5, KindFacts
    <3>2. stored.group \in GroupsUpstream
      BY <3>1 DEF CustomsUpstream
    <3>. QED  BY Zenon, <3>2, GroupFacts
  <2>6. ASSUME kind = "namespace"
        PROVE  /\ HasPrefix(stored.name) /\ ~HasPrefix(Tail(stored.name))
               /\ stored.label = Tenant
               /\ stored.level = "pinned" \/ stored \in Legacy
    <3>1. stored \in NamespacesUpstream
      BY ZenonT(60), <2>0, <2>6, KindFacts
    <3>2. stored.name = <<Tenant, "ns">> /\ stored.label = Tenant
      BY <3>1 DEF NamespacesUpstream
    <3>3. HasPrefix(<<Tenant, "ns">>) /\ TrimTenantIDPrefix(<<Tenant, "ns">>) = <<"ns">> /\ <<"ns">> \in Plain
      BY ZenonT(60), SpellingFacts
    <3>4. ~HasPrefix(Tail(stored.name))
      BY ZenonT(60), <3>2, <3>3 DEF TrimTenantIDPrefix, Plain
    <3>5. stored.level # "pinned" =>
            stored \in [name : {<<Tenant, "ns">>}, generate : {Empty}, label : {Tenant}, level : {NotGiven, "weak"}]
      BY <3>1 DEF NamespacesUpstream
    <3>6. Legacy = [name : {<<Tenant, "ns">>}, generate : {Empty}, label : {Tenant}, level : {NotGiven, "weak"}]
      BY ZenonT(60), <2>6 DEF Legacy
    <3>. QED  BY ZenonT(60), <3>2, <3>3, <3>4, <3>5, <3>6
  <2>7. ASSUME kind = "dependent", NEW r \in stored.owners
        PROVE  /\ r.group \in NativeGroups \/ HasPrefix(r.group)
               /\ r.scope = "Cluster" => HasPrefix(r.name)
    <3>1. stored \in DependentsUpstream
      BY ZenonT(60), <2>0, <2>7, KindFacts
    <3>2. PICK R \in SUBSET OwnerDrafts : stored.owners = OwnersUp(R)
      BY <3>1 DEF DependentsUpstream
    <3>3. PICK q \in OwnerDrafts : r = OwnerForward(q)
      BY ZenonT(60), <2>7, <3>2 DEF OwnersUp
    <3>4. /\ r \in [scope : {q.scope}, group : NativeGroups \cup GivenUpstream, name : Names]
          /\ q.scope = "Cluster" => HasPrefix(r.name)
      BY ZenonT(60), <3>3, OwnerFacts
    <3>5. r.scope = q.scope /\ r.group \in NativeGroups \cup GivenUpstream
      BY <3>4
    <3>. QED  BY ZenonT(60), <2>00, <3>4, <3>5
  <2>8. ASSUME kind = "event"
        PROVE  HasPrefix(stored.about.ns) \/ HasPrefix(stored.about.name) \/ stored.about = Node
    <3>01. PICK a : a = stored.about
      BY Zenon
    <3>1. stored \in EventsUpstream
      BY ZenonT(60), <2>0, <2>8, KindFacts
    <3>2. a \in RefsUpstream
      BY SMTT(60), <3>01, <3>1 DEF EventsUpstream
    <3>3. a.ns \in HeldOnce
      BY <3>2 DEF RefsUpstream, RefRecords
    <3>4. a.ns = Empty => a.name \in GivenUpstream \/ a = Node
      BY Zenon, <3>2 DEF RefsUpstream
    <3>. QED  BY ZenonT(60), <2>00, <3>01, <3>3, <3>4
  <2>9. ASSUME kind = "policy", NEW p \in stored.peers
        PROVE  p.selects => p.confined /\ (p.name = Empty \/ HasPrefix(p.name))
    <3>1. stored \in PoliciesUpstream
      BY ZenonT(60), <2>0, <2>9, KindFacts
    <3>2. p \in PeerRecords
      BY SMTT(60), <2>9, <3>1 DEF PoliciesUpstream
    <3>3. p.confined /\ p.name \in HeldOnce
      BY ZenonT(60), <3>2 DEF PeerRecords
    <3>. QED  BY ZenonT(60), <2>00, <3>3
  <2>10. ASSUME kind = "volume"
         PROVE  HasPrefix(stored.name) /\ HasPrefix(stored.claim.ns) /\ stored.claim.name # Empty
    <3>1. stored \in VolumesUpstream
      BY Zenon, <2>0, <2>10, KindFacts
    <3>2. stored.name \in Held /\ stored.claim.ns \in GivenUpstream /\ stored.claim.name # Empty
      BY <3>1 DEF VolumesUpstream
    <3>3. stored.name # Empty
      BY ZenonT(60), <2>0, <2>10, SettledFacts
    <3>. QED  BY Zenon, <2>00, <3>2, <3>3
  <2>11. ASSUME kind = "webhook"
         PROVE  ~stored.url /\ (stored.service = Empty \/ HasPrefix(stored.service))
    <3>1. stored \in WebhooksUpstream
      BY ZenonT(60), <2>0, <2>11, KindFacts
    <3>2. ~stored.url /\ stored.service \in Held
      BY ZenonT(60), <3>1 DEF WebhooksUpstream
    <3>. QED  BY ZenonT(60), <2>00, <3>2
  <2>12. ASSUME kind = "crd"
         PROVE  /\ ~stored.url /\ (stored.service = Empty \/ HasPrefix(stored.service))
                /\ HasPrefix(stored.group) /\ stored.name = CRDName(stored)
    <3>1. stored \in CRDsUpstream
      BY Zenon, <2>0, <2>12, KindFacts
    <3>2. ~stored.url /\ stored.service \in Held /\ stored.group \in GivenUpstream
      BY ZenonT(60), <3>1 DEF CRDsUpstream
    <3>3. stored.name = CRDName(stored)
      BY Zenon, <3>1 DEF CRDsUpstream
    <3>. QED  BY Zenon, <2>00, <3>2, <3>3
  <2>13. ASSUME kind = "pod" PROVE stored.pool /\ stored.token = "tenant"
    BY Zenon, <2>0, <2>13, SettledFacts
  <2>14. ASSUME kind = "workload" PROVE stored.pool /\ stored.token = "tenant" /\ stored.node = NotGiven
    <3>1. stored \in WorkloadsUpstream
      BY Zenon, <2>0, <2>14, KindFacts
    <3>. QED  BY ZenonT(60), <3>1 DEF WorkloadsUpstream
  <2>. QED  BY ZenonT(60), <2>1, <2>2, <2>3, <2>4, <2>5, <2>6, <2>7, <2>8, <2>9, <2>10, <2>11, <2>12,
               <2>13, <2>14 DEF Confined
<1>. QED  BY <1>1, Invariant, PTL

\* An access review asks about the subjects that bindings name and the group
\* that custom resources are in: the object has what Forward makes of what the
\* tenant wrote, and so has the review.
THEOREM ReviewsAgree == Spec => []ReviewAgrees
<1>1. Inv => ReviewAgrees
  <2>. SUFFICES ASSUME Inv PROVE ReviewAgrees
    OBVIOUS
  <2>0. Env \in Envs /\ (stored # Absent => Written(kind, stored, wrote))
    BY Zenon, EnvFacts DEF Inv, ObjectInv
  <2>01. PICK ns, up : ns = <<"ns">> /\ up = <<Tenant, "ns">>
    BY Zenon
  <2>00. /\ Prefixed(ns) = up /\ \A n \in Spellings : UpstreamNamespace(n) = up
    <3>1. ns \in Plain /\ ns \in Spellings
      BY ZenonT(60), <2>01, SpellingFacts DEF Spellings
    <3>. QED  BY ZenonT(60), <2>01, <3>1, SpellingFacts, NameFacts
  <2>1. ASSUME stored # Absent, kind = "binding", NEW s \in wrote.subjects
        PROVE  /\ s.kind = "User" => ReviewSubject(s) \in stored.subjects
               /\ s.kind = "Accounts" => \A n \in Spellings :
                    ReviewSubject([s EXCEPT !.name = n]) \in stored.subjects
               /\ s.kind = "ServiceAccount" /\ s.ns # Empty => \A n \in Spellings :
                    ReviewSubject([s EXCEPT !.ns = n]) \in stored.subjects
    <3>1. stored \in BindingsUpstream /\ OwnOf("binding", Backward("binding", stored, Env)) = wrote
      <4>1. "binding" # "event"
        OBVIOUS
      <4>. QED  BY ZenonT(60), <2>0, <2>1, <4>1, KindFacts DEF Written
    <3>2. PICK S \in SUBSET Subjects : stored.subjects = SubjectsUp(S)
      BY <3>1 DEF BindingsUpstream
    <3>3. wrote.subjects = S
      <4>1. Backward("binding", stored, Env).subjects = SubjectsDown(stored.subjects)
        BY SMTT(60), <2>0, <3>1, BindingConversion
      <4>2. "subjects" \in Owned["binding"]
        BY ZenonT(60) DEF Owned
      <4>3. wrote.subjects = Backward("binding", stored, Env).subjects
        BY ZenonT(60), <3>1, <4>2 DEF OwnOf
      <4>. QED  BY ZenonT(60), <3>2, <4>1, <4>3, SubjectFacts
    <3>4. s \in Subjects /\ SubjectForward(s) \in stored.subjects
      BY ZenonT(60), <2>1, <3>2, <3>3 DEF SubjectsUp
    <3>5. s \in SubjectRecords
      BY ZenonT(60), <3>4, SubjectFacts
    <3>6. ASSUME s.kind = "User" PROVE ReviewSubject(s) = SubjectForward(s)
      BY <3>6 DEF ReviewSubject, SubjectForward
    <3>7. ASSUME s.kind = "Accounts", NEW n \in Spellings
          PROVE  ReviewSubject([s EXCEPT !.name = n]) = SubjectForward(s)
      <4>1. s.name = ns
        BY ZenonT(60), <2>01, <3>4, <3>7, SubjectSpelled
      <4>2. [s EXCEPT !.name = n] \in [kind : {"Accounts"}, ns : {s.ns}, name : {n}]
        BY <3>5, <3>7 DEF SubjectRecords
      <4>3. ReviewSubject([s EXCEPT !.name = n]) \in [kind : {"Accounts"}, ns : {s.ns}, name : {up}]
        BY ZenonT(60), <2>00, <4>2 DEF ReviewSubject
      <4>4. SubjectForward(s) \in [kind : {"Accounts"}, ns : {s.ns}, name : {up}]
        BY <2>00, <3>5, <3>7, <4>1 DEF SubjectForward, SubjectRecords
      <4>. QED  BY <4>3, <4>4
    <3>8. ASSUME s.kind = "ServiceAccount", s.ns # Empty, NEW n \in Spellings
          PROVE  ReviewSubject([s EXCEPT !.ns = n]) = SubjectForward(s)
      <4>1. s.ns = ns
        BY ZenonT(60), <2>01, <3>4, <3>8, SubjectSpelled
      <4>2. [s EXCEPT !.ns = n] \in [kind : {"ServiceAccount"}, ns : {n}, name : {s.name}]
        BY SMTT(60), <3>5, <3>8 DEF SubjectRecords
      <4>3. ReviewSubject([s EXCEPT !.ns = n]) \in [kind : {"ServiceAccount"}, ns : {up}, name : {s.name}]
        BY ZenonT(60), <2>00, <4>2 DEF ReviewSubject
      <4>4. SubjectForward(s) \in [kind : {"ServiceAccount"}, ns : {up}, name : {s.name}]
        BY <2>00, <3>5, <3>8, <4>1 DEF SubjectForward, SubjectRecords
      <4>. QED  BY <4>3, <4>4
    <3>. QED  BY ZenonT(60), <3>4, <3>6, <3>7, <3>8
  <2>2. ASSUME stored # Absent, kind = "custom", wrote.group \notin SharedGroups, NEW n \in Spellings
        PROVE  ReviewAttributes([ns |-> n, group |-> wrote.group])
                 = [ns |-> stored.ns, group |-> stored.group]
    <3>01. PICK g : g = wrote.group
      BY Zenon
    <3>1. stored \in CustomsUpstream /\ OwnOf("custom", Backward("custom", stored, Env)) = wrote
      <4>1. "custom" # "event"
        OBVIOUS
      <4>. QED  BY ZenonT(60), <2>0, <2>2, <4>1, KindFacts DEF Written
    <3>2. g = GroupView(stored.group)
      <4>1. Backward("custom", stored, Env).group = GroupView(stored.group)
        BY SMTT(60), <2>0, <3>1, CustomConversion
      <4>2. "group" \in Owned["custom"]
        BY ZenonT(60) DEF Owned
      <4>. QED  BY ZenonT(60), <3>01, <3>1, <4>1, <4>2 DEF OwnOf
    <3>3. stored.ns = up /\ stored.group \in GroupsUpstream
      BY <2>01, <3>1 DEF CustomsUpstream
    <3>4. stored.group = AddTenantIDPrefix(g)
      BY ZenonT(60), <2>2, <3>01, <3>2, <3>3, GroupFacts DEF UpstreamGroup
    <3>5. g \notin NativeGroups
      BY ZenonT(60), <2>2, <3>2, SettledFacts DEF Inv, SettledInv
    <3>6. ReviewAttributes([ns |-> n, group |-> g]) = [ns |-> up, group |-> AddTenantIDPrefix(g)]
      <4>01. PICK a, p : a = [ns |-> n, group |-> g] /\ p = AddTenantIDPrefix(g)
        BY ZenonT(60)
      <4>1. a \in [ns : {n}, group : {g}]
        BY <4>01
      <4>2. ReviewAttributes(a) \in
              [ns : {UpstreamNamespace(n)}, group : {IF g \in NativeGroups THEN g ELSE AddTenantIDPrefix(g)}]
        BY ZenonT(60), <4>1 DEF ReviewAttributes
      <4>3. UpstreamNamespace(n) = up /\ (IF g \in NativeGroups THEN g ELSE AddTenantIDPrefix(g)) = p
        BY Zenon, <2>00, <3>5, <4>01
      <4>4. ReviewAttributes(a) \in [ns : {up}, group : {p}]
        BY Zenon, <4>2, <4>3
      <4>5. [ns |-> up, group |-> p] \in [ns : {up}, group : {p}]
        BY SMTT(60)
      <4>6. ReviewAttributes(a) = [ns |-> up, group |-> p]
        BY SMTT(60), <4>4, <4>5
      <4>. QED  BY ZenonT(60), <4>01, <4>6
    <3>. QED  BY Zenon, <3>01, <3>3, <3>4, <3>6
  <2>. QED  BY ZenonT(60), <2>1, <2>2 DEF ReviewAgrees
<1>. QED  BY <1>1, Invariant, PTL

\* What is written back as it was read is stored as it was: what a conversion
\* made is converted back and forth to itself, and so is what was added to a
\* Service and a pod.
THEOREM RewriteIsKept == Spec => []RewriteKeeps
<1>1. Inv => RewriteKeeps
  <2>. SUFFICES ASSUME Inv, NEW o \in Manifests(kind), CreateAnswer(o) = "none", NEW ns \in Spellings
                PROVE  Updated(TenantView(Allocated(Created(o)), ns), StorageView(Allocated(Created(o)), ns))
                         = Allocated(Created(o))
    BY Zenon DEF RewriteKeeps
  <2>01. PICK s : s = Allocated(Created(o))
    BY Zenon
  <2>0. CacheInv /\ Env \in Envs /\ kind \in Kinds
    BY Zenon, EnvFacts DEF Inv, CacheInv
  <2>1. s \in UpstreamOf(kind)
    BY ZenonT(60), <2>0, <2>01, CreateWritten DEF Written
  <2>2. Updated(TenantView(s, ns), StorageView(s, ns))
          = Forward(kind, Respelled(kind, Backward(kind, s, Env), ns), Env)
    BY ZenonT(60), <2>0, <2>1, PutBack
  <2>3. CASE kind = "service"
    BY ZenonT(60), <2>0, <2>01, <2>1, <2>2, <2>3, KindFacts, ServiceConversion DEF Rewritten
  <2>4. CASE kind = "pod"
    BY ZenonT(60), <2>0, <2>01, <2>1, <2>2, <2>4, KindFacts, PodConversion DEF Rewritten
  <2>5. CASE kind \notin {"service", "pod"}
    <3>1. PICK d \in DraftsOf(kind) : ~ForwardFails(kind, d, Env) /\ s = Forward(kind, d, Env)
      BY ZenonT(60), <2>0, <2>01, <2>5, CreateWritten
    <3>2. Idempotent(kind, DraftsOf(kind))
      BY ZenonT(60), <2>0, KindConversion
    <3>3. Forward(kind, Respelled(kind, Backward(kind, s, Env), ns), Env) = s
      BY ZenonT(60), <2>0, <3>1, <3>2 DEF Idempotent
    <3>. QED  BY ZenonT(60), <2>01, <2>2, <3>3
  <2>. QED  BY ZenonT(60), <2>3, <2>4, <2>5
<1>. QED  BY <1>1, Invariant, PTL

\* The kinds of which something is immutable upstream.
Immutables ==
    {"claim", "service", "pod", "custom", "binding", "volume", "crd", "webhook", "namespace"}

\* A put of what was read changes nothing that is immutable.
LEMMA PutKeeps ==
    CacheInv /\ stored \in UpstreamOf(kind) => \A ns \in Spellings :
        ImmutableKept(Updated(TenantView(stored, ns), StorageView(stored, ns)), stored)
<1>. HAVE CacheInv /\ stored \in UpstreamOf(kind)
<1>. TAKE ns \in Spellings
<1>0. kind \in Kinds /\ Env \in Envs
  BY ZenonT(60), EnvFacts DEF CacheInv
<1>01. PICK u : u = Forward(kind, Respelled(kind, Backward(kind, stored, Env), ns), Env)
  BY Zenon
<1>1. Updated(TenantView(stored, ns), StorageView(stored, ns)) = u
  BY ZenonT(60), <1>01, PutBack
<1>2. ASSUME u = stored PROVE ImmutableKept(u, stored)
  BY Zenon, <1>2 DEF ImmutableKept
<1>3. CASE kind = "claim"
  BY ZenonT(60), <1>0, <1>01, <1>1, <1>2, <1>3, KindFacts, ClaimConversion DEF Rewritten
<1>4. CASE kind = "service"
  BY ZenonT(60), <1>0, <1>01, <1>1, <1>2, <1>4, KindFacts, ServiceConversion DEF Rewritten
<1>5. CASE kind = "pod"
  BY ZenonT(60), <1>0, <1>01, <1>1, <1>2, <1>5, KindFacts, PodConversion DEF Rewritten
<1>6. CASE kind = "custom"
  BY ZenonT(60), <1>0, <1>01, <1>1, <1>2, <1>6, KindFacts, CustomConversion DEF Rewritten
<1>7. CASE kind = "binding"
  BY ZenonT(60), <1>0, <1>01, <1>1, <1>2, <1>7, KindFacts, BindingConversion DEF Rewritten
<1>8. CASE kind = "volume"
  BY ZenonT(60), <1>0, <1>01, <1>1, <1>2, <1>8, KindFacts, VolumeConversion DEF Rewritten
<1>9. CASE kind = "crd"
  BY ZenonT(60), <1>0, <1>01, <1>1, <1>2, <1>9, KindFacts, CRDConversion DEF Rewritten
<1>10. CASE kind = "webhook"
  BY ZenonT(60), <1>0, <1>01, <1>1, <1>2, <1>10, KindFacts, WebhookConversion DEF Rewritten
<1>11. CASE kind = "namespace"
  <2>01. PICK b : b = Backward("namespace", stored, Env)
    BY Zenon
  <2>1. stored \in NamespacesUpstream
    BY ZenonT(60), <1>11, KindFacts
  <2>2. b \in NamespaceDrafts /\ b.name = <<"ns">>
    <3>1. b \in NamespaceDrafts
      BY ZenonT(60), <1>0, <1>11, <2>01, ViewFacts, KindFacts
    <3>2. b.name = <<"ns">>
      BY SMTT(60), <1>0, <2>01, <2>1, NamespaceConversion
    <3>. QED  BY ZenonT(60), <3>1, <3>2
  <2>3. u = Forward("namespace", b, Env)
    BY SMTT(60), <1>01, <1>11, <2>01 DEF Respelled, ClusterScoped
  <2>4. u.name = Prefixed(b.name)
    BY SMTT(60), <1>0, <2>2, <2>3, NamespaceConversion
  <2>5. Prefixed(<<"ns">>) = <<Tenant, "ns">>
    <3>1. <<"ns">> \in Spellings
      BY Zenon DEF Spellings
    <3>. QED  BY ZenonT(60), <3>1, SpellingFacts, NameFacts
  <2>6. stored.name = <<Tenant, "ns">>
    BY <2>1 DEF NamespacesUpstream
  <2>7. kind \notin {"claim", "service", "pod", "custom", "binding"}
    BY <1>11
  <2>. QED  BY ZenonT(60), <1>1, <2>2, <2>4, <2>5, <2>6, <2>7 DEF ImmutableKept
<1>12. CASE kind \notin Immutables
  BY ZenonT(60), <1>1, <1>12 DEF ImmutableKept, Immutables, ClusterScoped
<1>. QED  BY ZenonT(60), <1>3, <1>4, <1>5, <1>6, <1>7, <1>8, <1>9, <1>10, <1>11, <1>12 DEF Immutables

\* What was read is converted without an error.
LEMMA PutConverts ==
    CacheInv /\ stored \in UpstreamOf(kind) /\ ~BackwardFails(kind, stored, Env) =>
    \A ns \in Spellings :
        ~ForwardFails(kind, TenantView(stored, ns), Env)
<1>. HAVE CacheInv /\ stored \in UpstreamOf(kind) /\ ~BackwardFails(kind, stored, Env)
<1>. TAKE ns \in Spellings
<1>0. kind \in Kinds /\ Env \in Envs
  BY Zenon, EnvFacts DEF CacheInv
<1>01. PICK v, b : v = TenantView(stored, ns) /\ b = Backward(kind, stored, Env)
  BY Zenon
<1>1. \A f \in Owned[kind] : v[f] = b[f]
  BY ZenonT(60), <1>01, ViewFacts
<1>2. ASSUME kind \in ClusterScoped PROVE v = b
  <2>1. kind # "service"
    BY <1>2 DEF ClusterScoped
  <2>. QED  BY ZenonT(60), <1>01, <1>2, <2>1, ViewFacts DEF Respelled
<1>3. ASSUME kind = "dependent", NEW r \in v.owners PROVE Known(OwnerForward(r), Env)
  <2>1. stored \in DependentsUpstream
    BY ZenonT(60), <1>3, KindFacts
  <2>2. PICK R \in SUBSET OwnerDrafts : stored.owners = OwnersUp(R)
    BY <2>1 DEF DependentsUpstream
  <2>3. v.owners = R
    <3>1. b.owners = OwnersDown(stored.owners)
      BY SMTT(60), <1>0, <1>01, <1>3, <2>1, DependentConversion
    <3>2. "owners" \in Owned["dependent"]
      BY ZenonT(60) DEF Owned
    <3>3. v.owners = b.owners
      BY ZenonT(60), <1>1, <1>3, <3>2
    <3>. QED  BY ZenonT(60), <2>2, <3>1, <3>3, OwnerFacts
  <2>4. OwnerForward(r) \in stored.owners
    BY ZenonT(60), <1>3, <2>2, <2>3 DEF OwnersUp
  <2>. QED  BY ZenonT(60), <1>3, <2>4 DEF BackwardFails
<1>4. ASSUME kind = "volume" PROVE v.source \notin UnsafeSources /\ ~RefuseUnreservedPV(v)
  <2>0. v = b
    BY ZenonT(60), <1>2, <1>4 DEF ClusterScoped
  <2>1. stored \in VolumesUpstream
    BY ZenonT(60), <1>4, KindFacts
  <2>2. b \in [name : {TrimTenantIDPrefix(stored.name)}, generate : {TrimTenantIDPrefix(stored.generate)},
               source : {stored.source},
               claim : [ns : {TrimTenantIDPrefix(stored.claim.ns)}, name : {stored.claim.name}]]
    BY ZenonT(60), <1>01, <1>4, <2>1, VolumeConversion
  <2>3. /\ b.source = stored.source /\ b.claim.name = stored.claim.name
        /\ b.claim.ns = TrimTenantIDPrefix(stored.claim.ns)
    BY SMTT(60), <2>2
  <2>4. stored.source \in SafeSources /\ stored.claim.ns \in GivenUpstream /\ stored.claim.name # Empty
    BY SMTT(60), <2>1 DEF VolumesUpstream
  <2>5. stored.source \notin UnsafeSources
    BY ZenonT(60), <2>4 DEF SafeSources, UnsafeSources
  <2>6. TrimTenantIDPrefix(stored.claim.ns) # Empty
    BY ZenonT(60), <2>4, GivenFacts
  <2>. QED  BY ZenonT(60), <2>0, <2>3, <2>4, <2>5, <2>6 DEF RefuseUnreservedPV
<1>5. ASSUME kind = "crd" PROVE v.name = CRDName(v) /\ ~v.url
  <2>0. v = b
    BY ZenonT(60), <1>2, <1>5 DEF ClusterScoped
  <2>1. stored \in CRDsUpstream
    BY ZenonT(60), <1>5, KindFacts
  <2>2. b \in [plural : {stored.plural}, group : {TrimTenantIDPrefix(stored.group)},
               service : {TrimTenantIDPrefix(stored.service)},
               name : {CRDNamed(stored.plural, TrimTenantIDPrefix(stored.group))}, url : {stored.url}]
    BY ZenonT(60), <1>01, <1>5, <2>1, CRDConversion
  <2>3. /\ b.plural = stored.plural /\ b.group = TrimTenantIDPrefix(stored.group)
        /\ b.name = CRDNamed(stored.plural, TrimTenantIDPrefix(stored.group)) /\ b.url = stored.url
    BY SMTT(60), <2>2
  <2>4. stored.url = FALSE
    BY ZenonT(60), <2>1 DEF CRDsUpstream
  <2>. QED  BY ZenonT(60), <2>0, <2>3, <2>4 DEF CRDName, CRDNamed
<1>6. ASSUME kind = "webhook" PROVE ~v.url
  <2>0. v = b
    BY Zenon, <1>2, <1>6 DEF ClusterScoped
  <2>1. stored \in WebhooksUpstream
    BY ZenonT(60), <1>6, KindFacts
  <2>2. b.url = stored.url
    BY SMTT(60), <1>0, <1>01, <1>6, <2>1, WebhookConversion
  <2>3. stored.url = FALSE
    BY ZenonT(60), <2>1 DEF WebhooksUpstream
  <2>. QED  BY Zenon, <2>0, <2>2, <2>3
<1>7. ASSUME kind = "namespace" PROVE ~RefuseNamespace(v)
  <2>0. v = b
    BY Zenon, <1>2, <1>7 DEF ClusterScoped
  <2>1. stored \in NamespacesUpstream
    BY ZenonT(60), <1>7, KindFacts
  <2>2. b.name = <<"ns">> /\ b.label = stored.label
    BY SMTT(60), <1>0, <1>01, <1>7, <2>1, NamespaceConversion
  <2>3. stored.label = Tenant
    BY <2>1 DEF NamespacesUpstream
  <2>4. ~HasPrefix(<<"ns">>)
    BY Zenon, SpellingFacts DEF Plain
  <2>. QED  BY Zenon, <2>0, <2>2, <2>3, <2>4 DEF RefuseNamespace
<1>. QED  BY ZenonT(60), <1>01, <1>3, <1>4, <1>5, <1>6, <1>7 DEF ForwardFails

\* The rules for a Service let through what was read.
LEMMA PutServiceAdmitted ==
    CacheInv /\ kind = "service" /\ stored \in UpstreamOf(kind) /\ stored.type = "ClusterIP" =>
    \A ns \in Spellings :
        LET v == TenantView(stored, ns)
            old == StorageView(stored, ns)
        IN  /\ v.type = "ClusterIP" /\ old # Absent
            /\ v.ips = old.ips /\ v.ports = old.ports
            /\ AddressKept(v, old)
<1>. HAVE CacheInv /\ kind = "service" /\ stored \in UpstreamOf(kind) /\ stored.type = "ClusterIP"
<1>. TAKE ns \in Spellings
<1>0. Env \in Envs /\ stored \in ServicesUpstream
  BY ZenonT(60), EnvFacts, KindFacts
<1>01. PICK b, w, v, old : /\ b = Backward(kind, stored, Env) /\ w = ShowTenantClusterIP(b)
                           /\ v = TenantView(stored, ns) /\ old = StorageView(stored, ns)
  BY Zenon
<1>1. b \in ServiceDrafts
  BY ZenonT(60), <1>01, ViewFacts, KindFacts
<1>2. /\ w \in ServiceDrafts
      /\ w \in [ns : {b.ns}, type : {b.type}, ports : {b.ports}, ips : {b.ips},
                ip : {IF Translated(b) THEN b.ann ELSE b.ip}, ann : {b.ann}]
  BY ZenonT(60), <1>01, <1>1, ShownFacts
<1>3. b.type = "ClusterIP"
  <2>1. b \in [ns : {<<"ns">>}, type : {stored.type}, ports : {stored.ports}, ips : {stored.ips},
               ip : {stored.ip}, ann : {stored.ann}]
    BY ZenonT(60), <1>0, <1>01, ServiceConversion
  <2>. QED  BY <2>1
<1>4. old = Respelled(kind, b, ns) /\ v = Respelled(kind, w, ns)
  BY ZenonT(60), <1>01, ViewFacts
<1>5. old = [b EXCEPT !.ns = ns] /\ v = [w EXCEPT !.ns = ns]
  BY <1>4 DEF Respelled, ClusterScoped
<1>6. /\ old \in [ns : {ns}, type : {b.type}, ports : {b.ports}, ips : {b.ips}, ip : {b.ip}, ann : {b.ann}]
      /\ v \in [ns : {ns}, type : {w.type}, ports : {w.ports}, ips : {w.ips}, ip : {w.ip}, ann : {w.ann}]
  BY SMTT(60), <1>1, <1>2, <1>5 DEF ServiceDrafts
<1>7. /\ old.ports = b.ports /\ old.ips = b.ips /\ old.ip = b.ip /\ old.ann = b.ann
      /\ v.type = w.type /\ v.ports = w.ports /\ v.ips = w.ips /\ v.ip = w.ip
  BY SMTT(60), <1>6
<1>8. /\ w.type = b.type /\ w.ports = b.ports /\ w.ips = b.ips
      /\ w.ip = IF Translated(b) THEN b.ann ELSE b.ip
  BY <1>2
<1>9. AddressKept(v, old)
  <2>1. CASE Translated(b)
    <3>1. v.ip = b.ann
      BY ZenonT(60), <1>7, <1>8, <2>1
    <3>2. Translated(old)
      BY ZenonT(60), <1>7, <2>1 DEF Translated
    <3>3. b.ann \in Addresses \cup {NoAddress} /\ b.ann # NoAddress
      <4>1. b.ann \in Addresses \cup {NoAddress}
        BY <1>1 DEF ServiceDrafts
      <4>. QED  BY ZenonT(60), <2>1, <4>1 DEF Translated
    <3>4. b.ann # "None"
      BY ZenonT(60), <3>3, ObjectsAssumption
    <3>. QED  BY ZenonT(60), <1>7, <3>1, <3>2, <3>3, <3>4 DEF AddressKept
  <2>2. CASE ~Translated(b)
    BY ZenonT(60), <1>7, <1>8, <2>2 DEF AddressKept
  <2>. QED  BY ZenonT(60), <2>1, <2>2
<1>10. old # Absent
  <2>1. "ns" \in DOMAIN old
    BY SMTT(60), <1>6
  <2>2. "ns" \notin DOMAIN Absent
    BY SMTT(60) DEF Absent
  <2>. QED  BY ZenonT(60), <2>1, <2>2
<1>. QED  BY ZenonT(60), <1>01, <1>3, <1>7, <1>8, <1>9, <1>10

\* What was read can be written again, whatever has changed on the platform
\* since the object was made: the rules that an update is judged by look only
\* at what it changes, and the conversions are inverse to each other in what is
\* immutable.
THEOREM PutIsAccepted == Spec => []ReapplyAccepted
<1>1. Inv => ReapplyAccepted
  <2>. SUFFICES ASSUME Inv, stored # Absent, kind # "workload", ~BackwardFails(kind, stored, Env),
                       NEW ns \in Spellings
                PROVE  /\ UpdateAnswer(TenantView(stored, ns), StorageView(stored, ns)) = "none"
                       /\ ImmutableKept(Updated(TenantView(stored, ns), StorageView(stored, ns)), stored)
    BY Zenon DEF ReapplyAccepted, Reapplied
  <2>01. PICK v, old : v = TenantView(stored, ns) /\ old = StorageView(stored, ns)
    BY Zenon
  <2>0. CacheInv /\ stored \in UpstreamOf(kind)
    BY Zenon DEF Inv, ObjectInv, Written
  <2>1. ImmutableKept(Updated(v, old), stored)
    BY ZenonT(60), <2>0, <2>01, PutKeeps
  <2>2. ~ForwardFails(kind, v, Env)
    BY ZenonT(60), <2>0, <2>01, PutConverts
  <2>3. RefuseUnpublishedVolumeAttributesClass(v, old) = "none"
    <3>1. CASE kind = "claim"
      <4>1. v = old /\ old \in ClaimDrafts
        <5>1. kind # "service"
          BY SMTT(60), <3>1
        <5>. QED  BY ZenonT(60), <2>0, <2>01, <3>1, <5>1, ViewFacts, KindFacts
      <4>2. "ns" \in DOMAIN old
        BY SMTT(60), <4>1 DEF ClaimDrafts
      <4>3. "ns" \notin DOMAIN Absent
        BY DEF Absent
      <4>4. old # Absent
        BY ZenonT(60), <4>2, <4>3
      <4>. QED  BY ZenonT(60), <4>1, <4>4 DEF RefuseUnpublishedVolumeAttributesClass
    <3>2. CASE kind # "claim"
      BY Zenon, <3>2 DEF RefuseUnpublishedVolumeAttributesClass
    <3>. QED  BY ZenonT(60), <3>1, <3>2
  <2>4. RefuseUnpublishedEphemeralClasses(v, old) = "none"
    BY Zenon DEF RefuseUnpublishedEphemeralClasses
  <2>5. ASSUME kind = "service"
        PROVE  /\ v.type = "ClusterIP" /\ old # Absent
               /\ v.ips = old.ips /\ v.ports = old.ports
               /\ AddressKept(v, old)
    <3>1. stored.type = "ClusterIP"
      BY ZenonT(60), <2>5, SettledFacts DEF Inv, SettledInv
    <3>. QED  BY ZenonT(60), <2>0, <2>01, <2>5, <3>1, PutServiceAdmitted
  <2>6. RefuseExternalNameService(v) = "none"
    <3>1. "ClusterIP" # "ExternalName"
      OBVIOUS
    <3>. QED  BY ZenonT(60), <2>5, <3>1 DEF RefuseExternalNameService, InvalidIf
  <2>7. RefuseNewExternalIPs(v, old) = "none"
    <3>1. kind = "service" => v.ips \subseteq Kept("ips", old)
      BY Zenon, <2>5 DEF Kept
    <3>. QED  BY Zenon, <3>1 DEF RefuseNewExternalIPs, InvalidIf
  <2>8. RefuseForeignClusterIP(v, old) = "none"
    BY ZenonT(60), <2>5 DEF RefuseForeignClusterIP, InvalidIf
  <2>9. RefuseNodePorts(v, old) = "none"
    <3>1. "ClusterIP" # "NodePort"
      OBVIOUS
    <3>2. kind = "service" => v.type # "NodePort" /\ v.ports \subseteq Kept("ports", old)
      BY ZenonT(60), <2>5, <3>1 DEF Kept
    <3>. QED  BY ZenonT(60), <3>2 DEF RefuseNodePorts, InvalidIf
  <2>10. UpdateAnswer(v, old) = "none"
    BY ZenonT(60), <2>2, <2>3, <2>4, <2>6, <2>7, <2>8, <2>9, UpdateFacts
  <2>. QED  BY ZenonT(60), <2>01, <2>1, <2>10
<1>. QED  BY <1>1, Invariant, PTL
=============================================================================
