-------------------------- MODULE ConversionProofs --------------------------
(***************************************************************************)
(* What the conversion of each kind does to the names it knows, for every  *)
(* tenant and every set of addresses: it is undone by the conversion of    *)
(* the answer, and what the tenant reads and puts back is converted to     *)
(* what is stored.  And what the caches hold that the convertors and the   *)
(* refusals consult.  The module TenantObjectsProofs rests on both.        *)
(***************************************************************************)
EXTENDS TenantObjects, TLAPS

----------------------------------------------------------------------------
(***************************************************************************)
(* Names                                                                   *)
(***************************************************************************)

\* The parts of names.  That the strings below are in STRING is not known to
\* every prover.
Words ==
    STRING \cup
    {Tenant, "ns", "vol", "storage", "attributes", "ingress", "mine", "group", "apps",
     "shared", "jo", "system", "authenticated", "view", "a", "b", "node", "pvc", "pvc-1",
     "gen", "1", "hook", "things", "others"}

Names == Seq(Words)

\* Names that do not look like one that has the prefix.
Plain == {n \in Names : ~HasPrefix(n)}

\* The words that the model uses.
LEMMA WordFacts ==
    {Tenant, "ns", "vol", "storage", "attributes", "ingress", "mine", "group", "apps",
     "shared", "jo", "system", "authenticated", "view", "a", "b", "node", "pvc", "pvc-1",
     "gen", "1", "hook", "things", "others"} \subseteq Words
BY Zenon DEF Words

\* How names are measured and compared.
LEMMA PartFacts ==
    /\ \A S :
           Len(<<>>) = 0 /\ \A n \in Seq(S) : n # <<>> => Len(n) \in Nat \ {0}
    /\ \A S : \A n \in Seq(S) :
           Len(n) \in Nat
    /\ \A S : \A m \in Seq(S), n \in Seq(S) :
       Len(m) = Len(n) /\ (\A i \in 1..Len(m) : m[i] = n[i]) =>
           m = n
    /\ \A S : \A x \in S :
           <<x>> \in Seq(S) /\ Len(<<x>>) = 1 /\ <<x>>[1] = x /\ <<x>> # <<>>
\* What is used of sequences: the empty one, lengths, equality, concatenation,
\* the head and the tail.
<1>1. \A S :
          Len(<<>>) = 0 /\ \A n \in Seq(S) : n # <<>> => Len(n) \in Nat \ {0}
  <2>. TAKE S
  <2>. QED  OBVIOUS
<1>2. \A S : \A n \in Seq(S) :
          Len(n) \in Nat
  <2>. TAKE S
  <2>. TAKE n \in Seq(S)
  <2>. QED  OBVIOUS
<1>3. \A S : \A m \in Seq(S), n \in Seq(S) :
      Len(m) = Len(n) /\ (\A i \in 1..Len(m) : m[i] = n[i]) =>
          m = n
  <2>. TAKE S
  <2>. TAKE m \in Seq(S), n \in Seq(S)
  <2>. HAVE Len(m) = Len(n) /\ (\A i \in 1..Len(m) : m[i] = n[i])
  <2>. QED  OBVIOUS
\* Names of one part and of two.
<1>4. \A S : \A x \in S :
          <<x>> \in Seq(S) /\ Len(<<x>>) = 1 /\ <<x>>[1] = x /\ <<x>> # <<>>
  <2>. TAKE S
  <2>. TAKE x \in S
  <2>. QED  OBVIOUS
<1>. QED  BY Zenon, <1>1, <1>2, <1>3, <1>4

\* What joining names makes.
LEMMA JoinedFacts ==
    /\ \A S : \A m \in Seq(S), n \in Seq(S) :
           /\ m \o n \in Seq(S) /\ Len(m \o n) = Len(m) + Len(n)
           /\ \A i \in 1..(Len(m) + Len(n)) :
                (m \o n)[i] = IF i <= Len(m) THEN m[i] ELSE n[i - Len(m)]
    /\ \A S : \A m \in Seq(S), n \in Seq(S) : m \o n = <<>> =>
           m = <<>>
    /\ \A S : \A l \in Seq(S), m \in Seq(S), n \in Seq(S) :
           (l \o m) \o n = l \o (m \o n)
<1>1. \A S : \A m \in Seq(S), n \in Seq(S) :
          /\ m \o n \in Seq(S) /\ Len(m \o n) = Len(m) + Len(n)
          /\ \A i \in 1..(Len(m) + Len(n)) :
               (m \o n)[i] = IF i <= Len(m) THEN m[i] ELSE n[i - Len(m)]
  <2>. TAKE S
  <2>. TAKE m \in Seq(S), n \in Seq(S)
  <2>. QED  OBVIOUS
<1>2. \A S : \A m \in Seq(S), n \in Seq(S) : m \o n = <<>> =>
          m = <<>>
  <2>. TAKE S
  <2>. TAKE m \in Seq(S), n \in Seq(S)
  <2>. HAVE m \o n = <<>>
  <2>1. Len(m) + Len(n) = 0
    BY SMT, <1>1, PartFacts
  <2>. QED  BY SMT, <2>1, PartFacts
<1>3. \A S : \A l \in Seq(S), m \in Seq(S), n \in Seq(S) :
          (l \o m) \o n = l \o (m \o n)
  <2>. TAKE S
  <2>. TAKE l \in Seq(S), m \in Seq(S), n \in Seq(S)
  <2>. QED  BY SMTT(60)
<1>. QED  BY Zenon, <1>1, <1>2, <1>3

LEMMA HeadAndTail ==
    \A S : \A n \in Seq(S) : n # <<>> =>
        /\ Head(n) \in S /\ Tail(n) \in Seq(S) /\ Len(Tail(n)) = Len(n) - 1
        /\ \A i \in 1..Len(Tail(n)) : Tail(n)[i] = n[i + 1]
<1>. TAKE S
<1>. TAKE n \in Seq(S)
<1>. HAVE n # <<>>
<1>. QED  OBVIOUS

\* A name of two parts is the first put before the second.
LEMMA TwoParts ==
    \A S : \A x \in S, y \in S :
        <<x, y>> \in Seq(S) /\ <<x, y>> = <<x>> \o <<y>>
<1>. TAKE S
<1>. TAKE x \in S, y \in S
<1>1. /\ <<x, y>> \in Seq(S) /\ Len(<<x, y>>) = 2
      /\ <<x, y>>[1] = x /\ <<x, y>>[2] = y
  BY SMT
<1>2. /\ <<x>> \in Seq(S) /\ Len(<<x>>) = 1 /\ <<x>>[1] = x
      /\ <<y>> \in Seq(S) /\ Len(<<y>>) = 1 /\ <<y>>[1] = y
  BY Zenon, PartFacts
<1>. DEFINE m == <<x>> \o <<y>>
<1>3. /\ m \in Seq(S) /\ Len(m) = Len(<<x>>) + Len(<<y>>)
      /\ \A i \in 1..(Len(<<x>>) + Len(<<y>>)) :
            m[i] = IF i <= Len(<<x>>) THEN <<x>>[i] ELSE <<y>>[i - Len(<<x>>)]
  BY ZenonT(60), <1>2, JoinedFacts
<1>. HIDE DEF m
<1>4. Len(<<x, y>>) = Len(m) /\ m[1] = x /\ m[2] = y
  BY <1>1, <1>2, <1>3
<1>5. \A i \in 1..Len(<<x, y>>) : <<x, y>>[i] = m[i]
  <2>. SUFFICES ASSUME NEW i \in 1..2 PROVE <<x, y>>[i] = m[i]
    BY <1>1
  <2>1. i = 1 \/ i = 2
    OBVIOUS
  <2>. QED  BY Zenon, <1>1, <1>4, <2>1
<1>6. <<x, y>> = m
  BY Zenon, <1>1, <1>3, <1>4, <1>5, PartFacts
<1>. QED  BY Zenon, <1>1, <1>6 DEF m

\* One part put in front of a name, and taken away.
Put(x, n) == <<x>> \o n

\* m is n, one position further.
Shifted(m, n) == \A i \in 1..Len(n) : m[i + 1] = n[i]

\* What was put before a name is its head and the name its tail, and a name of
\* several parts is its head put before its tail.
LEMMA FrontFacts ==
    /\ \A S : \A x \in S, n \in Seq(S) :
           /\ Put(x, n) \in Seq(S) /\ Len(Put(x, n)) = Len(n) + 1 /\ Put(x, n) # <<>>
           /\ Head(Put(x, n)) = x /\ Tail(Put(x, n)) = n
    /\ \A S : \A n \in Seq(S) : Len(n) > 1 =>
           /\ n # <<>> /\ Tail(n) \in Seq(S) /\ Tail(n) # <<>>
           /\ Put(Head(n), Tail(n)) = n
\* What putting a part before a name makes, position by position.
<1>1. \A S : \A x \in S, n \in Seq(S) :
          /\ Put(x, n) \in Seq(S) /\ Len(Put(x, n)) = Len(n) + 1
          /\ Put(x, n)[1] = x /\ Shifted(Put(x, n), n)
  <2>. TAKE S
  <2>. TAKE x \in S, n \in Seq(S)
  <2>. DEFINE m == Put(x, n)
  <2>1. <<x>> \in Seq(S) /\ Len(<<x>>) = 1 /\ <<x>>[1] = x
    BY Zenon, PartFacts
  <2>2. Len(n) \in Nat
    BY Zenon, PartFacts
  <2>3. /\ m \in Seq(S) /\ Len(m) = Len(<<x>>) + Len(n)
        /\ \A i \in 1..(Len(<<x>>) + Len(n)) :
              m[i] = IF i <= Len(<<x>>) THEN <<x>>[i] ELSE n[i - Len(<<x>>)]
    BY Zenon, <2>1, JoinedFacts DEF Put
  <2>. HIDE DEF m
  <2>4. /\ m \in Seq(S) /\ Len(m) = Len(n) + 1
        /\ m[1] = x /\ Shifted(m, n)
    BY <2>1, <2>2, <2>3 DEF Shifted
  <2>. QED  BY Zenon, <2>4 DEF m
\* What was put before a name is its head, and the name is its tail.
<1>2. \A S : \A x \in S, n \in Seq(S) :
          /\ Put(x, n) \in Seq(S) /\ Len(Put(x, n)) = Len(n) + 1 /\ Put(x, n) # <<>>
          /\ Head(Put(x, n)) = x /\ Tail(Put(x, n)) = n
  <2>. TAKE S
  <2>. TAKE x \in S, n \in Seq(S)
  <2>. DEFINE m == Put(x, n)
  <2>1. /\ m \in Seq(S) /\ Len(m) = Len(n) + 1
        /\ m[1] = x /\ Shifted(m, n)
    BY Zenon, <1>1
  <2>. HIDE DEF m
  <2>2. Len(n) \in Nat
    BY Zenon, PartFacts
  <2>3. m # <<>>
    <3>1. Len(<<>>) = 0
      BY Zenon, PartFacts
    <3>. QED  BY <2>1, <2>2, <3>1
  <2>4. Head(m) = x
    BY <2>1, <2>3
  <2>5. /\ Tail(m) \in Seq(S) /\ Len(Tail(m)) = Len(m) - 1
        /\ \A i \in 1..Len(Tail(m)) : Tail(m)[i] = m[i + 1]
    BY Zenon, <2>1, <2>3, HeadAndTail
  <2>6. Len(Tail(m)) = Len(n)
    BY <2>1, <2>2, <2>5
  <2>7. \A i \in 1..Len(Tail(m)) : Tail(m)[i] = n[i]
    BY Zenon, <2>1, <2>5, <2>6 DEF Shifted
  <2>8. Tail(m) = n
    BY Zenon, <2>5, <2>6, <2>7, PartFacts
  <2>. QED  BY Zenon, <2>1, <2>3, <2>4, <2>8 DEF m
\* A name of several parts is its head put before its tail.
<1>3. \A S : \A n \in Seq(S) : Len(n) > 1 =>
          /\ n # <<>> /\ Tail(n) \in Seq(S) /\ Tail(n) # <<>>
          /\ Put(Head(n), Tail(n)) = n
  <2>. TAKE S
  <2>. TAKE n \in Seq(S)
  <2>. HAVE Len(n) > 1
  <2>0. Len(<<>>) = 0
    BY Zenon, PartFacts
  <2>1. Len(n) \in Nat
    BY Zenon, PartFacts
  <2>2. n # <<>>
    BY <2>0, <2>1
  <2>3. PICK x, t : x = Head(n) /\ t = Tail(n)
    BY Zenon
  <2>4. /\ x \in S /\ t \in Seq(S) /\ Len(t) = Len(n) - 1
        /\ \A i \in 1..Len(t) : t[i] = n[i + 1]
    BY Zenon, <2>2, <2>3, HeadAndTail
  <2>5. x = n[1]
    BY <2>2, <2>3
  <2>6. t # <<>>
    BY <2>0, <2>1, <2>4
  <2>60. PICK m : m = Put(x, t)
    BY Zenon
  <2>61. /\ m \in Seq(S) /\ Len(m) = Len(t) + 1 /\ m[1] = x
         /\ Shifted(m, t)
    BY ZenonT(60), <2>4, <2>60, <1>1
  <2>7. Len(m) = Len(n) /\ \A i \in 1..Len(m) : m[i] = n[i]
    <3>1. Len(m) = Len(n)
      BY <2>1, <2>4, <2>61
    <3>2. ASSUME NEW i \in 1..Len(m) PROVE m[i] = n[i]
      <4>1. CASE i = 1
        BY Zenon, <2>5, <2>61, <4>1
      <4>2. CASE i # 1
        <5>1. i - 1 \in 1..Len(t) /\ (i - 1) + 1 = i
          BY <2>1, <2>4, <2>61, <4>2
        <5>. QED  BY Zenon, <2>4, <2>61, <5>1 DEF Shifted
      <4>. QED  BY Zenon, <4>1, <4>2
    <3>. QED  BY Zenon, <3>1, <3>2
  <2>8. m = n
    BY Zenon, <2>61, <2>7, PartFacts
  <2>. QED  BY Zenon, <2>2, <2>3, <2>4, <2>6, <2>60, <2>8
<1>. QED  BY Zenon, <1>2, <1>3

\* What the prefix does to a name that is given.
LEMMA PrefixFacts ==
    \A n \in Names : n # Empty =>
        /\ AddTenantIDPrefix(n) \in Names
        /\ AddTenantIDPrefix(n) # Empty
        /\ HasPrefix(AddTenantIDPrefix(n))
        /\ TrimTenantIDPrefix(AddTenantIDPrefix(n)) = n
<1>. TAKE n \in Names
<1>. HAVE n # Empty
<1>. DEFINE m == AddTenantIDPrefix(n)
<1>1. n \in Seq(Words) /\ n # <<>> /\ Tenant \in Words
  BY Zenon, WordFacts DEF Names, Empty
<1>2. /\ m \in Seq(Words) /\ Len(m) = Len(n) + 1 /\ m # <<>>
      /\ Head(m) = Tenant /\ Tail(m) = n
  BY ZenonT(60), <1>1, FrontFacts DEF AddTenantIDPrefix, Put
<1>. HIDE DEF m
<1>3. Len(m) > 1
  <2>1. Len(n) \in Nat \ {0}
    BY Zenon, <1>1, PartFacts
  <2>. QED  BY <1>2, <2>1
<1>. QED  BY Zenon, <1>2, <1>3 DEF HasPrefix, TrimTenantIDPrefix, Names, Empty, m

\* What trimming does to a name, and that only a name with the prefix is
\* trimmed.
LEMMA TrimFacts ==
    \A n \in Names :
        /\ TrimTenantIDPrefix(n) \in Names
        /\ HasPrefix(n) => AddTenantIDPrefix(TrimTenantIDPrefix(n)) = n
        /\ HasPrefix(n) => n # Empty /\ TrimTenantIDPrefix(n) # Empty
        /\ ~HasPrefix(n) => TrimTenantIDPrefix(n) = n
<1>. TAKE n \in Names
<1>1. CASE ~HasPrefix(n)
  BY Zenon, <1>1 DEF TrimTenantIDPrefix
<1>2. CASE HasPrefix(n)
  <2>1. n \in Seq(Words) /\ Len(n) > 1 /\ Head(n) = Tenant /\ TrimTenantIDPrefix(n) = Tail(n)
    BY Zenon, <1>2 DEF HasPrefix, TrimTenantIDPrefix, Names
  <2>2. /\ n # <<>> /\ Tail(n) \in Seq(Words) /\ Tail(n) # <<>>
        /\ Put(Head(n), Tail(n)) = n
    BY Zenon, <2>1, FrontFacts
  <2>. QED  BY Zenon, <1>2, <2>1, <2>2 DEF Names, Empty, AddTenantIDPrefix, Put
<1>. QED  BY Zenon, <1>1, <1>2

\* A name of one part has no prefix, whatever the tenant is called.
LEMMA ShortFacts ==
    /\ Empty \in Plain
    /\ \A s \in Words : <<s>> \in Plain /\ <<s>> # Empty
    /\ \A s \in Words : <<Tenant, s>> \in Names /\ <<Tenant, s>> = AddTenantIDPrefix(<<s>>)
<1>1. Empty \in Names /\ ~HasPrefix(Empty)
  BY DEF Names, HasPrefix, Empty
<1>2. ASSUME NEW s \in Words
      PROVE  /\ <<s>> \in Seq(Words) /\ ~HasPrefix(<<s>>) /\ <<s>> # <<>>
             /\ <<Tenant, s>> \in Seq(Words) /\ <<Tenant, s>> = <<Tenant>> \o <<s>>
  <2>1. <<s>> \in Seq(Words) /\ Len(<<s>>) = 1 /\ <<s>>[1] = s /\ <<s>> # <<>>
    BY Zenon, <1>2, PartFacts
  <2>2. ~HasPrefix(<<s>>)
    BY <2>1 DEF HasPrefix
  <2>3. <<Tenant, s>> \in Seq(Words) /\ <<Tenant, s>> = <<Tenant>> \o <<s>>
    BY Zenon, <1>2, WordFacts, TwoParts
  <2>. QED  BY Zenon, <2>1, <2>2, <2>3
<1>. QED  BY Zenon, <1>1, <1>2 DEF Plain, Names, Empty, AddTenantIDPrefix

\* The two ways in which names are converted.
LEMMA UpstreamFacts ==
    \A n \in Names :
        /\ Prefixed(n) \in Names /\ UpstreamNamespace(n) \in Names
        /\ n = Empty => Prefixed(n) = Empty /\ UpstreamNamespace(n) = Empty
        /\ n # Empty => HasPrefix(Prefixed(n)) /\ HasPrefix(UpstreamNamespace(n))
        /\ n # Empty => Prefixed(n) # Empty /\ UpstreamNamespace(n) # Empty
        /\ TrimTenantIDPrefix(Prefixed(n)) = n
        /\ n \in Plain => UpstreamNamespace(n) = Prefixed(n)
        /\ HasPrefix(n) => UpstreamNamespace(n) = n
<1>. TAKE n \in Names
<1>1. Empty \in Names /\ ~HasPrefix(Empty)
  BY Zenon, ShortFacts DEF Plain
<1>2. TrimTenantIDPrefix(Empty) = Empty
  BY Zenon, <1>1 DEF TrimTenantIDPrefix
<1>3. CASE n = Empty
  BY Zenon, <1>1, <1>2, <1>3 DEF Prefixed, UpstreamNamespace
<1>4. CASE n # Empty
  BY Zenon, <1>4, PrefixFacts DEF Prefixed, UpstreamNamespace, Plain
<1>. QED  BY Zenon, <1>3, <1>4

\* The namespace of the object, in either spelling.
LEMMA SpellingFacts ==
    /\ <<"ns">> \in Plain /\ <<"ns">> # Empty
    /\ <<Tenant, "ns">> \in Names /\ HasPrefix(<<Tenant, "ns">>)
    /\ TrimTenantIDPrefix(<<Tenant, "ns">>) = <<"ns">>
    /\ \A ns \in Spellings : ns \in Names /\ UpstreamNamespace(ns) = <<Tenant, "ns">>
<1>1. <<"ns">> \in Plain /\ <<"ns">> # Empty /\ <<Tenant, "ns">> = AddTenantIDPrefix(<<"ns">>)
  <2>1. "ns" \in Words
    BY Zenon, WordFacts
  <2>. QED  BY Zenon, <2>1, ShortFacts
<1>2. <<"ns">> \in Names
  BY Zenon, <1>1 DEF Plain
<1>3. /\ <<Tenant, "ns">> \in Names /\ HasPrefix(<<Tenant, "ns">>)
      /\ TrimTenantIDPrefix(<<Tenant, "ns">>) = <<"ns">>
  BY Zenon, <1>1, <1>2, PrefixFacts
<1>4. UpstreamNamespace(<<"ns">>) = <<Tenant, "ns">>
  BY Zenon, <1>1 DEF UpstreamNamespace, Plain, Empty
<1>5. UpstreamNamespace(<<Tenant, "ns">>) = <<Tenant, "ns">>
  BY Zenon, <1>3, UpstreamFacts
<1>. QED  BY Zenon, <1>1, <1>2, <1>3, <1>4, <1>5 DEF Spellings

\* Names that are given.
Given == Plain \ {Empty}

\* Names of the tenant's upstream, and those of them that have the prefix once.
Held == {n \in Names : n = Empty \/ HasPrefix(n)}

\* Names with the prefix that have it once.
HeldOnce == {n \in Held : TrimTenantIDPrefix(n) \in Plain}

\* What conversions do to the names of the tenant and to those upstream.
LEMMA NameFacts ==
    /\ \A n \in Names : /\ TrimTenantIDPrefix(n) \in Names
                        /\ Prefixed(n) \in Held /\ TrimTenantIDPrefix(Prefixed(n)) = n
    /\ \A n \in Plain : /\ n \in Names /\ TrimTenantIDPrefix(n) = n
                        /\ UpstreamNamespace(n) = Prefixed(n) /\ Prefixed(n) \in HeldOnce
    /\ \A n \in Held : n \in Names /\ Prefixed(TrimTenantIDPrefix(n)) = n
    /\ \A n \in HeldOnce : /\ n \in Held /\ TrimTenantIDPrefix(n) \in Plain
                           /\ UpstreamNamespace(TrimTenantIDPrefix(n)) = n
<1>1. ASSUME NEW n \in Names
      PROVE  /\ TrimTenantIDPrefix(n) \in Names
             /\ Prefixed(n) \in Held /\ TrimTenantIDPrefix(Prefixed(n)) = n
  BY Zenon, <1>1, UpstreamFacts, TrimFacts DEF Held
<1>2. ASSUME NEW n \in Plain
      PROVE  /\ n \in Names /\ TrimTenantIDPrefix(n) = n
             /\ UpstreamNamespace(n) = Prefixed(n) /\ Prefixed(n) \in HeldOnce
  BY Zenon, <1>1, <1>2, UpstreamFacts, TrimFacts DEF HeldOnce, Plain
<1>3. ASSUME NEW n \in Held PROVE n \in Names /\ Prefixed(TrimTenantIDPrefix(n)) = n
  <2>1. n \in Names /\ (n = Empty \/ HasPrefix(n))
    BY Zenon, <1>3 DEF Held
  <2>2. CASE HasPrefix(n)
    BY Zenon, <2>1, <2>2, TrimFacts DEF Prefixed
  <2>3. CASE ~HasPrefix(n)
    BY Zenon, <2>1, <2>3, TrimFacts DEF Prefixed
  <2>. QED  BY Zenon, <2>1, <2>2, <2>3
<1>4. ASSUME NEW n \in HeldOnce
      PROVE  /\ n \in Held /\ TrimTenantIDPrefix(n) \in Plain
             /\ UpstreamNamespace(TrimTenantIDPrefix(n)) = n
  BY Zenon, <1>2, <1>3, <1>4 DEF HeldOnce
<1>. QED  BY Zenon, <1>1, <1>2, <1>3, <1>4

----------------------------------------------------------------------------
(***************************************************************************)
(* What a convertor may be asked with                                      *)
(***************************************************************************)

\* What the gateway may have in its caches.
Envs ==
    [ingress : SUBSET {ClassOf("ingress")}, groups : SUBSET {<<Tenant, "group">>},
     nameserver : Addresses \cup {NoAddress}]

\* The object with its namespace in another spelling.
Respelled(k, v, ns) == IF k \in ClusterScoped THEN v ELSE [v EXCEPT !.ns = ns]

\* Object v with the fields in w as in o.
Mixed(v, o, w) == [f \in DOMAIN v |-> IF f \in w THEN o[f] ELSE v[f]]

\* The views of the objects upstream are drafts of the tenant, and a draft that
\* is not refused is converted to one of the objects upstream.
Mapped(k, drafts, upstream) ==
    /\ Manifests(k) \subseteq drafts
    /\ \A v \in drafts, o \in drafts :
        Mixed(v, o, Owned[k]) \in drafts /\ Owned[k] \subseteq DOMAIN v
    /\ \A o \in drafts, e \in Envs : ~ForwardFails(k, o, e) => Forward(k, o, e) \in upstream
    /\ \A s \in upstream, e \in Envs : Backward(k, s, e) \in drafts

\* Its tenant is given back what it decides, also when the platform has
\* changed.
Converted(k, drafts, upstream) ==
    /\ Mapped(k, drafts, upstream)
    /\ \A o \in drafts, e1 \in Envs, e2 \in Envs :
        ~ForwardFails(k, o, e1) =>
            \A f \in Owned[k] : Backward(k, Forward(k, o, e1), e2)[f] = o[f]

\* An object upstream that is read and written back is the same, and so is one
\* that was sent upstream a moment ago.
Rewritten(k, upstream) ==
    \A s \in upstream, e \in Envs, ns \in Spellings :
        Forward(k, Respelled(k, Backward(k, s, e), ns), e) = s

\* What is stored for a draft is stored again when it is read and written back.
Idempotent(k, drafts) ==
    \A o \in drafts, e \in Envs, ns \in Spellings :
        ~ForwardFails(k, o, e) =>
            Forward(k, Respelled(k, Backward(k, Forward(k, o, e), e), ns), e) = Forward(k, o, e)

----------------------------------------------------------------------------
(***************************************************************************)
(* Claims                                                                  *)
(***************************************************************************)

\* A claim as a tenant writes it ...
ClaimDrafts ==
    [ns : Spellings, class : Plain, vac : Plain, volume : Names, bound : BOOLEAN, from : Plain]

\* ... and as it is stored.
ClaimsUpstream ==
    {s \in [ns : {<<Tenant, "ns">>}, class : Plain, vac : Plain, volume : Names,
            bound : BOOLEAN, from : HeldOnce] : s.bound \/ s.volume \in Held}

\* What a claim is converted to and what it is read as.  What is read is what
\* was written, and a round of reading and writing changes nothing.
LEMMA ClaimConversion ==
    /\ \A o \in ClaimDrafts : \A e :
           Forward("claim", o, e) \in
             [ns : {<<Tenant, "ns">>}, class : {o.class}, vac : {o.vac},
              volume : {IF o.bound THEN o.volume ELSE Prefixed(o.volume)},
              bound : {o.bound}, from : {Prefixed(o.from)}]
    /\ \A s \in ClaimsUpstream : \A e :
           Backward("claim", s, e) \in
             [ns : {<<"ns">>}, class : {s.class}, vac : {s.vac},
              volume : {IF s.bound THEN s.volume ELSE TrimTenantIDPrefix(s.volume)},
              bound : {s.bound}, from : {TrimTenantIDPrefix(s.from)}]
    /\ Converted("claim", ClaimDrafts, ClaimsUpstream)
    /\ Rewritten("claim", ClaimsUpstream)
\* What a claim is sent upstream as.
<1>1. \A o \in ClaimDrafts : \A e :
          Forward("claim", o, e) \in
            [ns : {<<Tenant, "ns">>}, class : {o.class}, vac : {o.vac},
             volume : {IF o.bound THEN o.volume ELSE Prefixed(o.volume)},
             bound : {o.bound}, from : {Prefixed(o.from)}]
  <2>. TAKE o \in ClaimDrafts
  <2>. TAKE e
  <2>1. UpstreamNamespace(o.ns) = <<Tenant, "ns">> /\ UpstreamNamespace(o.from) = Prefixed(o.from)
    BY NameFacts, SpellingFacts DEF ClaimDrafts
  <2>2. Forward("claim", o, e) = ClaimForward([o EXCEPT !.ns = UpstreamNamespace(o.ns)])
    BY DEF Forward, DefaultForward, ClusterScoped, ClaimDrafts
  <2>. QED  BY ZenonT(60), <2>1, <2>2 DEF ClaimForward, ClaimDrafts
\* What a claim is read as.
<1>2. \A s \in ClaimsUpstream : \A e :
          Backward("claim", s, e) \in
            [ns : {<<"ns">>}, class : {s.class}, vac : {s.vac},
             volume : {IF s.bound THEN s.volume ELSE TrimTenantIDPrefix(s.volume)},
             bound : {s.bound}, from : {TrimTenantIDPrefix(s.from)}]
  <2>. TAKE s \in ClaimsUpstream
  <2>. TAKE e
  <2>1. TrimTenantIDPrefix(s.ns) = <<"ns">>
    BY SpellingFacts DEF ClaimsUpstream
  <2>2. Backward("claim", s, e) = ClaimBackward([s EXCEPT !.ns = TrimTenantIDPrefix(s.ns)])
    BY DEF Backward, DefaultBackward, ClusterScoped, ClaimsUpstream
  <2>. QED  BY ZenonT(60), <2>1, <2>2 DEF ClaimBackward, ClaimsUpstream
\* What is read of a claim is what was written of it.
<1>3. Converted("claim", ClaimDrafts, ClaimsUpstream)
  <2>1. Manifests("claim") \subseteq ClaimDrafts
    <3>1. PICK A, B, C, D : /\ A = Optional(ClassOf("storage"))
                            /\ B = Optional(ClassOf("attributes"))
                            /\ C = Optional(<<"vol">>) /\ D = Optional(<<"ns">>)
      BY Zenon
    <3>2. Manifests("claim") =
              [ns : Spellings, class : A, vac : B, volume : C, bound : {FALSE}, from : D]
      BY ZenonT(60), <3>1 DEF Manifests
    <3>3. A \subseteq Plain /\ B \subseteq Plain /\ C \subseteq Names /\ D \subseteq Plain
      BY Zenon, <3>1, WordFacts, ShortFacts DEF Optional, ClassOf, Plain
    <3>4. [ns : Spellings, class : A, vac : B, volume : C, bound : {FALSE}, from : D] \subseteq ClaimDrafts
      BY ZenonT(60), <3>3 DEF ClaimDrafts
    <3>. QED  BY Zenon, <3>2, <3>4
  <2>0. ASSUME NEW v \in ClaimDrafts, NEW o \in ClaimDrafts
        PROVE  Mixed(v, o, Owned["claim"]) \in ClaimDrafts /\ Owned["claim"] \subseteq DOMAIN v
    <3>1. ASSUME NEW w PROVE Mixed(v, o, w) \in ClaimDrafts
      BY DEF Mixed, ClaimDrafts
    <3>2. Owned["claim"] \subseteq DOMAIN v
      BY DEF Owned, ClaimDrafts
    <3>. QED  BY Zenon, <3>1, <3>2
  <2>2. ASSUME NEW o \in ClaimDrafts, NEW e \in Envs PROVE Forward("claim", o, e) \in ClaimsUpstream
    BY <1>1, NameFacts DEF ClaimDrafts, ClaimsUpstream
  <2>3. ASSUME NEW s \in ClaimsUpstream, NEW e \in Envs PROVE Backward("claim", s, e) \in ClaimDrafts
    BY <1>2, NameFacts DEF ClaimDrafts, ClaimsUpstream, Spellings
  <2>4. ASSUME NEW o \in ClaimDrafts, NEW e1 \in Envs, NEW e2 \in Envs, NEW f \in Owned["claim"]
        PROVE  Backward("claim", Forward("claim", o, e1), e2)[f] = o[f]
    <3>. PICK u : u = Forward("claim", o, e1)
      OBVIOUS
    <3>1. /\ u \in ClaimsUpstream
          /\ u.class = o.class /\ u.vac = o.vac /\ u.bound = o.bound /\ u.from = Prefixed(o.from)
          /\ u.volume = IF o.bound THEN o.volume ELSE Prefixed(o.volume)
      BY <2>2, <1>1
    <3>2. /\ TrimTenantIDPrefix(u.from) = o.from
          /\ (IF u.bound THEN u.volume ELSE TrimTenantIDPrefix(u.volume)) = o.volume
      BY <3>1, NameFacts DEF ClaimDrafts
    <3>3. f \in {"class", "vac", "volume", "from"}
      BY DEF Owned
    <3>. PICK b : b = Backward("claim", u, e2)
      OBVIOUS
    <3>4. b.class = o.class /\ b.vac = o.vac /\ b.volume = o.volume /\ b.from = o.from
      BY <3>1, <3>2, <1>2
    <3>. QED  BY <3>3, <3>4
  <2>. QED  BY Zenon, <2>0, <2>1, <2>2, <2>3, <2>4 DEF Converted, Mapped
\* What is stored of a claim survives a round of reading and writing.
<1>4. Rewritten("claim", ClaimsUpstream)
  <2>1. SUFFICES ASSUME NEW s \in ClaimsUpstream, NEW e, NEW ns \in Spellings
                 PROVE  Forward("claim", Respelled("claim", Backward("claim", s, e), ns), e) = s
    BY DEF Rewritten
  <2>. PICK b : b = Backward("claim", s, e)
    OBVIOUS
  <2>. PICK v : v = Respelled("claim", b, ns)
    OBVIOUS
  <2>2. /\ b \in ClaimDrafts
        /\ b.class = s.class /\ b.vac = s.vac /\ b.bound = s.bound
        /\ b.volume = IF s.bound THEN s.volume ELSE TrimTenantIDPrefix(s.volume)
        /\ b.from = TrimTenantIDPrefix(s.from)
    BY <1>2, NameFacts DEF ClaimDrafts, ClaimsUpstream, Spellings
  <2>3. /\ v \in ClaimDrafts
        /\ v.class = s.class /\ v.vac = s.vac /\ v.bound = s.bound
        /\ v.volume = IF s.bound THEN s.volume ELSE TrimTenantIDPrefix(s.volume)
        /\ v.from = TrimTenantIDPrefix(s.from)
    BY <2>2 DEF ClaimDrafts, Respelled, ClusterScoped
  <2>4. /\ Prefixed(v.from) = s.from
        /\ (IF v.bound THEN v.volume ELSE Prefixed(v.volume)) = s.volume
    BY <2>3, NameFacts DEF ClaimsUpstream
  <2>5. Forward("claim", v, e) \in
               [ns : {<<Tenant, "ns">>}, class : {s.class}, vac : {s.vac},
                volume : {s.volume}, bound : {s.bound}, from : {s.from}]
    BY <2>3, <2>4, <1>1
  <2>. QED  BY <2>5 DEF ClaimsUpstream
<1>. QED  BY Zenon, <1>1, <1>2, <1>3, <1>4

----------------------------------------------------------------------------
(***************************************************************************)
(* Ingresses                                                               *)
(***************************************************************************)

\* An Ingress as a tenant writes it ...
IngressDrafts == [ns : Spellings, class : Plain]

\* ... and as it is stored.
IngressesUpstream == [ns : {<<Tenant, "ns">>}, class : HeldOnce \cup {ClassOf("ingress")}]

\* What an Ingress is converted to and what it is read as.  What is read is
\* what was written, and a round of reading and writing changes nothing.
LEMMA IngressConversion ==
    /\ \A o \in IngressDrafts, e \in Envs :
           Forward("ingress", o, e) \in
             [ns : {<<Tenant, "ns">>},
              class : {IF o.class \in e.ingress THEN o.class ELSE Prefixed(o.class)}]
    /\ Converted("ingress", IngressDrafts, IngressesUpstream)
    /\ Idempotent("ingress", IngressDrafts)
\* What an Ingress is sent upstream as.
<1>1. \A o \in IngressDrafts, e \in Envs :
          Forward("ingress", o, e) \in
            [ns : {<<Tenant, "ns">>},
             class : {IF o.class \in e.ingress THEN o.class ELSE Prefixed(o.class)}]
  <2>. TAKE o \in IngressDrafts, e \in Envs
  <2>1. UpstreamNamespace(o.ns) = <<Tenant, "ns">>
    BY SpellingFacts DEF IngressDrafts
  <2>2. Forward("ingress", o, e) = IngressForward([o EXCEPT !.ns = UpstreamNamespace(o.ns)], e)
    BY DEF Forward, DefaultForward, ClusterScoped, IngressDrafts
  <2>. QED  BY ZenonT(60), <2>1, <2>2 DEF IngressForward, IngressDrafts
\* What an Ingress is read as.
<1>2. \A s \in IngressesUpstream, e \in Envs :
          Backward("ingress", s, e) \in
            [ns : {<<"ns">>}, class : {TrimTenantIDPrefix(s.class)}]
  <2>. TAKE s \in IngressesUpstream, e \in Envs
  <2>1. TrimTenantIDPrefix(s.ns) = <<"ns">>
    BY SpellingFacts DEF IngressesUpstream
  <2>2. Backward("ingress", s, e) = IngressBackward([s EXCEPT !.ns = TrimTenantIDPrefix(s.ns)], e)
    BY DEF Backward, DefaultBackward, ClusterScoped, IngressesUpstream
  <2>3. s.class \in e.ingress => TrimTenantIDPrefix(s.class) = s.class
    <3>1. ClassOf("ingress") \in Plain
      BY Zenon, WordFacts, ShortFacts DEF ClassOf
    <3>. QED  BY <3>1, NameFacts DEF Envs
  <2>. QED  BY ZenonT(60), <2>1, <2>2, <2>3 DEF IngressBackward, IngressesUpstream
\* What is read of an Ingress is what was written of it.
<1>3. Converted("ingress", IngressDrafts, IngressesUpstream)
  <2>. ClassOf("ingress") \in Plain
    BY Zenon, WordFacts, ShortFacts DEF ClassOf
  <2>0. ASSUME NEW v \in IngressDrafts, NEW o \in IngressDrafts
        PROVE  Mixed(v, o, Owned["ingress"]) \in IngressDrafts /\ Owned["ingress"] \subseteq DOMAIN v
    <3>1. ASSUME NEW w PROVE Mixed(v, o, w) \in IngressDrafts
      BY DEF Mixed, IngressDrafts
    <3>2. Owned["ingress"] \subseteq DOMAIN v
      BY DEF Owned, IngressDrafts
    <3>. QED  BY Zenon, <3>1, <3>2
  <2>1. Manifests("ingress") \subseteq IngressDrafts
    <3>1. PICK A : A = {Empty, ClassOf("ingress"), <<"mine">>}
      BY Zenon
    <3>2. Manifests("ingress") = [ns : Spellings, class : A]
      BY ZenonT(60), <3>1 DEF Manifests
    <3>3. A \subseteq Plain
      BY Zenon, <3>1, WordFacts, ShortFacts DEF ClassOf
    <3>4. [ns : Spellings, class : A] \subseteq IngressDrafts
      BY <3>3 DEF IngressDrafts
    <3>. QED  BY Zenon, <3>2, <3>4
  <2>2. ASSUME NEW o \in IngressDrafts, NEW e \in Envs
        PROVE  Forward("ingress", o, e) \in IngressesUpstream
    <3>1. Prefixed(o.class) \in HeldOnce
      BY NameFacts DEF IngressDrafts
    <3>2. o.class \in e.ingress => o.class = ClassOf("ingress")
      BY DEF Envs
    <3>. QED  BY <3>1, <3>2, <1>1 DEF IngressesUpstream
  <2>3. ASSUME NEW s \in IngressesUpstream, NEW e \in Envs
        PROVE  Backward("ingress", s, e) \in IngressDrafts
    <3>1. TrimTenantIDPrefix(s.class) \in Plain
      BY NameFacts DEF IngressesUpstream
    <3>. QED  BY <3>1, <1>2 DEF IngressDrafts, Spellings
  <2>4. ASSUME NEW o \in IngressDrafts, NEW e1 \in Envs, NEW e2 \in Envs, NEW f \in Owned["ingress"]
        PROVE  Backward("ingress", Forward("ingress", o, e1), e2)[f] = o[f]
    <3>. PICK u : u = Forward("ingress", o, e1)
      OBVIOUS
    <3>1. /\ u \in IngressesUpstream
          /\ u.class = IF o.class \in e1.ingress THEN o.class ELSE Prefixed(o.class)
      BY <2>2, <1>1
    <3>2. TrimTenantIDPrefix(u.class) = o.class
      BY <3>1, NameFacts DEF IngressDrafts
    <3>3. f = "class"
      BY DEF Owned
    <3>. QED  BY <3>1, <3>2, <3>3, <1>2
  <2>. QED  BY Zenon, <2>0, <2>1, <2>2, <2>3, <2>4 DEF Converted, Mapped
\* An Ingress gains or loses nothing at a round of reading and writing.
<1>4. Idempotent("ingress", IngressDrafts)
  <2>1. SUFFICES ASSUME NEW o \in IngressDrafts, NEW e \in Envs, NEW ns \in Spellings,
                        ~ForwardFails("ingress", o, e)
                 PROVE  Forward("ingress",
                                Respelled("ingress", Backward("ingress", Forward("ingress", o, e), e), ns), e)
                          = Forward("ingress", o, e)
    BY Zenon DEF Idempotent
  <2>. PICK u : u = Forward("ingress", o, e)
    OBVIOUS
  <2>. PICK b : b = Backward("ingress", u, e)
    OBVIOUS
  <2>. PICK v : v = Respelled("ingress", b, ns)
    OBVIOUS
  <2>2. b \in IngressDrafts /\ b["class"] = o["class"]
    <3>1. "class" \in Owned["ingress"]
      BY ZenonT(60) DEF Owned
    <3>. QED  BY ZenonT(60), <2>1, <3>1, <1>3 DEF Converted, Mapped
  <2>3. v \in IngressDrafts /\ v.class = o.class
    BY SMTT(60), <2>2 DEF IngressDrafts, Respelled, ClusterScoped
  <2>4. u \in [ns : {<<Tenant, "ns">>}, class : {IF o.class \in e.ingress THEN o.class ELSE Prefixed(o.class)}]
    BY <1>1
  <2>5. Forward("ingress", v, e) \in
          [ns : {<<Tenant, "ns">>}, class : {IF o.class \in e.ingress THEN o.class ELSE Prefixed(o.class)}]
    BY ZenonT(60), <2>3, <1>1
  <2>. QED  BY <2>4, <2>5
<1>. QED  BY Zenon, <1>1, <1>3, <1>4

----------------------------------------------------------------------------
(***************************************************************************)
(* Services                                                                *)
(***************************************************************************)

\* The types and the addresses of Services.
ServiceTypes == {"ClusterIP", "NodePort", "ExternalName"}

ServiceIPs == Addresses \cup {NoAddress, "None", "chosen", "upstream", "third"}

\* A Service as a tenant writes it ...
ServiceDrafts ==
    [ns : Spellings, type : ServiceTypes, ports : SUBSET {"http", "health"},
     ips : SUBSET {"ip"}, ip : ServiceIPs, ann : Addresses \cup {NoAddress}]

\* ... and as it is stored.
ServicesUpstream ==
    [ns : {<<Tenant, "ns">>}, type : ServiceTypes, ports : SUBSET {"http", "health"},
     ips : SUBSET {"ip"}, ip : ServiceIPs, ann : Addresses \cup {NoAddress}]

\* What a Service is converted to and what it is read as.  What is read is what
\* was written, and a round of reading and writing changes nothing.
LEMMA ServiceConversion ==
    /\ \A o \in ServiceDrafts : \A e :
           Forward("service", o, e) \in
             [ns : {<<Tenant, "ns">>}, type : {o.type}, ports : {o.ports}, ips : {o.ips},
              ip : {o.ip}, ann : {o.ann}]
    /\ \A s \in ServicesUpstream : \A e :
           Backward("service", s, e) \in
             [ns : {<<"ns">>}, type : {s.type}, ports : {s.ports}, ips : {s.ips},
              ip : {s.ip}, ann : {s.ann}]
    /\ Converted("service", ServiceDrafts, ServicesUpstream)
    /\ Rewritten("service", ServicesUpstream)
\* What a Service is sent upstream as.
<1>1. \A o \in ServiceDrafts : \A e :
          Forward("service", o, e) \in
            [ns : {<<Tenant, "ns">>}, type : {o.type}, ports : {o.ports}, ips : {o.ips},
             ip : {o.ip}, ann : {o.ann}]
  <2>. TAKE o \in ServiceDrafts
  <2>. TAKE e
  <2>1. UpstreamNamespace(o.ns) = <<Tenant, "ns">>
    BY SpellingFacts DEF ServiceDrafts
  <2>2. Forward("service", o, e) = [o EXCEPT !.ns = UpstreamNamespace(o.ns)]
    BY DEF Forward, DefaultForward, ClusterScoped, ServiceDrafts
  <2>. QED  BY <2>1, <2>2 DEF ServiceDrafts
\* What a Service is read as.
<1>2. \A s \in ServicesUpstream : \A e :
          Backward("service", s, e) \in
            [ns : {<<"ns">>}, type : {s.type}, ports : {s.ports}, ips : {s.ips},
             ip : {s.ip}, ann : {s.ann}]
  <2>. TAKE s \in ServicesUpstream
  <2>. TAKE e
  <2>1. TrimTenantIDPrefix(s.ns) = <<"ns">>
    BY SpellingFacts DEF ServicesUpstream
  <2>2. Backward("service", s, e) = [s EXCEPT !.ns = TrimTenantIDPrefix(s.ns)]
    BY DEF Backward, DefaultBackward, ClusterScoped, ServicesUpstream
  <2>. QED  BY <2>1, <2>2 DEF ServicesUpstream
\* What is read of a Service is what was written of it.
<1>3. Converted("service", ServiceDrafts, ServicesUpstream)
  <2>0. ASSUME NEW v \in ServiceDrafts, NEW o \in ServiceDrafts
        PROVE  Mixed(v, o, Owned["service"]) \in ServiceDrafts /\ Owned["service"] \subseteq DOMAIN v
    <3>1. ASSUME NEW w PROVE Mixed(v, o, w) \in ServiceDrafts
      BY DEF Mixed, ServiceDrafts
    <3>2. Owned["service"] \subseteq DOMAIN v
      BY DEF Owned, ServiceDrafts
    <3>. QED  BY Zenon, <3>1, <3>2
  <2>1. Manifests("service") \subseteq ServiceDrafts
    <3>1. PICK A, B : A = {NoAddress, "None", "chosen"} /\ B = {NoAddress}
      BY Zenon
    <3>2. Manifests("service") =
              [ns : Spellings, type : ServiceTypes, ports : SUBSET {"http", "health"},
               ips : SUBSET {"ip"}, ip : A, ann : B]
      BY ZenonT(60), <3>1 DEF Manifests, ServiceTypes
    <3>3. A \subseteq ServiceIPs /\ B \subseteq Addresses \cup {NoAddress}
      BY Zenon, <3>1 DEF ServiceIPs
    <3>4. [ns : Spellings, type : ServiceTypes, ports : SUBSET {"http", "health"},
           ips : SUBSET {"ip"}, ip : A, ann : B] \subseteq ServiceDrafts
      BY <3>3 DEF ServiceDrafts
    <3>. QED  BY Zenon, <3>2, <3>4
  <2>2. ASSUME NEW o \in ServiceDrafts, NEW e \in Envs
        PROVE  Forward("service", o, e) \in ServicesUpstream
    BY <1>1 DEF ServiceDrafts, ServicesUpstream
  <2>3. ASSUME NEW s \in ServicesUpstream, NEW e \in Envs
        PROVE  Backward("service", s, e) \in ServiceDrafts
    BY <1>2 DEF ServiceDrafts, ServicesUpstream, Spellings
  <2>4. ASSUME NEW o \in ServiceDrafts, NEW e1 \in Envs, NEW e2 \in Envs, NEW f \in Owned["service"]
        PROVE  Backward("service", Forward("service", o, e1), e2)[f] = o[f]
    <3>. PICK u : u = Forward("service", o, e1)
      OBVIOUS
    <3>1. u \in ServicesUpstream /\ u.type = o.type /\ u.ports = o.ports /\ u.ips = o.ips
      BY <2>2, <1>1
    <3>2. f \in {"type", "ports", "ips"}
      BY DEF Owned
    <3>. PICK b : b = Backward("service", u, e2)
      OBVIOUS
    <3>3. b.type = o.type /\ b.ports = o.ports /\ b.ips = o.ips
      BY <3>1, <1>2
    <3>. QED  BY <3>2, <3>3
  <2>. QED  BY Zenon, <2>0, <2>1, <2>2, <2>3, <2>4 DEF Converted, Mapped
\* What is stored of a Service survives a round of reading and writing.
<1>4. Rewritten("service", ServicesUpstream)
  <2>1. SUFFICES ASSUME NEW s \in ServicesUpstream, NEW e, NEW ns \in Spellings
                 PROVE  Forward("service", Respelled("service", Backward("service", s, e), ns), e) = s
    BY DEF Rewritten
  <2>. PICK b : b = Backward("service", s, e)
    OBVIOUS
  <2>. PICK v : v = Respelled("service", b, ns)
    OBVIOUS
  <2>2. /\ b \in ServiceDrafts
        /\ b.type = s.type /\ b.ports = s.ports /\ b.ips = s.ips /\ b.ip = s.ip /\ b.ann = s.ann
    BY <1>2 DEF ServiceDrafts, ServicesUpstream, Spellings
  <2>3. /\ v \in ServiceDrafts
        /\ v.type = s.type /\ v.ports = s.ports /\ v.ips = s.ips /\ v.ip = s.ip /\ v.ann = s.ann
    BY <2>2 DEF ServiceDrafts, Respelled, ClusterScoped
  <2>4. Forward("service", v, e) \in
               [ns : {<<Tenant, "ns">>}, type : {s.type}, ports : {s.ports}, ips : {s.ips},
                ip : {s.ip}, ann : {s.ann}]
    BY <2>3, <1>1
  <2>. QED  BY <2>4 DEF ServicesUpstream
<1>. QED  BY Zenon, <1>1, <1>2, <1>3, <1>4

----------------------------------------------------------------------------
(***************************************************************************)
(* Pods                                                                    *)
(***************************************************************************)

\* A pod as a tenant writes it ...
PodDrafts ==
    [ns : Spellings, node : {NotGiven, "node"}, pool : BOOLEAN, token : {"upstream",
     "tenant"}, dns : Addresses \cup {"default"}]

\* ... and as it is stored.
PodsUpstream ==
    [ns : {<<Tenant, "ns">>}, node : {NotGiven, "node"}, pool : BOOLEAN,
     token : {"upstream", "tenant"}, dns : Addresses \cup {"default"}]

\* What a pod is converted to and what it is read as.  What is read is what was
\* written, and a round of reading and writing changes nothing.
LEMMA PodConversion ==
    /\ \A o \in PodDrafts, e \in Envs :
           Forward("pod", o, e) \in
             [ns : {<<Tenant, "ns">>}, node : {o.node}, pool : {o.pool},
              token : {o.token}, dns : {o.dns}]
    /\ Converted("pod", PodDrafts, PodsUpstream)
    /\ Rewritten("pod", PodsUpstream)
\* What a pod is sent upstream as.
<1>1. \A o \in PodDrafts, e \in Envs :
          Forward("pod", o, e) \in
            [ns : {<<Tenant, "ns">>}, node : {o.node}, pool : {o.pool},
             token : {o.token}, dns : {o.dns}]
  <2>. TAKE o \in PodDrafts, e \in Envs
  <2>1. UpstreamNamespace(o.ns) = <<Tenant, "ns">>
    BY SpellingFacts DEF PodDrafts
  <2>2. Forward("pod", o, e) = PodForward([o EXCEPT !.ns = UpstreamNamespace(o.ns)], e)
    BY DEF Forward, DefaultForward, ClusterScoped, PodDrafts
  <2>. QED  BY <2>1, <2>2 DEF PodForward, PodDrafts
\* What a pod is read as.
<1>2. \A s \in PodsUpstream, e \in Envs :
          Backward("pod", s, e) \in
            [ns : {<<"ns">>}, node : {s.node}, pool : {s.pool}, token : {s.token},
             dns : {s.dns}]
  <2>. TAKE s \in PodsUpstream, e \in Envs
  <2>1. TrimTenantIDPrefix(s.ns) = <<"ns">>
    BY SpellingFacts DEF PodsUpstream
  <2>2. Backward("pod", s, e) = [s EXCEPT !.ns = TrimTenantIDPrefix(s.ns)]
    BY DEF Backward, DefaultBackward, ClusterScoped, PodsUpstream
  <2>. QED  BY <2>1, <2>2 DEF PodsUpstream
\* What is read of a pod is what was written of it.
<1>3. Converted("pod", PodDrafts, PodsUpstream)
  <2>0. ASSUME NEW v \in PodDrafts, NEW o \in PodDrafts
        PROVE  Mixed(v, o, Owned["pod"]) \in PodDrafts /\ Owned["pod"] \subseteq DOMAIN v
    <3>1. ASSUME NEW w PROVE Mixed(v, o, w) \in PodDrafts
      BY DEF Mixed, PodDrafts
    <3>2. Owned["pod"] \subseteq DOMAIN v
      BY DEF Owned, PodDrafts
    <3>. QED  BY Zenon, <3>1, <3>2
  <2>1. Manifests("pod") \subseteq PodDrafts
    <3>1. PICK A, B, C : /\ A = {FALSE}
                  /\ B = {"upstream"}
                  /\ C = {"default"}
      BY Zenon
    <3>2. Manifests("pod") =
              [ns : Spellings, node : {NotGiven, "node"}, pool : A, token : B, dns : C]
      BY ZenonT(60), <3>1 DEF Manifests
    <3>3. A \subseteq BOOLEAN /\ B \subseteq {"upstream", "tenant"} /\ C \subseteq Addresses \cup {"default"}
      BY Zenon, <3>1, WordFacts, ShortFacts DEF Optional, ClassOf, Plain, Given
    <3>4. [ns : Spellings, node : {NotGiven, "node"}, pool : A, token : B, dns : C] \subseteq PodDrafts
      BY ZenonT(60), <3>3 DEF PodDrafts
    <3>. QED  BY Zenon, <3>2, <3>4
  <2>2. ASSUME NEW o \in PodDrafts, NEW e \in Envs
        PROVE  Forward("pod", o, e) \in PodsUpstream
    BY <1>1 DEF PodDrafts, PodsUpstream
  <2>3. ASSUME NEW s \in PodsUpstream, NEW e \in Envs
        PROVE  Backward("pod", s, e) \in PodDrafts
    BY <1>2 DEF PodDrafts, PodsUpstream, Spellings
  <2>4. ASSUME NEW o \in PodDrafts, NEW e1 \in Envs, NEW e2 \in Envs,
               NEW f \in Owned["pod"]
        PROVE  Backward("pod", Forward("pod", o, e1), e2)[f] = o[f]
    BY DEF Owned
  <2>. QED  BY Zenon, <2>0, <2>1, <2>2, <2>3, <2>4 DEF Converted, Mapped
\* What is stored of a pod survives a round of reading and writing.
<1>4. Rewritten("pod", PodsUpstream)
  <2>1. SUFFICES ASSUME NEW s \in PodsUpstream, NEW e \in Envs, NEW ns \in Spellings
                 PROVE  Forward("pod", Respelled("pod", Backward("pod", s, e), ns), e) = s
    BY DEF Rewritten
  <2>. PICK b : b = Backward("pod", s, e)
    OBVIOUS
  <2>. PICK v : v = Respelled("pod", b, ns)
    OBVIOUS
  <2>2. /\ b \in PodDrafts
        /\ b.node = s.node
        /\ b.pool = s.pool
        /\ b.token = s.token
        /\ b.dns = s.dns
    BY <1>3, <1>2 DEF Converted, Mapped
  <2>3. /\ v \in PodDrafts
        /\ v.node = s.node
        /\ v.pool = s.pool
        /\ v.token = s.token
        /\ v.dns = s.dns
    BY <2>2 DEF PodDrafts, Respelled, ClusterScoped
  <2>5. Forward("pod", v, e) \in
               [ns : {<<Tenant, "ns">>}, node : {s.node}, pool : {s.pool},
                token : {s.token}, dns : {s.dns}]
    BY <2>3, <1>1
  <2>. QED  BY <2>5 DEF PodsUpstream
<1>. QED  BY Zenon, <1>1, <1>3, <1>4

----------------------------------------------------------------------------
(***************************************************************************)
(* Objects with a template                                                 *)
(***************************************************************************)

\* An object with a pod template as a tenant writes it ...
WorkloadDrafts ==
    [ns : Spellings, class : Plain, vac : Plain, node : {NotGiven, "node"},
     pool : BOOLEAN, token : {"upstream", "tenant"}, dns : Addresses \cup {"default"}]

\* ... and as it is stored.
WorkloadsUpstream ==
    [ns : {<<Tenant, "ns">>}, class : Plain, vac : Plain, node : {NotGiven},
     pool : {TRUE}, token : {"tenant"}, dns : Addresses \cup {"default"}]

\* The nameserver of a template that had d.
DNSUp(d, e) == IF e.nameserver = NoAddress THEN d ELSE e.nameserver

\* The templates with the given fields; there is one.
TemplateWith(a, b, c, d, f, g, h) ==
    [ns : {a}, class : {b}, vac : {c}, node : {d}, pool : {f}, token : {g}, dns : {h}]

TemplateOf(c, v, d) == TemplateWith(<<Tenant, "ns">>, c, v, NotGiven, TRUE, "tenant", d)

\* What an object with a pod template is converted to and what it is read as.
\* What is read is what was written, and a round of reading and writing changes
\* nothing.
LEMMA WorkloadConversion ==
    /\ \A o \in WorkloadDrafts, e \in Envs :
           Forward("workload", o, e) \in TemplateOf(o.class, o.vac, DNSUp(o.dns, e))
    /\ \A s \in WorkloadsUpstream, e \in Envs :
           Backward("workload", s, e) \in
             [ns : {<<"ns">>}, class : {s.class}, vac : {s.vac}, node : {s.node},
              pool : {s.pool}, token : {s.token}, dns : {s.dns}]
    /\ Converted("workload", WorkloadDrafts, WorkloadsUpstream)
    /\ Idempotent("workload", WorkloadDrafts)
\* What an object with a pod template is sent upstream as.
<1>1. \A o \in WorkloadDrafts, e \in Envs :
          Forward("workload", o, e) \in TemplateOf(o.class, o.vac, DNSUp(o.dns, e))
  <2>. TAKE o \in WorkloadDrafts, e \in Envs
  <2>1. UpstreamNamespace(o.ns) = <<Tenant, "ns">>
    BY SpellingFacts DEF WorkloadDrafts
  <2>2. Forward("workload", o, e) = TemplateForward([o EXCEPT !.ns = UpstreamNamespace(o.ns)], e)
    BY DEF Forward, DefaultForward, ClusterScoped, WorkloadDrafts
  <2>. QED  BY ZenonT(60), <2>1, <2>2 DEF TemplateForward, SetTenantDNS, ProjectNamespace, Place,
                              WorkloadDrafts, TemplateOf, TemplateWith, DNSUp
\* What an object with a pod template is read as.
<1>2. \A s \in WorkloadsUpstream, e \in Envs :
          Backward("workload", s, e) \in
            [ns : {<<"ns">>}, class : {s.class}, vac : {s.vac}, node : {s.node},
             pool : {s.pool}, token : {s.token}, dns : {s.dns}]
  <2>. TAKE s \in WorkloadsUpstream, e \in Envs
  <2>1. TrimTenantIDPrefix(s.ns) = <<"ns">>
    BY SpellingFacts DEF WorkloadsUpstream
  <2>2. Backward("workload", s, e) = [s EXCEPT !.ns = TrimTenantIDPrefix(s.ns)]
    BY DEF Backward, DefaultBackward, ClusterScoped, WorkloadsUpstream
  <2>. QED  BY <2>1, <2>2 DEF WorkloadsUpstream
\* What is read of an object with a pod template is what was written of it.
<1>3. Converted("workload", WorkloadDrafts, WorkloadsUpstream)
  <2>0. ASSUME NEW v \in WorkloadDrafts, NEW o \in WorkloadDrafts
        PROVE  Mixed(v, o, Owned["workload"]) \in WorkloadDrafts /\ Owned["workload"] \subseteq DOMAIN v
    <3>1. ASSUME NEW w PROVE Mixed(v, o, w) \in WorkloadDrafts
      BY DEF Mixed, WorkloadDrafts
    <3>2. Owned["workload"] \subseteq DOMAIN v
      BY DEF Owned, WorkloadDrafts
    <3>. QED  BY Zenon, <3>1, <3>2
  <2>1. Manifests("workload") \subseteq WorkloadDrafts
    <3>1. PICK A, B, C, D, E : /\ A = {FALSE}
                  /\ B = {"upstream"}
                  /\ C = {"default"}
                  /\ D = Optional(ClassOf("storage"))
                  /\ E = Optional(ClassOf("attributes"))
      BY Zenon
    <3>2. Manifests("workload") =
              [ns : Spellings, class : D, vac : E, node : {NotGiven, "node"}, pool : A,
               token : B, dns : C]
      BY ZenonT(60), <3>1 DEF Manifests
    <3>3. /\ A \subseteq BOOLEAN /\ B \subseteq {"upstream", "tenant"}
          /\ C \subseteq Addresses \cup {"default"} /\ D \subseteq Plain /\ E \subseteq Plain
      BY Zenon, <3>1, WordFacts, ShortFacts DEF Optional, ClassOf, Plain, Given
    <3>4. [ns : Spellings, class : D, vac : E, node : {NotGiven, "node"}, pool : A,
           token : B, dns : C] \subseteq WorkloadDrafts
      BY ZenonT(60), <3>3 DEF WorkloadDrafts
    <3>. QED  BY Zenon, <3>2, <3>4
  <2>2. ASSUME NEW o \in WorkloadDrafts, NEW e \in Envs
        PROVE  Forward("workload", o, e) \in WorkloadsUpstream
    <3>1. e.nameserver # NoAddress => e.nameserver \in Addresses
      BY DEF Envs
    <3>2. DNSUp(o.dns, e) \in Addresses \cup {"default"}
      BY <3>1 DEF DNSUp, WorkloadDrafts
    <3>3. o.class \in Plain /\ o.vac \in Plain
      BY DEF WorkloadDrafts
    <3>4. ASSUME NEW c \in Plain, NEW v \in Plain, NEW d \in Addresses \cup {"default"}
          PROVE  TemplateOf(c, v, d) \subseteq WorkloadsUpstream
      BY ZenonT(60) DEF TemplateOf, TemplateWith, WorkloadsUpstream
    <3>. QED  BY Zenon, <3>2, <3>3, <3>4, <1>1
  <2>3. ASSUME NEW s \in WorkloadsUpstream, NEW e \in Envs
        PROVE  Backward("workload", s, e) \in WorkloadDrafts
    BY ZenonT(60), <1>2 DEF WorkloadDrafts, WorkloadsUpstream, Spellings
  <2>4. ASSUME NEW o \in WorkloadDrafts, NEW e1 \in Envs, NEW e2 \in Envs,
               NEW f \in Owned["workload"]
        PROVE  Backward("workload", Forward("workload", o, e1), e2)[f] = o[f]
    <3>. PICK u : u = Forward("workload", o, e1)
      OBVIOUS
    <3>1. /\ u \in WorkloadsUpstream
          /\ u.class = o.class
          /\ u.vac = o.vac
      BY ZenonT(60), <2>2, <1>1 DEF TemplateOf, TemplateWith
    <3>3. f \in {"class", "vac"}
      BY DEF Owned
    <3>. PICK b : b = Backward("workload", u, e2)
      OBVIOUS
    <3>4. b.class = o.class /\ b.vac = o.vac
      BY <3>1, <1>2
    <3>. QED  BY <3>3, <3>4
  <2>. QED  BY Zenon, <2>0, <2>1, <2>2, <2>3, <2>4 DEF Converted, Mapped
\* A template is determined by its fields.
<1>4. \A a, b, c, d, f, g, h :
      \A y \in TemplateWith(a, b, c, d, f, g, h), z \in TemplateWith(a, b, c, d, f, g, h) :
          y = z
  <2>. TAKE a, b, c, d, f, g, h
  <2>. TAKE y \in TemplateWith(a, b, c, d, f, g, h), z \in TemplateWith(a, b, c, d, f, g, h)
  <2>. QED  BY DEF TemplateWith
\* An object with a pod template gains or loses nothing at a round of reading
\* and writing.
<1>5. Idempotent("workload", WorkloadDrafts)
  <2>1. SUFFICES ASSUME NEW o \in WorkloadDrafts, NEW e \in Envs, NEW ns \in Spellings,
                        ~ForwardFails("workload", o, e)
                 PROVE  Forward("workload",
                                Respelled("workload", Backward("workload", Forward("workload", o, e), e), ns), e)
                          = Forward("workload", o, e)
    BY Zenon DEF Idempotent
  <2>. PICK u : u = Forward("workload", o, e)
    OBVIOUS
  <2>. PICK b : b = Backward("workload", u, e)
    OBVIOUS
  <2>. PICK v : v = Respelled("workload", b, ns)
    OBVIOUS
  <2>2. u \in WorkloadsUpstream /\ b \in WorkloadDrafts
    BY ZenonT(60), <2>1, <1>3 DEF Converted, Mapped
  <2>3. b.class = u.class /\ b.vac = u.vac /\ b.dns = u.dns
    BY <2>2, <1>2
  <2>4. v \in WorkloadDrafts /\ v.class = u.class /\ v.vac = u.vac /\ v.dns = u.dns
    BY <2>2, <2>3 DEF WorkloadDrafts, Respelled, ClusterScoped
  <2>5. u \in TemplateOf(o.class, o.vac, DNSUp(o.dns, e))
    BY Zenon, <1>1
  <2>6. Forward("workload", v, e) \in TemplateOf(v.class, v.vac, DNSUp(v.dns, e))
    BY ZenonT(60), <2>4, <1>1
  <2>7. u.class = o.class /\ u.vac = o.vac /\ u.dns = DNSUp(o.dns, e)
    BY <2>5 DEF TemplateOf, TemplateWith
  <2>8. v.class = o.class /\ v.vac = o.vac /\ DNSUp(v.dns, e) = DNSUp(o.dns, e)
    BY Zenon, <2>4, <2>7 DEF DNSUp
  <2>9. Forward("workload", v, e) \in TemplateOf(o.class, o.vac, DNSUp(o.dns, e))
    BY Zenon, <2>6, <2>8
  <2>10. ASSUME NEW x, NEW w, NEW d, NEW y \in TemplateOf(x, w, d), NEW z \in TemplateOf(x, w, d)
         PROVE  y = z
    BY ZenonT(60), <1>4 DEF TemplateOf
  <2>. QED  BY Zenon, <2>5, <2>9, <2>10
<1>. QED  BY Zenon, <1>1, <1>2, <1>3, <1>5

----------------------------------------------------------------------------
(***************************************************************************)
(* Names that are given, and groups                                        *)
(***************************************************************************)

\* Upstream, the names a tenant has to give.
GivenUpstream == HeldOnce \ {Empty}

\* The names a tenant has to give are prefixed and trimmed without loss.
LEMMA GivenFacts ==
    /\ \A n \in Given : /\ n \in Plain /\ n # Empty /\ ~HasPrefix(n)
                        /\ AddTenantIDPrefix(n) = Prefixed(n)
                        /\ AddTenantIDPrefix(n) \in GivenUpstream
                        /\ TrimTenantIDPrefix(AddTenantIDPrefix(n)) = n
    /\ \A n \in GivenUpstream : /\ n \in HeldOnce /\ n # Empty /\ HasPrefix(n)
                                /\ TrimTenantIDPrefix(n) \in Given
                                /\ AddTenantIDPrefix(TrimTenantIDPrefix(n)) = n
    /\ Given \cap GivenUpstream = {}
<1>1. ASSUME NEW n \in Given
      PROVE  /\ n \in Plain /\ n # Empty /\ ~HasPrefix(n)
             /\ AddTenantIDPrefix(n) = Prefixed(n)
             /\ AddTenantIDPrefix(n) \in GivenUpstream
             /\ TrimTenantIDPrefix(AddTenantIDPrefix(n)) = n
  <2>1. n \in Plain /\ n # Empty /\ ~HasPrefix(n) /\ n \in Names
    BY Zenon DEF Given, Plain
  <2>2. AddTenantIDPrefix(n) # Empty /\ TrimTenantIDPrefix(AddTenantIDPrefix(n)) = n
    BY Zenon, <2>1, PrefixFacts
  <2>3. AddTenantIDPrefix(n) = Prefixed(n)
    BY Zenon, <2>1 DEF Prefixed
  <2>4. Prefixed(n) \in HeldOnce
    BY Zenon, <2>1, NameFacts
  <2>. QED  BY Zenon, <2>1, <2>2, <2>3, <2>4 DEF GivenUpstream
<1>2. ASSUME NEW n \in GivenUpstream
      PROVE  /\ n \in HeldOnce /\ n # Empty /\ HasPrefix(n)
             /\ TrimTenantIDPrefix(n) \in Given
             /\ AddTenantIDPrefix(TrimTenantIDPrefix(n)) = n
  <2>1. n \in HeldOnce /\ n # Empty /\ HasPrefix(n) /\ n \in Names
    BY Zenon DEF GivenUpstream, HeldOnce, Held
  <2>2. TrimTenantIDPrefix(n) # Empty /\ AddTenantIDPrefix(TrimTenantIDPrefix(n)) = n
    BY Zenon, <2>1, TrimFacts
  <2>3. TrimTenantIDPrefix(n) \in Plain
    BY Zenon, <2>1, NameFacts
  <2>. QED  BY Zenon, <2>1, <2>2, <2>3 DEF Given
<1>. QED  BY Zenon, <1>1, <1>2

\* The words of the model as names.
LEMMA WordNames ==
    \A w \in Words : <<w>> \in Given /\ <<w>> \in Plain /\ <<w>> \in Names /\ <<w>> # Empty
BY Zenon, ShortFacts DEF Given, Plain

\* What a tenant reads for a group of custom resources.
GroupView(g) == IF g \in SharedGroups THEN g ELSE TrimTenantIDPrefix(g)

\* Upstream, the groups of custom objects.
GroupsUpstream == SharedGroups \cup {g \in GivenUpstream : TrimTenantIDPrefix(g) \notin SharedGroups}

\* A group of a custom object comes back as it was written, a shared one
\* included.
LEMMA GroupFacts ==
    /\ \A g \in Given : UpstreamGroup(g) \in GroupsUpstream /\ GroupView(UpstreamGroup(g)) = g
    /\ \A g \in GroupsUpstream : GroupView(g) \in Given /\ UpstreamGroup(GroupView(g)) = g
    /\ \A g \in GroupsUpstream : g \in SharedGroups \/ HasPrefix(g)
<1>1. SharedGroups \subseteq Given
  BY Zenon, WordFacts, WordNames DEF SharedGroups
<1>2. ASSUME NEW g \in Given
      PROVE  UpstreamGroup(g) \in GroupsUpstream /\ GroupView(UpstreamGroup(g)) = g
  <2>1. CASE g \in SharedGroups
    BY Zenon, <2>1 DEF UpstreamGroup, GroupView, GroupsUpstream
  <2>2. CASE g \notin SharedGroups
    <3>1. AddTenantIDPrefix(g) \in GivenUpstream /\ TrimTenantIDPrefix(AddTenantIDPrefix(g)) = g
      BY Zenon, <1>2, GivenFacts
    <3>2. AddTenantIDPrefix(g) \notin SharedGroups
      BY Zenon, <1>1, <3>1, GivenFacts
    <3>. QED  BY Zenon, <2>2, <3>1, <3>2 DEF UpstreamGroup, GroupView, GroupsUpstream
  <2>. QED  BY Zenon, <2>1, <2>2
<1>3. ASSUME NEW g \in GroupsUpstream
      PROVE  /\ GroupView(g) \in Given /\ UpstreamGroup(GroupView(g)) = g
             /\ g \in SharedGroups \/ HasPrefix(g)
  <2>1. CASE g \in SharedGroups
    BY Zenon, <1>1, <2>1 DEF UpstreamGroup, GroupView
  <2>2. CASE g \notin SharedGroups
    <3>1. g \in GivenUpstream /\ TrimTenantIDPrefix(g) \notin SharedGroups
      BY Zenon, <1>3, <2>2 DEF GroupsUpstream
    <3>2. /\ TrimTenantIDPrefix(g) \in Given /\ AddTenantIDPrefix(TrimTenantIDPrefix(g)) = g
          /\ HasPrefix(g)
      BY Zenon, <3>1, GivenFacts
    <3>. QED  BY Zenon, <2>2, <3>1, <3>2 DEF UpstreamGroup, GroupView
  <2>. QED  BY Zenon, <2>1, <2>2
<1>. QED  BY Zenon, <1>2, <1>3

----------------------------------------------------------------------------
(***************************************************************************)
(* Custom resources                                                        *)
(***************************************************************************)

\* A custom object as a tenant writes it ...
CustomDrafts ==
    [ns : Spellings, group : Given]

\* ... and as it is stored.
CustomsUpstream ==
    [ns : {<<Tenant, "ns">>}, group : GroupsUpstream]

\* What a custom object is converted to and what it is read as.  What is read
\* is what was written, and a round of reading and writing changes nothing.
LEMMA CustomConversion ==
    /\ \A o \in CustomDrafts, e \in Envs :
           Forward("custom", o, e) \in
             [ns : {<<Tenant, "ns">>}, group : {UpstreamGroup(o.group)}]
    /\ \A s \in CustomsUpstream, e \in Envs :
           Backward("custom", s, e) \in
             [ns : {<<"ns">>}, group : {GroupView(s.group)}]
    /\ Converted("custom", CustomDrafts, CustomsUpstream)
    /\ Rewritten("custom", CustomsUpstream)
\* What a custom object is sent upstream as.
<1>1. \A o \in CustomDrafts, e \in Envs :
          Forward("custom", o, e) \in
            [ns : {<<Tenant, "ns">>}, group : {UpstreamGroup(o.group)}]
  <2>. TAKE o \in CustomDrafts, e \in Envs
  <2>1. UpstreamNamespace(o.ns) = <<Tenant, "ns">>
    BY SpellingFacts DEF CustomDrafts
  <2>2. Forward("custom", o, e) = CustomForward([o EXCEPT !.ns = UpstreamNamespace(o.ns)])
    BY DEF Forward, DefaultForward, ClusterScoped, CustomDrafts
  <2>. QED  BY ZenonT(60), <2>1, <2>2 DEF CustomForward, CustomDrafts
\* What a custom object is read as.
<1>2. \A s \in CustomsUpstream, e \in Envs :
          Backward("custom", s, e) \in
            [ns : {<<"ns">>}, group : {GroupView(s.group)}]
  <2>. TAKE s \in CustomsUpstream, e \in Envs
  <2>1. TrimTenantIDPrefix(s.ns) = <<"ns">>
    BY SpellingFacts DEF CustomsUpstream
  <2>2. Backward("custom", s, e) = CustomBackward([s EXCEPT !.ns = TrimTenantIDPrefix(s.ns)])
    BY DEF Backward, DefaultBackward, ClusterScoped, CustomsUpstream
  <2>. QED  BY ZenonT(60), <2>1, <2>2 DEF CustomBackward, GroupView, CustomsUpstream
\* What is read of a custom object is what was written of it.
<1>3. Converted("custom", CustomDrafts, CustomsUpstream)
  <2>0. ASSUME NEW v \in CustomDrafts, NEW o \in CustomDrafts
        PROVE  Mixed(v, o, Owned["custom"]) \in CustomDrafts /\ Owned["custom"] \subseteq DOMAIN v
    <3>1. ASSUME NEW w PROVE Mixed(v, o, w) \in CustomDrafts
      BY DEF Mixed, CustomDrafts
    <3>2. Owned["custom"] \subseteq DOMAIN v
      BY DEF Owned, CustomDrafts
    <3>. QED  BY Zenon, <3>1, <3>2
  <2>1. Manifests("custom") \subseteq CustomDrafts
    <3>1. PICK A : A = {<<"group">>} \cup SharedGroups
      BY Zenon
    <3>2. Manifests("custom") =
              [ns : Spellings, group : A]
      BY ZenonT(60), <3>1 DEF Manifests
    <3>3. A \subseteq Given
      BY Zenon, <3>1, WordFacts, WordNames DEF SharedGroups
    <3>4. [ns : Spellings, group : A] \subseteq CustomDrafts
      BY <3>3 DEF CustomDrafts
    <3>. QED  BY Zenon, <3>2, <3>4
  <2>2. ASSUME NEW o \in CustomDrafts, NEW e \in Envs
        PROVE  Forward("custom", o, e) \in CustomsUpstream
    BY <1>1, GroupFacts DEF CustomDrafts, CustomsUpstream
  <2>3. ASSUME NEW s \in CustomsUpstream, NEW e \in Envs
        PROVE  Backward("custom", s, e) \in CustomDrafts
    BY <1>2, GroupFacts DEF CustomDrafts, CustomsUpstream, Spellings
  <2>4. ASSUME NEW o \in CustomDrafts, NEW e1 \in Envs, NEW e2 \in Envs,
               NEW f \in Owned["custom"]
        PROVE  Backward("custom", Forward("custom", o, e1), e2)[f] = o[f]
    <3>. PICK u : u = Forward("custom", o, e1)
      OBVIOUS
    <3>1. /\ u \in CustomsUpstream
          /\ u.group = UpstreamGroup(o.group)
      BY <2>2, <1>1
    <3>2. /\ GroupView(u.group) = o.group
      BY <3>1, NameFacts, GroupFacts DEF CustomDrafts
    <3>3. f \in {"group"}
      BY DEF Owned
    <3>. PICK b : b = Backward("custom", u, e2)
      OBVIOUS
    <3>4. b.group = o.group
      BY <3>1, <3>2, <1>2
    <3>. QED  BY <3>3, <3>4
  <2>. QED  BY Zenon, <2>0, <2>1, <2>2, <2>3, <2>4 DEF Converted, Mapped
\* What is stored of a custom object survives a round of reading and writing.
<1>4. Rewritten("custom", CustomsUpstream)
  <2>1. SUFFICES ASSUME NEW s \in CustomsUpstream, NEW e \in Envs, NEW ns \in Spellings
                 PROVE  Forward("custom", Respelled("custom", Backward("custom", s, e), ns), e) = s
    BY DEF Rewritten
  <2>. PICK b : b = Backward("custom", s, e)
    OBVIOUS
  <2>. PICK v : v = Respelled("custom", b, ns)
    OBVIOUS
  <2>2. /\ b \in CustomDrafts
        /\ b.group = GroupView(s.group)
    BY <1>3, <1>2 DEF Converted, Mapped
  <2>3. /\ v \in CustomDrafts
        /\ v.group = GroupView(s.group)
    BY <2>2 DEF CustomDrafts, Respelled, ClusterScoped
  <2>4. /\ UpstreamGroup(v.group) = s.group
    BY <2>3, NameFacts, GroupFacts DEF CustomsUpstream
  <2>5. Forward("custom", v, e) \in
               [ns : {<<Tenant, "ns">>}, group : {s.group}]
    BY <2>3, <2>4, <1>1
  <2>. QED  BY <2>5 DEF CustomsUpstream
<1>. QED  BY Zenon, <1>1, <1>2, <1>3, <1>4

----------------------------------------------------------------------------
(***************************************************************************)
(* What is converted one by one                                            *)
(***************************************************************************)

\* The groups and the names of a role, as they are converted.
GroupUp(g, e) == IF AddTenantIDPrefix(g) \in e.groups THEN AddTenantIDPrefix(g) ELSE g

GroupsUp(G, e) == {GroupUp(g, e) : g \in G}

GroupsDown(G) == {TrimTenantIDPrefix(g) : g \in G}

NamesUp(N) == N \cup {AddTenantIDPrefix(n) : n \in N}

NamesDown(N) == {n \in N : ~HasPrefix(n)}

\* The subjects of a binding, as they are converted.
SubjectRecords ==
    [kind : {"User", "ServiceAccount", "Accounts", "Group"}, ns : Names, name : Names]

SubjectsUp(S) == {SubjectForward(s) : s \in S}

SubjectsDown(S) == {SubjectBackward(s) : s \in S}

\* The subjects of a binding.
LEMMA SubjectFacts ==
    /\ Subjects \subseteq SubjectRecords
    /\ \A s \in SubjectRecords : SubjectBackward(SubjectForward(s)) = s
    /\ \A S \in SUBSET Subjects : SubjectsDown(SubjectsUp(S)) = S
<1>1. Subjects \subseteq SubjectRecords
  <2>1. PICK a, b, c, d : a = <<"jo">> /\ b = <<"ns">> /\ c = Empty /\ d = <<"system", "authenticated">>
    BY Zenon
  <2>2. a \in Names /\ b \in Names /\ c \in Names
    BY Zenon, <2>1, WordFacts, WordNames, ShortFacts DEF Plain
  <2>3. d \in Names
    BY Zenon, <2>1, WordFacts, TwoParts DEF Names
  <2>4. Subjects = {[kind |-> "User", ns |-> c, name |-> a],
                    [kind |-> "ServiceAccount", ns |-> b, name |-> a],
                    [kind |-> "ServiceAccount", ns |-> c, name |-> a],
                    [kind |-> "Accounts", ns |-> c, name |-> b],
                    [kind |-> "Group", ns |-> c, name |-> d]}
    BY Zenon, <2>1 DEF Subjects
  <2>. QED  BY <2>2, <2>3, <2>4 DEF SubjectRecords
<1>2. ASSUME NEW s \in SubjectRecords PROVE SubjectBackward(SubjectForward(s)) = s
  <2>1. TrimTenantIDPrefix(Prefixed(s.ns)) = s.ns /\ TrimTenantIDPrefix(Prefixed(s.name)) = s.name
    BY NameFacts DEF SubjectRecords
  <2>2. CASE s.kind = "ServiceAccount"
    BY ZenonT(60), <2>1, <2>2 DEF SubjectForward, SubjectBackward, SubjectRecords
  <2>3. CASE s.kind # "ServiceAccount"
    BY ZenonT(60), <2>1, <2>3 DEF SubjectForward, SubjectBackward, SubjectRecords
  <2>. QED  BY Zenon, <2>2, <2>3
<1>3. ASSUME NEW S \in SUBSET Subjects PROVE SubjectsDown(SubjectsUp(S)) = S
  <2>1. \A s \in S : SubjectBackward(SubjectForward(s)) = s
    BY Zenon, <1>1, <1>2, <1>3
  <2>. QED  BY Zenon, <2>1 DEF SubjectsUp, SubjectsDown
<1>. QED  BY Zenon, <1>1, <1>2, <1>3

\* Where a subject names a namespace, it is that of the model.
LEMMA SubjectSpelled ==
    \A s \in Subjects : /\ s.kind = "Accounts" => s.name = <<"ns">>
                        /\ s.kind = "ServiceAccount" /\ s.ns # Empty => s.ns = <<"ns">>
<1>1. PICK a, b, c, d : a = <<"jo">> /\ b = <<"ns">> /\ c = Empty /\ d = <<"system", "authenticated">>
  BY Zenon
<1>2. Subjects = {[kind |-> "User", ns |-> c, name |-> a],
                  [kind |-> "ServiceAccount", ns |-> b, name |-> a],
                  [kind |-> "ServiceAccount", ns |-> c, name |-> a],
                  [kind |-> "Accounts", ns |-> c, name |-> b],
                  [kind |-> "Group", ns |-> c, name |-> d]}
  BY Zenon, <1>1 DEF Subjects
<1>3. \A s \in Subjects : /\ s.kind = "Accounts" => s.name = b
                          /\ s.kind = "ServiceAccount" /\ s.ns # c => s.ns = b
  BY <1>2
<1>. QED  BY Zenon, <1>1, <1>3

----------------------------------------------------------------------------
(***************************************************************************)
(* Roles                                                                   *)
(***************************************************************************)

\* A role as a tenant writes it ...
RoleDrafts ==
    [ns : Spellings, groups : SUBSET Given, names : SUBSET Given]

\* ... and as it is stored.
RolesUpstream ==
    [ns : {<<Tenant, "ns">>}, groups : SUBSET (Given \cup GivenUpstream),
     names : {NamesUp(N) : N \in SUBSET Given}]

\* What a role is converted to and what it is read as.  What is read is what
\* was written, and a round of reading and writing changes nothing.
LEMMA RoleConversion ==
    /\ Converted("role", RoleDrafts, RolesUpstream)
    /\ Idempotent("role", RoleDrafts)
\* The groups and the names of a role.
<1>1. \A G \in SUBSET Given : \A e :
          /\ GroupsUp(G, e) \in SUBSET (Given \cup GivenUpstream)
          /\ GroupsDown(GroupsUp(G, e)) = G
          /\ NamesDown(NamesUp(G)) = G
  <2>. TAKE G \in SUBSET Given
  <2>. TAKE e
  <2>1. ASSUME NEW g \in G
        PROVE  /\ g \in Given /\ GroupUp(g, e) \in Given \cup GivenUpstream
               /\ TrimTenantIDPrefix(GroupUp(g, e)) = g
    <3>1. /\ g \in Given /\ g \in Plain
          /\ AddTenantIDPrefix(g) \in GivenUpstream /\ TrimTenantIDPrefix(AddTenantIDPrefix(g)) = g
      BY Zenon, <2>1, GivenFacts
    <3>2. TrimTenantIDPrefix(g) = g
      BY Zenon, <3>1, NameFacts
    <3>. QED  BY Zenon, <3>1, <3>2 DEF GroupUp
  <2>2. GroupsUp(G, e) \in SUBSET (Given \cup GivenUpstream)
    BY Zenon, <2>1 DEF GroupsUp
  <2>3. GroupsDown(GroupsUp(G, e)) = G
    BY Zenon, <2>1 DEF GroupsUp, GroupsDown
  <2>4. NamesDown(NamesUp(G)) = G
    <3>1. ASSUME NEW n \in G PROVE ~HasPrefix(n) /\ HasPrefix(AddTenantIDPrefix(n))
      BY Zenon, <2>1, <3>1, GivenFacts
    <3>. QED  BY Zenon, <3>1 DEF NamesDown, NamesUp
  <2>. QED  BY Zenon, <2>2, <2>3, <2>4
\* What a role is sent upstream as.
<1>2. \A o \in RoleDrafts, e \in Envs :
          Forward("role", o, e) \in
            [ns : {<<Tenant, "ns">>}, groups : {GroupsUp(o.groups, e)},
             names : {NamesUp(o.names)}]
  <2>. TAKE o \in RoleDrafts, e \in Envs
  <2>1. UpstreamNamespace(o.ns) = <<Tenant, "ns">>
    BY SpellingFacts DEF RoleDrafts
  <2>2. Forward("role", o, e) = RuleForward([o EXCEPT !.ns = UpstreamNamespace(o.ns)], e)
    BY DEF Forward, DefaultForward, ClusterScoped, RoleDrafts
  <2>. QED  BY ZenonT(60), <2>1, <2>2 DEF RuleForward, GroupsUp, GroupUp, NamesUp, RoleDrafts
\* What a role is read as.
<1>3. \A s \in RolesUpstream, e \in Envs :
          Backward("role", s, e) \in
            [ns : {<<"ns">>}, groups : {GroupsDown(s.groups)},
             names : {NamesDown(s.names)}]
  <2>. TAKE s \in RolesUpstream, e \in Envs
  <2>1. TrimTenantIDPrefix(s.ns) = <<"ns">>
    BY SpellingFacts DEF RolesUpstream
  <2>2. Backward("role", s, e) = RuleBackward([s EXCEPT !.ns = TrimTenantIDPrefix(s.ns)], e)
    BY DEF Backward, DefaultBackward, ClusterScoped, RolesUpstream
  <2>. QED  BY ZenonT(60), <2>1, <2>2 DEF RuleBackward, GroupsDown, NamesDown, RolesUpstream
\* What is read of a role is what was written of it.
<1>4. Converted("role", RoleDrafts, RolesUpstream)
  <2>0. ASSUME NEW v \in RoleDrafts, NEW o \in RoleDrafts
        PROVE  Mixed(v, o, Owned["role"]) \in RoleDrafts /\ Owned["role"] \subseteq DOMAIN v
    <3>1. ASSUME NEW w PROVE Mixed(v, o, w) \in RoleDrafts
      BY DEF Mixed, RoleDrafts
    <3>2. Owned["role"] \subseteq DOMAIN v
      BY DEF Owned, RoleDrafts
    <3>. QED  BY Zenon, <3>1, <3>2
  <2>1. Manifests("role") \subseteq RoleDrafts
    <3>1. PICK A, B : /\ A = SUBSET {<<"group">>, <<"apps">>}
                  /\ B = SUBSET {<<"a">>, <<"b">>}
      BY Zenon
    <3>2. Manifests("role") =
              [ns : Spellings, groups : A, names : B]
      BY ZenonT(60), <3>1 DEF Manifests
    <3>3. A \subseteq SUBSET Given /\ B \subseteq SUBSET Given
      BY Zenon, <3>1, WordFacts, WordNames
    <3>4. [ns : Spellings, groups : A, names : B] \subseteq RoleDrafts
      BY <3>3 DEF RoleDrafts
    <3>. QED  BY Zenon, <3>2, <3>4
  <2>2. ASSUME NEW o \in RoleDrafts, NEW e \in Envs
        PROVE  Forward("role", o, e) \in RolesUpstream
    <3>1. GroupsUp(o.groups, e) \in SUBSET (Given \cup GivenUpstream)
      BY <1>1 DEF RoleDrafts
    <3>. QED  BY <3>1, <1>2 DEF RoleDrafts, RolesUpstream
  <2>3. ASSUME NEW s \in RolesUpstream, NEW e \in Envs
        PROVE  Backward("role", s, e) \in RoleDrafts
    <3>1. GroupsDown(s.groups) \in SUBSET Given
      <4>1. s.groups \in SUBSET (Given \cup GivenUpstream)
        BY DEF RolesUpstream
      <4>2. \A g \in Given : TrimTenantIDPrefix(g) \in Given
        BY Zenon, GivenFacts, NameFacts
      <4>3. \A g \in GivenUpstream : TrimTenantIDPrefix(g) \in Given
        BY Zenon, GivenFacts
      <4>4. \A g \in s.groups : TrimTenantIDPrefix(g) \in Given
        BY Zenon, <4>1, <4>2, <4>3
      <4>. QED  BY Zenon, <4>4 DEF GroupsDown
    <3>2. NamesDown(s.names) \in SUBSET Given
      <4>1. PICK N \in SUBSET Given : s.names = NamesUp(N)
        BY DEF RolesUpstream
      <4>. QED  BY Zenon, <4>1, <1>1
    <3>. QED  BY <3>1, <3>2, <1>3 DEF RoleDrafts, Spellings
  <2>4. ASSUME NEW o \in RoleDrafts, NEW e1 \in Envs, NEW e2 \in Envs,
               NEW f \in Owned["role"]
        PROVE  Backward("role", Forward("role", o, e1), e2)[f] = o[f]
    <3>. PICK u : u = Forward("role", o, e1)
      OBVIOUS
    <3>1. /\ u \in RolesUpstream
          /\ u.groups = GroupsUp(o.groups, e1)
          /\ u.names = NamesUp(o.names)
      BY <2>2, <1>2
    <3>2. /\ GroupsDown(u.groups) = o.groups
          /\ NamesDown(u.names) = o.names
      BY ZenonT(60), <3>1, NameFacts, <1>1 DEF RoleDrafts
    <3>3. f \in {"groups", "names"}
      BY DEF Owned
    <3>. PICK b : b = Backward("role", u, e2)
      OBVIOUS
    <3>4. b.groups = o.groups /\ b.names = o.names
      BY <3>1, <3>2, <1>3
    <3>. QED  BY <3>3, <3>4
  <2>. QED  BY Zenon, <2>0, <2>1, <2>2, <2>3, <2>4 DEF Converted, Mapped
\* A role gains or loses nothing at a round of reading and writing.
<1>5. Idempotent("role", RoleDrafts)
  <2>1. SUFFICES ASSUME NEW o \in RoleDrafts, NEW e \in Envs, NEW ns \in Spellings,
                        ~ForwardFails("role", o, e)
                 PROVE  Forward("role",
                                Respelled("role", Backward("role", Forward("role", o, e), e), ns), e)
                          = Forward("role", o, e)
    BY Zenon DEF Idempotent
  <2>. PICK u : u = Forward("role", o, e)
    OBVIOUS
  <2>. PICK b : b = Backward("role", u, e)
    OBVIOUS
  <2>. PICK v : v = Respelled("role", b, ns)
    OBVIOUS
  <2>2. b \in RoleDrafts /\ b["groups"] = o["groups"] /\ b["names"] = o["names"]
    <3>1. "groups" \in Owned["role"] /\ "names" \in Owned["role"]
      BY DEF Owned
    <3>. QED  BY ZenonT(60), <2>1, <3>1, <1>4 DEF Converted, Mapped
  <2>3. v \in RoleDrafts /\ v.groups = o.groups /\ v.names = o.names
    BY <2>2 DEF RoleDrafts, Respelled, ClusterScoped
  <2>4. u \in [ns : {<<Tenant, "ns">>}, groups : {GroupsUp(o.groups, e)}, names : {NamesUp(o.names)}]
    BY <1>2
  <2>5. Forward("role", v, e) \in
          [ns : {<<Tenant, "ns">>}, groups : {GroupsUp(o.groups, e)}, names : {NamesUp(o.names)}]
    BY Zenon, <2>3, <1>2
  <2>. QED  BY <2>4, <2>5
<1>. QED  BY Zenon, <1>4, <1>5

----------------------------------------------------------------------------
(***************************************************************************)
(* Bindings                                                                *)
(***************************************************************************)

\* A binding as a tenant writes it ...
BindingDrafts ==
    [ns : Spellings, subjects : SUBSET Subjects, clusterRole : Names]

\* ... and as it is stored.
BindingsUpstream ==
    [ns : {<<Tenant, "ns">>}, subjects : {SubjectsUp(S) : S \in SUBSET Subjects},
     clusterRole : Held]

\* What a binding is converted to and what it is read as.  What is read is what
\* was written, and a round of reading and writing changes nothing.
LEMMA BindingConversion ==
    /\ \A s \in BindingsUpstream, e \in Envs :
           Backward("binding", s, e) \in
             [ns : {<<"ns">>}, subjects : {SubjectsDown(s.subjects)},
              clusterRole : {TrimTenantIDPrefix(s.clusterRole)}]
    /\ Converted("binding", BindingDrafts, BindingsUpstream)
    /\ Rewritten("binding", BindingsUpstream)
\* What a binding is sent upstream as.
<1>1. \A o \in BindingDrafts, e \in Envs :
          Forward("binding", o, e) \in
            [ns : {<<Tenant, "ns">>}, subjects : {SubjectsUp(o.subjects)},
             clusterRole : {Prefixed(o.clusterRole)}]
  <2>. TAKE o \in BindingDrafts, e \in Envs
  <2>1. UpstreamNamespace(o.ns) = <<Tenant, "ns">>
    BY SpellingFacts DEF BindingDrafts
  <2>2. Forward("binding", o, e) = BindingForward([o EXCEPT !.ns = UpstreamNamespace(o.ns)])
    BY DEF Forward, DefaultForward, ClusterScoped, BindingDrafts
  <2>. QED  BY ZenonT(60), <2>1, <2>2 DEF BindingForward, SubjectsUp, BindingDrafts
\* What a binding is read as.
<1>2. \A s \in BindingsUpstream, e \in Envs :
          Backward("binding", s, e) \in
            [ns : {<<"ns">>}, subjects : {SubjectsDown(s.subjects)},
             clusterRole : {TrimTenantIDPrefix(s.clusterRole)}]
  <2>. TAKE s \in BindingsUpstream, e \in Envs
  <2>1. TrimTenantIDPrefix(s.ns) = <<"ns">>
    BY SpellingFacts DEF BindingsUpstream
  <2>2. Backward("binding", s, e) = BindingBackward([s EXCEPT !.ns = TrimTenantIDPrefix(s.ns)])
    BY DEF Backward, DefaultBackward, ClusterScoped, BindingsUpstream
  <2>. QED  BY ZenonT(60), <2>1, <2>2 DEF BindingBackward, SubjectsDown, BindingsUpstream
\* What is read of a binding is what was written of it.
<1>3. Converted("binding", BindingDrafts, BindingsUpstream)
  <2>0. ASSUME NEW v \in BindingDrafts, NEW o \in BindingDrafts
        PROVE  Mixed(v, o, Owned["binding"]) \in BindingDrafts /\ Owned["binding"] \subseteq DOMAIN v
    <3>1. ASSUME NEW w PROVE Mixed(v, o, w) \in BindingDrafts
      BY DEF Mixed, BindingDrafts
    <3>2. Owned["binding"] \subseteq DOMAIN v
      BY DEF Owned, BindingDrafts
    <3>. QED  BY Zenon, <3>1, <3>2
  <2>1. Manifests("binding") \subseteq BindingDrafts
    <3>1. PICK A : A = Optional(<<"view">>)
      BY Zenon
    <3>2. Manifests("binding") =
              [ns : Spellings, subjects : SUBSET Subjects, clusterRole : A]
      BY ZenonT(60), <3>1 DEF Manifests
    <3>3. A \subseteq Names
      BY Zenon, <3>1, WordFacts, ShortFacts DEF Optional, ClassOf, Plain, Given
    <3>4. [ns : Spellings, subjects : SUBSET Subjects, clusterRole : A] \subseteq BindingDrafts
      BY <3>3 DEF BindingDrafts
    <3>. QED  BY Zenon, <3>2, <3>4
  <2>2. ASSUME NEW o \in BindingDrafts, NEW e \in Envs
        PROVE  Forward("binding", o, e) \in BindingsUpstream
    <3>1. Prefixed(o.clusterRole) \in Held
      BY NameFacts DEF BindingDrafts
    <3>. QED  BY <3>1, <1>1 DEF BindingDrafts, BindingsUpstream
  <2>3. ASSUME NEW s \in BindingsUpstream, NEW e \in Envs
        PROVE  Backward("binding", s, e) \in BindingDrafts
    <3>1. TrimTenantIDPrefix(s.clusterRole) \in Names
      BY NameFacts DEF BindingsUpstream
    <3>2. SubjectsDown(s.subjects) \in SUBSET Subjects
      <4>1. PICK S \in SUBSET Subjects : s.subjects = SubjectsUp(S)
        BY DEF BindingsUpstream
      <4>. QED  BY Zenon, <4>1, SubjectFacts
    <3>. QED  BY <3>1, <3>2, <1>2 DEF BindingDrafts, Spellings
  <2>4. ASSUME NEW o \in BindingDrafts, NEW e1 \in Envs, NEW e2 \in Envs,
               NEW f \in Owned["binding"]
        PROVE  Backward("binding", Forward("binding", o, e1), e2)[f] = o[f]
    <3>. PICK u : u = Forward("binding", o, e1)
      OBVIOUS
    <3>1. /\ u \in BindingsUpstream
          /\ u.clusterRole = Prefixed(o.clusterRole)
          /\ u.subjects = SubjectsUp(o.subjects)
      BY <2>2, <1>1
    <3>2. /\ SubjectsDown(u.subjects) = o.subjects
          /\ TrimTenantIDPrefix(u.clusterRole) = o.clusterRole
      BY SMTT(60), <3>1, NameFacts, SubjectFacts DEF BindingDrafts
    <3>3. f \in {"subjects", "clusterRole"}
      BY DEF Owned
    <3>. PICK b : b = Backward("binding", u, e2)
      OBVIOUS
    <3>4. b.subjects = o.subjects /\ b.clusterRole = o.clusterRole
      BY <3>1, <3>2, <1>2
    <3>. QED  BY <3>3, <3>4
  <2>. QED  BY Zenon, <2>0, <2>1, <2>2, <2>3, <2>4 DEF Converted, Mapped
\* What is stored of a binding survives a round of reading and writing.
<1>4. Rewritten("binding", BindingsUpstream)
  <2>1. SUFFICES ASSUME NEW s \in BindingsUpstream, NEW e \in Envs, NEW ns \in Spellings
                 PROVE  Forward("binding", Respelled("binding", Backward("binding", s, e), ns), e) = s
    BY DEF Rewritten
  <2>. PICK b : b = Backward("binding", s, e)
    OBVIOUS
  <2>. PICK v : v = Respelled("binding", b, ns)
    OBVIOUS
  <2>2. /\ b \in BindingDrafts
        /\ b.subjects = SubjectsDown(s.subjects)
        /\ b.clusterRole = TrimTenantIDPrefix(s.clusterRole)
    BY <1>3, <1>2 DEF Converted, Mapped
  <2>3. /\ v \in BindingDrafts
        /\ v.subjects = SubjectsDown(s.subjects)
        /\ v.clusterRole = TrimTenantIDPrefix(s.clusterRole)
    BY <2>2 DEF BindingDrafts, Respelled, ClusterScoped
  <2>4. /\ SubjectsUp(v.subjects) = s.subjects
        /\ Prefixed(v.clusterRole) = s.clusterRole
    BY <2>3, NameFacts, SubjectFacts DEF BindingsUpstream
  <2>5. Forward("binding", v, e) \in
               [ns : {<<Tenant, "ns">>}, subjects : {s.subjects},
                clusterRole : {s.clusterRole}]
    BY <2>3, <2>4, <1>1
  <2>. QED  BY <2>5 DEF BindingsUpstream
<1>. QED  BY Zenon, <1>2, <1>3, <1>4

----------------------------------------------------------------------------
(***************************************************************************)
(* Peers and owners                                                        *)
(***************************************************************************)

\* The peers of a network policy, as they are converted.
PeerDrafts == [selects : {TRUE}, name : Plain, confined : {FALSE}]

PeerRecords == [selects : {TRUE}, name : HeldOnce, confined : {TRUE}]

PeerUp(p) ==
    IF p.selects THEN [p EXCEPT !.name = UpstreamNamespace(@), !.confined = TRUE] ELSE p

PeerDown(p) ==
    IF p.selects THEN [p EXCEPT !.name = TrimTenantIDPrefix(@), !.confined = FALSE] ELSE p

PeersUp(P) == {PeerUp(p) : p \in P}

PeersDown(P) == {PeerDown(p) : p \in P}

\* The group of an owner, on both sides.
OwnerGroupUp(g) == IF g \in NativeGroups THEN g ELSE AddTenantIDPrefix(g)

\* The group of an owner, as it is read.
OwnerGroupDown(g) == IF g \in NativeGroups THEN g ELSE TrimTenantIDPrefix(g)

\* The group of an owner comes back as it was written.
LEMMA OwnerGroupFacts ==
    /\ NativeGroups \subseteq Plain
    /\ \A g \in Plain : /\ OwnerGroupUp(g) \in NativeGroups \cup GivenUpstream
                        /\ OwnerGroupDown(OwnerGroupUp(g)) = g
<1>1. NativeGroups \subseteq Plain
  BY Zenon, WordFacts, WordNames, ShortFacts DEF NativeGroups
<1>2. ASSUME NEW g \in Plain
      PROVE  /\ OwnerGroupUp(g) \in NativeGroups \cup GivenUpstream
             /\ OwnerGroupDown(OwnerGroupUp(g)) = g
  <2>1. CASE g \in NativeGroups
    BY Zenon, <2>1 DEF OwnerGroupUp, OwnerGroupDown
  <2>2. CASE g \notin NativeGroups
    <3>1. g \in Given
      BY Zenon, <1>2, <2>2 DEF NativeGroups, Given
    <3>2. AddTenantIDPrefix(g) \in GivenUpstream /\ TrimTenantIDPrefix(AddTenantIDPrefix(g)) = g
      BY Zenon, <3>1, GivenFacts
    <3>3. AddTenantIDPrefix(g) \notin NativeGroups
      BY Zenon, <1>1, <3>2, GivenFacts DEF Plain
    <3>. QED  BY Zenon, <2>2, <3>2, <3>3 DEF OwnerGroupUp, OwnerGroupDown
  <2>. QED  BY Zenon, <2>1, <2>2
<1>. QED  BY Zenon, <1>1, <1>2

\* The owners of an object, as they are converted.
OwnerDrafts == [scope : {"Namespaced", "Cluster"}, group : Plain, name : Given]

OwnersUp(R) == {OwnerForward(r) : r \in R}

OwnersDown(R) == {OwnerBackward(r) : r \in R}

\* The owners of an object.
LEMMA OwnerFacts ==
    /\ \A r \in OwnerDrafts :
        /\ OwnerBackward(OwnerForward(r)) = r
        /\ OwnerForward(r) \in [scope : {r.scope}, group : NativeGroups \cup GivenUpstream, name : Names]
        /\ r.scope = "Cluster" => HasPrefix(OwnerForward(r).name)
    /\ \A R \in SUBSET OwnerDrafts : OwnersDown(OwnersUp(R)) = R
<1>1. ASSUME NEW r \in OwnerDrafts
      PROVE  /\ OwnerBackward(OwnerForward(r)) = r
             /\ OwnerForward(r) \in [scope : {r.scope}, group : NativeGroups \cup GivenUpstream, name : Names]
             /\ r.scope = "Cluster" => HasPrefix(OwnerForward(r).name)
  <2>1. /\ OwnerGroupUp(r.group) \in NativeGroups \cup GivenUpstream
        /\ OwnerGroupDown(OwnerGroupUp(r.group)) = r.group
    BY OwnerGroupFacts DEF OwnerDrafts
  <2>2. r.name \in Given
    BY DEF OwnerDrafts
  <2>3. /\ r.name \in Names /\ Prefixed(r.name) \in Names /\ TrimTenantIDPrefix(Prefixed(r.name)) = r.name
        /\ HasPrefix(Prefixed(r.name))
    BY Zenon, <2>2, UpstreamFacts DEF Given, Plain
  <2>4. OwnerForward(r) = [r EXCEPT !.name = IF r.scope = "Cluster" THEN Prefixed(r.name) ELSE r.name,
                                    !.group = OwnerGroupUp(r.group)]
    BY DEF OwnerForward, OwnerGroupUp, OwnerDrafts
  <2>. PICK u : u = OwnerForward(r)
    OBVIOUS
  <2>5. u \in [scope : {r.scope}, group : {OwnerGroupUp(r.group)},
               name : {IF r.scope = "Cluster" THEN Prefixed(r.name) ELSE r.name}]
    BY ZenonT(60), <2>4 DEF OwnerDrafts
  <2>6. OwnerBackward(u) = [u EXCEPT !.name = IF u.scope = "Cluster" THEN TrimTenantIDPrefix(u.name) ELSE u.name,
                                     !.group = OwnerGroupDown(u.group)]
    BY <2>5 DEF OwnerBackward, OwnerGroupDown
  <2>7. OwnerBackward(u) \in [scope : {r.scope}, group : {r.group}, name : {r.name}]
    BY ZenonT(60), <2>1, <2>3, <2>5, <2>6
  <2>8. OwnerBackward(u) = r
    BY <2>7 DEF OwnerDrafts
  <2>. QED  BY <2>1, <2>3, <2>5, <2>8
<1>2. ASSUME NEW R \in SUBSET OwnerDrafts PROVE OwnersDown(OwnersUp(R)) = R
  <2>1. \A r \in R : OwnerBackward(OwnerForward(r)) = r
    BY Zenon, <1>1, <1>2
  <2>. QED  BY Zenon, <2>1 DEF OwnersUp, OwnersDown
<1>. QED  BY Zenon, <1>1, <1>2

----------------------------------------------------------------------------
(***************************************************************************)
(* Network policies                                                        *)
(***************************************************************************)

\* A network policy as a tenant writes it ...
PolicyDrafts ==
    [ns : Spellings, peers : SUBSET PeerDrafts]

\* ... and as it is stored.
PoliciesUpstream ==
    [ns : {<<Tenant, "ns">>}, peers : SUBSET PeerRecords]

\* What a network policy is converted to and what it is read as.  What is read
\* is what was written, and a round of reading and writing changes nothing.
LEMMA PolicyConversion ==
    /\ Converted("policy", PolicyDrafts, PoliciesUpstream)
    /\ Rewritten("policy", PoliciesUpstream)
\* The peers of a policy.
<1>1. /\ \A P \in SUBSET PeerDrafts : PeersUp(P) \in SUBSET PeerRecords /\ PeersDown(PeersUp(P)) = P
      /\ \A P \in SUBSET PeerRecords : PeersDown(P) \in SUBSET PeerDrafts /\ PeersUp(PeersDown(P)) = P
  \* A peer is determined by its fields.
  <2>SamePeer. \A a, n, b :
               \A x \in [selects : {a}, name : {n}, confined : {b}], y \in [selects : {a}, name : {n}, confined : {b}] :
                   x = y
    <3>. TAKE a, n, b
    <3>. TAKE x \in [selects : {a}, name : {n}, confined : {b}], y \in [selects : {a}, name : {n}, confined : {b}]
    <3>. QED  OBVIOUS
  <2>1. ASSUME NEW p \in PeerDrafts PROVE PeerUp(p) \in PeerRecords /\ PeerDown(PeerUp(p)) = p
    <3>1. /\ UpstreamNamespace(p.name) = Prefixed(p.name) /\ Prefixed(p.name) \in HeldOnce
          /\ TrimTenantIDPrefix(Prefixed(p.name)) = p.name
      BY NameFacts DEF PeerDrafts
    <3>2. PeerUp(p) \in [selects : {TRUE}, name : {Prefixed(p.name)}, confined : {TRUE}]
      BY ZenonT(60), <3>1 DEF PeerUp, PeerDrafts
    <3>3. PeerDown(PeerUp(p)) \in [selects : {TRUE}, name : {p.name}, confined : {FALSE}]
      BY ZenonT(60), <3>1, <3>2 DEF PeerDown
    <3>4. PeerUp(p) \in PeerRecords
      BY ZenonT(60), <3>1, <3>2 DEF PeerRecords
    <3>5. PeerDown(PeerUp(p)) = p
      <4>1. PICK a, b : a = TRUE /\ b = FALSE
        BY Zenon
      <4>2. PICK x : x = PeerDown(PeerUp(p))
        BY Zenon
      <4>3. x \in [selects : {a}, name : {p.name}, confined : {b}]
        BY Zenon, <3>3, <4>1, <4>2
      <4>4. p \in [selects : {a}, name : {p.name}, confined : {b}]
        BY ZenonT(60), <4>1 DEF PeerDrafts
      <4>. QED  BY ZenonT(60), <4>2, <4>3, <4>4, <2>SamePeer
    <3>. QED  BY Zenon, <3>4, <3>5
  <2>2. ASSUME NEW p \in PeerRecords PROVE PeerDown(p) \in PeerDrafts /\ PeerUp(PeerDown(p)) = p
    <3>1. TrimTenantIDPrefix(p.name) \in Plain /\ UpstreamNamespace(TrimTenantIDPrefix(p.name)) = p.name
      BY NameFacts DEF PeerRecords
    <3>2. PeerDown(p) \in [selects : {TRUE}, name : {TrimTenantIDPrefix(p.name)}, confined : {FALSE}]
      BY ZenonT(60) DEF PeerDown, PeerRecords
    <3>3. PeerUp(PeerDown(p)) \in [selects : {TRUE}, name : {p.name}, confined : {TRUE}]
      BY ZenonT(60), <3>1, <3>2 DEF PeerUp
    <3>4. PeerDown(p) \in PeerDrafts
      BY ZenonT(60), <3>1, <3>2 DEF PeerDrafts
    <3>5. PeerUp(PeerDown(p)) = p
      <4>1. p \in [selects : {TRUE}, name : {p.name}, confined : {TRUE}]
        BY ZenonT(60) DEF PeerRecords
      <4>. QED  BY ZenonT(60), <3>3, <4>1, <2>SamePeer
    <3>. QED  BY Zenon, <3>4, <3>5
  <2>3. ASSUME NEW P \in SUBSET PeerDrafts
        PROVE  PeersUp(P) \in SUBSET PeerRecords /\ PeersDown(PeersUp(P)) = P
    BY Zenon, <2>1, <2>3 DEF PeersUp, PeersDown
  <2>4. ASSUME NEW P \in SUBSET PeerRecords
        PROVE  PeersDown(P) \in SUBSET PeerDrafts /\ PeersUp(PeersDown(P)) = P
    BY Zenon, <2>2, <2>4 DEF PeersUp, PeersDown
  <2>. QED  BY Zenon, <2>3, <2>4
\* What a network policy is sent upstream as.
<1>2. \A o \in PolicyDrafts, e \in Envs :
          Forward("policy", o, e) \in
            [ns : {<<Tenant, "ns">>}, peers : {PeersUp(o.peers)}]
  <2>. TAKE o \in PolicyDrafts, e \in Envs
  <2>1. UpstreamNamespace(o.ns) = <<Tenant, "ns">>
    BY SpellingFacts DEF PolicyDrafts
  <2>2. Forward("policy", o, e) = PolicyForward([o EXCEPT !.ns = UpstreamNamespace(o.ns)])
    BY SMTT(60) DEF Forward, DefaultForward, ClusterScoped, PolicyDrafts
  <2>. QED  BY ZenonT(60), <2>1, <2>2 DEF PolicyForward, PeersUp, PeerUp, PolicyDrafts
\* What a network policy is read as.
<1>3. \A s \in PoliciesUpstream, e \in Envs :
          Backward("policy", s, e) \in
            [ns : {<<"ns">>}, peers : {PeersDown(s.peers)}]
  <2>. TAKE s \in PoliciesUpstream, e \in Envs
  <2>1. TrimTenantIDPrefix(s.ns) = <<"ns">>
    BY SpellingFacts DEF PoliciesUpstream
  <2>2. Backward("policy", s, e) = PolicyBackward([s EXCEPT !.ns = TrimTenantIDPrefix(s.ns)])
    BY DEF Backward, DefaultBackward, ClusterScoped, PoliciesUpstream
  <2>. QED  BY ZenonT(60), <2>1, <2>2 DEF PolicyBackward, PeersDown, PeerDown, PoliciesUpstream
\* What is read of a network policy is what was written of it.
<1>4. Converted("policy", PolicyDrafts, PoliciesUpstream)
  <2>0. ASSUME NEW v \in PolicyDrafts, NEW o \in PolicyDrafts
        PROVE  Mixed(v, o, Owned["policy"]) \in PolicyDrafts /\ Owned["policy"] \subseteq DOMAIN v
    <3>1. ASSUME NEW w PROVE Mixed(v, o, w) \in PolicyDrafts
      BY SMTT(60) DEF Mixed, PolicyDrafts
    <3>2. Owned["policy"] \subseteq DOMAIN v
      BY DEF Owned, PolicyDrafts
    <3>. QED  BY Zenon, <3>1, <3>2
  <2>1. Manifests("policy") \subseteq PolicyDrafts
    <3>1. PICK A : A = SUBSET [selects : {TRUE}, name : Optional(<<"ns">>), confined : {FALSE}]
      BY Zenon
    <3>2. Manifests("policy") =
              [ns : Spellings, peers : A]
      BY ZenonT(60), <3>1 DEF Manifests
    <3>3. A \subseteq SUBSET PeerDrafts
      <4>1. Optional(<<"ns">>) \subseteq Plain
        BY Zenon, WordFacts, WordNames, ShortFacts DEF Optional
      <4>2. [selects : {TRUE}, name : Optional(<<"ns">>), confined : {FALSE}] \subseteq PeerDrafts
        BY ZenonT(60), <4>1 DEF PeerDrafts
      <4>. QED  BY Zenon, <3>1, <4>2
    <3>4. [ns : Spellings, peers : A] \subseteq PolicyDrafts
      BY <3>3 DEF PolicyDrafts
    <3>. QED  BY Zenon, <3>2, <3>4
  <2>2. ASSUME NEW o \in PolicyDrafts, NEW e \in Envs
        PROVE  Forward("policy", o, e) \in PoliciesUpstream
    BY <1>2, <1>1 DEF PolicyDrafts, PoliciesUpstream
  <2>3. ASSUME NEW s \in PoliciesUpstream, NEW e \in Envs
        PROVE  Backward("policy", s, e) \in PolicyDrafts
    BY <1>3, <1>1 DEF PolicyDrafts, PoliciesUpstream, Spellings
  <2>4. ASSUME NEW o \in PolicyDrafts, NEW e1 \in Envs, NEW e2 \in Envs,
               NEW f \in Owned["policy"]
        PROVE  Backward("policy", Forward("policy", o, e1), e2)[f] = o[f]
    <3>. PICK u : u = Forward("policy", o, e1)
      OBVIOUS
    <3>1. /\ u \in PoliciesUpstream
          /\ u.peers = PeersUp(o.peers)
      BY <2>2, <1>2
    <3>2. /\ PeersDown(u.peers) = o.peers
      BY SMTT(60), <3>1, NameFacts, <1>1 DEF PolicyDrafts
    <3>3. f \in {"peers"}
      BY DEF Owned
    <3>. PICK b : b = Backward("policy", u, e2)
      OBVIOUS
    <3>4. b.peers = o.peers
      BY <3>1, <3>2, <1>3
    <3>. QED  BY <3>3, <3>4
  <2>. QED  BY Zenon, <2>0, <2>1, <2>2, <2>3, <2>4 DEF Converted, Mapped
\* What is stored of a network policy survives a round of reading and writing.
<1>5. Rewritten("policy", PoliciesUpstream)
  <2>1. SUFFICES ASSUME NEW s \in PoliciesUpstream, NEW e \in Envs, NEW ns \in Spellings
                 PROVE  Forward("policy", Respelled("policy", Backward("policy", s, e), ns), e) = s
    BY DEF Rewritten
  <2>. PICK b : b = Backward("policy", s, e)
    OBVIOUS
  <2>. PICK v : v = Respelled("policy", b, ns)
    OBVIOUS
  <2>2. /\ b \in PolicyDrafts
        /\ b.peers = PeersDown(s.peers)
    BY <1>4, <1>3 DEF Converted, Mapped
  <2>3. /\ v \in PolicyDrafts
        /\ v.peers = PeersDown(s.peers)
    BY SMTT(60), <2>2 DEF PolicyDrafts, Respelled, ClusterScoped
  <2>4. /\ PeersUp(v.peers) = s.peers
    BY <2>3, NameFacts, <1>1 DEF PoliciesUpstream
  <2>5. Forward("policy", v, e) \in
               [ns : {<<Tenant, "ns">>}, peers : {s.peers}]
    BY <2>3, <2>4, <1>2
  <2>. QED  BY <2>5 DEF PoliciesUpstream
<1>. QED  BY Zenon, <1>4, <1>5

----------------------------------------------------------------------------
(***************************************************************************)
(* Objects with owners                                                     *)
(***************************************************************************)

\* An object that has owners as a tenant writes it ...
DependentDrafts ==
    [ns : Spellings, owners : SUBSET OwnerDrafts]

\* ... and as it is stored.
DependentsUpstream ==
    [ns : {<<Tenant, "ns">>}, owners : {OwnersUp(R) : R \in SUBSET OwnerDrafts}]

\* What an object that has owners is converted to and what it is read as.  What
\* is read is what was written, and a round of reading and writing changes
\* nothing.
LEMMA DependentConversion ==
    /\ \A s \in DependentsUpstream, e \in Envs :
           Backward("dependent", s, e) \in
             [ns : {<<"ns">>}, owners : {OwnersDown(s.owners)}]
    /\ Converted("dependent", DependentDrafts, DependentsUpstream)
    /\ Rewritten("dependent", DependentsUpstream)
\* What an object that has owners is sent upstream as.
<1>1. \A o \in DependentDrafts, e \in Envs :
          Forward("dependent", o, e) \in
            [ns : {<<Tenant, "ns">>}, owners : {OwnersUp(o.owners)}]
  <2>. TAKE o \in DependentDrafts, e \in Envs
  <2>1. UpstreamNamespace(o.ns) = <<Tenant, "ns">>
    BY SpellingFacts DEF DependentDrafts
  <2>2. Forward("dependent", o, e) = OwnersForward([o EXCEPT !.ns = UpstreamNamespace(o.ns)])
    BY DEF Forward, DefaultForward, ClusterScoped, DependentDrafts
  <2>. QED  BY ZenonT(60), <2>1, <2>2 DEF OwnersForward, OwnersUp, DependentDrafts
\* What an object that has owners is read as.
<1>2. \A s \in DependentsUpstream, e \in Envs :
          Backward("dependent", s, e) \in
            [ns : {<<"ns">>}, owners : {OwnersDown(s.owners)}]
  <2>. TAKE s \in DependentsUpstream, e \in Envs
  <2>1. TrimTenantIDPrefix(s.ns) = <<"ns">>
    BY SpellingFacts DEF DependentsUpstream
  <2>2. Backward("dependent", s, e) = OwnersBackward([s EXCEPT !.ns = TrimTenantIDPrefix(s.ns)])
    BY DEF Backward, DefaultBackward, ClusterScoped, DependentsUpstream
  <2>. QED  BY ZenonT(60), <2>1, <2>2 DEF OwnersBackward, OwnersDown, DependentsUpstream
\* What is read of an object that has owners is what was written of it.
<1>3. Converted("dependent", DependentDrafts, DependentsUpstream)
  <2>0. ASSUME NEW v \in DependentDrafts, NEW o \in DependentDrafts
        PROVE  Mixed(v, o, Owned["dependent"]) \in DependentDrafts /\ Owned["dependent"] \subseteq DOMAIN v
    <3>1. ASSUME NEW w PROVE Mixed(v, o, w) \in DependentDrafts
      BY SMTT(60) DEF Mixed, DependentDrafts
    <3>2. Owned["dependent"] \subseteq DOMAIN v
      BY DEF Owned, DependentDrafts
    <3>. QED  BY Zenon, <3>1, <3>2
  <2>1. Manifests("dependent") \subseteq DependentDrafts
    <3>1. PICK A : A = SUBSET Owners
      BY Zenon
    <3>2. Manifests("dependent") =
              [ns : Spellings, owners : A]
      BY ZenonT(60), <3>1 DEF Manifests
    <3>3. A \subseteq SUBSET OwnerDrafts
      <4>1. PICK a, g, h : a = <<"a">> /\ g = <<"apps">> /\ h = <<"group">>
        BY Zenon
      <4>2. a \in Given /\ g \in Plain /\ h \in Plain
        BY Zenon, <4>1, WordFacts, WordNames
      <4>3. Owners = {[scope |-> "Namespaced", group |-> g, name |-> a],
                      [scope |-> "Namespaced", group |-> h, name |-> a],
                      [scope |-> "Cluster", group |-> h, name |-> a]}
        BY Zenon, <4>1 DEF Owners
      <4>4. Owners \subseteq OwnerDrafts
        BY <4>2, <4>3 DEF OwnerDrafts
      <4>. QED  BY Zenon, <3>1, <4>4
    <3>4. [ns : Spellings, owners : A] \subseteq DependentDrafts
      BY <3>3 DEF DependentDrafts
    <3>. QED  BY Zenon, <3>2, <3>4
  <2>2. ASSUME NEW o \in DependentDrafts, NEW e \in Envs
        PROVE  Forward("dependent", o, e) \in DependentsUpstream
    BY <1>1 DEF DependentDrafts, DependentsUpstream
  <2>3. ASSUME NEW s \in DependentsUpstream, NEW e \in Envs
        PROVE  Backward("dependent", s, e) \in DependentDrafts
    <3>1. OwnersDown(s.owners) \in SUBSET OwnerDrafts
      <4>1. PICK R \in SUBSET OwnerDrafts : s.owners = OwnersUp(R)
        BY DEF DependentsUpstream
      <4>. QED  BY Zenon, <4>1, OwnerFacts
    <3>. QED  BY <3>1, <1>2 DEF DependentDrafts, Spellings
  <2>4. ASSUME NEW o \in DependentDrafts, NEW e1 \in Envs, NEW e2 \in Envs,
               NEW f \in Owned["dependent"]
        PROVE  Backward("dependent", Forward("dependent", o, e1), e2)[f] = o[f]
    <3>. PICK u : u = Forward("dependent", o, e1)
      OBVIOUS
    <3>1. /\ u \in DependentsUpstream
          /\ u.owners = OwnersUp(o.owners)
      BY SMTT(60), <2>2, <1>1
    <3>2. /\ OwnersDown(u.owners) = o.owners
      BY SMTT(60), <3>1, NameFacts, OwnerFacts DEF DependentDrafts
    <3>3. f \in {"owners"}
      BY DEF Owned
    <3>. PICK b : b = Backward("dependent", u, e2)
      OBVIOUS
    <3>4. b.owners = o.owners
      BY <3>1, <3>2, <1>2
    <3>. QED  BY <3>3, <3>4
  <2>. QED  BY Zenon, <2>0, <2>1, <2>2, <2>3, <2>4 DEF Converted, Mapped
\* What is stored of an object that has owners survives a round of reading and
\* writing.
<1>4. Rewritten("dependent", DependentsUpstream)
  <2>1. SUFFICES ASSUME NEW s \in DependentsUpstream, NEW e \in Envs, NEW ns \in Spellings
                 PROVE  Forward("dependent", Respelled("dependent", Backward("dependent", s, e), ns), e) = s
    BY DEF Rewritten
  <2>. PICK b : b = Backward("dependent", s, e)
    OBVIOUS
  <2>. PICK v : v = Respelled("dependent", b, ns)
    OBVIOUS
  <2>2. /\ b \in DependentDrafts
        /\ b.owners = OwnersDown(s.owners)
    BY <1>3, <1>2 DEF Converted, Mapped
  <2>3. /\ v \in DependentDrafts
        /\ v.owners = OwnersDown(s.owners)
    BY <2>2 DEF DependentDrafts, Respelled, ClusterScoped
  <2>4. /\ OwnersUp(v.owners) = s.owners
    BY <2>3, NameFacts, OwnerFacts DEF DependentsUpstream
  <2>5. Forward("dependent", v, e) \in
               [ns : {<<Tenant, "ns">>}, owners : {s.owners}]
    BY <2>3, <2>4, <1>1
  <2>. QED  BY <2>5 DEF DependentsUpstream
<1>. QED  BY Zenon, <1>2, <1>3, <1>4

\* A name that is not given.
LEMMA EmptyFacts ==
    /\ Empty \in Plain /\ Empty \in Names /\ Empty \in Held
    /\ Prefixed(Empty) = Empty /\ TrimTenantIDPrefix(Empty) = Empty
<1>1. Empty \in Plain /\ Empty \in Names
  BY Zenon, ShortFacts DEF Plain
<1>. QED  BY Zenon, <1>1, NameFacts DEF Held, Prefixed

----------------------------------------------------------------------------
(***************************************************************************)
(* Namespaces                                                              *)
(***************************************************************************)

\* A namespace as a tenant writes it ...
NamespaceDrafts ==
    [name : Spellings, generate : {Empty}, label : {NotGiven, Tenant, "other"},
     level : {NotGiven, "weak", "pinned"}]

\* ... and as it is stored.
NamespacesUpstream ==
    [name : {<<Tenant, "ns">>}, generate : {Empty}, label : {Tenant},
     level : {NotGiven, "weak", "pinned"}]

\* What a namespace is converted to and what it is read as.  What is read is
\* what was written, and a round of reading and writing changes nothing.
LEMMA NamespaceConversion ==
    /\ \A o \in NamespaceDrafts, e \in Envs :
           Forward("namespace", o, e) \in
             [name : {Prefixed(o.name)}, generate : {Empty}, label : {Tenant},
              level : {"pinned"}]
    /\ \A s \in NamespacesUpstream, e \in Envs :
           Backward("namespace", s, e) \in
             [name : {<<"ns">>}, generate : {Empty}, label : {s.label},
              level : {s.level}]
    /\ Converted("namespace", NamespaceDrafts, NamespacesUpstream)
    /\ Idempotent("namespace", NamespaceDrafts)
\* What a namespace is sent upstream as.
<1>1. \A o \in NamespaceDrafts, e \in Envs :
          Forward("namespace", o, e) \in
            [name : {Prefixed(o.name)}, generate : {Empty}, label : {Tenant},
             level : {"pinned"}]
  <2>. TAKE o \in NamespaceDrafts, e \in Envs
  <2>1. Prefixed(o.generate) = Empty
    BY EmptyFacts DEF NamespaceDrafts
  <2>2. Forward("namespace", o, e) =
          NamespaceForward([o EXCEPT !.name = Prefixed(o.name), !.generate = Prefixed(o.generate)])
    BY DEF Forward, DefaultForward, ClusterScoped, NamespaceDrafts
  <2>. QED  BY ZenonT(60), <2>1, <2>2 DEF NamespaceForward, NamespaceDrafts
\* What a namespace is read as.
<1>2. \A s \in NamespacesUpstream, e \in Envs :
          Backward("namespace", s, e) \in
            [name : {<<"ns">>}, generate : {Empty}, label : {s.label},
             level : {s.level}]
  <2>. TAKE s \in NamespacesUpstream, e \in Envs
  <2>1. TrimTenantIDPrefix(s.name) = <<"ns">> /\ TrimTenantIDPrefix(s.generate) = Empty
    BY SpellingFacts, EmptyFacts DEF NamespacesUpstream
  <2>2. Backward("namespace", s, e) =
          [s EXCEPT !.name = TrimTenantIDPrefix(s.name), !.generate = TrimTenantIDPrefix(s.generate)]
    BY DEF Backward, DefaultBackward, ClusterScoped, NamespacesUpstream
  <2>. QED  BY ZenonT(60), <2>1, <2>2 DEF NamespacesUpstream
\* What is read of a namespace is what was written of it.
<1>3. Converted("namespace", NamespaceDrafts, NamespacesUpstream)
  <2>0. ASSUME NEW v \in NamespaceDrafts, NEW o \in NamespaceDrafts
        PROVE  Mixed(v, o, Owned["namespace"]) \in NamespaceDrafts /\ Owned["namespace"] \subseteq DOMAIN v
    <3>1. ASSUME NEW w PROVE Mixed(v, o, w) \in NamespaceDrafts
      BY SMTT(60) DEF Mixed, NamespaceDrafts
    <3>2. Owned["namespace"] \subseteq DOMAIN v
      BY DEF Owned, NamespaceDrafts
    <3>. QED  BY Zenon, <3>1, <3>2
  <2>1. Manifests("namespace") \subseteq NamespaceDrafts
    <3>1. PICK A : A = {NotGiven, "weak"}
      BY Zenon
    <3>2. Manifests("namespace") =
              [name : Spellings, generate : {Empty}, label : {NotGiven, Tenant, "other"},
               level : A]
      BY ZenonT(60), <3>1 DEF Manifests, Spellings
    <3>3. A \subseteq {NotGiven, "weak", "pinned"}
      BY Zenon, <3>1, WordFacts, ShortFacts DEF Optional, ClassOf, Plain, Given
    <3>4. [name : Spellings, generate : {Empty}, label : {NotGiven, Tenant, "other"},
           level : A] \subseteq NamespaceDrafts
      BY <3>3 DEF NamespaceDrafts
    <3>. QED  BY Zenon, <3>2, <3>4
  <2>2. ASSUME NEW o \in NamespaceDrafts, NEW e \in Envs, ~ForwardFails("namespace", o, e)
        PROVE  Forward("namespace", o, e) \in NamespacesUpstream
    <3>1. ~HasPrefix(o.name)
      BY <2>2 DEF ForwardFails, RefuseNamespace
    <3>2. o.name = <<"ns">>
      BY <3>1, SpellingFacts DEF NamespaceDrafts, Spellings
    <3>3. Prefixed(o.name) = <<Tenant, "ns">>
      BY <3>2, NameFacts, SpellingFacts DEF Spellings
    <3>. QED  BY <3>3, <1>1 DEF NamespacesUpstream
  <2>3. ASSUME NEW s \in NamespacesUpstream, NEW e \in Envs
        PROVE  Backward("namespace", s, e) \in NamespaceDrafts
    BY <1>2 DEF NamespaceDrafts, NamespacesUpstream, Spellings
  <2>4. ASSUME NEW o \in NamespaceDrafts, NEW e1 \in Envs, NEW e2 \in Envs, ~ForwardFails("namespace", o, e1),
               NEW f \in Owned["namespace"]
        PROVE  Backward("namespace", Forward("namespace", o, e1), e2)[f] = o[f]
    <3>1. ~HasPrefix(o.name)
      BY <2>4 DEF ForwardFails, RefuseNamespace
    <3>2. o.name = <<"ns">>
      BY SMTT(60), <3>1, SpellingFacts DEF NamespaceDrafts, Spellings
    <3>3. f = "name"
      BY DEF Owned
    <3>. PICK u : u = Forward("namespace", o, e1)
      OBVIOUS
    <3>4. u \in NamespacesUpstream
      BY <2>2, <2>4
    <3>. QED  BY <3>2, <3>3, <3>4, <1>2
  <2>. QED  BY Zenon, <2>0, <2>1, <2>2, <2>3, <2>4 DEF Converted, Mapped
\* A namespace gains or loses nothing at a round of reading and writing.
<1>4. Idempotent("namespace", NamespaceDrafts)
  <2>1. SUFFICES ASSUME NEW o \in NamespaceDrafts, NEW e \in Envs, NEW ns \in Spellings,
                        ~ForwardFails("namespace", o, e)
                 PROVE  Forward("namespace",
                                Respelled("namespace", Backward("namespace", Forward("namespace", o, e), e), ns), e)
                          = Forward("namespace", o, e)
    BY Zenon DEF Idempotent
  <2>. PICK u : u = Forward("namespace", o, e)
    OBVIOUS
  <2>. PICK b : b = Backward("namespace", u, e)
    OBVIOUS
  <2>2. Respelled("namespace", b, ns) = b
    BY DEF Respelled, ClusterScoped
  <2>3. u \in NamespacesUpstream /\ b \in NamespaceDrafts /\ b["name"] = o["name"]
    <3>1. "name" \in Owned["namespace"]
      BY DEF Owned
    <3>. QED  BY ZenonT(60), <2>1, <3>1, <1>3 DEF Converted, Mapped
  <2>4. u \in [name : {Prefixed(o.name)}, generate : {Empty}, label : {Tenant}, level : {"pinned"}]
    BY <1>1
  <2>5. Forward("namespace", b, e) \in
          [name : {Prefixed(o.name)}, generate : {Empty}, label : {Tenant}, level : {"pinned"}]
    BY ZenonT(60), <2>3, <1>1
  <2>. QED  BY <2>2, <2>4, <2>5
<1>. QED  BY Zenon, <1>1, <1>2, <1>3, <1>4

----------------------------------------------------------------------------
(***************************************************************************)
(* Webhook configurations                                                  *)
(***************************************************************************)

\* A webhook configuration as a tenant writes it ...
WebhookDrafts ==
    [name : Names, generate : {Empty}, service : Names, url : BOOLEAN,
     confined : BOOLEAN]

\* ... and as it is stored.
WebhooksUpstream ==
    [name : Held, generate : {Empty}, service : Held, url : {FALSE}, confined : {TRUE}]

\* What a webhook configuration is converted to and what it is read as.  What
\* is read is what was written, and a round of reading and writing changes
\* nothing.
LEMMA WebhookConversion ==
    /\ \A s \in WebhooksUpstream, e \in Envs :
           Backward("webhook", s, e) \in
             [name : {TrimTenantIDPrefix(s.name)}, generate : {Empty},
              service : {TrimTenantIDPrefix(s.service)}, url : {s.url},
              confined : {s.confined}]
    /\ Converted("webhook", WebhookDrafts, WebhooksUpstream)
    /\ Rewritten("webhook", WebhooksUpstream)
\* What a webhook configuration is sent upstream as.
<1>1. \A o \in WebhookDrafts, e \in Envs :
          Forward("webhook", o, e) \in
            [name : {Prefixed(o.name)}, generate : {Empty},
             service : {Prefixed(o.service)}, url : {o.url}, confined : {TRUE}]
  <2>. TAKE o \in WebhookDrafts, e \in Envs
  <2>1. Prefixed(o.generate) = Empty
    BY EmptyFacts DEF WebhookDrafts
  <2>2. Forward("webhook", o, e) =
          WebhookForward([o EXCEPT !.name = Prefixed(o.name), !.generate = Prefixed(o.generate)])
    BY DEF Forward, DefaultForward, ClusterScoped, WebhookDrafts
  <2>. QED  BY ZenonT(60), <2>1, <2>2 DEF WebhookForward, WebhookDrafts
\* What a webhook configuration is read as.
<1>2. \A s \in WebhooksUpstream, e \in Envs :
          Backward("webhook", s, e) \in
            [name : {TrimTenantIDPrefix(s.name)}, generate : {Empty},
             service : {TrimTenantIDPrefix(s.service)}, url : {s.url},
             confined : {s.confined}]
  <2>. TAKE s \in WebhooksUpstream, e \in Envs
  <2>1. TrimTenantIDPrefix(s.generate) = Empty
    BY EmptyFacts DEF WebhooksUpstream
  <2>2. Backward("webhook", s, e) =
          WebhookBackward([s EXCEPT !.name = TrimTenantIDPrefix(s.name), !.generate = TrimTenantIDPrefix(s.generate)])
    BY DEF Backward, DefaultBackward, ClusterScoped, WebhooksUpstream
  <2>. QED  BY ZenonT(60), <2>1, <2>2 DEF WebhookBackward, WebhooksUpstream
\* What is read of a webhook configuration is what was written of it.
<1>3. Converted("webhook", WebhookDrafts, WebhooksUpstream)
  <2>0. ASSUME NEW v \in WebhookDrafts, NEW o \in WebhookDrafts
        PROVE  Mixed(v, o, Owned["webhook"]) \in WebhookDrafts /\ Owned["webhook"] \subseteq DOMAIN v
    <3>1. ASSUME NEW w PROVE Mixed(v, o, w) \in WebhookDrafts
      BY SMTT(60) DEF Mixed, WebhookDrafts
    <3>2. Owned["webhook"] \subseteq DOMAIN v
      BY DEF Owned, WebhookDrafts
    <3>. QED  BY Zenon, <3>1, <3>2
  <2>1. Manifests("webhook") \subseteq WebhookDrafts
    <3>1. PICK A, B, C : /\ A = {<<"hook">>}
                  /\ B = Optional(<<"ns">>)
                  /\ C = {FALSE}
      BY Zenon
    <3>2. Manifests("webhook") =
              [name : A, generate : {Empty}, service : B, url : BOOLEAN, confined : C]
      BY ZenonT(60), <3>1 DEF Manifests
    <3>3. A \subseteq Names /\ B \subseteq Names /\ C \subseteq BOOLEAN
      BY Zenon, <3>1, WordFacts, ShortFacts DEF Optional, ClassOf, Plain, Given
    <3>4. [name : A, generate : {Empty}, service : B, url : BOOLEAN, confined : C] \subseteq WebhookDrafts
      BY <3>3 DEF WebhookDrafts
    <3>. QED  BY Zenon, <3>2, <3>4
  <2>2. ASSUME NEW o \in WebhookDrafts, NEW e \in Envs, ~ForwardFails("webhook", o, e)
        PROVE  Forward("webhook", o, e) \in WebhooksUpstream
    <3>1. o.url = FALSE
      BY <2>2 DEF ForwardFails, WebhookDrafts
    <3>2. Prefixed(o.name) \in Held /\ Prefixed(o.service) \in Held
      BY NameFacts DEF WebhookDrafts
    <3>. QED  BY ZenonT(60), <3>1, <3>2, <1>1 DEF WebhooksUpstream
  <2>3. ASSUME NEW s \in WebhooksUpstream, NEW e \in Envs
        PROVE  Backward("webhook", s, e) \in WebhookDrafts
    <3>1. TrimTenantIDPrefix(s.name) \in Names /\ TrimTenantIDPrefix(s.service) \in Names
      BY NameFacts DEF WebhooksUpstream
    <3>. QED  BY ZenonT(60), <3>1, <1>2 DEF WebhookDrafts, WebhooksUpstream
  <2>4. ASSUME NEW o \in WebhookDrafts, NEW e1 \in Envs, NEW e2 \in Envs, ~ForwardFails("webhook", o, e1),
               NEW f \in Owned["webhook"]
        PROVE  Backward("webhook", Forward("webhook", o, e1), e2)[f] = o[f]
    <3>. PICK u : u = Forward("webhook", o, e1)
      OBVIOUS
    <3>1. /\ u \in WebhooksUpstream
          /\ u.name = Prefixed(o.name)
          /\ u.service = Prefixed(o.service)
          /\ u.url = o.url
      BY ZenonT(60), <2>2, <2>4, <1>1
    <3>2. /\ TrimTenantIDPrefix(u.name) = o.name
          /\ TrimTenantIDPrefix(u.service) = o.service
      BY <3>1, NameFacts DEF WebhookDrafts
    <3>3. f \in {"name", "service", "url"}
      BY DEF Owned
    <3>. PICK b : b = Backward("webhook", u, e2)
      OBVIOUS
    <3>4. b.name = o.name /\ b.service = o.service /\ b.url = o.url
      BY <3>1, <3>2, <1>2
    <3>. QED  BY <3>3, <3>4
  <2>. QED  BY Zenon, <2>0, <2>1, <2>2, <2>3, <2>4 DEF Converted, Mapped
\* What is stored of a webhook configuration survives a round of reading and
\* writing.
<1>4. Rewritten("webhook", WebhooksUpstream)
  <2>1. SUFFICES ASSUME NEW s \in WebhooksUpstream, NEW e \in Envs, NEW ns \in Spellings
                 PROVE  Forward("webhook", Respelled("webhook", Backward("webhook", s, e), ns), e) = s
    BY DEF Rewritten
  <2>. PICK b : b = Backward("webhook", s, e)
    OBVIOUS
  <2>. PICK v : v = Respelled("webhook", b, ns)
    OBVIOUS
  <2>2. /\ b \in WebhookDrafts
        /\ b.name = TrimTenantIDPrefix(s.name)
        /\ b.generate = Empty
        /\ b.service = TrimTenantIDPrefix(s.service)
        /\ b.url = s.url
        /\ b.confined = s.confined
    BY <1>3, <1>2 DEF Converted, Mapped
  <2>3. /\ v \in WebhookDrafts
        /\ v.name = TrimTenantIDPrefix(s.name)
        /\ v.generate = Empty
        /\ v.service = TrimTenantIDPrefix(s.service)
        /\ v.url = s.url
        /\ v.confined = s.confined
    BY <2>2 DEF WebhookDrafts, Respelled, ClusterScoped
  <2>4. /\ Prefixed(v.name) = s.name
        /\ Empty = s.generate
        /\ Prefixed(v.service) = s.service
        /\ TRUE = s.confined
    BY ZenonT(60), <2>3, NameFacts DEF WebhooksUpstream
  <2>5. Forward("webhook", v, e) \in
               [name : {s.name}, generate : {s.generate}, service : {s.service},
                url : {s.url}, confined : {s.confined}]
    BY ZenonT(60), <2>3, <2>4, <1>1
  <2>. QED  BY <2>5 DEF WebhooksUpstream
<1>. QED  BY Zenon, <1>2, <1>3, <1>4

----------------------------------------------------------------------------
(***************************************************************************)
(* Volumes                                                                 *)
(***************************************************************************)

\* A volume as a tenant writes it ...
VolumeDrafts ==
    [name : Names, generate : Names, source : SafeSources \cup UnsafeSources,
     claim : [ns : Plain, name : Names]]

\* ... and as it is stored.
VolumesUpstream ==
    [name : Held, generate : Held, source : SafeSources,
     claim : [ns : GivenUpstream, name : Names \ {Empty}]]

\* What a volume is converted to and what it is read as.  What is read is what
\* was written, and a round of reading and writing changes nothing.
LEMMA VolumeConversion ==
    /\ \A o \in VolumeDrafts : \A e :
           Forward("volume", o, e) \in
             [name : {Prefixed(o.name)}, generate : {Prefixed(o.generate)}, source : {o.source},
              claim : [ns : {Prefixed(o.claim.ns)}, name : {o.claim.name}]]
    /\ \A s \in VolumesUpstream : \A e :
           Backward("volume", s, e) \in
             [name : {TrimTenantIDPrefix(s.name)}, generate : {TrimTenantIDPrefix(s.generate)},
              source : {s.source},
              claim : [ns : {TrimTenantIDPrefix(s.claim.ns)}, name : {s.claim.name}]]
    /\ Converted("volume", VolumeDrafts, VolumesUpstream)
    /\ Rewritten("volume", VolumesUpstream)
\* What a volume is sent upstream as.
<1>1. \A o \in VolumeDrafts : \A e :
          Forward("volume", o, e) \in
            [name : {Prefixed(o.name)}, generate : {Prefixed(o.generate)}, source : {o.source},
             claim : [ns : {Prefixed(o.claim.ns)}, name : {o.claim.name}]]
  <2>. TAKE o \in VolumeDrafts
  <2>. TAKE e
  <2>1. UpstreamNamespace(o.claim.ns) = Prefixed(o.claim.ns)
    BY NameFacts DEF VolumeDrafts
  <2>2. Forward("volume", o, e) =
          VolumeForward([o EXCEPT !.name = Prefixed(o.name), !.generate = Prefixed(o.generate)])
    BY DEF Forward, DefaultForward, ClusterScoped, VolumeDrafts
  <2>. PICK d : d = [o EXCEPT !.name = Prefixed(o.name), !.generate = Prefixed(o.generate)]
    OBVIOUS
  <2>. PICK c : c = [o.claim EXCEPT !.ns = Prefixed(o.claim.ns)]
    BY ZenonT(60)
  <2>3. d \in [name : {Prefixed(o.name)}, generate : {Prefixed(o.generate)}, source : {o.source},
               claim : {o.claim}]
    BY ZenonT(60) DEF VolumeDrafts
  <2>4. c \in [ns : {Prefixed(o.claim.ns)}, name : {o.claim.name}]
    BY DEF VolumeDrafts
  <2>5. VolumeForward(d) = [d EXCEPT !.claim = c]
    BY ZenonT(60), <2>1, <2>3 DEF VolumeForward
  <2>6. [d EXCEPT !.claim = c] \in
          [name : {Prefixed(o.name)}, generate : {Prefixed(o.generate)}, source : {o.source}, claim : {c}]
    BY ZenonT(60), <2>3
  <2>. QED  BY ZenonT(60), <2>2, <2>4, <2>5, <2>6
\* What a volume is read as.
<1>2. \A s \in VolumesUpstream : \A e :
          Backward("volume", s, e) \in
            [name : {TrimTenantIDPrefix(s.name)}, generate : {TrimTenantIDPrefix(s.generate)},
             source : {s.source},
             claim : [ns : {TrimTenantIDPrefix(s.claim.ns)}, name : {s.claim.name}]]
  <2>. TAKE s \in VolumesUpstream
  <2>. TAKE e
  <2>1. Backward("volume", s, e) =
          VolumeBackward([s EXCEPT !.name = TrimTenantIDPrefix(s.name),
                                   !.generate = TrimTenantIDPrefix(s.generate)])
    BY DEF Backward, DefaultBackward, ClusterScoped, VolumesUpstream
  <2>. PICK d : d = [s EXCEPT !.name = TrimTenantIDPrefix(s.name),
                              !.generate = TrimTenantIDPrefix(s.generate)]
    OBVIOUS
  <2>. PICK c : c = [s.claim EXCEPT !.ns = TrimTenantIDPrefix(s.claim.ns)]
    BY ZenonT(60)
  <2>3. d \in [name : {TrimTenantIDPrefix(s.name)}, generate : {TrimTenantIDPrefix(s.generate)},
               source : {s.source}, claim : {s.claim}]
    BY ZenonT(60) DEF VolumesUpstream
  <2>4. c \in [ns : {TrimTenantIDPrefix(s.claim.ns)}, name : {s.claim.name}]
    BY DEF VolumesUpstream
  <2>5. VolumeBackward(d) = [d EXCEPT !.claim = c]
    BY <2>3 DEF VolumeBackward
  <2>6. [d EXCEPT !.claim = c] \in
          [name : {TrimTenantIDPrefix(s.name)}, generate : {TrimTenantIDPrefix(s.generate)},
           source : {s.source}, claim : {c}]
    BY ZenonT(60), <2>3
  <2>. QED  BY ZenonT(60), <2>1, <2>4, <2>5, <2>6
\* What is read of a volume is what was written of it.
<1>3. Converted("volume", VolumeDrafts, VolumesUpstream)
  <2>0. ASSUME NEW v \in VolumeDrafts, NEW o \in VolumeDrafts
        PROVE  Mixed(v, o, Owned["volume"]) \in VolumeDrafts /\ Owned["volume"] \subseteq DOMAIN v
    <3>1. ASSUME NEW w PROVE Mixed(v, o, w) \in VolumeDrafts
      BY SMTT(60) DEF Mixed, VolumeDrafts
    <3>2. Owned["volume"] \subseteq DOMAIN v
      BY DEF Owned, VolumeDrafts
    <3>. QED  BY Zenon, <3>1, <3>2
  <2>1. Manifests("volume") \subseteq VolumeDrafts
    <3>1. PICK A, B, C, D : /\ A = Optional(<<"vol">>) /\ B = Optional(<<"gen">>)
                            /\ C = Optional(<<"ns">>) /\ D = Optional(<<"pvc">>)
      BY Zenon
    <3>2. Manifests("volume") \subseteq
              [name : A, generate : B, source : SafeSources \cup UnsafeSources, claim : [ns : C, name : D]]
      BY <3>1 DEF Manifests
    <3>3. A \subseteq Names /\ B \subseteq Names /\ C \subseteq Plain /\ D \subseteq Names
      BY Zenon, <3>1, WordFacts, WordNames, EmptyFacts DEF Optional
    <3>4. [name : A, generate : B, source : SafeSources \cup UnsafeSources, claim : [ns : C, name : D]]
              \subseteq VolumeDrafts
      BY SMTT(60), <3>3 DEF VolumeDrafts
    <3>. QED  BY Zenon, <3>2, <3>4
  <2>2. ASSUME NEW o \in VolumeDrafts, NEW e \in Envs, ~ForwardFails("volume", o, e)
        PROVE  Forward("volume", o, e) \in VolumesUpstream
    <3>1. o.source \in SafeSources /\ o.claim.ns # Empty /\ o.claim.name # Empty
      BY <2>2 DEF ForwardFails, VolumeDrafts, RefuseUnreservedPV
    <3>2. o.claim.ns \in Given
      BY <3>1 DEF Given, VolumeDrafts
    <3>3. Prefixed(o.claim.ns) \in GivenUpstream
      BY <3>2, GivenFacts
    <3>4. Prefixed(o.name) \in Held /\ Prefixed(o.generate) \in Held
      BY NameFacts DEF VolumeDrafts
    <3>5. o.claim.name \in Names
      BY DEF VolumeDrafts
    <3>. QED  BY SMTT(60), <3>1, <3>3, <3>4, <3>5, <1>1 DEF VolumesUpstream
  <2>3. ASSUME NEW s \in VolumesUpstream, NEW e \in Envs
        PROVE  Backward("volume", s, e) \in VolumeDrafts
    <3>1. TrimTenantIDPrefix(s.name) \in Names /\ TrimTenantIDPrefix(s.generate) \in Names
      BY NameFacts DEF VolumesUpstream
    <3>2. TrimTenantIDPrefix(s.claim.ns) \in Plain
      BY SMTT(60), GivenFacts DEF VolumesUpstream, Given
    <3>. QED  BY <3>1, <3>2, <1>2 DEF VolumeDrafts, VolumesUpstream
  <2>4. ASSUME NEW o \in VolumeDrafts, NEW e1 \in Envs, NEW e2 \in Envs, ~ForwardFails("volume", o, e1),
               NEW f \in Owned["volume"]
        PROVE  Backward("volume", Forward("volume", o, e1), e2)[f] = o[f]
    <3>. PICK u : u = Forward("volume", o, e1)
      OBVIOUS
    <3>1. /\ u \in VolumesUpstream
          /\ u.name = Prefixed(o.name) /\ u.generate = Prefixed(o.generate) /\ u.source = o.source
          /\ u.claim \in [ns : {Prefixed(o.claim.ns)}, name : {o.claim.name}]
      BY SMTT(60), <2>2, <2>4, <1>1
    <3>2. /\ TrimTenantIDPrefix(u.name) = o.name /\ TrimTenantIDPrefix(u.generate) = o.generate
          /\ TrimTenantIDPrefix(u.claim.ns) = o.claim.ns
      BY SMTT(60), <3>1, NameFacts DEF VolumeDrafts
    <3>3. f \in {"name", "generate", "source", "claim"}
      BY DEF Owned
    <3>. PICK b : b = Backward("volume", u, e2)
      BY SMTT(60)
    <3>4. /\ b.name = o.name /\ b.generate = o.generate /\ b.source = o.source
          /\ b.claim \in [ns : {o.claim.ns}, name : {o.claim.name}]
      BY SMTT(60), <3>1, <3>2, <1>2
    <3>5. b.claim = o.claim
      BY <3>4 DEF VolumeDrafts
    <3>. QED  BY <3>3, <3>4, <3>5
  <2>. QED  BY Zenon, <2>0, <2>1, <2>2, <2>3, <2>4 DEF Converted, Mapped
\* What is stored of a volume survives a round of reading and writing.
<1>4. Rewritten("volume", VolumesUpstream)
  <2>1. SUFFICES ASSUME NEW s \in VolumesUpstream, NEW e \in Envs, NEW ns \in Spellings
                 PROVE  Forward("volume", Respelled("volume", Backward("volume", s, e), ns), e) = s
    BY DEF Rewritten
  <2>. PICK v : v = Backward("volume", s, e)
    OBVIOUS
  <2>2. Respelled("volume", v, ns) = v
    BY DEF Respelled, ClusterScoped
  <2>3. /\ v \in VolumeDrafts
        /\ v.name = TrimTenantIDPrefix(s.name) /\ v.generate = TrimTenantIDPrefix(s.generate)
        /\ v.source = s.source
        /\ v.claim \in [ns : {TrimTenantIDPrefix(s.claim.ns)}, name : {s.claim.name}]
    BY SMTT(60), <1>3, <1>2 DEF Converted, Mapped
  <2>4. /\ Prefixed(v.name) = s.name /\ Prefixed(v.generate) = s.generate
        /\ Prefixed(v.claim.ns) = s.claim.ns
    <3>1. s.name \in Held /\ s.generate \in Held /\ s.claim.ns \in Held
      BY SMTT(60) DEF VolumesUpstream, GivenUpstream, HeldOnce
    <3>. QED  BY <2>3, <3>1, NameFacts
  <2>5. Forward("volume", v, e) \in
               [name : {s.name}, generate : {s.generate}, source : {s.source},
                claim : [ns : {s.claim.ns}, name : {s.claim.name}]]
    BY <2>3, <2>4, <1>1
  <2>. QED  BY <2>2, <2>5 DEF VolumesUpstream
<1>. QED  BY Zenon, <1>1, <1>2, <1>3, <1>4

----------------------------------------------------------------------------
(***************************************************************************)
(* Definitions                                                             *)
(***************************************************************************)

\* A CustomResourceDefinition as a tenant writes it ...
CRDDrafts ==
    [plural : {"things"}, group : Given, service : Names, name : Names, url : BOOLEAN]

\* ... and as it is stored.
CRDsUpstream ==
    {s \in [plural : {"things"}, group : GivenUpstream, service : Held, name : Names, url : {FALSE}] :
        s.name = CRDName(s)}

\* The name of a definition.
CRDNamed(p, g) == <<p>> \o g

\* What a CustomResourceDefinition is converted to and what it is read as.
\* What is read is what was written, and a round of reading and writing changes
\* nothing.
LEMMA CRDConversion ==
    /\ \A s \in CRDsUpstream : \A e :
           Backward("crd", s, e) \in
             [plural : {s.plural}, group : {TrimTenantIDPrefix(s.group)},
              service : {TrimTenantIDPrefix(s.service)},
              name : {CRDNamed(s.plural, TrimTenantIDPrefix(s.group))}, url : {s.url}]
    /\ Converted("crd", CRDDrafts, CRDsUpstream)
    /\ Rewritten("crd", CRDsUpstream)
\* The name of a CustomResourceDefinition is a name.
<1>1. \A g \in Names : CRDNamed("things", g) \in Names
  BY Zenon, WordFacts, FrontFacts DEF CRDNamed, Put, Names
\* What a CustomResourceDefinition is sent upstream as.
<1>2. \A o \in CRDDrafts : \A e :
          Forward("crd", o, e) \in
            [plural : {o.plural}, group : {AddTenantIDPrefix(o.group)},
             service : {Prefixed(o.service)},
             name : {CRDNamed(o.plural, AddTenantIDPrefix(o.group))}, url : {o.url}]
  <2>. TAKE o \in CRDDrafts
  <2>. TAKE e
  <2>1. Forward("crd", o, e) = CRDForward(o)
    BY DEF Forward
  <2>2. PICK u : u = [o EXCEPT !.group = AddTenantIDPrefix(o.group), !.service = Prefixed(o.service)]
    BY Zenon
  <2>3. CRDForward(o) = [u EXCEPT !.name = CRDNamed(u.plural, u.group)]
    BY <2>2 DEF CRDForward, CRDName, CRDNamed
  <2>4. u \in [plural : {o.plural}, group : {AddTenantIDPrefix(o.group)},
               service : {Prefixed(o.service)}, name : {o.name}, url : {o.url}]
    BY ZenonT(60), <2>2 DEF CRDDrafts
  <2>. QED  BY <2>1, <2>3, <2>4
\* What a CustomResourceDefinition is read as.
<1>3. \A s \in CRDsUpstream : \A e :
          Backward("crd", s, e) \in
            [plural : {s.plural}, group : {TrimTenantIDPrefix(s.group)},
             service : {TrimTenantIDPrefix(s.service)},
             name : {CRDNamed(s.plural, TrimTenantIDPrefix(s.group))}, url : {s.url}]
  <2>. TAKE s \in CRDsUpstream
  <2>. TAKE e
  <2>1. Backward("crd", s, e) = CRDBackward(s)
    BY DEF Backward
  <2>2. PICK u : u = [s EXCEPT !.group = TrimTenantIDPrefix(s.group), !.service = TrimTenantIDPrefix(s.service)]
    BY Zenon
  <2>3. CRDBackward(s) = [u EXCEPT !.name = CRDNamed(u.plural, u.group)]
    BY <2>2 DEF CRDBackward, CRDName, CRDNamed
  <2>4. u \in [plural : {s.plural}, group : {TrimTenantIDPrefix(s.group)},
               service : {TrimTenantIDPrefix(s.service)}, name : {s.name}, url : {s.url}]
    BY ZenonT(60), <2>2 DEF CRDsUpstream
  <2>. QED  BY <2>1, <2>3, <2>4
\* What is read of a CustomResourceDefinition is what was written of it.
<1>4. Converted("crd", CRDDrafts, CRDsUpstream)
  <2>0. ASSUME NEW v \in CRDDrafts, NEW o \in CRDDrafts
        PROVE  Mixed(v, o, Owned["crd"]) \in CRDDrafts /\ Owned["crd"] \subseteq DOMAIN v
    <3>1. ASSUME NEW w PROVE Mixed(v, o, w) \in CRDDrafts
      BY DEF Mixed, CRDDrafts
    <3>2. Owned["crd"] \subseteq DOMAIN v
      BY DEF Owned, CRDDrafts
    <3>. QED  BY Zenon, <3>1, <3>2
  <2>1. Manifests("crd") \subseteq CRDDrafts
    <3>1. PICK A, B, C : /\ A = {<<"group">>} /\ B = Optional(<<"ns">>)
                         /\ C = {<<"things", "group">>, <<"others", "group">>}
      BY Zenon
    <3>2. Manifests("crd") = [plural : {"things"}, group : A, service : B, name : C, url : BOOLEAN]
      BY ZenonT(60), <3>1 DEF Manifests
    <3>3. A \subseteq Given /\ B \subseteq Names
      BY Zenon, <3>1, WordFacts, WordNames, EmptyFacts DEF Optional
    <3>40. "things" \in Words /\ "others" \in Words /\ "group" \in Words
      BY Zenon, WordFacts
    <3>41. <<"things", "group">> \in Names /\ <<"others", "group">> \in Names
      BY Zenon, <3>40, TwoParts DEF Names
    <3>4. C \subseteq Names
      BY Zenon, <3>1, <3>41
    <3>5. [plural : {"things"}, group : A, service : B, name : C, url : BOOLEAN] \subseteq CRDDrafts
      BY <3>3, <3>4 DEF CRDDrafts
    <3>. QED  BY Zenon, <3>2, <3>5
  <2>2. ASSUME NEW o \in CRDDrafts, NEW e \in Envs, ~ForwardFails("crd", o, e)
        PROVE  Forward("crd", o, e) \in CRDsUpstream
    <3>1. o.url = FALSE
      BY SMTT(60), <2>2 DEF ForwardFails, CRDDrafts
    <3>2. /\ AddTenantIDPrefix(o.group) \in GivenUpstream /\ AddTenantIDPrefix(o.group) \in Names
          /\ Prefixed(o.service) \in Held
      BY NameFacts, GivenFacts DEF CRDDrafts, GivenUpstream, HeldOnce, Held
    <3>3. CRDNamed("things", AddTenantIDPrefix(o.group)) \in Names
      BY Zenon, <3>2, <1>1
    <3>. PICK u : u = Forward("crd", o, e)
      OBVIOUS
    <3>. PICK g, n : g = AddTenantIDPrefix(o.group) /\ n = CRDNamed("things", g)
      BY Zenon
    <3>40. o.plural = "things"
      BY DEF CRDDrafts
    <3>41. u \in [plural : {"things"}, group : {g}, service : {Prefixed(o.service)}, name : {n}, url : {FALSE}]
      BY Zenon, <3>1, <3>40, <1>2
    <3>42. u.name = CRDNamed(u.plural, u.group)
      <4>1. u.name = n /\ u.plural = "things" /\ u.group = g
        BY <3>41
      <4>. QED  BY Zenon, <4>1
    <3>43. g \in GivenUpstream /\ n \in Names
      BY Zenon, <3>2, <3>3
    <3>44. u \in [plural : {"things"}, group : GivenUpstream, service : Held, name : Names, url : {FALSE}]
      BY ZenonT(60), <3>2, <3>41, <3>43
    <3>4. /\ u.name = CRDNamed(u.plural, u.group)
          /\ u \in [plural : {"things"}, group : GivenUpstream, service : Held, name : Names, url : {FALSE}]
      BY Zenon, <3>42, <3>44
    <3>. QED  BY Zenon, <3>4 DEF CRDsUpstream, CRDName, CRDNamed
  <2>3. ASSUME NEW s \in CRDsUpstream, NEW e \in Envs
        PROVE  Backward("crd", s, e) \in CRDDrafts
    <3>1. s.group \in GivenUpstream /\ s.service \in Held /\ s.plural = "things" /\ s.url = FALSE
      BY ZenonT(60) DEF CRDsUpstream
    <3>2. /\ TrimTenantIDPrefix(s.group) \in Given /\ TrimTenantIDPrefix(s.group) \in Names
          /\ TrimTenantIDPrefix(s.service) \in Names
      BY <3>1, NameFacts, GivenFacts
    <3>3. CRDNamed("things", TrimTenantIDPrefix(s.group)) \in Names
      BY ZenonT(60), <3>2, <1>1
    <3>. QED  BY ZenonT(60), <3>1, <3>2, <3>3, <1>3 DEF CRDDrafts
  <2>4. ASSUME NEW o \in CRDDrafts, NEW e1 \in Envs, NEW e2 \in Envs, ~ForwardFails("crd", o, e1),
               NEW f \in Owned["crd"]
        PROVE  Backward("crd", Forward("crd", o, e1), e2)[f] = o[f]
    <3>. PICK u : u = Forward("crd", o, e1)
      OBVIOUS
    <3>1. /\ u \in CRDsUpstream
          /\ u.plural = o.plural /\ u.group = AddTenantIDPrefix(o.group)
          /\ u.service = Prefixed(o.service) /\ u.url = o.url
      BY SMTT(60), <2>2, <2>4, <1>2
    <3>2. TrimTenantIDPrefix(u.group) = o.group /\ TrimTenantIDPrefix(u.service) = o.service
      BY <3>1, NameFacts, GivenFacts DEF CRDDrafts
    <3>3. CRDNamed(o.plural, o.group) = o.name
      BY ZenonT(60), <2>4 DEF ForwardFails, CRDName, CRDNamed
    <3>4. f \in {"name", "plural", "group", "service", "url"}
      BY DEF Owned
    <3>. PICK b : b = Backward("crd", u, e2)
      BY SMTT(60)
    <3>5. /\ b.name = o.name /\ b.plural = o.plural /\ b.group = o.group /\ b.service = o.service
          /\ b.url = o.url
      BY SMTT(60), <3>1, <3>2, <3>3, <1>3
    <3>. QED  BY SMTT(60), <3>4, <3>5
  <2>. QED  BY Zenon, <2>0, <2>1, <2>2, <2>3, <2>4 DEF Converted, Mapped
\* What is stored of a CustomResourceDefinition survives a round of reading and
\* writing.
<1>5. Rewritten("crd", CRDsUpstream)
  <2>1. SUFFICES ASSUME NEW s \in CRDsUpstream, NEW e \in Envs, NEW ns \in Spellings
                 PROVE  Forward("crd", Respelled("crd", Backward("crd", s, e), ns), e) = s
    BY DEF Rewritten
  <2>. PICK v : v = Backward("crd", s, e)
    OBVIOUS
  <2>2. Respelled("crd", v, ns) = v
    BY SMTT(60) DEF Respelled, ClusterScoped
  <2>3. /\ v \in CRDDrafts
        /\ v.plural = s.plural /\ v.group = TrimTenantIDPrefix(s.group)
        /\ v.service = TrimTenantIDPrefix(s.service) /\ v.url = s.url
    BY <1>4, <1>3 DEF Converted, Mapped
  <2>4. s.group \in GivenUpstream /\ s.service \in Held /\ CRDNamed(s.plural, s.group) = s.name
    BY SMTT(60) DEF CRDsUpstream, CRDName, CRDNamed
  <2>5. AddTenantIDPrefix(v.group) = s.group /\ Prefixed(v.service) = s.service
    BY SMTT(60), <2>3, <2>4, NameFacts, GivenFacts
  <2>6. Forward("crd", v, e) \in
               [plural : {s.plural}, group : {s.group}, service : {s.service}, name : {s.name}, url : {s.url}]
    BY <2>3, <2>4, <2>5, <1>2
  <2>. QED  BY <2>2, <2>6 DEF CRDsUpstream
<1>. QED  BY Zenon, <1>3, <1>4, <1>5

----------------------------------------------------------------------------
(***************************************************************************)
(* Events                                                                  *)
(***************************************************************************)

\* The references of an event, as they are converted.
OwnGroup == <<"group">>

OwnGroupUpstream == <<Tenant, "group">>

RefRecords(N, M) ==
    [scope : {"Namespaced", "Cluster", "none"}, group : {Empty, OwnGroup, OwnGroupUpstream},
     ns : N, name : M]

RefScoped(r) ==
    (r.scope = "Namespaced" => r.ns # Empty) /\ (r.scope = "Cluster" => r.ns = Empty)

RefDrafts == {r \in RefRecords(Plain, Given) : RefScoped(r)}

RefsUpstream ==
    {a \in RefRecords(HeldOnce, Names) :
        /\ RefScoped(a)
        /\ a.ns # Empty => a.name \in Given
        /\ a.ns = Empty => a.name \in GivenUpstream \/ a = Node}

RefGroupUp(c, g, e) ==
    IF c # "none" /\ g = OwnGroup /\ OwnGroupUpstream \in e.groups THEN OwnGroupUpstream ELSE g

RefGroupDown(c, g, e) ==
    IF c # "none" /\ g = OwnGroupUpstream /\ OwnGroupUpstream \in e.groups THEN OwnGroup ELSE g

RefGroupPlain(g) == IF g = OwnGroupUpstream THEN OwnGroup ELSE g

RefNameUp(r) == IF r.ns = Empty THEN Prefixed(r.name) ELSE r.name

\* A reference in the terms of the tenant, whatever is known of its group: of
\* one that the tenant wrote, and of one upstream.
RefPlain(r) == [r EXCEPT !.group = RefGroupPlain(r.group)]

RefView(a) ==
    [a EXCEPT !.group = RefGroupPlain(a.group), !.ns = TrimTenantIDPrefix(a.ns),
              !.name = TrimTenantIDPrefix(a.name)]

\* The group of the tenant's definitions is not native in either form.
LEMMA OwnGroupFacts ==
    /\ OwnGroup \in Given /\ OwnGroupUpstream = AddTenantIDPrefix(OwnGroup)
    /\ OwnGroupUpstream \in GivenUpstream /\ TrimTenantIDPrefix(OwnGroupUpstream) = OwnGroup
    /\ HasPrefix(OwnGroupUpstream)
    /\ OwnGroup \notin NativeGroups /\ OwnGroupUpstream \notin NativeGroups /\ Empty \in NativeGroups
    /\ OwnGroup # OwnGroupUpstream /\ OwnGroup # Empty /\ OwnGroupUpstream # Empty
    /\ AddTenantIDPrefix(OwnGroupUpstream) \notin NativeGroups \cup {OwnGroupUpstream}
    /\ \A e \in Envs : e.groups \subseteq {OwnGroupUpstream}
<1>1. OwnGroup \in Given /\ OwnGroupUpstream = AddTenantIDPrefix(OwnGroup)
  <2>1. "group" \in Words
    BY Zenon, WordFacts
  <2>. QED  BY Zenon, <2>1, ShortFacts, WordNames DEF OwnGroup, OwnGroupUpstream
<1>2. /\ OwnGroupUpstream \in GivenUpstream /\ TrimTenantIDPrefix(OwnGroupUpstream) = OwnGroup
      /\ HasPrefix(OwnGroupUpstream) /\ ~HasPrefix(OwnGroup)
      /\ OwnGroup # Empty /\ OwnGroupUpstream # Empty
  BY Zenon, <1>1, GivenFacts
<1>3. OwnGroup \notin NativeGroups /\ Empty \in NativeGroups
  BY DEF OwnGroup, NativeGroups, Empty
<1>4. \A g \in NativeGroups : ~HasPrefix(g)
  BY Zenon, OwnerGroupFacts DEF Plain
<1>5. OwnGroupUpstream \in Names
  BY Zenon, <1>2 DEF GivenUpstream, HeldOnce, Held
<1>6. /\ HasPrefix(AddTenantIDPrefix(OwnGroupUpstream))
      /\ TrimTenantIDPrefix(AddTenantIDPrefix(OwnGroupUpstream)) = OwnGroupUpstream
  BY Zenon, <1>2, <1>5, PrefixFacts
<1>7. AddTenantIDPrefix(OwnGroupUpstream) # OwnGroupUpstream
  BY Zenon, <1>2, <1>6
<1>8. \A e \in Envs : e.groups \subseteq {OwnGroupUpstream}
  BY DEF Envs, OwnGroupUpstream
<1>. QED  BY ZenonT(60), <1>1, <1>2, <1>3, <1>4, <1>6, <1>7, <1>8

\* References stay in their sets, and are read in the terms of the tenant when
\* the group of their kind is known.
LEMMA RefFacts ==
    \A e \in Envs :
        /\ \A r \in RefDrafts :
             /\ ReferenceForward(r, e) \in RefsUpstream
             /\ RefView(ReferenceForward(r, e)) = RefPlain(r)
             /\ ReferenceForward(ReferenceBackward(ReferenceForward(r, e), e), e)
                  = ReferenceForward(r, e)
        /\ \A a \in RefsUpstream :
             /\ ReferenceBackward(a, e) \in RefDrafts
             /\ RefPlain(ReferenceBackward(a, e)) = RefView(a)
             /\ (HasPrefix(a.group) => Known(a, e)) => ReferenceBackward(a, e) = RefView(a)
\* What becomes of a reference on its way upstream.
<1>RefUp. \A r \in RefDrafts, e \in Envs :
              ReferenceForward(r, e) \in
                [scope : {r.scope}, group : {RefGroupUp(r.scope, r.group, e)}, ns : {Prefixed(r.ns)},
                 name : {RefNameUp(r)}]
  <2>. TAKE r \in RefDrafts, e \in Envs
  <2>. PICK g1, g2, gg : g1 = OwnGroup /\ g2 = OwnGroupUpstream /\ gg = AddTenantIDPrefix(OwnGroupUpstream)
    BY Zenon
  <2>0. /\ r.scope \in {"Namespaced", "Cluster", "none"} /\ r.group \in {Empty, g1, g2}
        /\ r.ns \in Plain /\ r.name \in Given /\ RefScoped(r)
    BY DEF RefDrafts, RefRecords
  <2>1. UpstreamNamespace(r.ns) = Prefixed(r.ns) /\ Prefixed(Empty) = Empty
    BY Zenon, <2>0, NameFacts, EmptyFacts
  <2>. PICK w : w = OwnerForward(r)
    OBVIOUS
  <2>2. w \in [scope : {r.scope}, group : {OwnerGroupUp(r.group)}, ns : {r.ns},
               name : {IF r.scope = "Cluster" THEN Prefixed(r.name) ELSE r.name}]
    BY ZenonT(60) DEF OwnerForward, OwnerGroupUp, RefDrafts, RefRecords
  <2>3. Known(w, e) <=> r.scope # "none" /\ OwnerGroupUp(r.group) \in NativeGroups \cup e.groups
    BY <2>2 DEF Known
  <2>4. Known(w, e) => OwnerGroupUp(r.group) = RefGroupUp(r.scope, r.group, e)
    BY Zenon, <2>0, <2>3, OwnGroupFacts DEF OwnerGroupUp, RefGroupUp
  <2>5. ~Known(w, e) => r.group = RefGroupUp(r.scope, r.group, e)
    BY Zenon, <2>0, <2>3, OwnGroupFacts DEF OwnerGroupUp, RefGroupUp
  <2>6. CASE Known(w, e)
    <3>1. ReferenceForward(r, e) =
              [w EXCEPT !.ns = IF r.scope = "Namespaced" THEN UpstreamNamespace(r.ns) ELSE r.ns]
      BY SMTT(60), <2>2, <2>6 DEF ReferenceForward
    <3>2. (IF r.scope = "Namespaced" THEN UpstreamNamespace(r.ns) ELSE r.ns) = Prefixed(r.ns)
      BY SMTT(60), <2>0, <2>1, <2>3, <2>6 DEF RefScoped
    <3>3. (IF r.scope = "Cluster" THEN Prefixed(r.name) ELSE r.name) = RefNameUp(r)
      BY <2>0, <2>3, <2>6 DEF RefScoped, RefNameUp
    <3>4. ReferenceForward(r, e) = [w EXCEPT !.ns = Prefixed(r.ns)]
      BY Zenon, <3>1, <3>2
    <3>5. w \in [scope : {r.scope}, group : {RefGroupUp(r.scope, r.group, e)}, ns : {r.ns},
                 name : {RefNameUp(r)}]
      BY Zenon, <2>2, <2>4, <2>6, <3>3
    <3>. QED  BY <3>4, <3>5
  <2>7. CASE ~Known(w, e) /\ r.ns # Empty
    <3>1. ReferenceForward(r, e) = [r EXCEPT !.ns = Prefixed(r.ns)]
      BY <2>1, <2>7 DEF ReferenceForward
    <3>2. RefNameUp(r) = r.name
      BY <2>7 DEF RefNameUp
    <3>. QED  BY <2>5, <2>7, <3>1, <3>2 DEF RefDrafts, RefRecords
  <2>8. CASE ~Known(w, e) /\ r.ns = Empty
    <3>1. ReferenceForward(r, e) = [r EXCEPT !.name = Prefixed(r.name)]
      BY SMTT(60), <2>8 DEF ReferenceForward
    <3>2. RefNameUp(r) = Prefixed(r.name) /\ Prefixed(r.ns) = r.ns
      BY <2>1, <2>8 DEF RefNameUp
    <3>. QED  BY <2>5, <2>8, <3>1, <3>2 DEF RefDrafts, RefRecords
  <2>. QED  BY Zenon, <2>6, <2>7, <2>8
\* What becomes of a reference on its way to the tenant.
<1>RefDown. \A a \in RefsUpstream, e \in Envs :
                ReferenceBackward(a, e) \in
                  [scope : {a.scope}, group : {RefGroupDown(a.scope, a.group, e)},
                   ns : {TrimTenantIDPrefix(a.ns)}, name : {TrimTenantIDPrefix(a.name)}]
  <2>. TAKE a \in RefsUpstream, e \in Envs
  <2>. PICK g1, g2 : g1 = OwnGroup /\ g2 = OwnGroupUpstream
    BY Zenon
  <2>0. /\ a.scope \in {"Namespaced", "Cluster", "none"} /\ a.group \in {Empty, g1, g2}
        /\ a.ns \in HeldOnce /\ a.name \in Names /\ RefScoped(a) /\ (a.ns # Empty => a.name \in Given)
    BY DEF RefsUpstream, RefRecords
  <2>1. TrimTenantIDPrefix(Empty) = Empty /\ (a.ns # Empty => TrimTenantIDPrefix(a.name) = a.name)
    BY ZenonT(60), <2>0, NameFacts, EmptyFacts, GivenFacts
  <2>. PICK w : w = OwnerBackward(a)
    OBVIOUS
  <2>2. w \in [scope : {a.scope}, group : {OwnerGroupDown(a.group)}, ns : {a.ns},
               name : {IF a.scope = "Cluster" THEN TrimTenantIDPrefix(a.name) ELSE a.name}]
    BY ZenonT(60) DEF OwnerBackward, OwnerGroupDown, RefsUpstream, RefRecords
  <2>3. Known(a, e) <=> a.scope # "none" /\ a.group \in NativeGroups \cup e.groups
    BY DEF Known
  <2>4. Known(a, e) => OwnerGroupDown(a.group) = RefGroupDown(a.scope, a.group, e)
    BY Zenon, <2>0, <2>3, OwnGroupFacts DEF OwnerGroupDown, RefGroupDown
  <2>5. ~Known(a, e) => a.group = RefGroupDown(a.scope, a.group, e)
    BY Zenon, <2>0, <2>3, OwnGroupFacts DEF OwnerGroupDown, RefGroupDown
  <2>6. CASE Known(a, e)
    <3>1. ReferenceBackward(a, e) =
              [w EXCEPT !.ns = IF a.scope = "Namespaced" THEN TrimTenantIDPrefix(a.ns) ELSE a.ns]
      BY SMTT(60), <2>2, <2>6 DEF ReferenceBackward
    <3>2. (IF a.scope = "Namespaced" THEN TrimTenantIDPrefix(a.ns) ELSE a.ns) = TrimTenantIDPrefix(a.ns)
      BY SMTT(60), <2>0, <2>1, <2>3, <2>6 DEF RefScoped
    <3>3. (IF a.scope = "Cluster" THEN TrimTenantIDPrefix(a.name) ELSE a.name) = TrimTenantIDPrefix(a.name)
      BY <2>0, <2>1, <2>3, <2>6 DEF RefScoped
    <3>4. ReferenceBackward(a, e) = [w EXCEPT !.ns = TrimTenantIDPrefix(a.ns)]
      BY Zenon, <3>1, <3>2
    <3>5. w \in [scope : {a.scope}, group : {RefGroupDown(a.scope, a.group, e)}, ns : {a.ns},
                 name : {TrimTenantIDPrefix(a.name)}]
      BY Zenon, <2>2, <2>4, <2>6, <3>3
    <3>. QED  BY <3>4, <3>5
  <2>7. CASE ~Known(a, e) /\ a.ns # Empty
    <3>1. ReferenceBackward(a, e) = [a EXCEPT !.ns = TrimTenantIDPrefix(a.ns)]
      BY <2>7 DEF ReferenceBackward
    <3>. QED  BY <2>1, <2>5, <2>7, <3>1 DEF RefsUpstream, RefRecords
  <2>8. CASE ~Known(a, e) /\ a.ns = Empty
    <3>1. ReferenceBackward(a, e) = [a EXCEPT !.name = TrimTenantIDPrefix(a.name)]
      BY <2>8 DEF ReferenceBackward
    <3>2. TrimTenantIDPrefix(a.ns) = a.ns
      BY <2>1, <2>8
    <3>. QED  BY <2>5, <2>8, <3>1, <3>2 DEF RefsUpstream, RefRecords
  <2>. QED  BY Zenon, <2>6, <2>7, <2>8
<1>. TAKE e \in Envs
<1>. PICK g1, g2 : g1 = OwnGroup /\ g2 = OwnGroupUpstream
  BY Zenon
<1>1. ASSUME NEW r \in RefDrafts
      PROVE  /\ ReferenceForward(r, e) \in RefsUpstream
             /\ RefView(ReferenceForward(r, e)) = RefPlain(r)
  <2>. PICK u : u = ReferenceForward(r, e)
    OBVIOUS
  <2>1. /\ r \in [scope : {"Namespaced", "Cluster", "none"}, group : {Empty, g1, g2}, ns : Plain, name : Given]
        /\ RefScoped(r)
    BY DEF RefDrafts, RefRecords
  <2>2. u \in [scope : {r.scope}, group : {RefGroupUp(r.scope, r.group, e)}, ns : {Prefixed(r.ns)},
               name : {RefNameUp(r)}]
    BY <1>RefUp
  <2>30. r.group \in {Empty, g1, g2} /\ r.ns \in Plain /\ r.name \in Given
    BY <2>1
  <2>3. /\ RefGroupUp(r.scope, r.group, e) \in {Empty, g1, g2}
        /\ RefGroupPlain(RefGroupUp(r.scope, r.group, e)) = RefGroupPlain(r.group)
    BY Zenon, <2>30, OwnGroupFacts DEF RefGroupUp, RefGroupPlain
  <2>4. /\ Prefixed(r.ns) \in HeldOnce /\ TrimTenantIDPrefix(Prefixed(r.ns)) = r.ns
        /\ Prefixed(r.ns) = Empty <=> r.ns = Empty
    BY ZenonT(60), <2>30, NameFacts, EmptyFacts
  <2>5. /\ RefNameUp(r) \in Names /\ TrimTenantIDPrefix(RefNameUp(r)) = r.name
        /\ r.ns # Empty => RefNameUp(r) \in Given
        /\ r.ns = Empty => RefNameUp(r) \in GivenUpstream
    <3>1. /\ r.name \in Names /\ TrimTenantIDPrefix(r.name) = r.name
          /\ Prefixed(r.name) \in GivenUpstream /\ TrimTenantIDPrefix(Prefixed(r.name)) = r.name
      <4>1. /\ r.name \in Plain /\ Prefixed(r.name) = AddTenantIDPrefix(r.name)
            /\ AddTenantIDPrefix(r.name) \in GivenUpstream
            /\ TrimTenantIDPrefix(AddTenantIDPrefix(r.name)) = r.name
        BY Zenon, <2>30, GivenFacts
      <4>2. r.name \in Names /\ TrimTenantIDPrefix(r.name) = r.name
        BY Zenon, <4>1, NameFacts
      <4>. QED  BY Zenon, <4>1, <4>2
    <3>2. Prefixed(r.name) \in Names
      BY ZenonT(60), <3>1 DEF GivenUpstream, HeldOnce, Held
    <3>. QED  BY Zenon, <2>30, <3>1, <3>2 DEF RefNameUp
  <2>6. u \in RefRecords(HeldOnce, Names)
    BY SMTT(60), <2>1, <2>2, <2>3, <2>4, <2>5 DEF RefRecords
  <2>7. u \in RefsUpstream
    <3>1. u.scope = r.scope /\ u.ns = Prefixed(r.ns) /\ u.name = RefNameUp(r)
      BY <2>2
    <3>. QED  BY ZenonT(60), <2>1, <2>4, <2>5, <2>6, <3>1 DEF RefsUpstream, RefScoped
  <2>8. RefView(u) \in [scope : {r.scope}, group : {RefGroupPlain(r.group)}, ns : {r.ns}, name : {r.name}]
    BY ZenonT(60), <2>2, <2>3, <2>4, <2>5 DEF RefView
  <2>9. RefPlain(r) \in [scope : {r.scope}, group : {RefGroupPlain(r.group)}, ns : {r.ns}, name : {r.name}]
    BY <2>1 DEF RefPlain
  <2>10. RefView(u) = RefPlain(r)
    BY <2>8, <2>9
  <2>. QED  BY Zenon, <2>7, <2>10
<1>2. ASSUME NEW a \in RefsUpstream
      PROVE  /\ ReferenceBackward(a, e) \in RefDrafts
             /\ RefPlain(ReferenceBackward(a, e)) = RefView(a)
             /\ (HasPrefix(a.group) => Known(a, e)) => ReferenceBackward(a, e) = RefView(a)
  <2>. PICK v : v = ReferenceBackward(a, e)
    OBVIOUS
  <2>1. /\ a \in [scope : {"Namespaced", "Cluster", "none"}, group : {Empty, g1, g2}, ns : HeldOnce, name : Names]
        /\ RefScoped(a) /\ (a.ns # Empty => a.name \in Given)
        /\ (a.ns = Empty => a.name \in GivenUpstream \/ a = Node)
    BY DEF RefsUpstream, RefRecords
  <2>2. v \in [scope : {a.scope}, group : {RefGroupDown(a.scope, a.group, e)},
               ns : {TrimTenantIDPrefix(a.ns)}, name : {TrimTenantIDPrefix(a.name)}]
    BY SMTT(60), <1>RefDown
  <2>30. a.group \in {Empty, g1, g2} /\ a.ns \in HeldOnce /\ a.name \in Names
    BY <2>1
  <2>3. /\ RefGroupDown(a.scope, a.group, e) \in {Empty, g1, g2}
        /\ RefGroupPlain(RefGroupDown(a.scope, a.group, e)) = RefGroupPlain(a.group)
    BY Zenon, <2>30, OwnGroupFacts DEF RefGroupDown, RefGroupPlain
  <2>4. TrimTenantIDPrefix(a.ns) \in Plain /\ (TrimTenantIDPrefix(a.ns) = Empty <=> a.ns = Empty)
    <3>1. a.ns # Empty => a.ns \in GivenUpstream
      BY Zenon, <2>30 DEF GivenUpstream
    <3>2. a.ns # Empty => TrimTenantIDPrefix(a.ns) \in Given /\ TrimTenantIDPrefix(a.ns) # Empty
      BY Zenon, <3>1, GivenFacts
    <3>3. a.ns = Empty => TrimTenantIDPrefix(a.ns) = Empty
      BY Zenon, EmptyFacts
    <3>. QED  BY ZenonT(60), <2>30, <3>2, <3>3, NameFacts
  <2>5. TrimTenantIDPrefix(a.name) \in Given
    <3>1. a = Node => a.name \in Given
      <4>1. "node" \in Words
        BY Zenon, WordFacts
      <4>2. <<"node">> \in Given
        BY ZenonT(60), <4>1, WordNames
      <4>3. Node.name = <<"node">>
        BY SMTT(60) DEF Node
      <4>. QED  BY Zenon, <4>2, <4>3
    <3>. QED  BY Zenon, <2>1, <3>1, NameFacts, GivenFacts
  <2>6. v \in RefRecords(Plain, Given)
    BY <2>1, <2>2, <2>3, <2>4, <2>5 DEF RefRecords
  <2>7. v \in RefDrafts
    <3>1. v.scope = a.scope /\ v.ns = TrimTenantIDPrefix(a.ns)
      BY <2>2
    <3>. QED  BY ZenonT(60), <2>1, <2>4, <2>6, <3>1 DEF RefDrafts, RefScoped
  <2>8. RefView(a) \in [scope : {a.scope}, group : {RefGroupPlain(a.group)},
                        ns : {TrimTenantIDPrefix(a.ns)}, name : {TrimTenantIDPrefix(a.name)}]
    BY ZenonT(60), <2>1 DEF RefView
  <2>9. RefPlain(v) \in [scope : {a.scope}, group : {RefGroupPlain(a.group)},
                        ns : {TrimTenantIDPrefix(a.ns)}, name : {TrimTenantIDPrefix(a.name)}]
    BY <2>2, <2>3 DEF RefPlain
  <2>10. RefPlain(v) = RefView(a)
    BY <2>8, <2>9
  <2>11. ASSUME HasPrefix(a.group) => Known(a, e) PROVE v = RefView(a)
    <3>1. RefGroupDown(a.scope, a.group, e) = RefGroupPlain(a.group)
      BY ZenonT(60), <2>11, <2>30, OwnGroupFacts DEF RefGroupDown, RefGroupPlain, Known
    <3>. QED  BY <2>2, <2>8, <3>1
  <2>. QED  BY Zenon, <2>7, <2>10, <2>11
<1>3. ASSUME NEW r \in RefDrafts
      PROVE  ReferenceForward(ReferenceBackward(ReferenceForward(r, e), e), e) = ReferenceForward(r, e)
  <2>. PICK u : u = ReferenceForward(r, e)
    OBVIOUS
  <2>1. u \in RefsUpstream
    BY Zenon, <1>1
  <2>. PICK v : v = ReferenceBackward(u, e)
    OBVIOUS
  <2>2. v \in RefDrafts
    BY ZenonT(60), <1>2, <2>1
  <2>3. u \in [scope : {r.scope}, group : {RefGroupUp(r.scope, r.group, e)}, ns : {Prefixed(r.ns)},
               name : {RefNameUp(r)}]
    BY SMTT(60), <1>RefUp
  <2>4. v \in [scope : {u.scope}, group : {RefGroupDown(u.scope, u.group, e)},
               ns : {TrimTenantIDPrefix(u.ns)}, name : {TrimTenantIDPrefix(u.name)}]
    BY SMTT(60), <2>1, <1>RefDown
  <2>5. ReferenceForward(v, e) \in
            [scope : {v.scope}, group : {RefGroupUp(v.scope, v.group, e)}, ns : {Prefixed(v.ns)},
             name : {RefNameUp(v)}]
    BY <2>2, <1>RefUp
  <2>6. r.group \in {Empty, g1, g2} /\ r.ns \in Plain /\ r.name \in Given
    BY DEF RefDrafts, RefRecords
  <2>7. v.scope = r.scope /\ u.scope = r.scope
    BY <2>3, <2>4
  <2>8. u.group = RefGroupUp(r.scope, r.group, e) /\ v.group = RefGroupDown(u.scope, u.group, e)
    BY <2>3, <2>4
  <2>9. RefGroupUp(v.scope, v.group, e) = u.group
    BY ZenonT(60), <2>6, <2>7, <2>8, OwnGroupFacts DEF RefGroupUp, RefGroupDown
  <2>10. u.ns = Prefixed(r.ns) /\ v.ns = TrimTenantIDPrefix(u.ns)
    BY <2>3, <2>4
  <2>11. v.ns = r.ns
    BY ZenonT(60), <2>6, <2>10, NameFacts
  <2>12. u.name = RefNameUp(r) /\ v.name = TrimTenantIDPrefix(u.name)
    BY <2>3, <2>4
  <2>13. v.name = r.name
    BY Zenon, <2>6, <2>12, NameFacts, GivenFacts DEF RefNameUp
  <2>14. RefNameUp(v) = u.name /\ Prefixed(v.ns) = u.ns
    BY ZenonT(60), <2>10, <2>11, <2>12, <2>13 DEF RefNameUp
  <2>. QED  BY SMTT(60), <2>3, <2>5, <2>7, <2>9, <2>14
<1>. QED  BY Zenon, <1>1, <1>2, <1>3

\* An event as a tenant writes it ...
EventDrafts == [ns : Spellings, about : RefDrafts, message : {{"ns"}}]

\* ... and as it is stored.
EventsUpstream ==
    [ns : {<<Tenant, "ns">>}, about : RefsUpstream, message : {{"ns"}, {Tenant, "ns"}}]

\* What an event is converted to and what it is read as.  What is read is what
\* was written, and a round of reading and writing changes nothing.
LEMMA EventConversion ==
    /\ \A o \in EventDrafts, e \in Envs :
           Forward("event", o, e) \in
             [ns : {<<Tenant, "ns">>}, about : {ReferenceForward(o.about, e)}, message : {o.message}]
    /\ \A s \in EventsUpstream, e \in Envs :
           Backward("event", s, e) \in
             [ns : {<<"ns">>}, about : {ReferenceBackward(s.about, e)}, message : {{"ns"}}]
    /\ Mapped("event", EventDrafts, EventsUpstream)
    /\ Idempotent("event", EventDrafts)
\* An event on its way upstream.
<1>1. \A o \in EventDrafts, e \in Envs :
          Forward("event", o, e) \in
            [ns : {<<Tenant, "ns">>}, about : {ReferenceForward(o.about, e)}, message : {o.message}]
  <2>. TAKE o \in EventDrafts, e \in Envs
  <2>1. UpstreamNamespace(o.ns) = <<Tenant, "ns">>
    BY SpellingFacts DEF EventDrafts
  <2>2. Forward("event", o, e) = EventForward([o EXCEPT !.ns = UpstreamNamespace(o.ns)], e)
    BY DEF Forward, DefaultForward, ClusterScoped, EventDrafts
  <2>. PICK d : d = [o EXCEPT !.ns = UpstreamNamespace(o.ns)]
    BY ZenonT(60)
  <2>3. d \in [ns : {<<Tenant, "ns">>}, about : {o.about}, message : {o.message}]
    BY <2>1 DEF EventDrafts
  <2>4. EventForward(d, e) = [d EXCEPT !.about = ReferenceForward(o.about, e)]
    BY <2>3 DEF EventForward
  <2>. QED  BY ZenonT(60), <2>2, <2>3, <2>4
\* An event on its way to the tenant: its message is freed of the prefix.
<1>2. \A s \in EventsUpstream, e \in Envs :
          Backward("event", s, e) \in
            [ns : {<<"ns">>}, about : {ReferenceBackward(s.about, e)}, message : {{"ns"}}]
  <2>. TAKE s \in EventsUpstream, e \in Envs
  <2>1. TrimTenantIDPrefix(s.ns) = <<"ns">>
    BY SpellingFacts DEF EventsUpstream
  <2>2. Backward("event", s, e) = EventBackward([s EXCEPT !.ns = TrimTenantIDPrefix(s.ns)], e)
    BY DEF Backward, DefaultBackward, ClusterScoped, EventsUpstream
  <2>. PICK d : d = [s EXCEPT !.ns = TrimTenantIDPrefix(s.ns)]
    BY ZenonT(60)
  <2>3. d \in [ns : {<<"ns">>}, about : {s.about}, message : {s.message}]
    BY <2>1 DEF EventsUpstream
  <2>4. s.message \ {Tenant} = {"ns"}
    <3>1. s.message = {"ns"} \/ s.message = {Tenant, "ns"}
      BY DEF EventsUpstream
    <3>. QED  BY Zenon, <3>1, ObjectsAssumption
  <2>5. EventBackward(d, e) =
          [d EXCEPT !.about = ReferenceBackward(s.about, e), !.message = s.message \ {Tenant}]
    BY <2>3 DEF EventBackward
  <2>. QED  BY ZenonT(60), <2>2, <2>3, <2>4, <2>5
\* An event is converted to what is stored for it.
<1>3. Mapped("event", EventDrafts, EventsUpstream)
  <2>0. ASSUME NEW v \in EventDrafts, NEW o \in EventDrafts
        PROVE  Mixed(v, o, Owned["event"]) \in EventDrafts /\ Owned["event"] \subseteq DOMAIN v
    <3>1. ASSUME NEW w PROVE Mixed(v, o, w) \in EventDrafts
      BY SMTT(60) DEF Mixed, EventDrafts
    <3>2. Owned["event"] \subseteq DOMAIN v
      BY DEF Owned, EventDrafts
    <3>. QED  BY Zenon, <3>1, <3>2
  <2>1. Manifests("event") \subseteq EventDrafts
    <3>1. Manifests("event") = [ns : Spellings, about : References, message : {{"ns"}}]
      BY ZenonT(60) DEF Manifests
    <3>2. References \subseteq RefDrafts
      <4>. PICK a, n, z, g : a = <<"a">> /\ n = <<"ns">> /\ z = Empty /\ g = OwnGroup
        BY Zenon
      <4>1. a \in Given /\ n \in Plain /\ n # z /\ z \in Plain
        BY Zenon, WordFacts, WordNames, EmptyFacts
      <4>2. References =
              {[scope |-> "Namespaced", group |-> z, ns |-> n, name |-> a],
               [scope |-> "Cluster", group |-> z, ns |-> z, name |-> a],
               [scope |-> "Namespaced", group |-> g, ns |-> n, name |-> a],
               [scope |-> "Cluster", group |-> g, ns |-> z, name |-> a],
               [scope |-> "none", group |-> z, ns |-> n, name |-> a],
               [scope |-> "none", group |-> z, ns |-> z, name |-> a]}
        BY Zenon DEF References, OwnGroup
      <4>3. RefDrafts = {r \in [scope : {"Namespaced", "Cluster", "none"},
                                group : {z, g, OwnGroupUpstream}, ns : Plain, name : Given] :
                           (r.scope = "Namespaced" => r.ns # z) /\ (r.scope = "Cluster" => r.ns = z)}
        BY Zenon DEF RefDrafts, RefRecords, RefScoped
      <4>. QED  BY <4>1, <4>2, <4>3
    <3>3. [ns : Spellings, about : References, message : {{"ns"}}] \subseteq EventDrafts
      BY <3>2 DEF EventDrafts
    <3>. QED  BY Zenon, <3>1, <3>3
  <2>2. ASSUME NEW o \in EventDrafts, NEW e \in Envs PROVE Forward("event", o, e) \in EventsUpstream
    <3>1. o.about \in RefDrafts /\ o.message = {"ns"}
      BY DEF EventDrafts
    <3>2. ReferenceForward(o.about, e) \in RefsUpstream
      BY Zenon, <3>1, RefFacts
    <3>. QED  BY <3>1, <3>2, <1>1 DEF EventsUpstream
  <2>3. ASSUME NEW s \in EventsUpstream, NEW e \in Envs PROVE Backward("event", s, e) \in EventDrafts
    <3>1. s.about \in RefsUpstream
      BY DEF EventsUpstream
    <3>2. ReferenceBackward(s.about, e) \in RefDrafts
      BY Zenon, <3>1, RefFacts
    <3>. QED  BY <3>2, <1>2 DEF EventDrafts, Spellings
  <2>. QED  BY Zenon, <2>0, <2>1, <2>2, <2>3 DEF Mapped
\* An event gains or loses nothing at a round of reading and writing.
<1>4. Idempotent("event", EventDrafts)
  <2>1. SUFFICES ASSUME NEW o \in EventDrafts, NEW e \in Envs, NEW ns \in Spellings,
                        ~ForwardFails("event", o, e)
                 PROVE  Forward("event",
                                Respelled("event", Backward("event", Forward("event", o, e), e), ns), e)
                          = Forward("event", o, e)
    BY Zenon DEF Idempotent
  <2>. PICK u : u = Forward("event", o, e)
    OBVIOUS
  <2>. PICK b : b = Backward("event", u, e)
    OBVIOUS
  <2>. PICK v : v = Respelled("event", b, ns)
    OBVIOUS
  <2>2. u \in EventsUpstream /\ b \in EventDrafts
    BY ZenonT(60), <2>1, <1>3 DEF Mapped
  <2>3. b.about = ReferenceBackward(u.about, e) /\ b.message = {"ns"}
    BY <2>2, <1>2
  <2>4. v \in EventDrafts /\ v.about = ReferenceBackward(u.about, e) /\ v.message = {"ns"}
    BY <2>2, <2>3 DEF EventDrafts, Respelled, ClusterScoped
  <2>5. u \in [ns : {<<Tenant, "ns">>}, about : {ReferenceForward(o.about, e)}, message : {o.message}]
    BY <1>1
  <2>6. Forward("event", v, e) \in
          [ns : {<<Tenant, "ns">>}, about : {ReferenceForward(v.about, e)}, message : {v.message}]
    BY ZenonT(60), <2>4, <1>1
  <2>7. o.about \in RefDrafts /\ o.message = {"ns"} /\ u.about = ReferenceForward(o.about, e)
    BY <2>5 DEF EventDrafts
  <2>8. ReferenceForward(v.about, e) = ReferenceForward(o.about, e) /\ v.message = o.message
    BY Zenon, <2>4, <2>7, RefFacts
  <2>. QED  BY <2>5, <2>6, <2>8
<1>. QED  BY Zenon, <1>1, <1>2, <1>3, <1>4

----------------------------------------------------------------------------
(***************************************************************************)
(* What was sent a moment ago                                              *)
(***************************************************************************)

----------------------------------------------------------------------------
(***************************************************************************)
(* Every kind                                                              *)
(***************************************************************************)

\* What a tenant may write of a kind ...
DraftsOf(k) ==
    CASE k = "claim" -> ClaimDrafts
      [] k = "ingress" -> IngressDrafts
      [] k = "service" -> ServiceDrafts
      [] k = "pod" -> PodDrafts
      [] k = "workload" -> WorkloadDrafts
      [] k = "role" -> RoleDrafts
      [] k = "binding" -> BindingDrafts
      [] k = "policy" -> PolicyDrafts
      [] k = "dependent" -> DependentDrafts
      [] k = "event" -> EventDrafts
      [] k = "custom" -> CustomDrafts
      [] k = "volume" -> VolumeDrafts
      [] k = "crd" -> CRDDrafts
      [] k = "webhook" -> WebhookDrafts
      [] k = "namespace" -> NamespaceDrafts

\* ... and what may be stored of it.
UpstreamOf(k) ==
    CASE k = "claim" -> ClaimsUpstream
      [] k = "ingress" -> IngressesUpstream
      [] k = "service" -> ServicesUpstream
      [] k = "pod" -> PodsUpstream
      [] k = "workload" -> WorkloadsUpstream
      [] k = "role" -> RolesUpstream
      [] k = "binding" -> BindingsUpstream
      [] k = "policy" -> PoliciesUpstream
      [] k = "dependent" -> DependentsUpstream
      [] k = "event" -> EventsUpstream
      [] k = "custom" -> CustomsUpstream
      [] k = "volume" -> VolumesUpstream
      [] k = "crd" -> CRDsUpstream
      [] k = "webhook" -> WebhooksUpstream
      [] k = "namespace" -> NamespacesUpstream

\* The kinds, one by one.
LEMMA KindFacts ==
    /\ DraftsOf("claim") = ClaimDrafts /\ UpstreamOf("claim") = ClaimsUpstream
    /\ DraftsOf("ingress") = IngressDrafts /\ UpstreamOf("ingress") = IngressesUpstream
    /\ DraftsOf("service") = ServiceDrafts /\ UpstreamOf("service") = ServicesUpstream
    /\ DraftsOf("pod") = PodDrafts /\ UpstreamOf("pod") = PodsUpstream
    /\ DraftsOf("workload") = WorkloadDrafts /\ UpstreamOf("workload") = WorkloadsUpstream
    /\ DraftsOf("role") = RoleDrafts /\ UpstreamOf("role") = RolesUpstream
    /\ DraftsOf("binding") = BindingDrafts /\ UpstreamOf("binding") = BindingsUpstream
    /\ DraftsOf("policy") = PolicyDrafts /\ UpstreamOf("policy") = PoliciesUpstream
    /\ DraftsOf("dependent") = DependentDrafts /\ UpstreamOf("dependent") = DependentsUpstream
    /\ DraftsOf("event") = EventDrafts /\ UpstreamOf("event") = EventsUpstream
    /\ DraftsOf("custom") = CustomDrafts /\ UpstreamOf("custom") = CustomsUpstream
    /\ DraftsOf("volume") = VolumeDrafts /\ UpstreamOf("volume") = VolumesUpstream
    /\ DraftsOf("crd") = CRDDrafts /\ UpstreamOf("crd") = CRDsUpstream
    /\ DraftsOf("webhook") = WebhookDrafts /\ UpstreamOf("webhook") = WebhooksUpstream
    /\ DraftsOf("namespace") = NamespaceDrafts /\ UpstreamOf("namespace") = NamespacesUpstream
<1>1. DraftsOf("claim") = ClaimDrafts /\ UpstreamOf("claim") = ClaimsUpstream
  BY DEF DraftsOf, UpstreamOf
<1>2. DraftsOf("ingress") = IngressDrafts /\ UpstreamOf("ingress") = IngressesUpstream
  BY DEF DraftsOf, UpstreamOf
<1>3. DraftsOf("service") = ServiceDrafts /\ UpstreamOf("service") = ServicesUpstream
  BY DEF DraftsOf, UpstreamOf
<1>4. DraftsOf("pod") = PodDrafts /\ UpstreamOf("pod") = PodsUpstream
  BY DEF DraftsOf, UpstreamOf
<1>5. DraftsOf("workload") = WorkloadDrafts /\ UpstreamOf("workload") = WorkloadsUpstream
  BY DEF DraftsOf, UpstreamOf
<1>6. DraftsOf("role") = RoleDrafts /\ UpstreamOf("role") = RolesUpstream
  BY DEF DraftsOf, UpstreamOf
<1>7. DraftsOf("binding") = BindingDrafts /\ UpstreamOf("binding") = BindingsUpstream
  BY DEF DraftsOf, UpstreamOf
<1>8. DraftsOf("policy") = PolicyDrafts /\ UpstreamOf("policy") = PoliciesUpstream
  BY DEF DraftsOf, UpstreamOf
<1>9. DraftsOf("dependent") = DependentDrafts /\ UpstreamOf("dependent") = DependentsUpstream
  BY DEF DraftsOf, UpstreamOf
<1>10. DraftsOf("event") = EventDrafts /\ UpstreamOf("event") = EventsUpstream
  BY DEF DraftsOf, UpstreamOf
<1>11. DraftsOf("custom") = CustomDrafts /\ UpstreamOf("custom") = CustomsUpstream
  BY DEF DraftsOf, UpstreamOf
<1>12. DraftsOf("volume") = VolumeDrafts /\ UpstreamOf("volume") = VolumesUpstream
  BY DEF DraftsOf, UpstreamOf
<1>13. DraftsOf("crd") = CRDDrafts /\ UpstreamOf("crd") = CRDsUpstream
  BY DEF DraftsOf, UpstreamOf
<1>14. DraftsOf("webhook") = WebhookDrafts /\ UpstreamOf("webhook") = WebhooksUpstream
  BY DEF DraftsOf, UpstreamOf
<1>15. DraftsOf("namespace") = NamespaceDrafts /\ UpstreamOf("namespace") = NamespacesUpstream
  BY DEF DraftsOf, UpstreamOf
<1>. QED
  BY ZenonT(60), <1>1, <1>2, <1>3, <1>4, <1>5, <1>6, <1>7, <1>8, <1>9, <1>10, <1>11, <1>12,
     <1>13, <1>14, <1>15

\* The fifteen kinds, as cases.
LEMMA KindCases ==
    \A k \in Kinds :
        \/ k = "claim" \/ k = "ingress" \/ k = "service" \/ k = "pod"
        \/ k = "workload" \/ k = "role" \/ k = "binding" \/ k = "policy"
        \/ k = "dependent" \/ k = "event" \/ k = "custom" \/ k = "volume"
        \/ k = "crd" \/ k = "webhook" \/ k = "namespace"
<1>. TAKE k \in Kinds
<1>. QED  BY DEF Kinds, ClusterScoped

\* What the conversions of the kinds do: for all of them what is stored is
\* known and a round changes nothing, and for all but events what is read is
\* what was written.
LEMMA KindConversion ==
    /\ \A k \in Kinds \ {"event"} : Converted(k, DraftsOf(k), UpstreamOf(k))
    /\ \A k \in Kinds : Mapped(k, DraftsOf(k), UpstreamOf(k))
    /\ \A k \in Kinds : Idempotent(k, DraftsOf(k))
\* What the conversions of the kinds do.
<1>1. \A k \in Kinds \ {"event"} : Converted(k, DraftsOf(k), UpstreamOf(k))
  <2>. SUFFICES ASSUME NEW k \in Kinds \ {"event"} PROVE Converted(k, DraftsOf(k), UpstreamOf(k))
    BY Zenon
  <2>1. CASE k = "claim"
    BY Zenon, <2>1, KindFacts, ClaimConversion
  <2>2. CASE k = "ingress"
    BY Zenon, <2>2, KindFacts, IngressConversion
  <2>3. CASE k = "service"
    BY ZenonT(60), <2>3, KindFacts, ServiceConversion
  <2>4. CASE k = "pod"
    BY Zenon, <2>4, KindFacts, PodConversion
  <2>5. CASE k = "workload"
    BY Zenon, <2>5, KindFacts, WorkloadConversion
  <2>6. CASE k = "role"
    BY Zenon, <2>6, KindFacts, RoleConversion
  <2>7. CASE k = "binding"
    BY Zenon, <2>7, KindFacts, BindingConversion
  <2>8. CASE k = "policy"
    BY Zenon, <2>8, KindFacts, PolicyConversion
  <2>9. CASE k = "dependent"
    BY Zenon, <2>9, KindFacts, DependentConversion
  <2>10. k # "event"
    BY Zenon
  <2>11. CASE k = "custom"
    BY Zenon, <2>11, KindFacts, CustomConversion
  <2>12. CASE k = "volume"
    BY Zenon, <2>12, KindFacts, VolumeConversion
  <2>13. CASE k = "crd"
    BY Zenon, <2>13, KindFacts, CRDConversion
  <2>14. CASE k = "webhook"
    BY Zenon, <2>14, KindFacts, WebhookConversion
  <2>15. CASE k = "namespace"
    BY Zenon, <2>15, KindFacts, NamespaceConversion
  <2>. QED
    BY ZenonT(60), <2>1, <2>2, <2>3, <2>4, <2>5, <2>6, <2>7, <2>8, <2>9, <2>10, <2>11, <2>12,
       <2>13, <2>14, <2>15, KindCases
\* What any kind is converted to is what is stored for that kind.
<1>2. \A k \in Kinds : Mapped(k, DraftsOf(k), UpstreamOf(k))
  <2>1. ASSUME NEW k \in Kinds \ {"event"} PROVE Mapped(k, DraftsOf(k), UpstreamOf(k))
    BY Zenon, <1>1 DEF Converted
  <2>2. Mapped("event", DraftsOf("event"), UpstreamOf("event"))
    BY Zenon, KindFacts, EventConversion
  <2>. QED  BY Zenon, <2>1, <2>2
\* No kind gains or loses something at a round of reading and writing.
<1>3. \A k \in Kinds : Idempotent(k, DraftsOf(k))
  \* Where all that is stored survives a round, what was just stored does.
  <2>RewrittenIdempotent. \A k, D, U : Mapped(k, D, U) /\ Rewritten(k, U) =>
                              Idempotent(k, D)
    <3>. TAKE k, D, U
    <3>. HAVE Mapped(k, D, U) /\ Rewritten(k, U)
    <3>. QED  BY ZenonT(60) DEF Mapped, Rewritten, Idempotent
  <2>. SUFFICES ASSUME NEW k \in Kinds PROVE Idempotent(k, DraftsOf(k))
    BY Zenon
  <2>1. CASE k = "claim"
    <3>1. Idempotent("claim", ClaimDrafts)
      BY ZenonT(60), ClaimConversion, <2>RewrittenIdempotent DEF Converted
    <3>. QED  BY Zenon, <2>1, <3>1, KindFacts
  <2>2. CASE k = "ingress"
    BY Zenon, <2>2, KindFacts, IngressConversion
  <2>3. CASE k = "service"
    <3>1. Idempotent("service", ServiceDrafts)
      BY Zenon, ServiceConversion, <2>RewrittenIdempotent DEF Converted
    <3>. QED  BY Zenon, <2>3, <3>1, KindFacts
  <2>4. CASE k = "pod"
    <3>1. Idempotent("pod", PodDrafts)
      BY Zenon, PodConversion, <2>RewrittenIdempotent DEF Converted
    <3>. QED  BY Zenon, <2>4, <3>1, KindFacts
  <2>5. CASE k = "workload"
    BY Zenon, <2>5, KindFacts, WorkloadConversion
  <2>6. CASE k = "role"
    BY Zenon, <2>6, KindFacts, RoleConversion
  <2>7. CASE k = "binding"
    <3>1. Idempotent("binding", BindingDrafts)
      BY Zenon, BindingConversion, <2>RewrittenIdempotent DEF Converted
    <3>. QED  BY Zenon, <2>7, <3>1, KindFacts
  <2>8. CASE k = "policy"
    <3>1. Idempotent("policy", PolicyDrafts)
      BY Zenon, PolicyConversion, <2>RewrittenIdempotent DEF Converted
    <3>. QED  BY Zenon, <2>8, <3>1, KindFacts
  <2>9. CASE k = "dependent"
    <3>1. Idempotent("dependent", DependentDrafts)
      BY Zenon, DependentConversion, <2>RewrittenIdempotent DEF Converted
    <3>. QED  BY Zenon, <2>9, <3>1, KindFacts
  <2>10. CASE k = "event"
    BY Zenon, <2>10, KindFacts, EventConversion
  <2>11. CASE k = "custom"
    <3>1. Idempotent("custom", CustomDrafts)
      BY Zenon, CustomConversion, <2>RewrittenIdempotent DEF Converted
    <3>. QED  BY Zenon, <2>11, <3>1, KindFacts
  <2>12. CASE k = "volume"
    <3>1. Idempotent("volume", VolumeDrafts)
      BY Zenon, VolumeConversion, <2>RewrittenIdempotent DEF Converted
    <3>. QED  BY Zenon, <2>12, <3>1, KindFacts
  <2>13. CASE k = "crd"
    <3>1. Idempotent("crd", CRDDrafts)
      BY ZenonT(60), CRDConversion, <2>RewrittenIdempotent DEF Converted
    <3>. QED  BY Zenon, <2>13, <3>1, KindFacts
  <2>14. CASE k = "webhook"
    <3>1. Idempotent("webhook", WebhookDrafts)
      BY Zenon, WebhookConversion, <2>RewrittenIdempotent DEF Converted
    <3>. QED  BY Zenon, <2>14, <3>1, KindFacts
  <2>15. CASE k = "namespace"
    BY Zenon, <2>15, KindFacts, NamespaceConversion
  <2>. QED
    BY ZenonT(60), <2>1, <2>2, <2>3, <2>4, <2>5, <2>6, <2>7, <2>8, <2>9, <2>10, <2>11, <2>12,
       <2>13, <2>14, <2>15, KindCases
<1>. QED  BY Zenon, <1>1, <1>2, <1>3

\* The object with its namespace in another spelling is one of the same kind.
LEMMA RespelledFacts ==
    \A k \in Kinds : \A v \in DraftsOf(k), ns \in Spellings :
        /\ Respelled(k, v, ns) \in DraftsOf(k)
        /\ \A f \in Owned[k] : Respelled(k, v, ns)[f] = v[f]
        /\ k \notin ClusterScoped => v.ns \in Spellings /\ Respelled(k, v, ns).ns = ns
<1>. TAKE k \in Kinds
<1>. TAKE v \in DraftsOf(k), ns \in Spellings
<1>. PICK w : w = [v EXCEPT !.ns = ns]
  BY ZenonT(60)
<1>0. ASSUME "ns" \notin Owned[k] PROVE \A f \in Owned[k] : w[f] = v[f]
  <2>1. Owned[k] \subseteq DOMAIN v
    BY Zenon, KindConversion DEF Mapped
  <2>. QED  BY <1>0, <2>1
<1>1. CASE k = "claim"
  <2>1. DraftsOf(k) = ClaimDrafts
    BY Zenon, <1>1, KindFacts
  <2>2. Respelled(k, v, ns) = w
    BY <1>1 DEF Respelled, ClusterScoped
  <2>3. w \in ClaimDrafts /\ w.ns = ns /\ v.ns \in Spellings
    BY <2>1 DEF ClaimDrafts
  <2>4. "ns" \notin Owned[k]
    BY SMTT(60), <1>1 DEF Owned
  <2>. QED  BY Zenon, <1>0, <2>1, <2>2, <2>3, <2>4
<1>2. CASE k = "ingress"
  <2>1. DraftsOf(k) = IngressDrafts
    BY Zenon, <1>2, KindFacts
  <2>2. Respelled(k, v, ns) = w
    BY <1>2 DEF Respelled, ClusterScoped
  <2>3. w \in IngressDrafts /\ w.ns = ns /\ v.ns \in Spellings
    BY <2>1 DEF IngressDrafts
  <2>4. "ns" \notin Owned[k]
    BY SMTT(60), <1>2 DEF Owned
  <2>. QED  BY Zenon, <1>0, <2>1, <2>2, <2>3, <2>4
<1>3. CASE k = "service"
  <2>1. DraftsOf(k) = ServiceDrafts
    BY Zenon, <1>3, KindFacts
  <2>2. Respelled(k, v, ns) = w
    BY <1>3 DEF Respelled, ClusterScoped
  <2>3. w \in ServiceDrafts /\ w.ns = ns /\ v.ns \in Spellings
    BY <2>1 DEF ServiceDrafts
  <2>4. "ns" \notin Owned[k]
    BY SMTT(60), <1>3 DEF Owned
  <2>. QED  BY Zenon, <1>0, <2>1, <2>2, <2>3, <2>4
<1>4. CASE k = "pod"
  <2>1. DraftsOf(k) = PodDrafts
    BY Zenon, <1>4, KindFacts
  <2>2. Respelled(k, v, ns) = w
    BY <1>4 DEF Respelled, ClusterScoped
  <2>3. w \in PodDrafts /\ w.ns = ns /\ v.ns \in Spellings
    BY <2>1 DEF PodDrafts
  <2>4. "ns" \notin Owned[k]
    BY SMTT(60), <1>4 DEF Owned
  <2>. QED  BY Zenon, <1>0, <2>1, <2>2, <2>3, <2>4
<1>5. CASE k = "workload"
  <2>1. DraftsOf(k) = WorkloadDrafts
    BY Zenon, <1>5, KindFacts
  <2>2. Respelled(k, v, ns) = w
    BY <1>5 DEF Respelled, ClusterScoped
  <2>3. w \in WorkloadDrafts /\ w.ns = ns /\ v.ns \in Spellings
    BY <2>1 DEF WorkloadDrafts
  <2>4. "ns" \notin Owned[k]
    BY SMTT(60), <1>5 DEF Owned
  <2>. QED  BY Zenon, <1>0, <2>1, <2>2, <2>3, <2>4
<1>6. CASE k = "role"
  <2>1. DraftsOf(k) = RoleDrafts
    BY Zenon, <1>6, KindFacts
  <2>2. Respelled(k, v, ns) = w
    BY <1>6 DEF Respelled, ClusterScoped
  <2>3. w \in RoleDrafts /\ w.ns = ns /\ v.ns \in Spellings
    BY <2>1 DEF RoleDrafts
  <2>4. "ns" \notin Owned[k]
    BY SMTT(60), <1>6 DEF Owned
  <2>. QED  BY Zenon, <1>0, <2>1, <2>2, <2>3, <2>4
<1>7. CASE k = "binding"
  <2>1. DraftsOf(k) = BindingDrafts
    BY Zenon, <1>7, KindFacts
  <2>2. Respelled(k, v, ns) = w
    BY <1>7 DEF Respelled, ClusterScoped
  <2>3. w \in BindingDrafts /\ w.ns = ns /\ v.ns \in Spellings
    BY <2>1 DEF BindingDrafts
  <2>4. "ns" \notin Owned[k]
    BY SMTT(60), <1>7 DEF Owned
  <2>. QED  BY Zenon, <1>0, <2>1, <2>2, <2>3, <2>4
<1>8. CASE k = "policy"
  <2>1. DraftsOf(k) = PolicyDrafts
    BY Zenon, <1>8, KindFacts
  <2>2. Respelled(k, v, ns) = w
    BY <1>8 DEF Respelled, ClusterScoped
  <2>3. w \in PolicyDrafts /\ w.ns = ns /\ v.ns \in Spellings
    BY <2>1 DEF PolicyDrafts
  <2>4. "ns" \notin Owned[k]
    BY SMTT(60), <1>8 DEF Owned
  <2>. QED  BY Zenon, <1>0, <2>1, <2>2, <2>3, <2>4
<1>9. CASE k = "dependent"
  <2>1. DraftsOf(k) = DependentDrafts
    BY Zenon, <1>9, KindFacts
  <2>2. Respelled(k, v, ns) = w
    BY <1>9 DEF Respelled, ClusterScoped
  <2>3. w \in DependentDrafts /\ w.ns = ns /\ v.ns \in Spellings
    BY <2>1 DEF DependentDrafts
  <2>4. "ns" \notin Owned[k]
    BY SMTT(60), <1>9 DEF Owned
  <2>. QED  BY Zenon, <1>0, <2>1, <2>2, <2>3, <2>4
<1>10. CASE k = "event"
  <2>1. DraftsOf(k) = EventDrafts
    BY Zenon, <1>10, KindFacts
  <2>2. Respelled(k, v, ns) = w
    BY <1>10 DEF Respelled, ClusterScoped
  <2>3. w \in EventDrafts /\ w.ns = ns /\ v.ns \in Spellings
    BY <2>1 DEF EventDrafts
  <2>4. "ns" \notin Owned[k]
    BY SMTT(60), <1>10 DEF Owned
  <2>. QED  BY Zenon, <1>0, <2>1, <2>2, <2>3, <2>4
<1>11. CASE k = "custom"
  <2>1. DraftsOf(k) = CustomDrafts
    BY Zenon, <1>11, KindFacts
  <2>2. Respelled(k, v, ns) = w
    BY <1>11 DEF Respelled, ClusterScoped
  <2>3. w \in CustomDrafts /\ w.ns = ns /\ v.ns \in Spellings
    BY <2>1 DEF CustomDrafts
  <2>4. "ns" \notin Owned[k]
    BY <1>11 DEF Owned
  <2>. QED  BY Zenon, <1>0, <2>1, <2>2, <2>3, <2>4
<1>12. CASE k = "volume"
  <2>1. DraftsOf(k) = VolumeDrafts
    BY Zenon, <1>12, KindFacts
  <2>. QED  BY <1>12, <2>1 DEF Respelled, ClusterScoped
<1>13. CASE k = "crd"
  <2>1. DraftsOf(k) = CRDDrafts
    BY Zenon, <1>13, KindFacts
  <2>. QED  BY <1>13, <2>1 DEF Respelled, ClusterScoped
<1>14. CASE k = "webhook"
  <2>1. DraftsOf(k) = WebhookDrafts
    BY Zenon, <1>14, KindFacts
  <2>. QED  BY <1>14, <2>1 DEF Respelled, ClusterScoped
<1>15. CASE k = "namespace"
  <2>1. DraftsOf(k) = NamespaceDrafts
    BY Zenon, <1>15, KindFacts
  <2>. QED  BY <1>15, <2>1 DEF Respelled, ClusterScoped
<1>. QED
  BY ZenonT(60), <1>1, <1>2, <1>3, <1>4, <1>5, <1>6, <1>7, <1>8, <1>9, <1>10, <1>11, <1>12,
     <1>13, <1>14, <1>15, KindCases

----------------------------------------------------------------------------
(***************************************************************************)
(* The caches                                                              *)
(***************************************************************************)

\* What a resolver says of itself it has said before.
HasHad(r) == r.ip \in had.at /\ r.ann \in had.at /\ (r.ready => had.ready)

\* The stores hold what the platform has had at some time.
CacheInv ==
    /\ kind \in Kinds
    /\ static \subseteq Sets \ {"attributes"}
    /\ label \in [Sets -> Published] /\ seen \in [Sets -> Published]
    /\ synced \subseteq Sets
    /\ carried \in [Sets -> SUBSET Published]
    /\ groups \subseteq {<<Tenant, "group">>}
    /\ resolver \in Resolvers /\ resolverSeen \in Resolvers
    /\ \A s \in Sets : label[s] \in carried[s] /\ (s \in synced => seen[s] \in carried[s])
    /\ NoAddress \in had.at /\ HasHad(resolver) /\ HasHad(resolverSeen)

\* The object is of the same kind, and the platform has had what it had.
Grown ==
    /\ kind' = kind /\ static' = static
    /\ \A s \in Sets : carried[s] \subseteq carried'[s]
    /\ had.at \subseteq had'.at /\ (had.ready => had'.ready)

\* The caches at the start.
LEMMA CacheInit == Init => CacheInv
<1>. SUFFICES ASSUME Init PROVE CacheInv
  OBVIOUS
<1>1. kind \in Kinds /\ groups = {} /\ synced = {} /\ seen = [s \in Sets |-> "none"]
  BY ZenonT(60) DEF Init
<1>2. static \subseteq Sets \ {"attributes"}
  BY DEF Init, Sets
<1>3. label \in [Sets -> {"none", "true"}] /\ carried = [s \in Sets |-> {label[s]}]
  BY Zenon DEF Init
<1>4. resolver = NoResolver /\ resolverSeen = NoResolver /\ had = NothingYet
  BY Zenon DEF Init
<1>5. /\ label \in [Sets -> Published] /\ seen \in [Sets -> Published]
      /\ carried \in [Sets -> SUBSET Published]
      /\ \A s \in Sets : label[s] \in carried[s]
  BY <1>1, <1>3 DEF Published
<1>6. NoResolver \in Resolvers
  BY SMTT(60) DEF NoResolver, Resolvers
<1>7. HasHad(NoResolver) /\ NoAddress \in had.at
  BY <1>4 DEF HasHad, NoResolver, NothingYet
<1>. QED  BY ZenonT(60), <1>1, <1>2, <1>4, <1>5, <1>6, <1>7 DEF CacheInv

\* The tenant and the controllers write the object and nothing else.
LEMMA CacheWrites ==
    TenantStep \/ ControllerStep =>
        UNCHANGED <<kind, static, classes, groups, dns>>
<1>. HAVE TenantStep \/ ControllerStep
<1>. QED  BY Zenon DEF TenantStep, ControllerStep, TenantCreate, TenantUpdate, TenantDelete, BindClaim,
                   ShowAddress, Schedule, Report

\* Every step keeps what the caches hold, and what has been offered or served
\* stays so.
LEMMA CacheNext == CacheInv /\ [Next]_vars => CacheInv' /\ Grown
\* A step that leaves the caches and what they follow alone.
<1>CacheIdle. CacheInv /\ UNCHANGED <<kind, static, classes, groups, dns>> =>
                  CacheInv' /\ Grown
  <2>. HAVE CacheInv /\ UNCHANGED <<kind, static, classes, groups, dns>>
  <2>. QED  BY Zenon DEF CacheInv, Grown, HasHad, classes, dns
\* The platform changes and the gateway starts again.
<1>CachePlatform. CacheInv /\ PlatformStep =>
                      CacheInv' /\ Grown
  <2>. HAVE CacheInv /\ PlatformStep
  <2>1. ASSUME NEW s \in Sets, NEW v \in Published, Label(s, v) PROVE CacheInv' /\ Grown
    <3>1. /\ label' = [label EXCEPT ![s] = v]
          /\ carried' = [carried EXCEPT ![s] = carried[s] \cup {v}]
          /\ UNCHANGED <<kind, static, seen, synced, groups, resolver, resolverSeen, had>>
      BY SMTT(60), <2>1 DEF Label, object, dns
    <3>2. /\ label' \in [Sets -> Published] /\ carried' \in [Sets -> SUBSET Published]
          /\ \A t \in Sets : label'[t] \in carried'[t] /\ carried[t] \subseteq carried'[t]
      BY <3>1 DEF CacheInv
    <3>. QED  BY ZenonT(60), <3>1, <3>2 DEF CacheInv, Grown, HasHad
  <2>2. CASE \E m \in Modes : Suspend(m)
    BY Zenon, <2>2, <1>CacheIdle DEF Suspend, object
  <2>3. CASE Define
    <3>1. groups' \subseteq {<<Tenant, "group">>}
      BY Zenon, <2>3 DEF Define
    <3>. QED  BY Zenon, <2>3, <3>1 DEF Define, object, classes, dns, CacheInv, Grown, HasHad
  <2>4. ASSUME NEW r \in Resolvers, Resolve(r) PROVE CacheInv' /\ Grown
    <3>1. /\ resolver' = r
          /\ had' = [at |-> had.at \cup {r.ip, r.ann}, ready |-> had.ready \/ r.ready]
          /\ UNCHANGED <<kind, static, classes, groups, resolverSeen>>
      BY ZenonT(60), <2>4 DEF Resolve, object
    <3>2. had'.at = had.at \cup {r.ip, r.ann} /\ (had'.ready <=> had.ready \/ r.ready)
      BY ZenonT(60), <3>1
    <3>. QED  BY Zenon, <3>1, <3>2 DEF CacheInv, Grown, HasHad, classes
  <2>5. CASE Restart
    <3>1. /\ synced' = {} /\ seen' = [s \in Sets |-> "none"] /\ groups' = {}
          /\ resolverSeen' = NoResolver
          /\ UNCHANGED <<kind, static, label, carried, resolver, had>>
      BY Zenon, <2>5 DEF Restart, object
    <3>2. seen' \in [Sets -> Published]
      BY <3>1 DEF Published
    <3>3. NoResolver \in Resolvers
      BY DEF NoResolver, Resolvers
    <3>4. HasHad(NoResolver)'
      <4>1. NoAddress \in had'.at
        BY Zenon, <3>1 DEF CacheInv
      <4>. QED  BY <4>1 DEF HasHad, NoResolver
    <3>. QED  BY Zenon, <3>1, <3>2, <3>3, <3>4 DEF CacheInv, Grown, HasHad
  <2>. QED  BY ZenonT(60), <2>1, <2>2, <2>3, <2>4, <2>5 DEF PlatformStep
\* The informers catch up.
<1>CacheSee. CacheInv /\ SeeStep =>
                 CacheInv' /\ Grown
  <2>. HAVE CacheInv /\ SeeStep
  <2>1. ASSUME NEW s \in Sets, SeeClass(s) PROVE CacheInv' /\ Grown
    <3>1. /\ seen' = [seen EXCEPT ![s] = label[s]] /\ synced' = synced \cup {s}
          /\ UNCHANGED <<kind, static, label, carried, groups, resolver, resolverSeen, had>>
      BY ZenonT(60), <2>1 DEF SeeClass, object, dns
    <3>2. /\ seen' \in [Sets -> Published] /\ synced' \subseteq Sets
          /\ \A t \in Sets : t \in synced' => seen'[t] \in carried[t]
      BY <3>1 DEF CacheInv
    <3>. QED  BY Zenon, <3>1, <3>2 DEF CacheInv, Grown, HasHad
  <2>2. CASE SeeTenant
    BY Zenon, <2>2, <1>CacheIdle DEF SeeTenant, object
  <2>3. CASE SeeResolverService
    <3>1. /\ resolverSeen' = [resolver EXCEPT !.ready = resolverSeen.ready]
          /\ UNCHANGED <<kind, static, classes, groups, resolver, had>>
      BY Zenon, <2>3 DEF SeeResolverService, object
    <3>2. resolver \in Resolvers /\ resolverSeen \in Resolvers /\ HasHad(resolver) /\ HasHad(resolverSeen)
      BY Zenon DEF CacheInv
    <3>3. /\ resolverSeen' \in Resolvers /\ resolverSeen'.ip = resolver.ip
          /\ resolverSeen'.ann = resolver.ann /\ (resolverSeen'.ready <=> resolverSeen.ready)
      BY <3>1, <3>2 DEF Resolvers
    <3>. QED  BY Zenon, <3>1, <3>2, <3>3 DEF CacheInv, Grown, HasHad, classes
  <2>4. CASE SeeEndpoints
    <3>1. /\ resolverSeen' = [resolverSeen EXCEPT !.ready = resolver.ready]
          /\ UNCHANGED <<kind, static, classes, groups, resolver, had>>
      BY Zenon, <2>4 DEF SeeEndpoints, object
    <3>2. resolver \in Resolvers /\ resolverSeen \in Resolvers /\ HasHad(resolver) /\ HasHad(resolverSeen)
      BY Zenon DEF CacheInv
    <3>3. /\ resolverSeen' \in Resolvers /\ resolverSeen'.ip = resolverSeen.ip
          /\ resolverSeen'.ann = resolverSeen.ann /\ (resolverSeen'.ready <=> resolver.ready)
      BY <3>1, <3>2 DEF Resolvers
    <3>. QED  BY Zenon, <3>1, <3>2, <3>3 DEF CacheInv, Grown, HasHad, classes
  <2>. QED  BY ZenonT(60), <2>1, <2>2, <2>3, <2>4 DEF SeeStep
<1>. SUFFICES ASSUME CacheInv, [Next]_vars PROVE CacheInv' /\ Grown
  OBVIOUS
<1>1. CASE TenantStep \/ ControllerStep
  BY ZenonT(60), <1>1, CacheWrites, <1>CacheIdle
<1>2. CASE UNCHANGED vars
  BY Zenon, <1>2, <1>CacheIdle DEF vars, object
<1>. QED  BY ZenonT(60), <1>1, <1>2, <1>CachePlatform, <1>CacheSee DEF Next

\* The nameserver that pods are given.
LEMMA NameserverFacts ==
    CacheInv =>
        For = NoAddress \/ (For \in Addresses /\ For \in had.at \ {NoAddress} /\ had.ready)
<1>. HAVE CacheInv
<1>. PICK r : r = resolverSeen
  OBVIOUS
<1>1. r \in Resolvers /\ HasHad(r)
  BY Zenon DEF CacheInv
<1>2. CASE HasAddress(r) /\ r.ready
  <2>1. For = NameserverFor(r)
    BY Zenon, <1>2 DEF For
  <2>2. r.ip \in Addresses
    BY <1>1, <1>2 DEF Resolvers, HasAddress
  <2>3. NoAddress \notin Addresses
    BY Zenon, ObjectsAssumption
  <2>4. CASE Translated(r)
    <3>1. NameserverFor(r) = r.ann
      BY <1>1, <2>4 DEF NameserverFor, ShowTenantClusterIP, Resolvers
    <3>2. r.ann \in Addresses
      BY <1>1, <2>4 DEF Resolvers, Translated
    <3>. QED  BY ZenonT(60), <1>1, <1>2, <2>1, <2>3, <3>1, <3>2 DEF HasHad
  <2>5. CASE ~Translated(r)
    <3>1. NameserverFor(r) = r.ip
      BY Zenon, <2>5 DEF NameserverFor, ShowTenantClusterIP
    <3>. QED  BY ZenonT(60), <1>1, <1>2, <2>1, <2>2, <2>3, <3>1 DEF HasHad
  <2>. QED  BY Zenon, <2>4, <2>5
<1>3. CASE ~(HasAddress(r) /\ r.ready)
  BY Zenon, <1>3 DEF For
<1>. QED  BY Zenon, <1>2, <1>3

\* What the convertors look up.
LEMMA EnvFacts ==
    CacheInv =>
        /\ Env \in Envs /\ Env.nameserver = For /\ Env.groups = groups
        /\ ClassOf("ingress") \in Env.ingress => "ingress" \in static \/ carried["ingress"] # {"none"}
<1>. HAVE CacheInv
<1>. PICK I : I = {n \in {ClassOf("ingress")} : Visible("ingress", n)}
  BY Zenon
<1>1. Env = [ingress |-> I, groups |-> groups, nameserver |-> For]
  BY Zenon DEF Env
<1>2. I \in SUBSET {ClassOf("ingress")}
  BY Zenon
<1>3. For \in Addresses \cup {NoAddress} /\ groups \in SUBSET {<<Tenant, "group">>}
  BY ZenonT(60), NameserverFacts DEF CacheInv
<1>4. Env \in Envs /\ Env.nameserver = For /\ Env.groups = groups /\ Env.ingress = I
  BY <1>1, <1>2, <1>3 DEF Envs
<1>5. ASSUME ClassOf("ingress") \in I PROVE "ingress" \in static \/ carried["ingress"] # {"none"}
  <2>1. Visible("ingress", ClassOf("ingress"))
    BY Zenon, <1>5
  <2>2. "ingress" \in static \/ ("ingress" \in synced /\ seen["ingress"] # "none")
    BY ZenonT(60), <2>1 DEF Visible, IsStatic, Value
  <2>3. "ingress" \in synced => seen["ingress"] \in carried["ingress"]
    BY DEF CacheInv, Sets
  <2>. QED  BY Zenon, <2>2, <2>3
<1>. QED  BY Zenon, <1>4, <1>5

----------------------------------------------------------------------------
(***************************************************************************)
(* Answers                                                                 *)
(***************************************************************************)

\* The first answer that is not "none", if there is one.
LEMMA FirstFacts ==
    \A a : DOMAIN a \subseteq 1..9 =>
        /\ First(a) = "none" <=> \A i \in DOMAIN a : a[i] = "none"
        /\ First(a) # "none" => \E i \in DOMAIN a : First(a) = a[i]
<1>. TAKE a
<1>. HAVE DOMAIN a \subseteq 1..9
<1>. DEFINE R == {i \in DOMAIN a : a[i] # "none"}
<1>1. CASE R = {}
  BY Zenon, <1>1 DEF First
<1>2. CASE R # {}
  <2>1. R \subseteq 1..9
    OBVIOUS
  <2>2. \A i \in R : a[i] # "none" /\ i \in DOMAIN a
    BY Zenon
  <2>3. First(a) = a[CHOOSE i \in R : \A j \in R : i <= j]
    BY Zenon, <1>2 DEF First
  <2>. HIDE DEF R
  <2>4. \E i \in R : \A j \in R : i <= j
    <3>1. SUFFICES ASSUME \A i \in R : \E j \in R : j < i PROVE FALSE
      BY <2>1
    <3>2. 1 \notin R
      BY <2>1, <3>1
    <3>3. 2 \notin R
      BY <2>1, <3>1, <3>2
    <3>4. 3 \notin R
      BY SMTT(60), <2>1, <3>1, <3>2, <3>3
    <3>5. 4 \notin R
      BY SMTT(60), <2>1, <3>1, <3>2, <3>3, <3>4
    <3>6. 5 \notin R
      BY SMTT(60), <2>1, <3>1, <3>2, <3>3, <3>4, <3>5
    <3>7. 6 \notin R
      BY SMTT(60), <2>1, <3>1, <3>2, <3>3, <3>4, <3>5, <3>6
    <3>8. 7 \notin R
      BY SMTT(60), <2>1, <3>1, <3>2, <3>3, <3>4, <3>5, <3>6, <3>7
    <3>9. 8 \notin R
      BY SMTT(60), <2>1, <3>1, <3>2, <3>3, <3>4, <3>5, <3>6, <3>7, <3>8
    <3>10. 9 \notin R
      BY SMTT(60), <2>1, <3>1, <3>2, <3>3, <3>4, <3>5, <3>6, <3>7, <3>8, <3>9
    <3>. PICK n \in R : TRUE
      BY Zenon, <1>2
    <3>11. n \in 1..9
      BY Zenon, <2>1
    <3>12. n = 1 \/ n = 2 \/ n = 3 \/ n = 4 \/ n = 5 \/ n = 6 \/ n = 7 \/ n = 8 \/ n = 9
      BY <3>11
    <3>. QED  BY SMTT(60), <3>2, <3>3, <3>4, <3>5, <3>6, <3>7, <3>8, <3>9, <3>10, <3>12
  <2>5. PICK i : i = CHOOSE k \in R : \A j \in R : k <= j
    BY Zenon
  <2>6. i \in R
    BY Zenon, <2>4, <2>5
  <2>. QED  BY ZenonT(60), <2>2, <2>3, <2>5, <2>6
<1>. QED  BY Zenon, <1>1, <1>2

\* A rule lets through exactly what its condition does not name.
LEMMA InvalidFacts == \A b : InvalidIf(b) = "none" <=> ~b
BY DEF InvalidIf

\* A create that is accepted is refused by no rule.
LEMMA CreateFacts ==
    \A o :
        /\ CreateAnswer(o) = "none" =>
             /\ ~ForwardFails(kind, o, Env)
             /\ RefuseUnpublishedStorageClass(o) = "none"
             /\ RefuseUnpublishedVolumeAttributesClass(o, Absent) = "none"
             /\ RefuseTenantChosenNode(o) = "none"
             /\ RefuseExternalNameService(o) = "none"
             /\ RefuseUnpublishedEphemeralClasses(o, Absent) = "none"
             /\ RefuseNewExternalIPs(o, Absent) = "none"
             /\ RefuseNodePorts(o, Absent) = "none"
        /\ CreateAnswer(o) = "invalid" =>
             \/ InvalidIf(ForwardFails(kind, o, Env)) = "invalid"
             \/ RefuseUnpublishedStorageClass(o) = "invalid"
             \/ RefuseUnpublishedVolumeAttributesClass(o, Absent) = "invalid"
             \/ RefuseTenantChosenNode(o) = "invalid"
             \/ RefuseExternalNameService(o) = "invalid"
             \/ RefuseUnpublishedEphemeralClasses(o, Absent) = "invalid"
             \/ RefuseNewExternalIPs(o, Absent) = "invalid"
             \/ RefuseNodePorts(o, Absent) = "invalid"
             \/ RefuseForeignClusterIP(o, Absent) = "invalid"
<1>. TAKE o
<1>01. PICK a1, a2, a3, a4, a5, a6, a7, a8, a9 :
        /\ a1 = InvalidIf(ForwardFails(kind, o, Env)) /\ a2 = RefuseUnpublishedStorageClass(o)
        /\ a3 = RefuseUnpublishedVolumeAttributesClass(o, Absent) /\ a4 = RefuseTenantChosenNode(o)
        /\ a5 = RefuseExternalNameService(o) /\ a6 = RefuseUnpublishedEphemeralClasses(o, Absent)
        /\ a7 = RefuseNewExternalIPs(o, Absent) /\ a8 = RefuseNodePorts(o, Absent)
        /\ a9 = RefuseForeignClusterIP(o, Absent)
  BY Zenon
<1>02. PICK a : a = <<a1, a2, a3, a4, a5, a6, a7, a8, a9>>
  BY Zenon
<1>1. CreateAnswer(o) = First(a)
  BY ZenonT(60), <1>01, <1>02 DEF CreateAnswer
<1>2. /\ DOMAIN a = 1..9 /\ a[1] = a1 /\ a[2] = a2 /\ a[3] = a3 /\ a[4] = a4 /\ a[5] = a5
      /\ a[6] = a6 /\ a[7] = a7 /\ a[8] = a8 /\ a[9] = a9
  BY <1>02
<1>3. \A i \in 1..9 : i = 1 \/ i = 2 \/ i = 3 \/ i = 4 \/ i = 5 \/ i = 6 \/ i = 7 \/ i = 8 \/ i = 9
  OBVIOUS
<1>4. /\ First(a) = "none" <=> \A i \in 1..9 : a[i] = "none"
      /\ First(a) # "none" => \E i \in 1..9 : First(a) = a[i]
  <2>1. DOMAIN a \subseteq 1..9
    BY <1>2
  <2>2. /\ First(a) = "none" <=> \A i \in DOMAIN a : a[i] = "none"
        /\ First(a) # "none" => \E i \in DOMAIN a : First(a) = a[i]
    BY ZenonT(60), <2>1, FirstFacts
  <2>3. DOMAIN a = 1..9
    BY SMTT(60), <1>2
  <2>. QED  BY ZenonT(60), <2>2, <2>3
<1>5. ASSUME First(a) = "none"
      PROVE  /\ a1 = "none" /\ a2 = "none" /\ a3 = "none" /\ a4 = "none" /\ a5 = "none"
             /\ a6 = "none" /\ a7 = "none" /\ a8 = "none"
  BY SMTT(60), <1>2, <1>4, <1>5
<1>6. ASSUME First(a) = "invalid"
      PROVE  \/ a1 = "invalid" \/ a2 = "invalid" \/ a3 = "invalid" \/ a4 = "invalid"
             \/ a5 = "invalid" \/ a6 = "invalid" \/ a7 = "invalid" \/ a8 = "invalid"
             \/ a9 = "invalid"
  BY <1>2, <1>3, <1>4, <1>6
<1>. QED  BY ZenonT(60), <1>01, <1>1, <1>5, <1>6, InvalidFacts

\* An update is accepted if no rule refuses it.
LEMMA UpdateFacts ==
    \A o, old :
        UpdateAnswer(o, old) = "none" <=>
             /\ RefuseUnpublishedVolumeAttributesClass(o, old) = "none"
             /\ RefuseExternalNameService(o) = "none"
             /\ RefuseUnpublishedEphemeralClasses(o, old) = "none"
             /\ RefuseNewExternalIPs(o, old) = "none"
             /\ RefuseForeignClusterIP(o, old) = "none"
             /\ RefuseNodePorts(o, old) = "none"
             /\ ~ForwardFails(kind, o, Env)
<1>. TAKE o, old
<1>01. PICK a1, a2, a3, a4, a5, a6, a7 :
        /\ a1 = RefuseUnpublishedVolumeAttributesClass(o, old) /\ a2 = RefuseExternalNameService(o)
        /\ a3 = RefuseUnpublishedEphemeralClasses(o, old) /\ a4 = RefuseNewExternalIPs(o, old)
        /\ a5 = RefuseForeignClusterIP(o, old) /\ a6 = RefuseNodePorts(o, old)
        /\ a7 = InvalidIf(ForwardFails(kind, o, Env))
  BY Zenon
<1>02. PICK a : a = <<a1, a2, a3, a4, a5, a6, a7>>
  BY Zenon
<1>1. UpdateAnswer(o, old) = First(a)
  BY ZenonT(60), <1>01, <1>02 DEF UpdateAnswer
<1>2. /\ DOMAIN a = 1..7 /\ a[1] = a1 /\ a[2] = a2 /\ a[3] = a3 /\ a[4] = a4 /\ a[5] = a5
      /\ a[6] = a6 /\ a[7] = a7
  BY <1>02
<1>4. First(a) = "none" <=> \A i \in 1..7 : a[i] = "none"
  <2>1. DOMAIN a \subseteq 1..9
    BY <1>2
  <2>2. First(a) = "none" <=> \A i \in DOMAIN a : a[i] = "none"
    BY ZenonT(60), <2>1, FirstFacts
  <2>3. DOMAIN a = 1..7
    BY <1>2
  <2>. QED  BY ZenonT(60), <2>2, <2>3
<1>5. (\A i \in 1..7 : a[i] = "none") <=>
        /\ a1 = "none" /\ a2 = "none" /\ a3 = "none" /\ a4 = "none" /\ a5 = "none"
        /\ a6 = "none" /\ a7 = "none"
  BY <1>2
<1>. QED  BY ZenonT(60), <1>01, <1>1, <1>4, <1>5, InvalidFacts

\* A class that is let through was offered, and one that has been offered all
\* along is not refused for good.
LEMMA OfferFacts ==
    CacheInv => \A s \in Sets : \A n :
        /\ RefuseUnpublishedClass(s, n) = "none" =>
             n = Empty \/ s \in static \/ "true" \in carried[s]
        /\ RefuseUnpublishedClass(s, n) = "invalid" /\ n \in {Empty, ClassOf(s)} =>
             n # Empty /\ s \notin static /\ carried[s] # {"true"}
<1>. HAVE CacheInv
<1>. TAKE s \in Sets
<1>. TAKE n
<1>1. seen[s] \in {"none", "true", "deprecated"} /\ (s \in synced => seen[s] \in carried[s])
  BY DEF CacheInv, Published
<1>. PICK v : v = seen[s]
  OBVIOUS
<1>2. ASSUME RefuseUnpublishedClass(s, n) = "none", n # Empty, s \notin static
      PROVE  "true" \in carried[s]
  <2>1. s \in synced /\ Visible(s, n) /\ ~Retired(s, n)
    BY <1>2 DEF RefuseUnpublishedClass, HasSynced
  <2>2. Value(s, n) # "none" /\ Value(s, n) # "deprecated"
    BY Zenon, <1>2, <2>1 DEF Visible, Retired, IsStatic
  <2>3. Value(s, n) = v
    BY Zenon, <2>2 DEF Value
  <2>. QED  BY ZenonT(60), <1>1, <2>1, <2>2, <2>3
<1>3. ASSUME RefuseUnpublishedClass(s, n) = "invalid", n \in {Empty, ClassOf(s)}
      PROVE  n # Empty /\ s \notin static /\ carried[s] # {"true"}
  <2>1. n # Empty /\ s \in synced /\ (~Visible(s, n) \/ Retired(s, n))
    BY <1>3 DEF RefuseUnpublishedClass, HasSynced
  <2>2. n = ClassOf(s)
    BY Zenon, <1>3, <2>1
  <2>3. s \notin static /\ (Value(s, n) = "none" \/ Value(s, n) = "deprecated")
    BY Zenon, <2>1, <2>2 DEF Visible, Retired, IsStatic
  <2>4. Value(s, n) = v
    BY Zenon, <2>1, <2>2 DEF Value
  <2>5. "none" # "true" /\ "deprecated" # "true"
    OBVIOUS
  <2>. QED  BY ZenonT(60), <1>1, <2>1, <2>3, <2>4, <2>5
<1>. QED  BY ZenonT(60), <1>2, <1>3

=============================================================================
