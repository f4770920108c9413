-------------------------- MODULE TenantListProofs --------------------------
(***************************************************************************)
(* That the pages of TenantList are a snapshot: the module implements      *)
(* SnapshotList, whatever the sizes of the constants.                      *)
(***************************************************************************)
EXTENDS TenantList, FiniteSetTheorems, SequenceTheorems, WellFoundedInduction, TLAPS

-----------------------------------------------------------------------------
(* Ranks and enumerations of finite sets of numbers.                       *)

\* How many elements of S are below x.
Rank(S, x) == Cardinality({y \in S : y < x})

LEMMA Least ==
    ASSUME NEW T, T \subseteq Nat, T # {}
    PROVE  \E x \in T : \A y \in T : x <= y
<1> DEFINE R == {p \in Nat \X Nat : p[1] < p[2]}
<1>1. IsWellFoundedOn(R, Nat)
  BY NatLessThanWellFounded DEF OpToRel
<1>2. \A x \in Nat, y \in Nat : <<y, x>> \in R <=> y < x
  OBVIOUS
<1> HIDE DEF R
<1>3. PICK x \in T : \A y \in T : ~(<<y, x>> \in R)
  BY ZenonT(60), <1>1, WFMin
<1>4. \A y \in T : x \in Nat /\ y \in Nat /\ ~(y < x)
  BY ZenonT(60), <1>2, <1>3
<1> QED BY <1>4

LEMMA RankRange ==
    ASSUME NEW S, S \subseteq Nat, IsFiniteSet(S), NEW x \in S
    PROVE  Rank(S, x) \in Nat /\ Cardinality(S) \in Nat /\ Rank(S, x) < Cardinality(S)
<1> DEFINE L == {y \in S : y < x}
<1>1. L \subseteq S \ {x} /\ L \subseteq S
  OBVIOUS
<1>2. /\ IsFiniteSet(S \ {x})
      /\ Cardinality(S \ {x}) = Cardinality(S) - 1
      /\ Cardinality(S) \in Nat
  BY FS_RemoveElement, FS_CardinalityType
<1>3. Cardinality(L) <= Cardinality(S \ {x}) /\ Cardinality(L) \in Nat
  BY <1>1, <1>2, FS_Subset, FS_CardinalityType
<1> QED BY <1>2, <1>3 DEF Rank

LEMMA RankOfZero ==
    ASSUME NEW S, S \subseteq Nat
    PROVE  Rank(S, 0) = 0
<1>1. \A y \in S : ~(y < 0)
  OBVIOUS
<1>2. {y \in S : y < 0} = {}
  BY ZenonT(60), <1>1
<1> QED BY <1>2, FS_EmptySet DEF Rank

LEMMA RankOrder ==
    ASSUME NEW S, S \subseteq Nat, IsFiniteSet(S), NEW x \in S, NEW y \in S, x < y
    PROVE  Rank(S, x) < Rank(S, y)
<1> DEFINE L == {z \in S : z < x}
           U == {z \in S : z < y}
<1>1. L \subseteq U /\ x \in U /\ x \notin L /\ U \subseteq S
  <2>1. x \in Nat /\ y \in Nat /\ \A z \in S : z \in Nat
    OBVIOUS
  <2>2. ASSUME NEW z \in L PROVE z \in U
    BY <2>1
  <2>3. x \in U /\ x \notin L
    BY <2>1
  <2> QED BY ZenonT(60), <2>2, <2>3
<1>2. IsFiniteSet(U) /\ IsFiniteSet(L)
  BY <1>1, FS_Subset
<1>3. Cardinality(L \cup {x}) = Cardinality(L) + 1 /\ IsFiniteSet(L \cup {x})
  BY ZenonT(60), <1>1, <1>2, FS_AddElement
<1>4. Cardinality(L \cup {x}) <= Cardinality(U)
  BY <1>1, <1>2, FS_Subset
<1>5. Cardinality(L) \in Nat /\ Cardinality(U) \in Nat
  BY <1>2, FS_CardinalityType
<1> QED BY <1>3, <1>4, <1>5 DEF Rank

\* Elements of the same rank are the same, and a lower rank is a smaller element.
LEMMA RankTells ==
    ASSUME NEW S, S \subseteq Nat, IsFiniteSet(S), NEW x \in S, NEW y \in S
    PROVE  /\ Rank(S, x) = Rank(S, y) => x = y
           /\ Rank(S, x) < Rank(S, y) => x < y
<1>1. x \in Nat /\ y \in Nat /\ Rank(S, x) \in Nat /\ Rank(S, y) \in Nat
  BY ZenonT(60), RankRange
<1>2. (x < y => Rank(S, x) < Rank(S, y)) /\ (y < x => Rank(S, y) < Rank(S, x))
  BY ZenonT(60), RankOrder
<1> QED BY <1>1, <1>2

\* s has every element of S once, the one of rank i - 1 at i.
Enumerates(s, S) ==
    /\ Cardinality(S) \in Nat
    /\ s \in Seq(S) /\ Len(s) = Cardinality(S) /\ DOMAIN s = 1..Cardinality(S)
    /\ \A i \in 1..Cardinality(S) : s[i] \in S
    /\ \A i, j \in 1..Cardinality(S) : i < j => s[i] < s[j]
    /\ \A x \in S : \E i \in 1..Cardinality(S) : s[i] = x
    /\ \A i \in 1..Cardinality(S) : Rank(S, s[i]) = i - 1

LEMMA Enumeration ==
    ASSUME NEW S, S \subseteq Nat, IsFiniteSet(S), NEW s \in Ascending(S)
    PROVE  Enumerates(s, S)
<1> DEFINE n == Cardinality(S)
<1>1. n \in Nat
  BY FS_CardinalityType
<1>2. s \in [1..n -> S] /\ \A i, j \in 1..n : i < j => s[i] < s[j]
  BY DEF Ascending
<1> HIDE DEF n
<1>3. s \in Seq(S) /\ Len(s) = n /\ DOMAIN s = 1..n
  <2>1. DOMAIN s = 1..n /\ \A i \in 1..n : s[i] \in S
    BY <1>2
  <2>2. s \in Seq(S)
    BY <1>1, <1>2, SeqDef, SMT
  <2> QED BY <2>1, <2>2, <1>1
<1>4. \A i, j \in 1..n : s[i] = s[j] => i = j
  <2> SUFFICES ASSUME NEW i \in 1..n, NEW j \in 1..n, i # j PROVE s[i] # s[j]
    OBVIOUS
  <2>1. i < j \/ j < i
    OBVIOUS
  <2>3. s[i] \in Nat /\ s[j] \in Nat
    BY ZenonT(60), <1>2
  <2>2. s[i] < s[j] \/ s[j] < s[i]
    BY <1>2, <2>1
  <2> QED BY <2>2, <2>3
<1>5. IsFiniteSet(1..n) /\ Cardinality(1..n) = n
  BY <1>1, FS_Interval
<1>6. s \in Surjection(1..n, S)
  <2>1. s \in Injection(1..n, S)
    BY <1>2, <1>4 DEF Injection, IsInjective
  <2> QED BY <2>1, <1>5, FS_Injection DEF n
<1>7. \A x \in S : \E i \in 1..n : s[i] = x
  BY <1>6 DEF Surjection
<1>8. ASSUME NEW i \in 1..n PROVE Rank(S, s[i]) = i - 1
  <2> DEFINE L == {y \in S : y < s[i]}
             f == [j \in 1..(i - 1) |-> s[j]]
  <2>1. i \in Nat /\ i - 1 \in Nat /\ 1..(i - 1) \subseteq 1..n
    BY <1>1
  <2>2. \A j \in 1..(i - 1) : s[j] \in L
    BY <1>1, <1>2
  <2>3. \A y \in L : \E j \in 1..(i - 1) : s[j] = y
    <3> SUFFICES ASSUME NEW y \in L PROVE \E j \in 1..(i - 1) : s[j] = y
      OBVIOUS
    <3>1. PICK j \in 1..n : s[j] = y
      BY <1>7
    <3>2. ~(i < j) /\ i # j
      <4>1. s[i] \in Nat /\ s[j] \in Nat /\ s[j] < s[i]
        BY ZenonT(60), <3>1, <1>2
      <4> QED BY <4>1, <1>2
    <3> QED BY <3>1, <3>2, <1>1
  <2>4. f \in Bijection(1..(i - 1), L)
    <3>1. f \in [1..(i - 1) -> L]
      BY <2>2
    <3>2. \A j, k \in 1..(i - 1) : f[j] = f[k] => j = k
      BY <2>1, <1>4
    <3>3. \A y \in L : \E j \in 1..(i - 1) : f[j] = y
      BY <2>3
    <3> QED BY <3>1, <3>2, <3>3 DEF Bijection, Injection, IsInjective, Surjection
  <2>5. IsFiniteSet(1..(i - 1)) /\ Cardinality(1..(i - 1)) = i - 1
    BY <2>1, FS_Interval
  <2> HIDE DEF L, f
  <2>6. Cardinality(L) = i - 1
    BY <2>4, <2>5, FS_Bijection DEF ExistsBijection
  <2> QED BY <2>6 DEF Rank, L
<1> QED BY <1>1, <1>2, <1>3, <1>7, <1>8 DEF n, Enumerates

-----------------------------------------------------------------------------
(* A page of a set of names.                                               *)

\* A page is a beginning of the set; one that leaves something out is full.
LEMMA FirstOfIs ==
    ASSUME NEW S, S \subseteq Nat, IsFiniteSet(S), NEW n \in Nat
    PROVE  LET page == FirstOf(S, n) IN
           /\ page \subseteq S /\ IsFiniteSet(page)
           /\ n = 0 => page = S
           /\ \A x \in page, y \in S : y < x => y \in page
           /\ page # S => n # 0 /\ Cardinality(page) >= n /\ page # {}
<1> DEFINE page == FirstOf(S, n)
<1>1. page \subseteq S /\ IsFiniteSet(page) /\ Cardinality(page) \in Nat
  <2>1. page \subseteq S
    BY DEF FirstOf
  <2> QED BY <2>1, FS_Subset, FS_CardinalityType
<1>2. n = 0 => page = S
  BY DEF FirstOf
<1>3. \A x \in S : x \in page <=> n = 0 \/ Rank(S, x) < n
  BY DEF FirstOf, Rank
<1>4. ASSUME NEW x \in page, NEW y \in S, y < x PROVE y \in page
  <2>1. x \in S /\ Rank(S, y) < Rank(S, x) /\ Rank(S, x) \in Nat /\ Rank(S, y) \in Nat
    BY ZenonT(60), <1>1, <1>4, RankOrder, RankRange
  <2> QED BY <2>1, <1>3
<1>5. ASSUME page # S PROVE n # 0 /\ Cardinality(page) >= n /\ page # {}
  <2>1. S \ page # {} /\ S \ page \subseteq Nat
    BY ZenonT(60), <1>5, <1>1
  <2> HIDE DEF page
  <2>2. PICK x \in S \ page : \A y \in S \ page : x <= y
    BY ZenonT(60), <2>1, Least
  <2>3. n # 0 /\ ~(Rank(S, x) < n) /\ Rank(S, x) \in Nat
    BY ZenonT(60), <1>2, <1>3, <1>5, RankRange
  <2>4. {y \in S : y < x} \subseteq page
    <3> SUFFICES ASSUME NEW y \in S, y < x, y \notin page PROVE FALSE
      BY ZenonT(60)
    <3>1. x <= y /\ x \in Nat /\ y \in Nat
      BY <2>2
    <3> QED BY <3>1
  <2>5. Rank(S, x) <= Cardinality(page)
    BY <2>4, <1>1, FS_Subset DEF Rank
  <2>6. page = {} => Cardinality(page) = 0
    BY FS_EmptySet
  <2> QED BY <2>3, <2>5, <2>6, <1>1
<1> QED BY <1>1, <1>2, <1>4, <1>5

\* What upstream's token says: it names the last of the page, and what is left
\* up to there is the page.
LEMMA TokenAfterIs ==
    ASSUME NEW S, S \subseteq Nat, IsFiniteSet(S), NEW n \in Nat, NEW rev \in Nat,
           NEW page, page = FirstOf(S, n), page # S,
           NEW t, t = TokenAfter(page, S, rev)
    PROVE  /\ t.rev = rev /\ t.after \in page /\ t \in Inner
           /\ \A x \in S : x \in page <=> x <= t.after
<1>1. page \subseteq S /\ page # {} /\ \A x \in page, y \in S : y < x => y \in page
  BY ZenonT(60), FirstOfIs
<1>2. \E x \in page : \A y \in page : y <= x
  <2> DEFINE T == {b \in Nat : \A y \in page : y <= b}
  <2>1. PICK x \in S : x \notin page
    BY ZenonT(60), <1>1
  <2>2. x \in T
    <3>1. \A y \in page : ~(x < y) /\ y \in Nat /\ x \in Nat
      BY <1>1, <2>1
    <3> QED BY <3>1
  <2>3. PICK b \in T : \A c \in T : b <= c
    <3>1. T \subseteq Nat /\ T # {}
      BY <2>2
    <3> HIDE DEF T
    <3> QED BY ZenonT(60), <3>1, Least
  <2>4. b \in page
    <3> SUFFICES ASSUME b \notin page PROVE FALSE
      OBVIOUS
    <3>1. \A y \in page : y \in Nat /\ y < b
      BY <1>1, <2>3
    <3>2. PICK y \in page : TRUE
      BY ZenonT(60), <1>1
    <3>3. b \in Nat /\ b - 1 \in Nat
      BY <3>1, <3>2
    <3>4. b - 1 \in T
      BY <3>1, <3>3
    <3> QED BY <3>3, <3>4, <2>3
  <2> QED BY <2>3, <2>4
<1> DEFINE last == CHOOSE x \in page : \A y \in page : y <= x
<1>3. last \in page /\ \A y \in page : y <= last
  BY <1>2
<1> HIDE DEF last
<1>4. ASSUME NEW x \in S PROVE x \in page <=> x <= last
  <2>1. x \in Nat /\ last \in Nat /\ last \in S
    BY <1>1, <1>3
  <2>2. x <= last => x < last \/ x = last
    BY <2>1
  <2> QED BY <2>2, <1>1, <1>3
<1>5. t = [rev |-> rev, after |-> last]
  BY DEF TokenAfter, last
<1>6. last \in Nat /\ [rev |-> rev, after |-> last] \in Inner
  BY <1>1, <1>3 DEF Inner
<1> QED BY <1>3, <1>4, <1>5, <1>6

-----------------------------------------------------------------------------
(* Sequences of keys.                                                      *)

Items(s) == {s[i] : i \in DOMAIN s}

\* s is the keys of X in key order, each once.
Runs(s, X) ==
    /\ s \in Seq(Keys)
    /\ Items(s) = X
    /\ \A i, j \in DOMAIN s : i < j => KeyLess(s[i], s[j])

LEMMA KeysAre ==
    ASSUME NEW k \in Keys
    PROVE  k[1] \in Nat /\ k[2] \in Names /\ k[2] \in Nat /\ k[2] > 0 /\ k = <<k[1], k[2]>>
<1>1. Keys = (Spaces \X Names) \cup ({0} \X Names)
  BY DEF Keys, KeysOf
<1>2. PICK a \in Spaces \cup {0}, b \in Names : k = <<a, b>>
  BY <1>1
<1>3. a \in Nat /\ b \in Nat /\ b > 0
  BY ListAssumption
<1> QED BY <1>2, <1>3

\* Two runs, one before the other, put together.
LEMMA RunsJoin ==
    ASSUME NEW s, NEW t, NEW X, NEW Y, Runs(s, X), Runs(t, Y),
           \A k \in X, l \in Y : KeyLess(k, l)
    PROVE  Runs(s \o t, X \cup Y)
<1> DEFINE u == s \o t
<1>1. s \in Seq(Keys) /\ t \in Seq(Keys)
  BY DEF Runs
<1>2. /\ u \in Seq(Keys) /\ DOMAIN u = 1..(Len(s) + Len(t))
      /\ DOMAIN s = 1..Len(s) /\ DOMAIN t = 1..Len(t)
      /\ Len(s) \in Nat /\ Len(t) \in Nat
  BY <1>1
<1>3. \A i \in 1..(Len(s) + Len(t)) :
          u[i] = IF i <= Len(s) THEN s[i] ELSE t[i - Len(s)]
  BY <1>1
<1> HIDE DEF u
<1>4. Items(u) = X \cup Y
  <2>1. ASSUME NEW k \in Items(u) PROVE k \in X \cup Y
    <3>1. PICK i \in 1..(Len(s) + Len(t)) : k = u[i]
      BY <1>2 DEF Items
    <3>2. CASE i <= Len(s)
      <4>1. k = s[i] /\ i \in DOMAIN s
        BY SMTT(60), <3>1, <3>2, <1>2, <1>3
      <4> QED BY <4>1 DEF Runs, Items
    <3>3. CASE ~(i <= Len(s))
      <4>1. k = t[i - Len(s)] /\ i - Len(s) \in DOMAIN t
        BY SMTT(60), <3>1, <3>3, <1>2, <1>3
      <4> QED BY <4>1 DEF Runs, Items
    <3> QED BY <3>2, <3>3
  <2>2. ASSUME NEW k \in X PROVE k \in Items(u)
    <3>1. PICK i \in DOMAIN s : k = s[i]
      BY DEF Runs, Items
    <3>2. i \in DOMAIN u /\ u[i] = k
      BY <3>1, <1>2, <1>3
    <3> QED BY <3>2 DEF Items
  <2>3. ASSUME NEW k \in Y PROVE k \in Items(u)
    <3>1. PICK i \in DOMAIN t : k = t[i]
      BY DEF Runs, Items
    <3>2. i + Len(s) \in DOMAIN u /\ u[i + Len(s)] = k
      BY SMTT(60), <3>1, <1>2, <1>3
    <3> QED BY <3>2 DEF Items
  <2> QED BY <2>1, <2>2, <2>3
<1>5. ASSUME NEW i \in DOMAIN u, NEW j \in DOMAIN u, i < j
      PROVE  KeyLess(u[i], u[j])
  <2>1. CASE j <= Len(s)
    <3>1. i \in DOMAIN s /\ j \in DOMAIN s /\ u[i] = s[i] /\ u[j] = s[j]
      BY SMTT(60), <2>1, <1>2, <1>3, <1>5
    <3> QED BY <3>1, <1>5 DEF Runs
  <2>2. CASE ~(j <= Len(s)) /\ i <= Len(s)
    <3>1. /\ i \in DOMAIN s /\ j - Len(s) \in DOMAIN t
          /\ u[i] = s[i] /\ u[j] = t[j - Len(s)]
      BY <2>2, <1>2, <1>3
    <3>2. s[i] \in X /\ t[j - Len(s)] \in Y
      BY <3>1 DEF Runs, Items
    <3> QED BY <3>1, <3>2
  <2>3. CASE ~(i <= Len(s))
    <3>1. /\ i - Len(s) \in DOMAIN t /\ j - Len(s) \in DOMAIN t /\ i - Len(s) < j - Len(s)
          /\ u[i] = t[i - Len(s)] /\ u[j] = t[j - Len(s)]
      BY <2>3, <1>2, <1>3, <1>5
    <3> QED BY <3>1 DEF Runs
  <2> QED BY ZenonT(60), <2>1, <2>2, <2>3
<1> QED BY <1>2, <1>4, <1>5 DEF Runs, u

LEMMA RunsEmpty == Runs(<<>>, {})
  BY DEF Runs, Items

KeysIn(ns, P) == {<<ns, x>> : x \in P}

\* The keys of one namespace's names.
LEMMA RunsNames ==
    ASSUME NEW ns \in Spaces \cup {0}, NEW P, P \subseteq Names, NEW names \in Ascending(P)
    PROVE  LET s == [i \in DOMAIN names |-> <<ns, names[i]>>] IN
           Runs(s, KeysIn(ns, P)) /\ Len(s) = Cardinality(P)
<1> DEFINE s == [i \in DOMAIN names |-> <<ns, names[i]>>]
           n == Cardinality(P)
<1>1. P \subseteq Nat /\ IsFiniteSet(P)
  BY ZenonT(60), ListAssumption, FS_Subset
<1>2. /\ n \in Nat /\ DOMAIN names = 1..n /\ \A i \in 1..n : names[i] \in P
      /\ \A i, j \in 1..n : i < j => names[i] < names[j]
      /\ \A x \in P : \E i \in 1..n : names[i] = x
  <2>1. Enumerates(names, P)
    BY ZenonT(60), <1>1, Enumeration
  <2> QED BY <2>1 DEF Enumerates
<1> HIDE DEF n
<1>3. \A i \in 1..n : <<ns, names[i]>> \in Keys
  BY <1>2 DEF Keys, KeysOf
<1>4. s \in [1..n -> Keys] /\ DOMAIN s = 1..n
  BY <1>2, <1>3
<1>5. s \in Seq(Keys) /\ Len(s) = n
  BY <1>2, <1>4
<1>6. \A i \in 1..n : s[i] = <<ns, names[i]>>
  BY <1>2
<1> HIDE DEF s
<1>7. Items(s) = KeysIn(ns, P)
  <2>1. ASSUME NEW k \in Items(s) PROVE k \in KeysIn(ns, P)
    <3>1. PICK i \in 1..n : k = s[i]
      BY <1>4 DEF Items
    <3> QED BY ZenonT(60), <3>1, <1>2, <1>6 DEF KeysIn
  <2>2. ASSUME NEW x \in P PROVE <<ns, x>> \in Items(s)
    BY <1>2, <1>4, <1>6 DEF Items
  <2> QED BY <2>1, <2>2 DEF KeysIn
<1>8. ASSUME NEW i \in 1..n, NEW j \in 1..n, i < j PROVE KeyLess(s[i], s[j])
  BY <1>2, <1>6, <1>8 DEF KeyLess
<1> QED BY ZenonT(60), <1>4, <1>5, <1>7, <1>8 DEF Runs, s, n

\* What is shown of a run.
LEMMA RunsFiltered ==
    ASSUME NEW s, NEW X, Runs(s, X), NEW t \in Filtered(s)
    PROVE  Runs(t, {k \in X : Shown(k)})
<1> DEFINE I == {i \in DOMAIN s : Shown(s[i])}
           n == Cardinality(I)
<1>1. s \in Seq(Keys) /\ DOMAIN s = 1..Len(s) /\ Len(s) \in Nat
      /\ \A i \in 1..Len(s) : s[i] \in Keys
  BY DEF Runs
<1>2. I \subseteq Nat /\ I \subseteq DOMAIN s /\ IsFiniteSet(I)
  <2>1. I \subseteq Nat /\ I \subseteq 1..Len(s)
    BY <1>1
  <2>2. IsFiniteSet(1..Len(s))
    BY <1>1, FS_Interval
  <2> HIDE DEF I
  <2> QED BY ZenonT(60), <2>1, <2>2, <1>1, FS_Subset
<1>3. PICK kept \in Ascending(I) : t = [j \in DOMAIN kept |-> s[kept[j]]]
  BY DEF Filtered
<1>i. \A i \in I : Shown(s[i]) /\ s[i] \in X /\ s[i] \in Keys /\ i \in DOMAIN s
  BY <1>1 DEF Runs, Items
<1>j. \A k \in X : Shown(k) => \E i \in I : s[i] = k
  BY DEF Runs, Items
<1> HIDE DEF I
<1>4. /\ n \in Nat /\ DOMAIN kept = 1..n /\ \A i \in 1..n : kept[i] \in I
      /\ \A i, j \in 1..n : i < j => kept[i] < kept[j]
      /\ \A x \in I : \E i \in 1..n : kept[i] = x
  <2>1. Enumerates(kept, I)
    BY ZenonT(60), <1>2, Enumeration
  <2> QED BY <2>1 DEF Enumerates
<1> HIDE DEF n
<1>5. t \in [1..n -> Keys] /\ \A i \in 1..n : t[i] = s[kept[i]]
  BY <1>3, <1>4, <1>i
<1>6. t \in Seq(Keys) /\ DOMAIN t = 1..n
  BY <1>4, <1>5
<1>7. Items(t) = {k \in X : Shown(k)}
  <2>1. ASSUME NEW k \in Items(t) PROVE k \in X /\ Shown(k)
    BY <1>4, <1>5, <1>6, <1>i DEF Items
  <2>2. ASSUME NEW k \in X, Shown(k) PROVE k \in Items(t)
    <3>1. PICK i \in I : s[i] = k
      BY <1>j, <2>2
    <3>2. PICK j \in 1..n : kept[j] = i
      BY <1>4
    <3> QED BY ZenonT(60), <3>1, <3>2, <1>5, <1>6 DEF Items
  <2> QED BY <2>1, <2>2
<1>8. ASSUME NEW i \in 1..n, NEW j \in 1..n, i < j PROVE KeyLess(t[i], t[j])
  <2>1. kept[i] \in DOMAIN s /\ kept[j] \in DOMAIN s /\ kept[i] < kept[j]
    BY ZenonT(60), <1>4, <1>i, <1>8
  <2> QED BY <2>1, <1>5 DEF Runs
<1> QED BY <1>6, <1>7, <1>8 DEF Runs

-----------------------------------------------------------------------------
(* How far a list has come.                                                *)

\* A state of the cluster: the namespaces of objects exist, and the objects are
\* of one kind, all namespaced or all cluster-scoped.
Whole(w) ==
    /\ w \in Worlds
    /\ \A k \in w.objects : k[1] \in w.spaces \cup {0}
    /\ \A k, l \in w.objects : k[1] = 0 <=> l[1] = 0

\* The objects of w that come before the place <<i, a>>: those of the first i
\* namespaces, and those of the next with names up to a.
Gone(w, i, a) ==
    {k \in w.objects : \/ Rank(w.spaces, k[1]) < i
                       \/ Rank(w.spaces, k[1]) = i /\ k[2] <= a}

ShownOf(X) == {k \in X : Shown(k)}

LEMMA WholeIs ==
    ASSUME NEW w, Whole(w)
    PROVE  /\ w.spaces \subseteq Spaces /\ w.spaces \subseteq Nat \ {0}
           /\ IsFiniteSet(w.spaces) /\ Cardinality(w.spaces) \in Nat
           /\ w.objects \subseteq Keys
           /\ \A k \in w.objects :
                  /\ k[1] \in Nat /\ k[2] \in Names /\ k[2] \in Nat /\ k[2] > 0
                  /\ k = <<k[1], k[2]>>
                  /\ Rank(w.spaces, k[1]) \in Nat
                  /\ k[1] # 0 => k[1] \in w.spaces
                  /\ k[1] # 0 => Rank(w.spaces, k[1]) < Cardinality(w.spaces)
                  /\ k[1] = 0 => Rank(w.spaces, k[1]) = 0
<1>1. w.spaces \subseteq Spaces /\ w.objects \subseteq Keys
  BY DEF Whole, Worlds
<1>2. w.spaces \subseteq Nat \ {0} /\ IsFiniteSet(w.spaces) /\ Cardinality(w.spaces) \in Nat
  BY ZenonT(60), <1>1, ListAssumption, FS_Subset, FS_CardinalityType
<1>3. Rank(w.spaces, 0) = 0
  BY <1>2, RankOfZero
<1>4. ASSUME NEW k \in w.objects
      PROVE  /\ k[1] \in Nat /\ k[2] \in Names /\ k[2] \in Nat /\ k[2] > 0
             /\ k = <<k[1], k[2]>>
             /\ Rank(w.spaces, k[1]) \in Nat
             /\ k[1] # 0 => k[1] \in w.spaces
             /\ k[1] # 0 => Rank(w.spaces, k[1]) < Cardinality(w.spaces)
             /\ k[1] = 0 => Rank(w.spaces, k[1]) = 0
  <2>1. k[1] \in Nat /\ k[2] \in Names /\ k[2] \in Nat /\ k[2] > 0 /\ k = <<k[1], k[2]>>
    BY <1>1, KeysAre
  <2>2. k[1] # 0 => k[1] \in w.spaces
    BY DEF Whole
  <2>3. k[1] # 0 => /\ Rank(w.spaces, k[1]) \in Nat
                    /\ Rank(w.spaces, k[1]) < Cardinality(w.spaces)
    BY ZenonT(60), <1>2, <2>2, RankRange
  <2> QED BY <2>1, <2>2, <2>3, <1>3
<1> QED BY <1>1, <1>2, <1>4

\* What has been gone through comes before what has not.
LEMMA GoneFirst ==
    ASSUME NEW w, Whole(w), NEW i \in Nat, NEW a \in Nat,
           NEW k \in Gone(w, i, a), NEW l \in w.objects, l \notin Gone(w, i, a)
    PROVE  KeyLess(k, l)
<1> DEFINE S == w.spaces
           p == Rank(S, k[1])
           q == Rank(S, l[1])
<1>1. k \in w.objects /\ S \subseteq Nat /\ IsFiniteSet(S)
  BY ZenonT(60), WholeIs DEF Gone
<1>2. /\ k[1] \in Nat /\ k[2] \in Nat /\ l[1] \in Nat /\ l[2] \in Nat
      /\ p \in Nat /\ q \in Nat
  BY ZenonT(60), <1>1, WholeIs
<1>3. (p < i \/ (p = i /\ k[2] <= a)) /\ ~(q < i \/ (q = i /\ l[2] <= a))
  BY ZenonT(60) DEF Gone
<1>4. (k[1] \in S /\ l[1] \in S) \/ k[1] = l[1]
  <2>1. (k[1] # 0 => k[1] \in S) /\ (l[1] # 0 => l[1] \in S)
    BY ZenonT(60), <1>1, WholeIs
  <2>2. k[1] = 0 <=> l[1] = 0
    BY ZenonT(60), <1>1 DEF Whole
  <2> QED BY ZenonT(60), <2>1, <2>2
<1>5. (p = q => k[1] = l[1]) /\ (p < q => k[1] < l[1] \/ k[1] = l[1])
  <2>1. CASE k[1] = l[1]
    BY ZenonT(60), <2>1
  <2>2. CASE k[1] \in S /\ l[1] \in S
    BY ZenonT(60), <2>2, <1>1, RankTells
  <2> QED BY ZenonT(60), <2>1, <2>2, <1>4
<1>6. k[1] = l[1] => p = q
  OBVIOUS
<1> HIDE DEF p, q
<1> QED BY SMTT(60), <1>2, <1>3, <1>5, <1>6 DEF KeyLess

\* Where a list begins and ends.
LEMMA GoneEnds ==
    ASSUME NEW w, Whole(w), NEW a \in Nat
    PROVE  /\ Gone(w, 0, 0) = {}
           /\ (\A k \in w.objects : k[1] # 0) => Gone(w, Cardinality(w.spaces), a) = w.objects
           /\ (\A k \in w.objects : k[1] = 0) => Gone(w, 1, 0) = w.objects
<1>1. Gone(w, 0, 0) = {}
  BY WholeIs DEF Gone
<1>2. ASSUME \A k \in w.objects : k[1] # 0
      PROVE  Gone(w, Cardinality(w.spaces), a) = w.objects
  <2>1. \A k \in w.objects : Rank(w.spaces, k[1]) < Cardinality(w.spaces)
    BY <1>2, WholeIs
  <2> QED BY <2>1 DEF Gone
<1>3. ASSUME \A k \in w.objects : k[1] = 0
      PROVE  Gone(w, 1, 0) = w.objects
  <2>1. \A k \in w.objects : Rank(w.spaces, k[1]) = 0
    BY ZenonT(60), <1>3, WholeIs
  <2> QED BY <2>1 DEF Gone
<1> QED BY ZenonT(60), <1>1, <1>2, <1>3

\* A page of the namespace of rank i, from the place <<i, a>> on: with all that is
\* left the list has come to the next namespace, with the names up to m to <<i, m>>.
LeftOf(w, ns, a) == {x \in Names : <<ns, x>> \in w.objects /\ x > a}

\* The objects are in namespaces exactly when ns is one.
Homes(w, ns) == \A k \in w.objects : k[1] = 0 <=> ns = 0

Passing(w, ns, i, a, left) ==
    /\ Gone(w, i + 1, 0) = Gone(w, i, a) \cup KeysIn(ns, left)
    /\ \A m \in left, P \in SUBSET left :
           (\A x \in left : x \in P <=> x <= m) =>
        Gone(w, i, m) = Gone(w, i, a) \cup KeysIn(ns, P)
    /\ \A x \in left : <<ns, x>> \in w.objects /\ <<ns, x>> \notin Gone(w, i, a)

LEMMA GoneWith ==
    ASSUME NEW w, Whole(w), NEW ns \in w.spaces \cup {0}, NEW a \in Nat,
           Homes(w, ns), NEW i \in Nat, Rank(w.spaces, ns) = i,
           NEW left, left = LeftOf(w, ns, a)
    PROVE  Passing(w, ns, i, a, left)
<1>1. \A k \in w.objects :
          /\ k[1] \in Nat /\ k[2] \in Nat /\ k[2] \in Names /\ k[2] > 0
          /\ k = <<k[1], k[2]>> /\ Rank(w.spaces, k[1]) \in Nat
  BY WholeIs
<1>2. \A k \in w.objects : Rank(w.spaces, k[1]) = i <=> k[1] = ns
  <2> SUFFICES ASSUME NEW k \in w.objects
               PROVE  Rank(w.spaces, k[1]) = i <=> k[1] = ns
    OBVIOUS
  <2>1. CASE ns # 0
    <3>1. k[1] \in w.spaces /\ ns \in w.spaces
      BY ZenonT(60), <2>1, WholeIs DEF Homes
    <3>2. w.spaces \subseteq Nat /\ IsFiniteSet(w.spaces)
      BY ZenonT(60), WholeIs
    <3>3. Rank(w.spaces, k[1]) = Rank(w.spaces, ns) => k[1] = ns
      BY ZenonT(60), <3>1, <3>2, RankTells
    <3> QED BY <3>3
  <2>2. CASE ns = 0
    <3>1. k[1] = 0
      BY <2>2 DEF Homes
    <3> QED BY <3>1, <2>2
  <2> QED BY <2>1, <2>2
<1>3. \A x \in left : /\ x \in Names /\ x \in Nat /\ x > a
                      /\ <<ns, x>> \in w.objects
  BY ListAssumption DEF LeftOf
<1>4. ASSUME NEW x \in left PROVE <<ns, x>> \notin Gone(w, i, a)
  <2>1. Rank(w.spaces, <<ns, x>>[1]) = i /\ <<ns, x>>[2] = x
    OBVIOUS
  <2> QED BY <2>1, <1>3 DEF Gone
<1>5. \A k \in w.objects : k[1] = ns /\ k[2] > a => k[2] \in left /\ k = <<ns, k[2]>>
  BY <1>1 DEF LeftOf
<1>6. Gone(w, i + 1, 0) = Gone(w, i, a) \cup KeysIn(ns, left)
  <2>1. ASSUME NEW k \in Gone(w, i + 1, 0)
        PROVE  k \in Gone(w, i, a) \cup KeysIn(ns, left)
    <3>1. /\ k \in w.objects /\ k[2] > 0 /\ k[2] \in Nat /\ Rank(w.spaces, k[1]) \in Nat
          /\ Rank(w.spaces, k[1]) < i + 1
      BY SMTT(60), <1>1 DEF Gone
    <3>2. CASE Rank(w.spaces, k[1]) < i
      BY ZenonT(60), <3>1, <3>2 DEF Gone
    <3>3. CASE Rank(w.spaces, k[1]) = i
      <4>1. k[1] = ns
        BY ZenonT(60), <1>2, <3>1, <3>3
      <4>2. CASE k[2] > a
        BY ZenonT(60), <4>1, <4>2, <3>1, <1>5 DEF KeysIn
      <4>3. CASE k[2] <= a
        BY ZenonT(60), <4>3, <3>1, <3>3 DEF Gone
      <4>4. k[2] > a \/ k[2] <= a
        BY <3>1
      <4> QED BY ZenonT(60), <4>2, <4>3, <4>4
    <3>4. Rank(w.spaces, k[1]) < i \/ Rank(w.spaces, k[1]) = i
      BY <3>1
    <3> QED BY ZenonT(60), <3>2, <3>3, <3>4
  <2>2. ASSUME NEW k \in Gone(w, i, a) PROVE k \in Gone(w, i + 1, 0)
    <3>1. k \in w.objects /\ Rank(w.spaces, k[1]) \in Nat
      BY <1>1 DEF Gone
    <3> QED BY <3>1 DEF Gone
  <2>3. ASSUME NEW x \in left PROVE <<ns, x>> \in Gone(w, i + 1, 0)
    <3>1. <<ns, x>>[1] = ns /\ <<ns, x>> \in w.objects
      BY <1>3
    <3> QED BY <3>1 DEF Gone
  <2> QED BY ZenonT(60), <2>1, <2>2, <2>3 DEF KeysIn
<1>7. ASSUME NEW m \in left, NEW P \in SUBSET left, \A x \in left : x \in P <=> x <= m
      PROVE  Gone(w, i, m) = Gone(w, i, a) \cup KeysIn(ns, P)
  <2>m. m \in Nat /\ m > a
    BY ZenonT(60), <1>3
  <2>1. ASSUME NEW k \in Gone(w, i, m)
        PROVE  k \in Gone(w, i, a) \cup KeysIn(ns, P)
    <3>1. /\ k \in w.objects /\ k[2] \in Nat
          /\ Rank(w.spaces, k[1]) < i \/ (Rank(w.spaces, k[1]) = i /\ k[2] <= m)
      BY <1>1 DEF Gone
    <3>2. CASE Rank(w.spaces, k[1]) < i
      BY <3>1, <3>2 DEF Gone
    <3>3. CASE Rank(w.spaces, k[1]) = i /\ k[2] <= m
      <4>1. k[1] = ns
        BY ZenonT(60), <1>2, <3>1, <3>3
      <4>2. CASE k[2] > a
        BY ZenonT(60), <4>1, <4>2, <3>1, <3>3, <1>5, <1>7 DEF KeysIn
      <4>3. CASE k[2] <= a
        BY ZenonT(60), <4>3, <3>1, <3>3 DEF Gone
      <4>4. k[2] > a \/ k[2] <= a
        BY SMTT(60), <3>1
      <4> QED BY ZenonT(60), <4>2, <4>3, <4>4
    <3> QED BY <3>1, <3>2, <3>3
  <2>2. ASSUME NEW k \in Gone(w, i, a) PROVE k \in Gone(w, i, m)
    <3>1. k \in w.objects /\ k[2] \in Nat
      BY <1>1 DEF Gone
    <3> QED BY SMTT(60), <3>1, <2>m DEF Gone
  <2>3. ASSUME NEW x \in P PROVE <<ns, x>> \in Gone(w, i, m)
    <3>1. <<ns, x>>[1] = ns /\ <<ns, x>>[2] = x /\ <<ns, x>> \in w.objects
      BY ZenonT(60), <1>3, x \in left
    <3>2. x <= m
      BY ZenonT(60), <1>7
    <3> QED BY ZenonT(60), <3>1, <3>2 DEF Gone
  <2> QED BY ZenonT(60), <2>1, <2>2, <2>3 DEF KeysIn
<1> QED BY ZenonT(60), <1>3, <1>4, <1>6, <1>7 DEF Passing

\* A page s of the namespace of rank i, read after a with at most n names, and
\* its token t: what is in it, and where it leads.
PageOf(w, i, a, n, rev, s, t) ==
    /\ t \in Inner /\ (t # NoInner => t.rev = rev /\ n # 0 /\ Len(s) >= n)
    /\ Gone(w, IF t = NoInner THEN i + 1 ELSE i, t.after) = Gone(w, i, a) \cup Items(s)
    /\ Runs(s, Items(s)) /\ Len(s) \in Nat
    /\ Items(s) \subseteq w.objects /\ Items(s) \cap Gone(w, i, a) = {}

\* The keys of names in ns.
RowsOf(ns, names) == [i \in DOMAIN names |-> <<ns, names[i]>>]

LEMMA PageIs ==
    ASSUME NEW w, Whole(w), NEW ns \in w.spaces \cup {0}, NEW a \in Nat,
           Homes(w, ns), NEW i \in Nat, Rank(w.spaces, ns) = i,
           NEW left, left = LeftOf(w, ns, a),
           NEW n \in Nat, NEW rev \in Nat, rev # 0,
           NEW page, page = FirstOf(left, n),
           NEW t, t = TokenAfter(page, left, rev),
           NEW names \in Ascending(page),
           NEW s, s = RowsOf(ns, names)
    PROVE  PageOf(w, i, a, n, rev, s, t)
<1>1. left \subseteq Names /\ left \subseteq Nat /\ IsFiniteSet(left)
  <2>1. left \subseteq Names
    BY DEF LeftOf
  <2> QED BY ZenonT(60), <2>1, ListAssumption, FS_Subset
<1>2. /\ page \subseteq left /\ IsFiniteSet(page)
      /\ page # left => n # 0 /\ Cardinality(page) >= n
  BY <1>1, FirstOfIs
<1>3. ns \in Spaces \cup {0}
  BY ZenonT(60), WholeIs
<1>4. Runs(s, KeysIn(ns, page)) /\ Len(s) = Cardinality(page)
  <2>1. s = [j \in DOMAIN names |-> <<ns, names[j]>>]
    BY DEF RowsOf
  <2> QED BY ZenonT(60), <1>1, <1>2, <1>3, <2>1, RunsNames
<1>5. Items(s) = KeysIn(ns, page)
  BY <1>4 DEF Runs
<1>6. Len(s) \in Nat
  BY ZenonT(60), <1>2, <1>4, FS_CardinalityType
<1>7. /\ Gone(w, i + 1, 0) = Gone(w, i, a) \cup KeysIn(ns, left)
      /\ \A m \in left, P \in SUBSET left :
             (\A x \in left : x \in P <=> x <= m) =>
                 Gone(w, i, m) = Gone(w, i, a) \cup KeysIn(ns, P)
      /\ \A x \in left : <<ns, x>> \in w.objects /\ <<ns, x>> \notin Gone(w, i, a)
  <2>1. Passing(w, ns, i, a, left)
    BY GoneWith
  <2> QED BY ZenonT(60), <2>1 DEF Passing
<1>8. Items(s) \subseteq w.objects /\ Items(s) \cap Gone(w, i, a) = {}
  BY SMTT(60), <1>2, <1>5, <1>7 DEF KeysIn
<1>9. CASE page = left
  <2>1. t = NoInner /\ t.after = 0 /\ NoInner \in Inner
    BY ZenonT(60), <1>9 DEF TokenAfter, NoInner, Inner
  <2> QED BY ZenonT(60), <2>1, <1>9, <1>4, <1>5, <1>6, <1>7, <1>8 DEF PageOf
<1>10. CASE page # left
  <2>1. t.rev = rev /\ t.after \in page /\ t \in Inner 
        /\ \A x \in left : x \in page <=> x <= t.after
    BY SMTT(60), <1>1, <1>10, TokenAfterIs
  <2>2. t # NoInner
    BY SMTT(60), <2>1 DEF NoInner
  <2>3. Gone(w, i, t.after) = Gone(w, i, a) \cup KeysIn(ns, page)
    BY ZenonT(60), <2>1, <1>2, <1>7
  <2> QED BY ZenonT(60), <2>1, <2>2, <2>3, <1>10, <1>2, <1>4, <1>5, <1>6, <1>8 DEF PageOf
<1> QED BY ZenonT(60), <1>9, <1>10

\* The shown part of what was gathered takes the client to the place.
LEMMA ReplyRuns ==
    ASSUME NEW w, Whole(w),
           NEW i \in Nat, NEW a \in Nat, NEW now, now \subseteq w.objects,
           Gone(w, i, a) \subseteq now,
           NEW s, Runs(s, ShownOf(Gone(w, i, a))),
           NEW items, Runs(items, now \ Gone(w, i, a)), NEW page \in Filtered(items)
    PROVE  Runs(s \o page, ShownOf(now)) /\ Abstract!Extends(s, s \o page)
<1> DEFINE X == ShownOf(Gone(w, i, a))
           Y == {k \in now \ Gone(w, i, a) : Shown(k)}
<1>1. Runs(page, Y)
  BY RunsFiltered
<1>2. \A k \in X, l \in Y : KeyLess(k, l)
  <2> SUFFICES ASSUME NEW k \in X, NEW l \in Y PROVE KeyLess(k, l)
    BY ZenonT(60)
  <2>1. k \in Gone(w, i, a) /\ l \in w.objects /\ l \notin Gone(w, i, a)
    BY ZenonT(60) DEF ShownOf
  <2> QED BY <2>1, GoneFirst
<1>3. X \cup Y = ShownOf(now)
  BY DEF ShownOf
<1> HIDE DEF X, Y
<1>4. Runs(s, X)
  BY ZenonT(60) DEF X
<1>5. Runs(s \o page, X \cup Y)
  BY ZenonT(60), <1>1, <1>2, <1>4, RunsJoin
<1>6. s \in Seq(Keys) /\ page \in Seq(Keys)
  BY ZenonT(60), <1>1, <1>4 DEF Runs
<1>7. Abstract!Extends(s, s \o page)
  BY SMTT(60), <1>6 DEF Abstract!Extends
<1> QED BY ZenonT(60), <1>3, <1>5, <1>7

\* A client at a place has the beginning of the listing.
LEMMA RunsBegin ==
    ASSUME NEW w, Whole(w), NEW i \in Nat, NEW a \in Nat,
           NEW s, Runs(s, ShownOf(Gone(w, i, a)))
    PROVE  /\ Abstract!BeginningOf(s, Listing(w))
           /\ Gone(w, i, a) = w.objects => Abstract!Received(s) = Listing(w)
<1>1. /\ Abstract!Received(s) = ShownOf(Gone(w, i, a))
      /\ \A m, n \in DOMAIN s : m < n => KeyLess(s[m], s[n])
  BY ZenonT(60) DEF Runs, Items, Abstract!Received
<1>2. Gone(w, i, a) \subseteq w.objects
  BY ZenonT(60) DEF Gone
<1>3. ASSUME NEW m \in DOMAIN s, NEW k \in Listing(w), KeyLess(k, s[m])
      PROVE  k \in Abstract!Received(s)
  <2>1. k \in w.objects /\ Shown(k)
    BY ZenonT(60) DEF Listing
  <2>2. s[m] \in Gone(w, i, a)
    BY ZenonT(60), <1>1 DEF Abstract!Received, ShownOf
  <2>3. k \in Gone(w, i, a)
    <3> SUFFICES ASSUME k \notin Gone(w, i, a) PROVE FALSE
      BY ZenonT(60)
    <3>1. KeyLess(s[m], k)
      BY ZenonT(60), <2>1, <2>2, GoneFirst
    <3>2. k[1] \in Nat /\ k[2] \in Nat /\ s[m][1] \in Nat /\ s[m][2] \in Nat
      BY ZenonT(60), <2>1, <2>2, <1>2, WholeIs
    <3> QED BY SMTT(60), <3>1, <3>2, <1>3 DEF KeyLess
  <2> QED BY ZenonT(60), <2>1, <2>3, <1>1 DEF ShownOf
<1>4. Abstract!Received(s) \subseteq Listing(w)
  BY ZenonT(60), <1>1, <1>2 DEF ShownOf, Listing
<1>5. Gone(w, i, a) = w.objects => Abstract!Received(s) = Listing(w)
  BY <1>1 DEF ShownOf, Listing
<1> QED BY ZenonT(60), <1>1, <1>3, <1>4, <1>5 DEF Abstract!BeginningOf

-----------------------------------------------------------------------------
(* The inductive invariant.                                                *)

\* The state of the cluster the list is a snapshot of.
World == store[cursor.rv]

\* Every revision kept is a state of the cluster; the oldest readable one is kept.
Stored ==
    /\ Len(store) > 0
    /\ oldest \in 1..Len(store)
    /\ \A r \in 1..Len(store) :
           Whole(store[r]) /\ \A k \in store[r].objects : k[1] = 0 <=> ~fanned

\* What the client asks for, and how its list begins.
Client ==
    /\ asked \in 0..Len(store) /\ (fanned => asked = 0)
    /\ phase # "bad cursor"
    /\ phase = "start" => token = NoToken /\ got = <<>>

\* A cursor of the snapshot: upstream's inside it is of the same revision.
Cursor(t) ==
    /\ t.rv = cursor.rv /\ t.rv \in 1..Len(store)
    /\ t.nsi <= Cardinality(World.spaces) /\ (~fanned => t.nsi = 0)
    /\ t.inner # NoInner => t.inner.rev = t.rv

\* Between pages: the client has received what comes before its token.
Between ==
    phase = "more" =>
        /\ Cursor(token)
        /\ Runs(got, ShownOf(Gone(World, token.nsi, token.inner.after)))

\* In a page: what is gathered leads from the page's cursor to the place the
\* handler is at, and there is room for more.
Within ==
    pc = "reading" =>
        /\ fanned /\ phase \in {"start", "more"}
        /\ Cursor(cursor)
        /\ namespaces \in Ascending(World.spaces)
        /\ index <= Cardinality(World.spaces)
        /\ inner # NoInner => inner.rev = cursor.rv
        /\ limit > 0 => Len(gathered) < limit
        /\ Runs(got, ShownOf(Gone(World, cursor.nsi, cursor.inner.after)))
        /\ LET before == Gone(World, cursor.nsi, cursor.inner.after)
               now == Gone(World, index, inner.after)
           IN before \subseteq now /\ Runs(gathered, now \ before)

ListInv == TypeOK /\ Stored /\ Client /\ Between /\ Within

LEMMA InitInv == Init => ListInv
<1> SUFFICES ASSUME Init PROVE ListInv
  OBVIOUS
<1> DEFINE w == First[fanned]
<1>1. /\ fanned \in BOOLEAN /\ w \in Worlds /\ w.objects \subseteq KeysOf(fanned)
      /\ \A k \in w.objects : k[1] \in w.spaces \cup {0}
  BY ZenonT(60), ListAssumption, Zenon DEF Init
<1>2. \A k \in w.objects : k[1] = 0 <=> ~fanned
  <2>1. CASE fanned
    <3>1. w.objects \subseteq Spaces \X Names
      BY ZenonT(60), <1>1, <2>1 DEF KeysOf
    <3>2. \A k \in w.objects : k[1] # 0
      BY <3>1, ListAssumption
    <3> QED BY ZenonT(60), <2>1, <3>2
  <2>2. CASE ~fanned
    <3>1. w.objects \subseteq {0} \X Names
      BY ZenonT(60), <1>1, <2>2 DEF KeysOf
    <3>2. \A k \in w.objects : k[1] = 0
      BY ZenonT(60), <3>1
    <3> QED BY ZenonT(60), <2>2, <3>2
  <2> QED BY ZenonT(60), <2>1, <2>2
<1>3. Whole(w)
  BY ZenonT(60), <1>1, <1>2 DEF Whole
<1> HIDE DEF w
<1>4. store = <<w>> /\ oldest = 1
  BY DEF Init, w
<1>5. Stored
  BY SMTT(60), <1>2, <1>3, <1>4 DEF Stored
<1>6. store \in Seq(Worlds)
  BY SMTT(60), <1>1, <1>4
<1>7. NoInner \in Inner /\ NoToken \in Token
  BY DEF NoInner, Inner, NoToken, Token
<1>8. TypeOK
  BY SMTT(60), <1>1, <1>4, <1>6, <1>7 DEF Init, TypeOK
<1>9. Client /\ Between /\ Within
  BY <1>4 DEF Init, Client, Between, Within
<1> QED BY <1>5, <1>8, <1>9 DEF ListInv

-----------------------------------------------------------------------------
(* The cluster moves on under the list.                                    *)

LEMMA Types ==
    ASSUME ListInv
    PROVE  /\ store \in Seq(Worlds) /\ Len(store) \in Nat /\ Len(store) > 0
           /\ oldest \in 1..Len(store) /\ oldest \in Nat
           /\ limit \in Nat /\ index \in Nat /\ asked \in Nat
           /\ cursor \in Token /\ token \in Token /\ inner \in Inner
           /\ gathered \in Seq(Keys) /\ got \in Seq(Keys)
           /\ fanned \in BOOLEAN
<1>1. TypeOK /\ Stored
  BY DEF ListInv
<1>2. /\ store \in Seq(Worlds) /\ oldest \in Nat
      /\ limit \in Nat /\ index \in Nat /\ asked \in Nat
      /\ cursor \in Token /\ token \in Token /\ inner \in Inner
      /\ gathered \in Seq(Keys) /\ got \in Seq(Keys)
      /\ fanned \in BOOLEAN
  BY ZenonT(60), <1>1, Zenon DEF TypeOK
<1>3. Len(store) > 0 /\ oldest \in 1..Len(store)
  BY <1>1 DEF Stored
<1>4. Len(store) \in Nat
  BY <1>2
<1> QED BY ZenonT(60), <1>2, <1>3, <1>4, Zenon

LEMMA AskedStays ==
    ASSUME Client, UNCHANGED <<fanned, asked>>
    PROVE  fanned' => asked' = 0
  BY ZenonT(60) DEF Client

\* What is true of the snapshot's revision stays so.
LEMMA SnapshotStays ==
    ASSUME ListInv, UNCHANGED <<fanned, handlerVars, clientVars>>, Len(store') \in Nat,
           Len(store') >= Len(store), \A r \in 1..Len(store) : store'[r] = store[r]
    PROVE  Client' /\ Between' /\ Within'
<1>1. Len(store) \in Nat /\ asked \in Nat
  BY ZenonT(60), Types
<1>2. /\ UNCHANGED <<fanned, pc, limit, cursor, namespaces, index, inner, gathered>>
      /\ UNCHANGED <<phase, asked, token, got>>
  BY ZenonT(60) DEF handlerVars, clientVars
<1>3. Client'
  <2>1. Client
    BY DEF ListInv
  <2>2. asked \in 0..Len(store)
    BY ZenonT(60), <2>1 DEF Client
  <2>3. asked' \in 0..Len(store')
    BY SMTT(60), <1>1, <1>2, <2>2
  <2>4. /\ phase' = phase /\ token' = token /\ got' = got /\ asked' = asked
        /\ fanned' = fanned
    BY <1>2
  <2>5. fanned' => asked' = 0
    BY <1>2, <2>1, AskedStays
  <2>6. phase' # "bad cursor" /\ (phase' = "start" => token' = NoToken /\ got' = <<>>)
    BY ZenonT(60), <2>1, <2>4, Zenon DEF Client
  <2> QED BY ZenonT(60), <2>3, <2>5, <2>6 DEF Client, NoToken, NoInner
<1>4. cursor.rv \in 1..Len(store) => World' = World
  BY ZenonT(60), <1>2 DEF World
<1>5. Between'
  <2> SUFFICES ASSUME phase' = "more"
               PROVE  /\ Cursor(token)'
                      /\ Runs(got, ShownOf(Gone(World, token.nsi, token.inner.after)))'
    BY ZenonT(60) DEF Between
  <2>1. /\ Cursor(token) /\ cursor.rv \in 1..Len(store)
        /\ Runs(got, ShownOf(Gone(World, token.nsi, token.inner.after)))
    BY ZenonT(60), <1>2 DEF ListInv, Between, Cursor
  <2>2. World' = World /\ got' = got /\ token' = token /\ fanned' = fanned /\ cursor' = cursor
    BY ZenonT(60), <1>2, <1>4, <2>1
  <2>3. Runs(got, ShownOf(Gone(World, token.nsi, token.inner.after)))'
    BY ZenonT(60), <2>1, <2>2
  <2>4. Cursor(token)'
    BY SMTT(60), <1>1, <2>1, <2>2 DEF Cursor
  <2> QED BY ZenonT(60), <2>3, <2>4
<1>6. Within'
  <2> SUFFICES ASSUME pc' = "reading" PROVE Within'
    BY ZenonT(60) DEF Within
  <2>1. pc = "reading" /\ cursor.rv \in 1..Len(store) /\ Cursor(cursor)
    BY ZenonT(60), <1>2 DEF ListInv, Within, Cursor
  <2>2. World' = World
    BY ZenonT(60), <1>4, <2>1
  <2>3. Cursor(cursor)'
    BY SMTT(60), <1>1, <1>2, <2>1, <2>2 DEF Cursor
  <2>4. Within
    BY DEF ListInv
  <2> QED BY SMTT(60), <1>2, <2>1, <2>2, <2>3, <2>4 DEF Within
<1> QED BY ZenonT(60), <1>3, <1>5, <1>6

LEMMA WriteKeeps ==
    ASSUME ListInv, NEW world, Whole(world), \A k \in world.objects : k[1] = 0 <=> ~fanned,
           Write(world)
    PROVE  ListInv' /\ Abstract!Advance
<1>1. /\ store \in Seq(Worlds) /\ Len(store) \in Nat /\ oldest \in 1..Len(store)
      /\ world \in Worlds
  BY Types DEF Whole
<1>2. /\ store' = Append(store, world) /\ oldest' = oldest
      /\ UNCHANGED <<fanned, handlerVars, clientVars>>
  BY DEF Write
<1>3. /\ store' \in Seq(Worlds) /\ Len(store') = Len(store) + 1
      /\ \A r \in 1..Len(store) : store'[r] = store[r]
      /\ store'[Len(store) + 1] = world
  BY SMTT(60), <1>1, <1>2
<1>4. Client' /\ Between' /\ Within'
  BY SMTT(60), <1>1, <1>2, <1>3, SnapshotStays
<1>5. Stored'
  <2>1. Len(store') > 0 /\ oldest' \in 1..Len(store')
    BY SMTT(60), <1>1, <1>2, <1>3
  <2>2. ASSUME NEW r \in 1..Len(store')
        PROVE  Whole(store'[r]) /\ \A k \in store'[r].objects : k[1] = 0 <=> ~fanned'
    <3>1. CASE r \in 1..Len(store)
      BY <3>1, <1>2, <1>3 DEF ListInv, Stored
    <3>2. CASE r = Len(store) + 1
      BY <3>2, <1>2, <1>3
    <3>3. r \in 1..Len(store) \/ r = Len(store) + 1
      <4>1. Len(store) \in Nat /\ Len(store') = Len(store) + 1
        BY <1>1, <1>3
      <4> QED BY SMTT(60), <4>1
    <3> QED BY ZenonT(60), <3>1, <3>2, <3>3
  <2>3. \A r \in 1..Len(store') :
          Whole(store'[r]) /\ \A k \in store'[r].objects : k[1] = 0 <=> ~fanned'
    BY ZenonT(60), <2>2
  <2> QED BY ZenonT(60), <2>1, <2>3 DEF Stored, Whole
<1>6. TypeOK'
  BY ZenonT(60), <1>1, <1>2, <1>3 DEF ListInv, TypeOK, handlerVars, clientVars
<1>7. Abstract!Advance
  <2>1. UNCHANGED <<asked, cursor, got, phase, pc>>
    BY ZenonT(60), <1>2 DEF handlerVars, clientVars
  <2>2. Abstract!Extends(store, store')
    BY SMTT(60), <1>1, <1>3 DEF Abstract!Extends
  <2>3. UNCHANGED Status
    BY <2>1 DEF Status
  <2> QED BY SMTT(60), <1>1, <1>2, <1>3, <2>1, <2>2, <2>3 DEF Abstract!Advance, Abstract!listVars
<1> QED BY ZenonT(60), <1>4, <1>5, <1>6, <1>7 DEF ListInv

LEMMA ClusterKeeps ==
    ASSUME ListInv, Cluster
    PROVE  ListInv' /\ Abstract!Advance
<1>1. /\ Whole(Now) /\ \A k \in Now.objects : k[1] = 0 <=> ~fanned
  BY SMTT(60), Types DEF ListInv, Stored, Now
<1>2. /\ Now \in Worlds /\ Now.spaces \subseteq Spaces /\ Now.objects \subseteq Keys
      /\ \A k \in Now.objects : k[1] \in Now.spaces \cup {0}
  BY <1>1 DEF Whole, Worlds
<1>3. CASE Compact
  <2>1. /\ oldest < Len(store) /\ oldest' = oldest + 1 /\ store' = store
        /\ UNCHANGED <<fanned, handlerVars, clientVars>>
    BY ZenonT(60), <1>3 DEF Compact
  <2>2. Client' /\ Between' /\ Within'
    BY SMTT(60), <2>1, Types, SnapshotStays
  <2>3. oldest' \in 1..Len(store') /\ oldest' \in Nat
    BY SMTT(60), <2>1, Types
  <2>4. Stored'
    BY ZenonT(60), <2>1, <2>3 DEF ListInv, Stored
  <2>5. TypeOK'
    BY ZenonT(60), <2>1, <2>3 DEF ListInv, TypeOK, handlerVars, clientVars
  <2>6. Abstract!Advance
    <3>1. UNCHANGED <<asked, cursor, got, phase, pc>>
      BY ZenonT(60), <2>1 DEF handlerVars, clientVars
    <3>2. Abstract!Extends(store, store')
      BY SMTT(60), <2>1, Types DEF Abstract!Extends
    <3>3. UNCHANGED Status
      BY ZenonT(60), <3>1 DEF Status
    <3>4. oldest' >= oldest /\ oldest' <= Len(store')
      BY SMTT(60), <2>1, Types
    <3> QED BY ZenonT(60), <3>1, <3>2, <3>3, <3>4 DEF Abstract!Advance, Abstract!listVars
  <2> QED BY ZenonT(60), <2>2, <2>4, <2>5, <2>6 DEF ListInv
<1>4. ASSUME NEW k \in KeysOf(fanned), CreateObject(k) PROVE ListInv' /\ Abstract!Advance
  <2> DEFINE w == [Now EXCEPT !.objects = @ \cup {k}]
  <2>1. k \in Keys /\ (k[1] = 0 <=> ~fanned) /\ k[1] \in Now.spaces \cup {0} /\ Write(w)
    <3>1. CASE fanned
      <4>1. k \in Spaces \X Names
        BY ZenonT(60), <3>1 DEF KeysOf
      <4> QED BY ZenonT(60), <3>1, <4>1, <1>4, ListAssumption DEF Keys, KeysOf, CreateObject
    <3>2. CASE ~fanned
      <4>1. k \in {0} \X Names
        BY ZenonT(60), <3>2 DEF KeysOf
      <4> QED BY ZenonT(60), <3>2, <4>1, <1>4 DEF Keys, KeysOf, CreateObject
    <3> QED BY ZenonT(60), <3>1, <3>2
  <2>2. w \in Worlds /\ w.spaces = Now.spaces /\ w.objects = Now.objects \cup {k}
    BY ZenonT(60), <1>2, <2>1 DEF Worlds
  <2> HIDE DEF w
  <2>3. \A l \in w.objects : l[1] = 0 <=> ~fanned
    BY ZenonT(60), <1>1, <2>1, <2>2
  <2>4. Whole(w)
    BY ZenonT(60), <1>2, <2>1, <2>2, <2>3 DEF Whole
  <2> QED BY ZenonT(60), <2>1, <2>3, <2>4, WriteKeeps
<1>5. ASSUME NEW k \in KeysOf(fanned), DeleteObject(k) PROVE ListInv' /\ Abstract!Advance
  <2> DEFINE w == [Now EXCEPT !.objects = @ \ {k}]
  <2>1. Write(w)
    BY <1>5 DEF DeleteObject
  <2>2. w \in Worlds /\ w.spaces = Now.spaces /\ w.objects = Now.objects \ {k}
    BY ZenonT(60), <1>2, <2>1 DEF Worlds
  <2> HIDE DEF w
  <2>3. \A l \in w.objects : l[1] = 0 <=> ~fanned
    BY ZenonT(60), <1>1, <2>2
  <2>4. Whole(w)
    BY ZenonT(60), <1>2, <2>2, <2>3 DEF Whole
  <2> QED BY ZenonT(60), <2>1, <2>3, <2>4, WriteKeeps
<1>6. ASSUME NEW n \in Spaces, CreateNamespace(n) PROVE ListInv' /\ Abstract!Advance
  <2> DEFINE w == [Now EXCEPT !.spaces = @ \cup {n}]
  <2>1. Write(w)
    BY <1>6 DEF CreateNamespace
  <2>2. w \in Worlds /\ w.spaces = Now.spaces \cup {n} /\ w.objects = Now.objects
    BY ZenonT(60), <1>2, <2>1 DEF Worlds
  <2> HIDE DEF w
  <2>3. \A l \in w.objects : l[1] = 0 <=> ~fanned
    BY ZenonT(60), <1>1, <2>2
  <2>4. Whole(w)
    BY ZenonT(60), <1>2, <2>2, <2>3 DEF Whole
  <2> QED BY ZenonT(60), <2>1, <2>3, <2>4, WriteKeeps
<1>7. ASSUME NEW n \in Spaces, DeleteNamespace(n) PROVE ListInv' /\ Abstract!Advance
  <2> DEFINE w == [Now EXCEPT !.spaces = @ \ {n}]
  <2>1. Write(w) /\ \A k \in Now.objects : k[1] # n
    BY <1>7 DEF DeleteNamespace
  <2>2. w \in Worlds /\ w.spaces = Now.spaces \ {n} /\ w.objects = Now.objects
    BY ZenonT(60), <1>2, <2>1 DEF Worlds
  <2> HIDE DEF w
  <2>3. \A l \in w.objects : l[1] = 0 <=> ~fanned
    BY ZenonT(60), <1>1, <2>2
  <2>4. Whole(w)
    BY ZenonT(60), <1>2, <2>1, <2>2, <2>3 DEF Whole
  <2> QED BY ZenonT(60), <2>1, <2>3, <2>4, WriteKeeps
<1> QED BY ZenonT(60), <1>3, <1>4, <1>5, <1>6, <1>7, Zenon DEF Cluster

-----------------------------------------------------------------------------
(* A request fails, and the client starts over.                            *)

LEMMA FailsKeeps ==
    ASSUME ListInv, NEW how \in {"expired", "refused"}, Fails(how)
    PROVE  ListInv'
<1>1. /\ pc' = "idle" /\ phase' = how
      /\ UNCHANGED <<store, oldest, fanned, limit, cursor, namespaces, index, inner>>
      /\ UNCHANGED <<gathered, asked, token, got>>
  BY ZenonT(60) DEF Fails, clusterVars
<1>2. TypeOK'
  BY ZenonT(60), <1>1 DEF ListInv, TypeOK
<1>3. Stored'
  BY ZenonT(60), <1>1 DEF ListInv, Stored
<1>4. Client'
  <2>1. Client
    BY ZenonT(60) DEF ListInv
  <2> QED BY ZenonT(60), <1>1, <2>1 DEF Client
<1>5. Between' /\ Within'
  BY ZenonT(60), <1>1 DEF Between, Within
<1> QED BY ZenonT(60), <1>2, <1>3, <1>4, <1>5 DEF ListInv

LEMMA RestartKeeps ==
    ASSUME ListInv, Restart, TRUE \notin ExactReads
    PROVE  ListInv' /\ Abstract!Restart
<1>1. /\ pc = "idle" /\ phase \in {"done", "expired", "refused"}
      /\ phase' = "start" /\ token' = NoToken /\ got' = <<>> /\ cursor' = NoToken
      /\ limit' = 0 /\ namespaces' = <<>> /\ index' = 0 /\ inner' = NoInner /\ gathered' = <<>>
      /\ UNCHANGED <<store, oldest, fanned, pc>>
  BY DEF Restart, clusterVars
<1>2. asked' \in 0..Len(store) /\ (fanned => asked' = 0)
  <2>1. asked' \in {0} \cup IF fanned \in ExactReads THEN 1..Len(store) ELSE {}
    BY DEF Restart, Askable
  <2>2. asked' \in 0..Len(store)
    BY SMTT(60), <2>1, Types
  <2>3. fanned => fanned \notin ExactReads
    BY ZenonT(60), Types, Zenon
  <2> QED BY ZenonT(60), <2>1, <2>2, <2>3
<1>3. NoInner \in Inner /\ NoToken \in Token /\ NoToken.rv = 0
  BY DEF NoInner, Inner, NoToken, Token
<1>4. TypeOK'
  <2>1. asked' \in Nat
    BY SMTT(60), <1>2, Types
  <2>2. store' \in Seq(Worlds) /\ oldest' \in Nat /\ fanned' \in BOOLEAN
    BY ZenonT(60), <1>1, Types
  <2>3. namespaces' \in Seq(Spaces) /\ gathered' \in Seq(Keys) /\ got' \in Seq(Keys)
    BY SMTT(60), <1>1
  <2> QED BY ZenonT(60), <1>1, <1>3, <2>1, <2>2, <2>3 DEF TypeOK
<1>5. Stored'
  BY ZenonT(60), <1>1 DEF ListInv, Stored
<1>6. Client' /\ Between' /\ Within'
  BY ZenonT(60), <1>1, <1>2 DEF Client, Between, Within
<1>7. Abstract!Restart
  <2>1. Status \in {"done", "expired", "refused"} /\ Status' = "start"
    BY <1>1 DEF Status
  <2>2. asked' <= Len(store)
    BY SMTT(60), <1>2, Types
  <2> QED BY ZenonT(60), <1>1, <1>3, <2>1, <2>2 DEF Abstract!Restart
<1> QED BY ZenonT(60), <1>4, <1>5, <1>6, <1>7 DEF ListInv

-----------------------------------------------------------------------------
(* A page is asked for.                                                    *)

\* The place a token stands for, at the revision it pins.
StandsAt(t, r) ==
    /\ r \in 1..Len(store)
    /\ t.nsi <= Cardinality(store[r].spaces) /\ (~fanned => t.nsi = 0)
    /\ t.inner # NoInner => t.inner.rev = r
    /\ Runs(got, ShownOf(Gone(store[r], t.nsi, t.inner.after)))

LEMMA AskingAt ==
    ASSUME ListInv, Asking
    PROVE  /\ StandsAt(token, Pinned(token))
           /\ phase = "more" => Pinned(token) = cursor.rv
           /\ phase = "start" => Pinned(token) = Abstract!Wanted
<1>1. pc = "idle" /\ phase \in {"start", "more"}
  BY ZenonT(60) DEF Asking
<1>2. CASE phase = "more"
  <2>1. Cursor(token) /\ Runs(got, ShownOf(Gone(World, token.nsi, token.inner.after)))
    BY ZenonT(60), <1>2 DEF ListInv, Between
  <2>2. token.rv = cursor.rv /\ token.rv \in 1..Len(store)
    BY ZenonT(60), <2>1 DEF Cursor
  <2>3. Pinned(token) = cursor.rv
    BY SMTT(60), <2>2, Types DEF Pinned
  <2> QED BY ZenonT(60), <1>2, <2>1, <2>2, <2>3 DEF StandsAt, Cursor, World
<1>3. CASE phase = "start"
  <2>1. /\ token = NoToken /\ got = <<>> /\ asked \in 0..Len(store)
        /\ fanned => asked = 0
    BY ZenonT(60), <1>3 DEF ListInv, Client
  <2>2. token.rv = 0 /\ token.nsi = 0 /\ token.inner = NoInner /\ token.inner.after = 0
    BY ZenonT(60), <2>1 DEF NoToken, NoInner
  <2>3. Pinned(token) = IF asked = 0 THEN Len(store) ELSE asked
    BY ZenonT(60), <2>1, <2>2 DEF Pinned
  <2> DEFINE r == Pinned(token)
  <2>4. r \in 1..Len(store)
    BY SMTT(60), <2>1, <2>3, Types
  <2>5. r = Abstract!Wanted
    BY ZenonT(60), <2>3 DEF Abstract!Wanted
  <2> HIDE DEF r
  <2>6. Whole(store[r])
    BY ZenonT(60), <2>4 DEF ListInv, Stored
  <2>7. ShownOf(Gone(store[r], 0, 0)) = {} /\ Cardinality(store[r].spaces) \in Nat
    BY ZenonT(60), <2>6, GoneEnds, WholeIs DEF ShownOf
  <2>8. Runs(got, ShownOf(Gone(store[r], token.nsi, token.inner.after)))
    BY ZenonT(60), <2>1, <2>2, <2>7, RunsEmpty
  <2>9. StandsAt(token, r)
    BY <2>2, <2>4, <2>7, <2>8 DEF StandsAt
  <2> QED BY ZenonT(60), <1>3, <2>5, <2>9 DEF r
<1> QED BY ZenonT(60), <1>1, <1>2, <1>3

\* The first page pins its revision; a later one is read at the same.
LEMMA NamespacesKeep ==
    ASSUME ListInv, TenantNamespaces
    PROVE  ListInv' /\ (Abstract!Pin \/ UNCHANGED Abstract!vars)
<1> DEFINE r == Pinned(token)
           w == store[r]
<1>1. /\ fanned /\ Asking /\ r >= oldest
      /\ \E order \in Ascending(w.spaces) :
            IF token.nsi > Len(order)
            THEN Fails("bad cursor")
            ELSE /\ namespaces' = order
                 /\ cursor' = [token EXCEPT !.rv = r]
                 /\ limit' \in Limits
                 /\ index' = token.nsi
                 /\ inner' = token.inner
                 /\ gathered' = <<>>
                 /\ pc' = "reading"
                 /\ UNCHANGED <<clusterVars, clientVars>>
  BY ZenonT(60) DEF TenantNamespaces, NamespacesAt
<1>2. /\ StandsAt(token, r) /\ phase \in {"start", "more"} /\ pc = "idle"
      /\ phase = "more" => r = cursor.rv
      /\ phase = "start" => r = Abstract!Wanted
  BY ZenonT(60), <1>1, AskingAt DEF Asking
<1> HIDE DEF r
<1>3. r \in 1..Len(store) /\ r \in Nat /\ token \in Token /\ Whole(w)
  BY SMTT(60), <1>2, Types DEF StandsAt, ListInv, Stored
<1>4. PICK order \in Ascending(w.spaces) :
            IF token.nsi > Len(order)
            THEN Fails("bad cursor")
            ELSE /\ namespaces' = order
                 /\ cursor' = [token EXCEPT !.rv = r]
                 /\ limit' \in Limits
                 /\ index' = token.nsi
                 /\ inner' = token.inner
                 /\ gathered' = <<>>
                 /\ pc' = "reading"
                 /\ UNCHANGED <<clusterVars, clientVars>>
  BY ZenonT(60), <1>1
<1>5. /\ order \in Seq(w.spaces) /\ Len(order) = Cardinality(w.spaces)
      /\ Cardinality(w.spaces) \in Nat /\ w.spaces \subseteq Spaces
  <2>1. Enumerates(order, w.spaces)
    BY ZenonT(60), <1>3, WholeIs, Enumeration
  <2> QED BY ZenonT(60), <2>1, <1>3, WholeIs DEF Enumerates
<1>6. /\ token.nsi \in Nat /\ token.inner \in Inner /\ token.inner.after \in Nat
      /\ token.nsi <= Cardinality(w.spaces)
  BY ZenonT(60), <1>2, <1>3 DEF StandsAt, Token, Inner
<1>7. /\ namespaces' = order /\ limit' \in Limits /\ gathered' = <<>> /\ pc' = "reading"
      /\ cursor' = [token EXCEPT !.rv = r] /\ index' = token.nsi /\ inner' = token.inner
      /\ UNCHANGED <<store, oldest, fanned, phase, asked, token, got>>
  <2>1. ~(token.nsi > Len(order))
    BY SMTT(60), <1>5, <1>6
  <2>2. /\ namespaces' = order /\ limit' \in Limits /\ gathered' = <<>> /\ pc' = "reading"
        /\ cursor' = [token EXCEPT !.rv = r] /\ index' = token.nsi /\ inner' = token.inner
        /\ UNCHANGED <<clusterVars, clientVars>>
    BY ZenonT(60), <1>4, <2>1, Zenon
  <2> QED BY ZenonT(60), <2>2 DEF clusterVars, clientVars
<1>8. /\ cursor' \in Token /\ cursor'.rv = r /\ cursor'.nsi = token.nsi
      /\ cursor'.inner = token.inner
  BY ZenonT(60), <1>3, <1>7 DEF Token
<1>9. World' = w
  BY ZenonT(60), <1>7, <1>8 DEF World
<1> HIDE DEF w
<1>10. TypeOK'
  <2>1. order \in Seq(Spaces) /\ limit' \in Nat
    BY SMTT(60), <1>5, <1>7, ListAssumption
  <2>2. gathered' \in Seq(Keys)
    BY <1>7
  <2> QED BY ZenonT(60), <1>6, <1>7, <1>8, <2>1, <2>2, Types DEF ListInv, TypeOK
<1>11. Stored' /\ Client'
  <2>1. Stored /\ Client
    BY DEF ListInv
  <2>2. Stored'
    BY ZenonT(60), <1>7, <2>1 DEF Stored
  <2>3. Client'
    BY ZenonT(60), <1>7, <2>1 DEF Client
  <2> QED BY ZenonT(60), <2>2, <2>3
<1>12. Between'
  <2> SUFFICES ASSUME phase' = "more"
               PROVE  /\ Cursor(token)'
                      /\ Runs(got, ShownOf(Gone(World, token.nsi, token.inner.after)))'
    BY DEF Between
  <2>1. /\ Cursor(token) /\ r = cursor.rv
        /\ Runs(got, ShownOf(Gone(World, token.nsi, token.inner.after)))
    BY ZenonT(60), <1>2, <1>7 DEF ListInv, Between
  <2>2. World' = World
    BY ZenonT(60), <1>9, <2>1 DEF World, w
  <2>3. Cursor(token)'
    BY ZenonT(60), <1>7, <1>8, <2>1, <2>2 DEF Cursor
  <2> QED BY ZenonT(60), <1>7, <2>1, <2>2, <2>3
<1>13. Within'
  <2>1. Runs(got, ShownOf(Gone(w, token.nsi, token.inner.after)))
    BY ZenonT(60), <1>2 DEF StandsAt, w
  <2>2. Cursor(cursor)'
    BY ZenonT(60), <1>1, <1>2, <1>3, <1>7, <1>8, <1>9 DEF Cursor, StandsAt, w
  <2>3. Runs(<<>>, Gone(w, token.nsi, token.inner.after) \ Gone(w, token.nsi, token.inner.after))
    BY ZenonT(60), RunsEmpty
  <2>4. (limit > 0 => Len(gathered) < limit)'
    BY ZenonT(60), <1>7, ListAssumption
  <2>5. (inner # NoInner => inner.rev = cursor.rv)'
    BY ZenonT(60), <1>2, <1>7, <1>8 DEF StandsAt
  <2> QED BY ZenonT(60), <1>1, <1>2, <1>4, <1>6, <1>7, <1>8, <1>9, <2>1, <2>2, <2>3, <2>4, <2>5 DEF Within
<1>14. Abstract!Pin \/ UNCHANGED Abstract!vars
  <2>1. CASE phase = "start"
    <3>1. Status = "start" /\ Status' = "paging"
      BY ZenonT(60), <1>2, <1>7, <2>1 DEF Status
    <3> QED BY ZenonT(60), <1>1, <1>2, <1>7, <1>8, <2>1, <3>1 DEF Abstract!Pin
  <2>2. CASE phase = "more"
    <3>1. Status' = Status /\ cursor'.rv = cursor.rv
      BY ZenonT(60), <1>2, <1>7, <1>8, <2>2 DEF Status
    <3> QED BY ZenonT(60), <1>7, <3>1 DEF Abstract!vars, Abstract!listVars
  <2> QED BY ZenonT(60), <1>2, <2>1, <2>2
<1> QED BY ZenonT(60), <1>10, <1>11, <1>12, <1>13, <1>14 DEF ListInv

-----------------------------------------------------------------------------
(* A page is given back.                                                   *)

\* What the client has after a page, if the items lead from its place to a later.
LEMMA ReplyGives ==
    ASSUME NEW w, Whole(w), NEW i \in Nat, NEW a \in Nat, NEW now, now \subseteq w.objects,
           Gone(w, i, a) \subseteq now, Runs(got, ShownOf(Gone(w, i, a))),
           NEW items, NEW next, Runs(items, now \ Gone(w, i, a)), Reply(items, next)
    PROVE  Runs(got', ShownOf(now)) /\ Abstract!Extends(got, got')
<1>1. PICK page \in Filtered(items) : got' = got \o page
  BY ZenonT(60) DEF Reply
<1>2. Runs(got \o page, ShownOf(now)) /\ Abstract!Extends(got, got \o page)
  BY ZenonT(60), ReplyRuns
<1> QED BY ZenonT(60), <1>1, <1>2

\* The token of the next page says where the client stands.
LeadsTo(next, r, i, a) ==
    /\ next \in Token /\ next.rv = r /\ next.nsi = i /\ next.inner.after = a
    /\ i <= Cardinality(store[r].spaces) /\ (~fanned => i = 0)
    /\ next.inner # NoInner => next.inner.rev = r

\* A page that leaves the client at the place <<i, a>> of the revision r.
LEMMA PageKeeps ==
    ASSUME ListInv, NEW r \in 1..Len(store), NEW i \in Nat, NEW a \in Nat,
           UNCHANGED <<store, oldest, fanned>>,
           phase \in {"start", "more"},
           \/ (pc = "reading" \/ phase = "more") /\ cursor.rv = r
           \/ pc = "idle" /\ phase = "start" /\ r = Abstract!Wanted /\ r >= oldest,
           NEW items, NEW next, Reply(items, next),
           Runs(got', ShownOf(Gone(store[r], i, a))), Abstract!Extends(got, got'),
           next = NoToken => Gone(store[r], i, a) = store[r].objects,
           next # NoToken => LeadsTo(next, r, i, a),
           cursor' \in Token, cursor'.rv = r, limit' \in Nat, namespaces' \in Seq(Spaces),
           index' \in Nat, inner' \in Inner, gathered' \in Seq(Keys)
    PROVE  ListInv' /\ Abstract!Deliver
<1> DEFINE w == store[r]
<1>1. /\ pc' = "idle" /\ token' = next /\ asked' = asked
      /\ phase' = IF next = NoToken THEN "done" ELSE "more"
  BY ZenonT(60) DEF Reply
<1>2. phase' \in {"done", "more"} /\ next \in Token
  <2>1. NoToken \in Token
    BY ZenonT(60) DEF NoToken, Token, NoInner, Inner
  <2> QED BY ZenonT(60), <1>1, <2>1 DEF LeadsTo
<1>3. Whole(w) /\ World' = w
  BY ZenonT(60) DEF ListInv, Stored, World
<1>4. /\ Abstract!BeginningOf(got', Listing(w))
      /\ phase' = "done" => Abstract!Received(got') = Listing(w)
  <2>1. /\ Abstract!BeginningOf(got', Listing(w))
        /\ Gone(w, i, a) = w.objects => Abstract!Received(got') = Listing(w)
    BY SMTT(60), <1>3, RunsBegin
  <2>2. phase' = "done" => next = NoToken
    BY ZenonT(60), <1>1
  <2> QED BY ZenonT(60), <2>1, <2>2
<1> HIDE DEF w
<1>5. TypeOK'
  <2>1. got' \in Seq(Keys)
    BY ZenonT(60) DEF Runs
  <2>2. store' \in Seq(Worlds) /\ oldest' \in Nat /\ fanned' \in BOOLEAN /\ asked' \in Nat
    BY ZenonT(60), <1>1, Types
  <2> QED BY ZenonT(60), <1>1, <1>2, <2>1, <2>2 DEF TypeOK
<1>6. Stored'
  BY ZenonT(60) DEF ListInv, Stored
<1>7. Client'
  <2>1. Client
    BY ZenonT(60) DEF ListInv
  <2>2. phase' # "bad cursor" /\ phase' # "start"
    BY ZenonT(60), <1>2
  <2>3. (fanned' => asked' = 0)
    BY ZenonT(60), <1>1, <2>1, AskedStays
  <2>4. asked' \in 0..Len(store')
    BY ZenonT(60), <1>1, <2>1 DEF Client
  <2> QED BY ZenonT(60), <2>2, <2>3, <2>4 DEF Client
<1>8. Between'
  <2> SUFFICES ASSUME phase' = "more"
               PROVE  /\ Cursor(token)'
                      /\ Runs(got, ShownOf(Gone(World, token.nsi, token.inner.after)))'
    BY ZenonT(60) DEF Between
  <2>1. LeadsTo(next, r, i, a)
    BY ZenonT(60), <1>1
  <2>2. Cursor(token)'
    BY ZenonT(60), <1>1, <1>3, <2>1 DEF Cursor, LeadsTo, w
  <2>3. token'.nsi = i /\ token'.inner.after = a
    BY ZenonT(60), <1>1, <2>1 DEF LeadsTo
  <2> QED BY ZenonT(60), <1>3, <2>2, <2>3 DEF w
<1>9. Within'
  BY ZenonT(60), <1>1 DEF Within
<1>10. Abstract!Deliver
  <2>1. Status' = IF phase' = "done" THEN "done" ELSE "paging"
    BY ZenonT(60), <1>1, <1>2 DEF Status
  <2>2. \/ Status = "start" /\ Abstract!Wanted >= oldest /\ cursor'.rv = Abstract!Wanted
        \/ Status = "paging" /\ cursor'.rv = cursor.rv
    BY ZenonT(60) DEF Status
  <2>3. Listing(store[cursor'.rv]) = Listing(w)
    BY ZenonT(60) DEF w
  <2> QED BY ZenonT(60), <1>1, <1>2, <1>4, <2>1, <2>2, <2>3 DEF Abstract!Deliver
<1> QED BY ZenonT(60), <1>5, <1>6, <1>7, <1>8, <1>9, <1>10 DEF ListInv

-----------------------------------------------------------------------------
(* The loop over the namespaces.                                           *)

\* What the client had before the page, and what is behind the handler.
Before == Gone(World, cursor.nsi, cursor.inner.after)
Behind == Gone(World, index, inner.after)

LEMMA ReadingAt ==
    ASSUME ListInv, pc = "reading"
    PROVE  /\ fanned /\ phase \in {"start", "more"}
           /\ cursor.rv \in 1..Len(store) /\ cursor.rv \in Nat /\ cursor.rv # 0
           /\ Whole(World) /\ (\A k \in World.objects : k[1] # 0)
           /\ Enumerates(namespaces, World.spaces) /\ index <= Cardinality(World.spaces)
           /\ ReadAt = cursor.rv
           /\ limit > 0 => Len(gathered) < limit
           /\ cursor.nsi \in Nat /\ cursor.inner.after \in Nat /\ inner.after \in Nat
           /\ Runs(got, ShownOf(Before))
           /\ Before \subseteq Behind /\ Behind \subseteq World.objects
           /\ Runs(gathered, Behind \ Before)
<1>1. Within
  BY ZenonT(60) DEF ListInv
<1>2. /\ fanned /\ phase \in {"start", "more"} /\ Cursor(cursor)
      /\ namespaces \in Ascending(World.spaces)
      /\ index <= Cardinality(World.spaces)
      /\ inner # NoInner => inner.rev = cursor.rv
      /\ limit > 0 => Len(gathered) < limit
      /\ Runs(got, ShownOf(Before))
      /\ Before \subseteq Behind /\ Runs(gathered, Behind \ Before)
  BY ZenonT(60), <1>1 DEF Within, Before, Behind
<1>3. cursor.rv \in 1..Len(store)
  BY ZenonT(60), <1>2 DEF Cursor
<1>4. cursor.rv \in Nat /\ cursor.rv # 0
  BY SMTT(60), <1>3, Types
<1>5. Whole(World) /\ \A k \in World.objects : k[1] # 0
  BY ZenonT(60), <1>2, <1>3 DEF ListInv, Stored, World
<1>6. Enumerates(namespaces, World.spaces)
  BY ZenonT(60), <1>2, <1>5, WholeIs, Enumeration
<1>7. ReadAt = cursor.rv
  BY ZenonT(60), <1>2 DEF ReadAt
<1>8. cursor.nsi \in Nat /\ cursor.inner.after \in Nat /\ inner.after \in Nat
  BY Types DEF Token, Inner
<1>9. Behind \subseteq World.objects
  BY ZenonT(60) DEF Behind, Gone
<1> QED BY ZenonT(60), <1>2, <1>3, <1>4, <1>5, <1>6, <1>7, <1>8, <1>9

LEMMA EndKeeps ==
    ASSUME ListInv, EndOfNamespaces
    PROVE  ListInv' /\ Abstract!Deliver
<1>1. /\ pc = "reading" /\ index >= Len(namespaces) /\ Reply(gathered, NoToken)
      /\ UNCHANGED <<store, oldest, fanned, limit, cursor, namespaces, index, inner, gathered>>
  BY DEF EndOfNamespaces, clusterVars
<1> DEFINE r == cursor.rv
<1>2. index = Cardinality(World.spaces) /\ Behind = World.objects
  <2>1. /\ Len(namespaces) = Cardinality(World.spaces) /\ Cardinality(World.spaces) \in Nat
        /\ index <= Cardinality(World.spaces) /\ index \in Nat
    BY ZenonT(60), <1>1, ReadingAt, Types DEF Enumerates
  <2>2. index = Cardinality(World.spaces)
    BY SMTT(60), <1>1, <2>1
  <2>3. Gone(World, Cardinality(World.spaces), inner.after) = World.objects
    BY ZenonT(60), <1>1, ReadingAt, GoneEnds
  <2> QED BY ZenonT(60), <2>2, <2>3 DEF Behind
<1>3. Runs(got', ShownOf(Behind)) /\ Abstract!Extends(got, got')
  BY ZenonT(60), <1>1, ReadingAt, ReplyGives DEF Before
<1>4. /\ index \in Nat /\ inner.after \in Nat /\ limit \in Nat /\ inner \in Inner
      /\ cursor \in Token /\ gathered \in Seq(Keys) /\ namespaces \in Seq(Spaces)
  BY ZenonT(60), <1>1, ReadingAt, Types DEF ListInv, TypeOK
<1>5. /\ Runs(got', ShownOf(Gone(store[r], index, inner.after)))
      /\ Gone(store[r], index, inner.after) = store[r].objects
  BY ZenonT(60), <1>2, <1>3 DEF Behind, World
<1>6. r \in 1..Len(store) /\ phase \in {"start", "more"}
  BY ZenonT(60), <1>1, ReadingAt
<1> QED BY ZenonT(60), <1>1, <1>3, <1>4, <1>5, <1>6, PageKeeps

LEMMA ReadKeeps ==
    ASSUME ListInv, ReadNamespace
    PROVE  ListInv' /\ (Abstract!Deliver \/ UNCHANGED Abstract!vars)
<1> DEFINE r == cursor.rv
           ns == namespaces[index + 1]
           left == Left(ns, ReadAt, inner.after)
           n == IF limit > 0 THEN limit - Len(gathered) ELSE 0
           page == FirstOf(left, n)
           t == TokenAfter(page, left, ReadAt)
           next == TokenFor(index, t)
           last == next.nsi >= Len(namespaces) /\ next.inner = NoInner
<1>1. /\ pc = "reading" /\ index < Len(namespaces)
      /\ UNCHANGED <<store, oldest, fanned, limit, cursor, namespaces>>
  BY ZenonT(60) DEF ReadNamespace, clusterVars
<1>2. PICK names \in Ascending(page) :
        LET items == gathered \o RowsOf(ns, names) IN
        /\ gathered' = items
        /\ IF limit > 0 /\ Len(items) >= limit
           THEN /\ Reply(items, IF last THEN NoToken ELSE next)
                /\ UNCHANGED <<index, inner>>
           ELSE index' = index + 1 /\ inner' = NoInner /\ UNCHANGED <<pc, clientVars>>
  BY ZenonT(60) DEF ReadNamespace, RowsOf
<1> DEFINE s == RowsOf(ns, names)
           items == gathered \o s
<1>3. /\ fanned /\ phase \in {"start", "more"}
      /\ r \in 1..Len(store) /\ r \in Nat /\ r # 0 /\ ReadAt = r
      /\ Whole(World) /\ (\A k \in World.objects : k[1] # 0)
      /\ cursor.nsi \in Nat /\ cursor.inner.after \in Nat /\ inner.after \in Nat
      /\ Runs(got, ShownOf(Before))
      /\ Before \subseteq Behind /\ Behind \subseteq World.objects
      /\ Runs(gathered, Behind \ Before)
  BY ZenonT(60), <1>1, ReadingAt
<1>4. /\ Cardinality(World.spaces) \in Nat /\ Len(namespaces) = Cardinality(World.spaces)
      /\ index \in Nat /\ index + 1 \in 1..Cardinality(World.spaces)
  <2>1. Enumerates(namespaces, World.spaces)
    BY ZenonT(60), <1>1, ReadingAt
  <2>2. Cardinality(World.spaces) \in Nat /\ Len(namespaces) = Cardinality(World.spaces)
    BY ZenonT(60), <2>1 DEF Enumerates
  <2>3. index \in Nat
    BY ZenonT(60), Types
  <2> QED BY SMTT(60), <1>1, <2>2, <2>3
<1>5. ns \in World.spaces /\ ns # 0 /\ Rank(World.spaces, ns) = index
  <2>1. ns \in World.spaces /\ Rank(World.spaces, ns) = (index + 1) - 1
    BY ZenonT(60), <1>1, <1>4, ReadingAt DEF Enumerates
  <2>2. ns # 0
    BY ZenonT(60), <1>3, <2>1, WholeIs
  <2> QED BY SMTT(60), <1>4, <2>1, <2>2
<1>6. /\ n \in Nat /\ limit \in Nat /\ Len(gathered) \in Nat
      /\ limit > 0 => n = limit - Len(gathered)
      /\ ~(limit > 0) => n = 0
  BY SMTT(60), <1>1, ReadingAt, Types
<1>7. left = LeftOf(World, ns, inner.after)
  BY ZenonT(60), <1>3 DEF Left, LeftOf, World
<1> HIDE DEF r, ns, left, n, page, t, s
<1>8. /\ t \in Inner /\ (t # NoInner => t.rev = r /\ n # 0 /\ Len(s) >= n)
      /\ Gone(World, IF t = NoInner THEN index + 1 ELSE index, t.after) = Behind \cup Items(s)
      /\ Runs(s, Items(s)) /\ Len(s) \in Nat
      /\ Items(s) \subseteq World.objects /\ Items(s) \cap Behind = {}
  <2>1. ns \in World.spaces \cup {0} /\ Homes(World, ns)
    BY ZenonT(60), <1>3, <1>5 DEF Homes
  <2>2. page = FirstOf(left, n) /\ t = TokenAfter(page, left, r) /\ names \in Ascending(page)
    BY ZenonT(60), <1>2, <1>3 DEF page, t
  <2>3. s = RowsOf(ns, names)
    BY ZenonT(60) DEF s
  <2>4. PageOf(World, index, inner.after, n, r, s, t)
    BY ZenonT(60), <1>3, <1>4, <1>5, <1>6, <1>7, <2>1, <2>2, <2>3, PageIs
  <2> QED BY ZenonT(60), <2>4 DEF PageOf, Behind
<1> DEFINE j == IF t = NoInner THEN index + 1 ELSE index
           now == Behind \cup Items(s)
<1>9. /\ j \in Nat /\ j <= Cardinality(World.spaces) /\ t.after \in Nat
      /\ Gone(World, j, t.after) = now /\ now \subseteq World.objects /\ Before \subseteq now
  <2>1. t.after \in Nat
    BY <1>8 DEF Inner
  <2>2. j \in Nat /\ j <= Cardinality(World.spaces)
    BY SMTT(60), <1>4
  <2>3. now \subseteq World.objects /\ Before \subseteq now
    BY ZenonT(60), <1>3, <1>8
  <2>4. Gone(World, j, t.after) = now
    BY ZenonT(60), <1>8
  <2> QED BY ZenonT(60), <2>1, <2>2, <2>3, <2>4
<1>10. Runs(items, now \ Before)
  <2>1. \A k \in Behind \ Before, l \in Items(s) : KeyLess(k, l)
    <3> SUFFICES ASSUME NEW k \in Behind, NEW l \in Items(s) PROVE KeyLess(k, l)
      BY ZenonT(60)
    <3>1. l \in World.objects /\ l \notin Behind
      BY ZenonT(60), <1>8
    <3> QED BY <1>3, <1>4, <3>1, GoneFirst DEF Behind
  <2>2. Runs(items, (Behind \ Before) \cup Items(s))
    BY ZenonT(60), <1>3, <1>8, <2>1, RunsJoin
  <2>3. (Behind \ Before) \cup Items(s) = now \ Before
    BY ZenonT(60), <1>3, <1>8
  <2> QED BY <2>2, <2>3
<1>11. items \in Seq(Keys) /\ Len(items) = Len(gathered) + Len(s)
  <2>1. gathered \in Seq(Keys) /\ s \in Seq(Keys)
    BY ZenonT(60), <1>3, <1>8 DEF Runs
  <2> QED BY SMTT(60), <2>1
<1>12. /\ next.rv = r /\ next.nsi = j /\ next.inner = t /\ next \in Token
  BY ZenonT(60), <1>3, <1>8, <1>9 DEF TokenFor, Token, r
<1> HIDE DEF items, next, j, now
<1>13. CASE limit > 0 /\ Len(items) >= limit
  <2> DEFINE nxt == IF last THEN NoToken ELSE next
  <2>1. gathered' = items /\ Reply(items, nxt) /\ UNCHANGED <<index, inner>>
    BY ZenonT(60), <1>2, <1>13 DEF items, s, next
  <2>2. Runs(got', ShownOf(now)) /\ Abstract!Extends(got, got')
    BY ZenonT(60), <1>3, <1>9, <1>10, <2>1, ReplyGives DEF Before
  <2>3. store[r] = World
    BY ZenonT(60) DEF World, r
  <2>4. nxt = NoToken => Gone(store[r], j, t.after) = store[r].objects
    <3> SUFFICES ASSUME nxt = NoToken PROVE Gone(World, j, t.after) = World.objects
      BY ZenonT(60), <2>3
    <3>1. next # NoToken
      <4>1. NoToken.rv = 0
        BY DEF NoToken
      <4>2. next.rv # 0
        BY ZenonT(60), <1>3, <1>12
      <4> QED BY ZenonT(60), <4>1, <4>2
    <3>2. last
      BY ZenonT(60), <3>1
    <3>3. j = Cardinality(World.spaces)
      BY SMTT(60), <3>2, <1>4, <1>9, <1>12
    <3> QED BY ZenonT(60), <3>3, <1>3, <1>9, GoneEnds
  <2>5. nxt # NoToken => LeadsTo(nxt, r, j, t.after)
    <3> SUFFICES ASSUME nxt # NoToken PROVE LeadsTo(next, r, j, t.after)
      BY ZenonT(60)
    <3> QED BY ZenonT(60), <1>3, <1>8, <1>9, <1>12, <2>3 DEF LeadsTo
  <2>6. /\ cursor' \in Token /\ cursor'.rv = r /\ limit' \in Nat /\ namespaces' \in Seq(Spaces)
        /\ index' \in Nat /\ inner' \in Inner /\ gathered' \in Seq(Keys)
    BY ZenonT(60), <1>1, <1>11, <2>1, Types DEF ListInv, TypeOK, r
  <2>7. Runs(got', ShownOf(Gone(store[r], j, t.after)))
    BY ZenonT(60), <1>9, <2>2, <2>3
  <2>8. (pc = "reading" \/ phase = "more") /\ cursor.rv = r /\ UNCHANGED <<store, oldest, fanned>>
    BY ZenonT(60), <1>1 DEF r
  <2> HIDE DEF nxt
  <2> QED BY ZenonT(60), <1>3, <1>9, <2>1, <2>2, <2>4, <2>5, <2>6, <2>7, <2>8, PageKeeps
<1>14. CASE ~(limit > 0 /\ Len(items) >= limit)
  <2>1. /\ gathered' = items /\ index' = index + 1 /\ inner' = NoInner
        /\ UNCHANGED <<pc, phase, asked, token, got>>
    BY ZenonT(60), <1>2, <1>14 DEF items, s, clientVars
  <2>2. t = NoInner
    <3> SUFFICES ASSUME t # NoInner PROVE FALSE
      BY ZenonT(60)
    <3>1. n # 0 /\ Len(s) >= n /\ Len(s) \in Nat
      BY ZenonT(60), <1>8
    <3> QED BY SMTT(60), <1>6, <1>11, <1>14, <3>1
  <2>3. j = index + 1 /\ t.after = 0 /\ NoInner.after = 0 /\ NoInner \in Inner
    BY ZenonT(60), <2>2 DEF j, NoInner, Inner
  <2>4. World' = World /\ Before' = Before
    BY ZenonT(60), <1>1 DEF World, Before
  <2>5. Behind' = now
    BY ZenonT(60), <1>9, <2>1, <2>3, <2>4 DEF Behind
  <2>6. TypeOK'
    <3>1. TypeOK
      BY ZenonT(60) DEF ListInv
    <3>2. index' \in Nat /\ inner' \in Inner /\ gathered' \in Seq(Keys)
      BY SMTT(60), <1>4, <1>11, <2>1, <2>3
    <3> QED BY ZenonT(60), <1>1, <2>1, <3>1, <3>2 DEF TypeOK
  <2>7. Stored' /\ Client'
    <3>1. Stored /\ Client
      BY ZenonT(60) DEF ListInv
    <3> QED BY ZenonT(60), <1>1, <2>1, <3>1 DEF Stored, Client
  <2>8. Between'
    <3>1. Between
      BY ZenonT(60) DEF ListInv
    <3>2. Cursor(token) => Cursor(token)'
      BY ZenonT(60), <1>1, <2>1, <2>4 DEF Cursor
    <3> QED BY ZenonT(60), <1>1, <2>1, <2>4, <3>1, <3>2 DEF Between
  <2>9. Within'
    <3>1. Within
      BY ZenonT(60) DEF ListInv
    <3>2. Cursor(cursor)'
      BY ZenonT(60), <1>1, <2>4, <3>1 DEF Within, Cursor
    <3>3. (limit > 0 => Len(gathered) < limit)'
      <4>1. limit' = limit /\ gathered' = items
        BY ZenonT(60), <1>1, <2>1
      <4>2. Len(items) \in Nat /\ limit \in Nat
        BY SMTT(60), <1>6, <1>11
      <4>3. limit > 0 => Len(items) < limit
        BY SMTT(60), <1>14, <4>2
      <4> QED BY ZenonT(60), <4>1, <4>3
    <3>4. (index <= Cardinality(World.spaces))'
      BY SMTT(60), <1>4, <2>1, <2>4
    <3>5. (namespaces \in Ascending(World.spaces))'
      BY ZenonT(60), <1>1, <2>4, <3>1 DEF Within
    <3>6. Runs(got, ShownOf(Before))' /\ Before' \subseteq Behind' /\ Runs(gathered, Behind \ Before)'
      BY ZenonT(60), <1>3, <1>9, <1>10, <2>1, <2>4, <2>5
    <3> QED BY ZenonT(60), <1>1, <1>3, <2>1, <3>2, <3>3, <3>4, <3>5, <3>6 DEF Within, Before, Behind
  <2>10. UNCHANGED Abstract!vars
    <3>1. Status' = Status
      BY ZenonT(60), <2>1 DEF Status
    <3> QED BY ZenonT(60), <1>1, <2>1, <3>1 DEF Abstract!vars, Abstract!listVars
  <2> QED BY ZenonT(60), <2>6, <2>7, <2>8, <2>9, <2>10 DEF ListInv
<1> QED BY ZenonT(60), <1>13, <1>14

-----------------------------------------------------------------------------
(* A cluster-scoped page, and failures.                                    *)

LEMMA ClusterScopedKeeps ==
    ASSUME ListInv, ClusterScopedPage
    PROVE  ListInv' /\ Abstract!Deliver
<1> DEFINE r == Pinned(token)
           a == token.inner.after
           left == Left(0, r, a)
           page == FirstOf(left, limit')
           t == TokenAfter(page, left, r)
           next == IF t = NoInner THEN NoToken ELSE [rv |-> r, nsi |-> 0, inner |-> t]
           w == store[r]
<1>1. /\ ~fanned /\ Asking /\ r >= oldest /\ limit' \in Limits
      /\ UNCHANGED <<store, oldest, fanned, namespaces, index, inner>>
  BY DEF ClusterScopedPage, clusterVars
<1>2. PICK names \in Ascending(page) :
        /\ gathered' = RowsOf(0, names)
        /\ cursor' = [token EXCEPT !.rv = r]
        /\ Reply(gathered', next)
  BY ZenonT(60) DEF ClusterScopedPage, RowsOf
<1> DEFINE s == RowsOf(0, names)
<1>3. /\ StandsAt(token, r) /\ phase \in {"start", "more"} /\ pc = "idle"
      /\ phase = "more" => r = cursor.rv
      /\ phase = "start" => r = Abstract!Wanted
  BY <1>1, AskingAt DEF Asking
<1> HIDE DEF r
<1>4. /\ r \in 1..Len(store) /\ r \in Nat /\ r # 0 /\ token.nsi = 0
      /\ Runs(got, ShownOf(Gone(w, 0, a)))
  <2>1. r \in 1..Len(store) /\ token.nsi = 0 /\ Runs(got, ShownOf(Gone(w, token.nsi, a)))
    BY ZenonT(60), <1>1, <1>3 DEF StandsAt
  <2>2. Len(store) \in Nat
    BY ZenonT(60), Types
  <2>3. r \in Nat /\ r # 0
    BY SMTT(60), <2>1, <2>2
  <2> QED BY ZenonT(60), <2>1, <2>3
<1>5. /\ Whole(w) /\ (\A k \in w.objects : k[1] = 0) /\ Rank(w.spaces, 0) = 0
      /\ Cardinality(w.spaces) \in Nat
  <2>1. Whole(w) /\ \A k \in w.objects : k[1] = 0
    BY ZenonT(60), <1>1, <1>4 DEF ListInv, Stored
  <2>2. w.spaces \subseteq Nat /\ Cardinality(w.spaces) \in Nat
    BY ZenonT(60), <2>1, WholeIs
  <2> QED BY ZenonT(60), <2>1, <2>2, RankOfZero
<1>6. a \in Nat /\ limit' \in Nat
  BY ZenonT(60), <1>1, Types, ListAssumption DEF Token, Inner
<1>7. left = LeftOf(w, 0, a)
  BY ZenonT(60) DEF Left, LeftOf
<1> HIDE DEF w, a, left, page, t, s
<1>8. PageOf(w, 0, a, limit', r, s, t)
  <2>1. 0 \in w.spaces \cup {0} /\ Homes(w, 0)
    BY <1>5 DEF Homes
  <2>2. page = FirstOf(left, limit') /\ t = TokenAfter(page, left, r) /\ names \in Ascending(page)
    BY <1>2 DEF page, t
  <2>3. s = RowsOf(0, names)
    BY DEF s
  <2>4. Whole(w) /\ Rank(w.spaces, 0) = 0 /\ 0 \in Nat
    BY <1>5
  <2>5. r \in Nat /\ r # 0 /\ a \in Nat /\ limit' \in Nat
    BY <1>4, <1>6
  <2> QED BY ZenonT(60), <1>7, <2>1, <2>2, <2>3, <2>4, <2>5, PageIs
<1> DEFINE before == Gone(w, 0, a)
           now == before \cup Items(s)
           j == IF t = NoInner THEN 1 ELSE 0
<1>9. /\ t \in Inner /\ (t # NoInner => t.rev = r) /\ t.after \in Nat
      /\ Gone(w, j, t.after) = now
      /\ Runs(s, Items(s)) /\ Items(s) \subseteq w.objects /\ Items(s) \cap before = {}
  BY SMTT(60), <1>8 DEF PageOf, Inner
<1>10. now \subseteq w.objects /\ before \subseteq now /\ now \ before = Items(s)
  BY <1>9 DEF Gone
<1>11. gathered' = s /\ Reply(s, next) /\ s \in Seq(Keys)
  BY ZenonT(60), <1>2, <1>9 DEF s, Runs
<1> HIDE DEF next
<1>12. Runs(got', ShownOf(now)) /\ Abstract!Extends(got, got')
  <2>1. Whole(w) /\ 0 \in Nat /\ a \in Nat /\ now \subseteq w.objects /\ Gone(w, 0, a) \subseteq now
    BY <1>5, <1>6, <1>10
  <2>2. Runs(got, ShownOf(Gone(w, 0, a))) /\ Reply(s, next)
    BY ZenonT(60), <1>4, <1>11
  <2>3. Runs(s, now \ Gone(w, 0, a))
    BY ZenonT(60), <1>9, <1>10
  <2> HIDE DEF now
  <2> QED BY ZenonT(60), <2>1, <2>2, <2>3, ReplyGives
<1>13. next = NoToken => Gone(w, j, t.after) = w.objects
  <2> SUFFICES ASSUME next = NoToken PROVE Gone(w, j, t.after) = w.objects
    OBVIOUS
  <2>1. t = NoInner
    BY <1>4 DEF next, NoToken
  <2>2. j = 1 /\ t.after = 0
    BY <2>1 DEF NoInner
  <2>3. Gone(w, 1, 0) = w.objects
    BY ZenonT(60), <1>5, <1>6, GoneEnds
  <2> QED BY <2>2, <2>3
<1>14. next # NoToken => LeadsTo(next, r, j, t.after)
  <2> SUFFICES ASSUME next # NoToken PROVE LeadsTo(next, r, j, t.after)
    BY ZenonT(60)
  <2>1. t # NoInner /\ next = [rv |-> r, nsi |-> 0, inner |-> t] /\ j = 0
    BY ZenonT(60) DEF next
  <2>2. next \in Token /\ next.rv = r /\ next.nsi = 0 /\ next.inner = t
    BY ZenonT(60), <1>4, <1>9, <2>1 DEF Token
  <2>3. 0 <= Cardinality(w.spaces)
    BY SMTT(60), <1>5
  <2>4. store[r] = w
    BY DEF w
  <2>5. t.rev = r
    BY ZenonT(60), <1>9, <2>1
  <2> HIDE DEF j
  <2> QED BY ZenonT(60), <2>1, <2>2, <2>3, <2>4, <2>5 DEF LeadsTo
<1>15. /\ cursor' \in Token /\ cursor'.rv = r /\ namespaces' \in Seq(Spaces)
       /\ index' \in Nat /\ inner' \in Inner /\ gathered' \in Seq(Keys)
  <2>1. cursor' \in Token /\ cursor'.rv = r
    BY ZenonT(60), <1>2, <1>4, Types DEF Token
  <2>2. namespaces \in Seq(Spaces)
    BY ZenonT(60) DEF ListInv, TypeOK
  <2> QED BY ZenonT(60), <1>1, <1>11, <2>1, <2>2, Types
<1>16. \/ (pc = "reading" \/ phase = "more") /\ cursor.rv = r
       \/ pc = "idle" /\ phase = "start" /\ r = Abstract!Wanted /\ r >= oldest
  BY <1>1, <1>3
<1>17. j \in Nat /\ Runs(got', ShownOf(Gone(w, j, t.after)))
  BY ZenonT(60), <1>9, <1>12
<1> HIDE DEF j
<1> QED
  BY ZenonT(60), <1>1, <1>3, <1>4, <1>6, <1>9, <1>11, <1>12, <1>13, <1>14, <1>15, <1>16, <1>17, PageKeeps DEF w

LEMMA FailureKeeps ==
    ASSUME ListInv, TooManyNamespaces \/ Expired \/ Forbidden
    PROVE  ListInv' /\ Abstract!Fail
<1>1. PICK how \in {"expired", "refused"} :
        /\ Fails(how)
        /\ \/ pc = "reading" /\ (how = "expired" => ReadAt < oldest)
           \/ Asking /\ (how = "expired" => Pinned(token) < oldest)
  BY DEF TooManyNamespaces, Expired, Forbidden
<1>2. ListInv'
  BY ZenonT(60), <1>1, FailsKeeps
<1>3. /\ pc' = "idle" /\ phase' = how /\ UNCHANGED <<store, oldest, asked, cursor, got>>
  BY ZenonT(60), <1>1 DEF Fails, clusterVars
<1>4. Status' = how
  BY ZenonT(60), <1>3 DEF Status
<1>5. CASE pc = "reading" /\ (how = "expired" => ReadAt < oldest)
  <2>1. Status = "paging" /\ ReadAt = cursor.rv
    BY ZenonT(60), <1>5, ReadingAt DEF Status
  <2> QED BY ZenonT(60), <1>2, <1>3, <1>4, <1>5, <2>1 DEF Abstract!Fail
<1>6. CASE Asking /\ (how = "expired" => Pinned(token) < oldest)
  <2>1. /\ phase = "more" => Pinned(token) = cursor.rv
        /\ phase = "start" => Pinned(token) = Abstract!Wanted
        /\ pc = "idle" /\ phase \in {"start", "more"}
    BY ZenonT(60), <1>6, AskingAt DEF Asking
  <2>2. CASE phase = "start"
    <3>1. Status = "start"
      BY ZenonT(60), <2>1, <2>2 DEF Status
    <3> QED BY ZenonT(60), <1>2, <1>3, <1>4, <1>6, <2>1, <2>2, <3>1 DEF Abstract!Fail
  <2>3. CASE phase = "more"
    <3>1. Status = "paging"
      BY ZenonT(60), <2>1, <2>3 DEF Status
    <3> QED BY ZenonT(60), <1>2, <1>3, <1>4, <1>6, <2>1, <2>3, <3>1 DEF Abstract!Fail
  <2> QED BY ZenonT(60), <2>1, <2>2, <2>3
<1> QED BY ZenonT(60), <1>1, <1>5, <1>6

-----------------------------------------------------------------------------
(* The theorem.                                                            *)

LEMMA StutterKeeps ==
    ASSUME ListInv, UNCHANGED vars
    PROVE  ListInv' /\ UNCHANGED Abstract!vars
<1>1. /\ UNCHANGED <<store, oldest, fanned, pc, limit, cursor, namespaces, index>>
      /\ UNCHANGED <<inner, gathered, phase, asked, token, got>>
  BY ZenonT(60) DEF vars, clusterVars, handlerVars, clientVars
<1>2. TypeOK' /\ Stored'
  BY ZenonT(60), <1>1 DEF ListInv, TypeOK, Stored
<1>3. Client' /\ Between' /\ Within'
  BY SMTT(60), <1>1, Types, SnapshotStays DEF handlerVars, clientVars
<1>4. UNCHANGED Abstract!vars
  BY ZenonT(60), <1>1 DEF Abstract!vars, Abstract!listVars, Status
<1> QED BY ZenonT(60), <1>2, <1>3, <1>4 DEF ListInv

\* Every step of the list is a step of SnapshotList or changes nothing of it, and
\* keeps the invariant.
LEMMA StepSimulates ==
    ASSUME ListInv, [Next]_vars, TRUE \notin ExactReads
    PROVE  ListInv' /\ [Abstract!Next]_Abstract!vars
<1>1. CASE Cluster
  BY <1>1, ClusterKeeps DEF Abstract!Next
<1>2. CASE TenantNamespaces
  BY ZenonT(60), <1>2, NamespacesKeep DEF Abstract!Next
<1>3. CASE TooManyNamespaces \/ Expired \/ Forbidden
  BY <1>3, FailureKeeps DEF Abstract!Next
<1>4. CASE ReadNamespace
  BY <1>4, ReadKeeps DEF Abstract!Next
<1>5. CASE EndOfNamespaces
  BY ZenonT(60), <1>5, EndKeeps DEF Abstract!Next
<1>6. CASE ClusterScopedPage
  BY ZenonT(60), <1>6, ClusterScopedKeeps DEF Abstract!Next
<1>7. CASE Restart
  BY <1>7, RestartKeeps DEF Abstract!Next
<1>8. CASE UNCHANGED vars
  BY <1>8, StutterKeeps
<1> QED BY ZenonT(60), <1>1, <1>2, <1>3, <1>4, <1>5, <1>6, <1>7, <1>8 DEF Next, Page

\* The pages of a list that asks for no exact revision across namespaces are one
\* snapshot, however many namespaces, names, revisions and page sizes there are:
\* tenantProxy.list implements SnapshotList.  (A fanned out list that asks for an
\* exact revision is given another one.)
THEOREM ListImplementsSnapshot ==
    ASSUME TRUE \notin ExactReads
    PROVE  Spec => IsSnapshot
<1>1. Init => ListInv /\ Abstract!Init
  <2> SUFFICES ASSUME Init PROVE ListInv /\ Abstract!Init
    OBVIOUS
  <2>1. ListInv
    BY ZenonT(60), InitInv
  <2>2. Status = "start" /\ cursor.rv = 0 /\ oldest = 1 /\ asked = 0 /\ got = <<>>
    BY DEF Init, Status, NoToken
  <2>3. Len(store) > 0 /\ asked <= Len(store)
    BY SMTT(60), <2>1, <2>2, Types
  <2> QED BY ZenonT(60), <2>1, <2>2, <2>3 DEF Abstract!Init
<1>2. ListInv /\ [Next]_vars => ListInv' /\ [Abstract!Next]_Abstract!vars
  BY StepSimulates
<1> QED BY <1>1, <1>2, PTL DEF Spec, IsSnapshot, Abstract!Spec
=============================================================================
