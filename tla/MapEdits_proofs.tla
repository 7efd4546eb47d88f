-------------------------- MODULE MapEdits_proofs --------------------------
(* Editing the map, undo and redo: the client shows what the server has     *)
(* between two actions, for any number of geometries, ids and edits, any    *)
(* length of the undo stack and any kinds of edits, as long as no agent     *)
(* begins before the others have ended.                                     *)
EXTENDS MapEdits, FiniteSetTheorems, SequenceTheorems, WellFoundedInduction, TLAPS

-----------------------------------------------------------------------------
(* Sets of numbers and definitions by recursion                             *)

Rises(f) == \A m, n \in DOMAIN f : m < n => f[m] < f[n]

(* A finite set of numbers can be put in order.                             *)
LEMMA Ordered ==
  ASSUME NEW P \in SUBSET Nat, IsFiniteSet(P)
  PROVE  \E f \in [1..Cardinality(P) -> P] : Rises(f)
<1>. DEFINE N == Cardinality(P)
            below(i) == {j \in P : j <= i}
            rank == [i \in P |-> Cardinality(below(i))]
<1>1. N \in Nat
  BY FS_CardinalityType
<1>2. ASSUME NEW i \in P
      PROVE  IsFiniteSet(below(i)) /\ rank[i] \in 1..N
  <2>1. IsFiniteSet(below(i)) /\ Cardinality(below(i)) <= N
    BY FS_Subset
  <2>2. Cardinality(below(i)) \in Nat /\ Cardinality(below(i)) # 0
    <3>1. i \in below(i)
      OBVIOUS
    <3>. QED BY <2>1, <3>1, FS_CardinalityType, FS_EmptySet
  <2>. QED BY <1>1, <2>1, <2>2
<1>3. ASSUME NEW i \in P, NEW j \in P, i < j
      PROVE  rank[i] < rank[j]
  <2>0. i \in Nat /\ j \in Nat /\ \A k \in P : k \in Nat
    OBVIOUS
  <2>1. below(i) \subseteq below(j) /\ j \in below(j) /\ j \notin below(i)
    <3>1. ASSUME NEW k \in P, k <= i PROVE k <= j
      BY <1>3, <2>0, <3>1
    <3>2. j <= j /\ ~ (j <= i)
      BY <1>3, <2>0
    <3>. QED BY <3>1, <3>2
  <2>2. Cardinality(below(i)) <= Cardinality(below(j)) /\ Cardinality(below(i)) # Cardinality(below(j))
    <3>. HIDE DEF below
    <3>. QED BY <1>2, <2>1, FS_Subset
  <2>. QED BY <1>2, <2>2
<1>4. rank \in Injection(P, 1..N)
  <2>1. rank \in [P -> 1..N]
    BY <1>2
  <2>2. \A i, j \in P : rank[i] = rank[j] => i = j
    <3>1. ASSUME NEW i \in P, NEW j \in P, i # j PROVE rank[i] # rank[j]
      <4>1. i < j \/ j < i
        BY <3>1
      <4>2. rank[i] \in Nat /\ rank[j] \in Nat
        BY <1>2
      <4>3. (i < j => rank[i] < rank[j]) /\ (j < i => rank[j] < rank[i])
        BY <1>3
      <4>. HIDE DEF rank
      <4>. QED BY <4>1, <4>2, <4>3
    <3>. QED BY <3>1
  <2>. HIDE DEF rank
  <2>. QED BY <2>1, <2>2 DEF Injection, IsInjective
<1>5. rank \in Surjection(P, 1..N)
  <2>1. IsFiniteSet(1..N) /\ Cardinality(1..N) = N
    BY <1>1, FS_Interval
  <2>. HIDE DEF rank
  <2>. QED BY <1>4, <2>1, FS_Injection
<1>. HIDE DEF rank
<1>6. \A n \in 1..N : \E i \in P : rank[i] = n
  BY <1>5 DEF Surjection
<1>. DEFINE f == [n \in 1..N |-> CHOOSE i \in P : rank[i] = n]
<1>7. f \in [1..N -> P] /\ \A n \in 1..N : rank[f[n]] = n
  BY <1>6
<1>8. Rises(f)
  <2>1. ASSUME NEW m \in 1..N, NEW n \in 1..N, m < n PROVE f[m] < f[n]
    <3>1. f[m] \in Nat /\ f[n] \in Nat /\ rank[f[m]] = m /\ rank[f[n]] = n /\ f[m] \in P /\ f[n] \in P
      BY <1>7
    <3>2. ~ (f[n] < f[m]) /\ f[n] # f[m]
      <4>. HIDE DEF f
      <4>1. f[n] < f[m] => n < m
        BY <1>3, <3>1
      <4>. QED BY <2>1, <3>1, <4>1
    <3>. HIDE DEF f
    <3>. QED BY <3>1, <3>2
  <2>. QED BY <2>1, <1>7 DEF Rises
<1>. QED BY <1>7, <1>8

(* And then every one of them is in it once.                                *)
LEMMA RisesOnce ==
  ASSUME NEW P \in SUBSET Nat, IsFiniteSet(P), NEW f \in [1..Cardinality(P) -> P], Rises(f)
  PROVE  /\ \A m, n \in 1..Cardinality(P) : f[m] = f[n] => m = n
         /\ \A i \in P : \E n \in 1..Cardinality(P) : f[n] = i
<1>. DEFINE N == Cardinality(P)
<1>1. N \in Nat
  BY FS_CardinalityType
<1>2. ASSUME NEW m \in 1..N, NEW n \in 1..N, f[m] = f[n] PROVE m = n
  <2>1. DOMAIN f = 1..N /\ f[m] \in Nat /\ f[n] \in Nat
    OBVIOUS
  <2>2. (m < n => f[m] < f[n]) /\ (n < m => f[n] < f[m])
    BY <2>1 DEF Rises
  <2>. QED BY <1>1, <1>2, <2>1, <2>2
<1>3. f \in Injection(1..N, P)
  BY <1>2 DEF Injection, IsInjective
<1>4. IsFiniteSet(1..N) /\ Cardinality(1..N) = N
  BY <1>1, FS_Interval
<1>5. f \in Surjection(1..N, P)
  BY <1>3, <1>4, FS_Injection
<1>. QED BY <1>2, <1>5 DEF Surjection


LEMMA Least ==
  ASSUME NEW S \in SUBSET Nat, S # {}
  PROVE  \E x \in S : \A y \in S : ~(y < x)
<1>1. PICK x \in S : \A y \in S : ~(<<y, x>> \in OpToRel(<, Nat))
  BY WFMin, NatLessThanWellFounded
<1>. QED BY <1>1 DEF OpToRel

Below(k) == 0..(k - 1)

(* The aliases lead upwards, to ids that the server has given out.          *)
AliasOK ==
  /\ fresh \in 6..(MaxId + 1)
  /\ alias \in [Ids -> Below(fresh)]
  /\ \A i \in Ids : alias[i] = None \/ i < alias[i]

(* The function of resolveId exists from any id upwards.                    *)
LEMMA NewestFrom ==
  ASSUME AliasOK, NEW n \in 0..MaxId
  PROVE  \E g : g = [j \in (MaxId + 1 - n)..MaxId |-> IF alias[j] = None THEN j ELSE g[alias[j]]]
<1>. DEFINE Is(k, g) == g = [j \in (MaxId + 1 - k)..MaxId |-> IF alias[j] = None THEN j ELSE g[alias[j]]]
            Bad == {k \in 0..MaxId : ~ \E g : Is(k, g)}
<1>1. MaxId \in Nat
  BY MapEditsAssumption
<1>2. ASSUME NEW k \in Bad, \A y \in Bad : ~(y < k) PROVE FALSE
  <2>1. CASE k = 0
    <3>1. (MaxId + 1 - k)..MaxId = {}
      BY <1>1, <2>1
    <3>2. Is(k, <<>>)
      BY <3>1
    <3>. QED BY <3>2
  <2>2. CASE k # 0
    <3>1. k - 1 \in 0..MaxId /\ k - 1 < k
      BY <1>1, <2>2
    <3>2. PICK g : Is(k - 1, g)
      BY <1>2, <3>1
    <3>. DEFINE low == MaxId + 1 - k
                h == [j \in low..MaxId |-> IF j = low THEN (IF alias[low] = None THEN low ELSE g[alias[low]]) ELSE g[j]]
    <3>3. low \in Ids /\ MaxId + 1 - (k - 1) = low + 1
      BY <1>1, <2>2 DEF Ids
    <3>4. g = [j \in (low + 1)..MaxId |-> IF alias[j] = None THEN j ELSE g[alias[j]]]
      BY <3>2, <3>3
    <3>5. ASSUME NEW j \in low..MaxId
          PROVE  h[j] = IF alias[j] = None THEN j ELSE h[alias[j]]
      <4>1. j \in Ids /\ alias[j] \in Below(fresh) /\ (alias[j] = None \/ j < alias[j]) /\ fresh \in 6..(MaxId + 1)
        BY <1>1, <3>3 DEF AliasOK, Ids
      <4>2. alias[j] = None \/ alias[j] \in (low + 1)..MaxId
        BY <1>1, <3>3, <4>1 DEF Below, Ids, None
      <4>3. CASE j = low
        <5>1. h[j] = IF alias[j] = None THEN j ELSE g[alias[j]]
          BY <4>3
        <5>2. alias[j] # None => h[alias[j]] = g[alias[j]]
          BY <1>1, <3>3, <4>2
        <5>. QED BY <5>1, <5>2
      <4>4. CASE j # low
        <5>1. j \in (low + 1)..MaxId
          BY <1>1, <3>3, <4>4
        <5>2. h[j] = g[j] /\ g[j] = IF alias[j] = None THEN j ELSE g[alias[j]]
          BY <3>4, <4>4, <5>1
        <5>3. alias[j] # None => h[alias[j]] = g[alias[j]]
          BY <1>1, <3>3, <4>2
        <5>. QED BY <5>2, <5>3
      <4>. QED BY <4>3, <4>4
    <3>6. h = [j \in low..MaxId |-> h[j]]
      OBVIOUS
    <3>7. h = [j \in low..MaxId |-> IF alias[j] = None THEN j ELSE h[alias[j]]]
      <4>. HIDE DEF h
      <4>. QED BY <3>5, <3>6
    <3>8. Is(k, h)
      <4>. HIDE DEF h
      <4>. QED BY <3>7
    <3>. QED BY <3>8
  <2>. QED BY <2>1, <2>2
<1>3. Bad = {}
  <2>1. Bad \in SUBSET Nat
    BY <1>1
  <2>. HIDE DEF Bad
  <2>. QED BY <1>2, <2>1, Least
<1>. QED BY <1>3

(* resolveId leads to an id that was given out.                             *)
LEMMA ResolveFits ==
  ASSUME AliasOK, NEW i \in Below(fresh)
  PROVE  Resolve(i) \in Below(fresh) /\ (i = None => Resolve(i) = None)
<1>. DEFINE newest == CHOOSE g : g = [j \in Ids |-> IF alias[j] = None THEN j ELSE g[alias[j]]]
            Bad == {k \in 0..MaxId : LET j == MaxId + 1 - k IN k # 0 /\ j < fresh /\ newest[j] \notin Below(fresh)}
<1>1. MaxId \in Nat /\ MaxId \in 0..MaxId /\ (MaxId + 1 - MaxId)..MaxId = Ids
  BY MapEditsAssumption DEF Ids
<1>2. \E g : g = [j \in Ids |-> IF alias[j] = None THEN j ELSE g[alias[j]]]
  <2>1. \E g : g = [j \in (MaxId + 1 - MaxId)..MaxId |-> IF alias[j] = None THEN j ELSE g[alias[j]]]
    BY <1>1, NewestFrom
  <2>. QED BY <1>1, <2>1
<1>3. newest = [j \in Ids |-> IF alias[j] = None THEN j ELSE newest[alias[j]]]
  BY <1>2
<1>4. Resolve(i) = IF i = None THEN None ELSE newest[i]
  BY DEF Resolve
<1>. HIDE DEF newest
<1>5. ASSUME NEW k \in Bad, \A y \in Bad : ~(y < k) PROVE FALSE
  <2>. DEFINE j == MaxId + 1 - k
  <2>1. k \in 0..MaxId /\ k # 0 /\ j < fresh /\ newest[j] \notin Below(fresh)
    OBVIOUS
  <2>2. j \in Ids /\ fresh \in 6..(MaxId + 1)
    BY <1>1, <2>1 DEF Ids, AliasOK
  <2>3. newest[j] = IF alias[j] = None THEN j ELSE newest[alias[j]]
    BY <1>3, <2>2
  <2>4. alias[j] \in Below(fresh) /\ (alias[j] = None \/ j < alias[j])
    BY <2>2 DEF AliasOK
  <2>5. alias[j] # None
    BY <1>1, <2>1, <2>2, <2>3 DEF Below, Ids
  <2>. DEFINE y == MaxId + 1 - alias[j]
  <2>6. y \in 0..MaxId /\ y # 0 /\ y < k /\ MaxId + 1 - y = alias[j] /\ alias[j] < fresh
    BY <1>1, <2>1, <2>2, <2>4, <2>5 DEF Below, Ids
  <2>7. newest[alias[j]] \notin Below(fresh)
    BY <2>1, <2>3, <2>5
  <2>8. y \in Bad
    BY <2>6, <2>7
  <2>. QED BY <1>5, <2>6, <2>8
<1>6. Bad = {}
  <2>1. Bad \in SUBSET Nat
    BY <1>1
  <2>. HIDE DEF Bad
  <2>. QED BY <1>5, <2>1, Least
<1>7. ASSUME i # None PROVE newest[i] \in Below(fresh)
  <2>1. fresh \in 6..(MaxId + 1) /\ i \in 1..(fresh - 1)
    BY <1>1, <1>7 DEF AliasOK, Below, None
  <2>. DEFINE k == MaxId + 1 - i
  <2>2. k \in 0..MaxId /\ k # 0 /\ MaxId + 1 - k = i /\ i < fresh
    BY <1>1, <2>1
  <2>3. k \notin Bad
    BY <1>6
  <2>. QED BY <2>2, <2>3
<1>. QED BY <1>4, <1>7

-----------------------------------------------------------------------------
(* Maps                                                                     *)

LayerSet(k) == [folder : Below(k), visible : BOOLEAN]

FolderSet == [visible : BOOLEAN]

ObjectSet(k) == [layer : Below(k), geom : Geoms, crop : BOOLEAN, folder : Below(k)]

IsPart(f, k, V) == f \in [DOMAIN f -> V] /\ DOMAIN f \subseteq 1..(k - 1)

(* A map whose ids have all been given out when k is the next one.          *)
IsMap(m, k) ==
  /\ m = [layers |-> m.layers, folders |-> m.folders, objects |-> m.objects]
  /\ IsPart(m.layers, k, LayerSet(k))
  /\ IsPart(m.folders, k, FolderSet)
  /\ IsPart(m.objects, k, ObjectSet(k))

(* What its layers and objects refer to is there, and the standard layer.   *)
LayersClosed(m) == \A l \in DOMAIN m.layers : m.layers[l].folder \in DOMAIN m.folders \union {None}

ObjectsClosed(m) ==
  \A o \in DOMAIN m.objects : /\ m.objects[o].layer \in DOMAIN m.layers
                              /\ m.objects[o].folder \in DOMAIN m.folders \union {None}

Sound(m, k) == IsMap(m, k) /\ LayersClosed(m) /\ ObjectsClosed(m) /\ 1 \in DOMAIN m.layers

LEMMA PutPart ==
  ASSUME NEW k \in Nat, NEW V, NEW f, IsPart(f, k, V), NEW i \in 1..(k - 1), NEW v \in V
  PROVE  /\ IsPart(Put(f, i, v), k, V)
         /\ DOMAIN Put(f, i, v) = DOMAIN f \union {i}
         /\ Put(f, i, v)[i] = v
         /\ \A j \in DOMAIN f : j # i => Put(f, i, v)[j] = f[j]
BY DEF IsPart, Put

LEMMA DropPart ==
  ASSUME NEW k \in Nat, NEW V, NEW f, IsPart(f, k, V), NEW S
  PROVE  /\ IsPart(Drop(f, S), k, V)
         /\ DOMAIN Drop(f, S) = DOMAIN f \ S
         /\ \A j \in DOMAIN f \ S : Drop(f, S)[j] = f[j]
BY DEF IsPart, Drop

LEMMA SetPart ==
  ASSUME NEW k \in Nat, NEW V, NEW f, IsPart(f, k, V), NEW i \in DOMAIN f, NEW v \in V
  PROVE  IsPart([f EXCEPT ![i] = v], k, V) /\ DOMAIN [f EXCEPT ![i] = v] = DOMAIN f
BY DEF IsPart

LEMMA MorePart ==
  ASSUME NEW k \in Nat, NEW n \in Nat, k <= n, NEW V, NEW W, V \subseteq W, NEW f, IsPart(f, k, V)
  PROVE  IsPart(f, n, W)
<1>1. 1..(k - 1) \subseteq 1..(n - 1)
  OBVIOUS
<1>2. f \in [DOMAIN f -> W]
  BY DEF IsPart
<1>. QED BY <1>1, <1>2 DEF IsPart

LEMMA MoreSets ==
  ASSUME NEW k \in Nat, NEW n \in Nat, k <= n
  PROVE  Below(k) \subseteq Below(n) /\ LayerSet(k) \subseteq LayerSet(n) /\ ObjectSet(k) \subseteq ObjectSet(n)
<1>1. Below(k) \subseteq Below(n)
  BY DEF Below
<1>. QED BY <1>1 DEF LayerSet, ObjectSet

LEMMA MoreMap ==
  ASSUME NEW k \in Nat, NEW n \in Nat, k <= n, NEW m, IsMap(m, k)
  PROVE  IsMap(m, n) /\ (Sound(m, k) => Sound(m, n))
<1>1. IsPart(m.layers, n, LayerSet(n)) /\ IsPart(m.folders, n, FolderSet) /\ IsPart(m.objects, n, ObjectSet(n))
  BY MoreSets, MorePart DEF IsMap
<1>. QED BY <1>1 DEF IsMap, Sound

(* Maps with other objects, layers or folders.                              *)
LEMMA MapWith ==
  ASSUME NEW k \in Nat, NEW m, IsMap(m, k), NEW P
  PROVE  /\ IsPart(P, k, ObjectSet(k)) => IsMap([m EXCEPT !.objects = P], k)
         /\ IsPart(P, k, LayerSet(k)) => IsMap([m EXCEPT !.layers = P], k)
         /\ IsPart(P, k, FolderSet) => IsMap([m EXCEPT !.folders = P], k)
BY DEF IsMap

LEMMA PartOf ==
  ASSUME NEW m, NEW A, NEW B, NEW C, m = [layers |-> A, folders |-> B, objects |-> C], NEW P
  PROVE  /\ [m EXCEPT !.layers = P] = [layers |-> P, folders |-> B, objects |-> C]
         /\ [m EXCEPT !.folders = P] = [layers |-> A, folders |-> P, objects |-> C]
         /\ [m EXCEPT !.objects = P] = [layers |-> A, folders |-> B, objects |-> P]
OBVIOUS

LEMMA TwoPartsOf ==
  ASSUME NEW k, NEW m, IsMap(m, k), NEW L, NEW O
  PROVE  [m EXCEPT !.layers = L, !.objects = O] = [layers |-> L, folders |-> m.folders, objects |-> O]
<1>1. PICK A, B, C : m = [layers |-> A, folders |-> B, objects |-> C]
  BY DEF IsMap
<1>2. m.folders = B
  BY <1>1
<1>3. [m EXCEPT !.layers = L, !.objects = O] = [layers |-> L, folders |-> B, objects |-> O]
  <2>. DEFINE n == [m EXCEPT !.layers = L]
  <2>1. [m EXCEPT !.layers = L, !.objects = O] = [n EXCEPT !.objects = O]
    OBVIOUS
  <2>2. n = [layers |-> L, folders |-> B, objects |-> C]
    BY <1>1, PartOf
  <2>. HIDE DEF n
  <2>3. [n EXCEPT !.objects = O] = [layers |-> L, folders |-> B, objects |-> O]
    BY <2>2, PartOf
  <2>. QED BY <2>1, <2>3
<1>. QED BY <1>2, <1>3

LEMMA ThreePartsOf ==
  ASSUME NEW k, NEW m, IsMap(m, k), NEW L, NEW F, NEW O
  PROVE  [m EXCEPT !.folders = F, !.layers = L, !.objects = O] = [layers |-> L, folders |-> F, objects |-> O]
<1>1. PICK A, B, C : m = [layers |-> A, folders |-> B, objects |-> C]
  BY DEF IsMap
<1>. DEFINE n == [m EXCEPT !.folders = F]
            q == [n EXCEPT !.layers = L]
<1>2. [m EXCEPT !.folders = F, !.layers = L, !.objects = O] = [q EXCEPT !.objects = O]
  OBVIOUS
<1>3. n = [layers |-> A, folders |-> F, objects |-> C]
  BY <1>1, PartOf
<1>. HIDE DEF n
<1>4. q = [layers |-> L, folders |-> F, objects |-> C]
  BY <1>3, PartOf
<1>. HIDE DEF q
<1>5. [q EXCEPT !.objects = O] = [layers |-> L, folders |-> F, objects |-> O]
  BY <1>4, PartOf
<1>. QED BY <1>2, <1>5

LEMMA WithoutLayerFits ==
  ASSUME NEW k \in Nat, NEW m, IsMap(m, k), NEW l
  PROVE  /\ IsMap(WithoutLayer(m, l), k)
         /\ Sound(m, k) /\ l # 1 => Sound(WithoutLayer(m, l), k)
<1>. DEFINE L == Drop(m.layers, {l})
            O == Drop(m.objects, InLayer(m, l))
            w == WithoutLayer(m, l)
<1>1. w = [layers |-> L, folders |-> m.folders, objects |-> O]
  BY TwoPartsOf DEF WithoutLayer
<1>2. IsPart(m.layers, k, LayerSet(k)) /\ IsPart(m.folders, k, FolderSet) /\ IsPart(m.objects, k, ObjectSet(k))
  BY DEF IsMap
<1>3. IsPart(L, k, LayerSet(k)) /\ DOMAIN L = DOMAIN m.layers \ {l} /\ \A j \in DOMAIN L : L[j] = m.layers[j]
  BY <1>2, DropPart
<1>4. IsPart(O, k, ObjectSet(k)) /\ DOMAIN O = DOMAIN m.objects \ InLayer(m, l) /\ \A j \in DOMAIN O : O[j] = m.objects[j]
  BY <1>2, DropPart
<1>. HIDE DEF w, L, O
<1>5. w.layers = L /\ w.folders = m.folders /\ w.objects = O
  BY <1>1
<1>6. IsMap(w, k)
  BY <1>1, <1>2, <1>3, <1>4, <1>5 DEF IsMap
<1>7. ASSUME Sound(m, k), l # 1 PROVE Sound(w, k)
  <2>1. LayersClosed(w)
    BY <1>3, <1>5, <1>7 DEF Sound, LayersClosed
  <2>2. ObjectsClosed(w)
    BY <1>3, <1>4, <1>5, <1>7 DEF Sound, ObjectsClosed, InLayer
  <2>. QED BY <1>3, <1>5, <1>6, <1>7, <2>1, <2>2 DEF Sound
<1>. QED BY <1>6, <1>7 DEF w

LEMMA WithoutFolderFits ==
  ASSUME NEW k \in Nat, k > 0, NEW m, IsMap(m, k), NEW f
  PROVE  /\ IsMap(WithoutFolder(m, f), k)
         /\ Sound(m, k) => Sound(WithoutFolder(m, f), k)
<1>. DEFINE L == [l \in DOMAIN m.layers |-> IF m.layers[l].folder = f THEN [m.layers[l] EXCEPT !.folder = None] ELSE m.layers[l]]
            O == [o \in DOMAIN m.objects |-> IF m.objects[o].folder = f THEN [m.objects[o] EXCEPT !.folder = None] ELSE m.objects[o]]
            F == Drop(m.folders, {f})
            w == WithoutFolder(m, f)
<1>1. w = [layers |-> L, folders |-> F, objects |-> O]
  <2>1. w = [m EXCEPT !.folders = F, !.layers = L, !.objects = O]
    BY DEF WithoutFolder
  <2>. HIDE DEF w, L, O, F
  <2>. QED BY <2>1, ThreePartsOf
<1>2. IsPart(m.layers, k, LayerSet(k)) /\ IsPart(m.folders, k, FolderSet) /\ IsPart(m.objects, k, ObjectSet(k))
  BY DEF IsMap
<1>3. IsPart(F, k, FolderSet) /\ DOMAIN F = DOMAIN m.folders \ {f}
  <2>. HIDE DEF L, O, w
  <2>1. IsPart(F, k, FolderSet)
    BY <1>2, DropPart
  <2>. QED BY <2>1 DEF Drop
<1>. HIDE DEF F
<1>4. None \in Below(k)
  BY DEF None, Below
<1>5. ASSUME NEW l \in DOMAIN m.layers
      PROVE  L[l] \in LayerSet(k) /\ L[l].folder = IF m.layers[l].folder = f THEN None ELSE m.layers[l].folder
  <2>1. m.layers[l] \in LayerSet(k)
    BY <1>2 DEF IsPart
  <2>. QED BY <1>4, <2>1 DEF LayerSet
<1>6. ASSUME NEW o \in DOMAIN m.objects
      PROVE  /\ O[o] \in ObjectSet(k) /\ O[o].layer = m.objects[o].layer
             /\ O[o].folder = IF m.objects[o].folder = f THEN None ELSE m.objects[o].folder
  <2>1. m.objects[o] \in ObjectSet(k)
    BY <1>2 DEF IsPart
  <2>. QED BY <1>4, <2>1 DEF ObjectSet
<1>7. DOMAIN L = DOMAIN m.layers /\ DOMAIN O = DOMAIN m.objects
  OBVIOUS
<1>8. IsPart(L, k, LayerSet(k)) /\ IsPart(O, k, ObjectSet(k))
  BY <1>2, <1>5, <1>6 DEF IsPart
<1>. HIDE DEF w, L, O
<1>9. w.layers = L /\ w.folders = F /\ w.objects = O
  BY <1>1
<1>10. IsMap(w, k)
  BY <1>1, <1>3, <1>8, <1>9 DEF IsMap
<1>11. ASSUME Sound(m, k) PROVE Sound(w, k)
  <2>1. LayersClosed(w)
    BY <1>3, <1>5, <1>7, <1>9, <1>11 DEF Sound, LayersClosed
  <2>2. ObjectsClosed(w)
    BY <1>3, <1>6, <1>7, <1>9, <1>11 DEF Sound, ObjectsClosed
  <2>. QED BY <1>7, <1>9, <1>10, <1>11, <2>1, <2>2 DEF Sound
<1>. QED BY <1>10, <1>11 DEF w

LEMMA PartOfMap ==
  ASSUME NEW k, NEW m, IsMap(m, k), NEW P
  PROVE  /\ [m EXCEPT !.objects = P] = [layers |-> m.layers, folders |-> m.folders, objects |-> P]
         /\ [m EXCEPT !.layers = P] = [layers |-> P, folders |-> m.folders, objects |-> m.objects]
         /\ [m EXCEPT !.folders = P] = [layers |-> m.layers, folders |-> P, objects |-> m.objects]
BY DEF IsMap

LEMMA ObjectsChanged ==
  ASSUME NEW k \in Nat, NEW m, Sound(m, k), NEW P, IsPart(P, k, ObjectSet(k)),
         \A o \in DOMAIN P : P[o].layer \in DOMAIN m.layers /\ P[o].folder \in DOMAIN m.folders \union {None}
  PROVE  Sound([m EXCEPT !.objects = P], k)
<1>. DEFINE w == [m EXCEPT !.objects = P]
<1>1. w = [layers |-> m.layers, folders |-> m.folders, objects |-> P]
  BY PartOfMap DEF Sound
<1>. HIDE DEF w
<1>2. w.layers = m.layers /\ w.folders = m.folders /\ w.objects = P
  BY <1>1
<1>3. IsMap(w, k)
  BY <1>1, <1>2 DEF Sound, IsMap
<1>4. LayersClosed(w) /\ ObjectsClosed(w) /\ 1 \in DOMAIN w.layers
  BY <1>2 DEF Sound, LayersClosed, ObjectsClosed
<1>. QED BY <1>3, <1>4 DEF Sound, w

LEMMA LayersChanged ==
  ASSUME NEW k \in Nat, NEW m, Sound(m, k), NEW P, IsPart(P, k, LayerSet(k)),
         DOMAIN m.layers \subseteq DOMAIN P,
         \A l \in DOMAIN P : P[l].folder \in DOMAIN m.folders \union {None}
  PROVE  Sound([m EXCEPT !.layers = P], k)
<1>. DEFINE w == [m EXCEPT !.layers = P]
<1>1. w = [layers |-> P, folders |-> m.folders, objects |-> m.objects]
  BY PartOfMap DEF Sound
<1>. HIDE DEF w
<1>2. w.layers = P /\ w.folders = m.folders /\ w.objects = m.objects
  BY <1>1
<1>3. IsMap(w, k)
  BY <1>1, <1>2 DEF Sound, IsMap
<1>4. LayersClosed(w) /\ ObjectsClosed(w) /\ 1 \in DOMAIN w.layers
  BY <1>2 DEF Sound, LayersClosed, ObjectsClosed
<1>. QED BY <1>3, <1>4 DEF Sound, w

LEMMA FoldersChanged ==
  ASSUME NEW k \in Nat, NEW m, Sound(m, k), NEW P, IsPart(P, k, FolderSet),
         DOMAIN m.folders \subseteq DOMAIN P
  PROVE  Sound([m EXCEPT !.folders = P], k)
<1>. DEFINE w == [m EXCEPT !.folders = P]
<1>1. w = [layers |-> m.layers, folders |-> P, objects |-> m.objects]
  BY PartOfMap DEF Sound
<1>. HIDE DEF w
<1>2. w.layers = m.layers /\ w.folders = P /\ w.objects = m.objects
  BY <1>1
<1>3. IsMap(w, k)
  BY <1>1, <1>2 DEF Sound, IsMap
<1>4. LayersClosed(w) /\ ObjectsClosed(w) /\ 1 \in DOMAIN w.layers
  BY <1>2 DEF Sound, LayersClosed, ObjectsClosed
<1>. QED BY <1>3, <1>4 DEF Sound, w

-----------------------------------------------------------------------------
(* Requests                                                                 *)

(* What the client's copy of the map is changed for by its answer.          *)
StoreDo ==
  {"addObject", "setGeom", "setLayer", "setCrop", "deleteObject", "merge",
   "deleteLayer", "deleteFolder", "moveLayer", "moveObject"}

Dos ==
  StoreDo \union {"createLayer", "patchLayer", "createFolder", "patchFolder",
                  "layerTo", "objectTo", "listLayers", "listObjects"}

Requests(k) ==
  {r \in [do : Dos, id : Below(k), to : Below(k), geom : Geoms \union {None}, flag : BOOLEAN, lenient : BOOLEAN] :
     /\ r.do \in {"addObject", "setGeom", "merge"} => r.geom \in Geoms
     /\ r.do \in {"merge", "listLayers", "listObjects"} => ~r.lenient}

LEMMA MoreRequests ==
  ASSUME NEW k \in Nat, NEW n \in Nat, k <= n
  PROVE  Requests(k) \subseteq Requests(n)
<1>1. Below(k) \subseteq Below(n)
  BY MoreSets
<1>. QED BY <1>1 DEF Requests

LEMMA RequestFields ==
  ASSUME NEW k, NEW r \in Requests(k)
  PROVE  /\ r.do \in Dos /\ r.id \in Below(k) /\ r.to \in Below(k) /\ r.flag \in BOOLEAN /\ r.lenient \in BOOLEAN
         /\ r.do \in {"addObject", "setGeom", "merge"} => r.geom \in Geoms
         /\ r.do \in {"merge", "listLayers", "listObjects"} => ~r.lenient
BY DEF Requests

(* The handlers that change one object of the map.                          *)
LEMMA AfterObject ==
  ASSUME NEW k \in Nat, k > 1, NEW m, Sound(m, k), NEW r \in Requests(k), Accepts(m, r), NEW new,
         r.do \in {"setGeom", "setLayer", "setCrop", "objectTo", "moveObject"}
  PROVE  Sound(After(m, r, new), k) /\ r.id \in DOMAIN After(m, r, new).objects
<1>. DEFINE O == m.objects
            v == CASE r.do = "setGeom"  -> [O[r.id] EXCEPT !.geom = r.geom]
                   [] r.do = "setLayer" -> [O[r.id] EXCEPT !.layer = r.to]
                   [] r.do = "setCrop"  -> [O[r.id] EXCEPT !.crop = r.flag]
                   [] r.do \in {"objectTo", "moveObject"} -> [O[r.id] EXCEPT !.folder = r.to]
            P == [O EXCEPT ![r.id] = v]
<1>1. r.id \in DOMAIN O
  BY DEF Accepts
<1>2. IsPart(O, k, ObjectSet(k)) /\ IsMap(m, k)
  BY DEF Sound, IsMap
<1>3. O[r.id] \in ObjectSet(k) /\ O[r.id].layer \in DOMAIN m.layers /\ O[r.id].folder \in DOMAIN m.folders \union {None}
  BY <1>1, <1>2 DEF IsPart, Sound, ObjectsClosed
<1>4. /\ r.do = "setLayer" => r.to \in DOMAIN m.layers
      /\ r.do \in {"objectTo", "moveObject"} => r.to \in DOMAIN m.folders \union {None}
  BY DEF Accepts
<1>5. r.to \in Below(k) /\ r.flag \in BOOLEAN /\ (r.do = "setGeom" => r.geom \in Geoms)
  BY RequestFields
<1>6. v \in ObjectSet(k) /\ v.layer \in DOMAIN m.layers /\ v.folder \in DOMAIN m.folders \union {None}
  <2>1. CASE r.do = "setGeom"
    <3>1. v = [O[r.id] EXCEPT !.geom = r.geom]
      BY <2>1
    <3>. HIDE DEF v
    <3>. QED BY <2>1, <3>1, <1>3, <1>5 DEF ObjectSet
  <2>2. CASE r.do = "setLayer"
    <3>1. v = [O[r.id] EXCEPT !.layer = r.to]
      BY <2>2
    <3>. HIDE DEF v
    <3>. QED BY <2>2, <3>1, <1>3, <1>4, <1>5 DEF ObjectSet
  <2>3. CASE r.do = "setCrop"
    <3>1. v = [O[r.id] EXCEPT !.crop = r.flag]
      BY <2>3
    <3>. HIDE DEF v
    <3>. QED BY <3>1, <1>3, <1>5 DEF ObjectSet
  <2>4. CASE r.do \in {"objectTo", "moveObject"}
    <3>1. v = [O[r.id] EXCEPT !.folder = r.to]
      BY <2>4
    <3>. HIDE DEF v
    <3>. QED BY <2>4, <3>1, <1>3, <1>4, <1>5 DEF ObjectSet
  <2>. QED BY <2>1, <2>2, <2>3, <2>4
<1>7. After(m, r, new) = [m EXCEPT !.objects = P]
  <2>1. CASE r.do = "setGeom"
    BY <2>1 DEF After
  <2>2. CASE r.do = "setLayer"
    BY <2>2 DEF After
  <2>3. CASE r.do = "setCrop"
    BY <2>3 DEF After
  <2>4. CASE r.do \in {"objectTo", "moveObject"}
    BY <2>4 DEF After
  <2>. QED BY <2>1, <2>2, <2>3, <2>4
<1>. HIDE DEF v
<1>8. /\ IsPart(P, k, ObjectSet(k)) /\ DOMAIN P = DOMAIN O
      /\ \A o \in DOMAIN P : P[o] = IF o = r.id THEN v ELSE O[o]
  BY <1>1, <1>2, <1>6 DEF IsPart
<1>. HIDE DEF P
<1>9. \A o \in DOMAIN P : P[o].layer \in DOMAIN m.layers /\ P[o].folder \in DOMAIN m.folders \union {None}
  BY <1>6, <1>8 DEF Sound, ObjectsClosed
<1>10. Sound([m EXCEPT !.objects = P], k)
  BY <1>8, <1>9, ObjectsChanged
<1>11. [m EXCEPT !.objects = P].objects = P
  BY <1>2, PartOfMap
<1>. QED BY <1>1, <1>7, <1>8, <1>10, <1>11

(* The handlers that create something.                                      *)
LEMMA AfterCreation ==
  ASSUME NEW k \in Nat, k > 1, NEW m, Sound(m, k), NEW r \in Requests(k), Accepts(m, r), NEW new \in 1..(k - 1),
         r.do \in Creations
  PROVE  Sound(After(m, r, new), k) /\ (r.do = "addObject" => new \in DOMAIN After(m, r, new).objects)
<1>1. IsMap(m, k) /\ IsPart(m.layers, k, LayerSet(k)) /\ IsPart(m.folders, k, FolderSet) /\ IsPart(m.objects, k, ObjectSet(k))
  BY DEF Sound, IsMap
<1>2. None \in Below(k)
  BY DEF None, Below
<1>3. CASE r.do = "addObject"
  <2>. DEFINE v == [layer |-> r.to, geom |-> r.geom, crop |-> FALSE, folder |-> None]
              P == Put(m.objects, new, v)
  <2>1. r.to \in Below(k) /\ r.geom \in Geoms /\ r.to \in DOMAIN m.layers
    BY <1>3, RequestFields DEF Accepts
  <2>2. v \in ObjectSet(k) /\ v.layer \in DOMAIN m.layers /\ v.folder \in DOMAIN m.folders \union {None}
    BY <1>2, <2>1 DEF ObjectSet
  <2>3. After(m, r, new) = [m EXCEPT !.objects = P]
    BY <1>3 DEF After
  <2>. HIDE DEF v
  <2>4. /\ IsPart(P, k, ObjectSet(k)) /\ DOMAIN P = DOMAIN m.objects \union {new} /\ P[new] = v
        /\ \A j \in DOMAIN m.objects : j # new => P[j] = m.objects[j]
    <3>1. IsPart(P, k, ObjectSet(k))
      BY <1>1, <2>2, PutPart
    <3>. QED BY <3>1 DEF Put
  <2>. HIDE DEF P
  <2>5. \A o \in DOMAIN P : P[o].layer \in DOMAIN m.layers /\ P[o].folder \in DOMAIN m.folders \union {None}
    BY <2>2, <2>4 DEF Sound, ObjectsClosed
  <2>6. Sound([m EXCEPT !.objects = P], k)
    BY <2>4, <2>5, ObjectsChanged
  <2>7. [m EXCEPT !.objects = P].objects = P
    BY <1>1, PartOfMap
  <2>. QED BY <2>3, <2>4, <2>6, <2>7
<1>4. CASE r.do = "createLayer"
  <2>. DEFINE v == [folder |-> None, visible |-> TRUE]
              P == Put(m.layers, new, v)
  <2>1. v \in LayerSet(k) /\ v.folder = None
    BY <1>2 DEF LayerSet
  <2>2. After(m, r, new) = [m EXCEPT !.layers = P]
    BY <1>4 DEF After
  <2>. HIDE DEF v
  <2>3. /\ IsPart(P, k, LayerSet(k)) /\ DOMAIN P = DOMAIN m.layers \union {new} /\ P[new] = v
        /\ \A j \in DOMAIN m.layers : j # new => P[j] = m.layers[j]
    <3>1. IsPart(P, k, LayerSet(k))
      BY <1>1, <2>1, PutPart
    <3>. QED BY <3>1 DEF Put
  <2>. HIDE DEF P
  <2>4. \A l \in DOMAIN P : P[l].folder \in DOMAIN m.folders \union {None}
    BY <2>1, <2>3 DEF Sound, LayersClosed
  <2>5. Sound([m EXCEPT !.layers = P], k)
    BY <2>3, <2>4, LayersChanged
  <2>. QED BY <1>4, <2>2, <2>5
<1>5. CASE r.do = "createFolder"
  <2>. DEFINE v == [visible |-> TRUE]
              P == Put(m.folders, new, v)
  <2>1. v \in FolderSet
    BY DEF FolderSet
  <2>2. After(m, r, new) = [m EXCEPT !.folders = P]
    BY <1>5 DEF After
  <2>. HIDE DEF v
  <2>3. IsPart(P, k, FolderSet) /\ DOMAIN P = DOMAIN m.folders \union {new}
    <3>1. IsPart(P, k, FolderSet)
      BY <1>1, <2>1, PutPart
    <3>. QED BY <3>1 DEF Put
  <2>. HIDE DEF P
  <2>4. Sound([m EXCEPT !.folders = P], k)
    BY <2>3, FoldersChanged
  <2>. QED BY <1>5, <2>2, <2>4
<1>. QED BY <1>3, <1>4, <1>5 DEF Creations

(* The handlers that change one layer or folder of the map.                 *)
LEMMA AfterLayer ==
  ASSUME NEW k \in Nat, k > 1, NEW m, Sound(m, k), NEW r \in Requests(k), Accepts(m, r), NEW new,
         r.do \in {"patchLayer", "layerTo", "moveLayer", "patchFolder"}
  PROVE  Sound(After(m, r, new), k)
<1>1. IsMap(m, k) /\ IsPart(m.layers, k, LayerSet(k)) /\ IsPart(m.folders, k, FolderSet)
  BY DEF Sound, IsMap
<1>2. r.to \in Below(k) /\ r.flag \in BOOLEAN
  BY RequestFields
<1>3. CASE r.do \in {"patchLayer", "layerTo", "moveLayer"}
  <2>. DEFINE L == m.layers
              v == IF r.do = "patchLayer"
                   THEN [folder |-> IF r.to = None THEN L[r.id].folder ELSE r.to, visible |-> L[r.id].visible /\ ~r.flag]
                   ELSE [L[r.id] EXCEPT !.folder = r.to]
              P == [L EXCEPT ![r.id] = v]
  <2>1. r.id \in DOMAIN L /\ r.to \in DOMAIN m.folders \union {None}
    BY <1>3 DEF Accepts
  <2>2. L[r.id] \in LayerSet(k) /\ L[r.id].folder \in DOMAIN m.folders \union {None}
    BY <1>1, <2>1 DEF IsPart, Sound, LayersClosed
  <2>3. v \in LayerSet(k) /\ v.folder \in DOMAIN m.folders \union {None}
    BY <1>2, <2>1, <2>2 DEF LayerSet
  <2>4. After(m, r, new) = [m EXCEPT !.layers = P]
    <3>1. CASE r.do = "patchLayer"
      BY <3>1 DEF After
    <3>2. CASE r.do \in {"layerTo", "moveLayer"}
      BY <3>2 DEF After
    <3>. QED BY <1>3, <3>1, <3>2
  <2>. HIDE DEF v
  <2>5. /\ IsPart(P, k, LayerSet(k)) /\ DOMAIN P = DOMAIN L
        /\ \A l \in DOMAIN P : P[l] = IF l = r.id THEN v ELSE L[l]
    BY <1>1, <2>1, <2>3 DEF IsPart
  <2>. HIDE DEF P
  <2>6. \A l \in DOMAIN P : P[l].folder \in DOMAIN m.folders \union {None}
    BY <2>3, <2>5 DEF Sound, LayersClosed
  <2>7. Sound([m EXCEPT !.layers = P], k)
    BY <2>5, <2>6, LayersChanged
  <2>. QED BY <2>4, <2>7
<1>4. CASE r.do = "patchFolder"
  <2>. DEFINE v == [m.folders[r.id] EXCEPT !.visible = ~r.flag]
              P == [m.folders EXCEPT ![r.id] = v]
  <2>1. r.id \in DOMAIN m.folders
    BY <1>4 DEF Accepts
  <2>2. m.folders[r.id] \in FolderSet
    BY <1>1, <2>1 DEF IsPart
  <2>3. v \in FolderSet
    BY <1>2, <2>2 DEF FolderSet
  <2>4. After(m, r, new) = [m EXCEPT !.folders = P]
    BY <1>4 DEF After
  <2>. HIDE DEF v
  <2>5. IsPart(P, k, FolderSet) /\ DOMAIN P = DOMAIN m.folders
    BY <1>1, <2>1, <2>3, SetPart
  <2>. HIDE DEF P
  <2>6. Sound([m EXCEPT !.folders = P], k)
    BY <2>5, FoldersChanged
  <2>. QED BY <2>4, <2>6
<1>. QED BY <1>3, <1>4

(* The handlers that delete, and those that only read.                      *)
LEMMA AfterDeletion ==
  ASSUME NEW k \in Nat, k > 1, NEW m, Sound(m, k), NEW r \in Requests(k), Accepts(m, r), NEW new,
         r.do \in {"deleteObject", "merge", "deleteLayer", "deleteFolder", "listLayers", "listObjects"}
  PROVE  /\ Sound(After(m, r, new), k)
         /\ r.do = "merge" /\ r.id # r.to => r.id \in DOMAIN After(m, r, new).objects
<1>1. IsMap(m, k) /\ IsPart(m.objects, k, ObjectSet(k))
  BY DEF Sound, IsMap
<1>2. CASE r.do = "deleteObject"
  <2>. DEFINE P == Drop(m.objects, {r.id})
  <2>1. After(m, r, new) = [m EXCEPT !.objects = P]
    BY <1>2 DEF After
  <2>2. IsPart(P, k, ObjectSet(k)) /\ DOMAIN P \subseteq DOMAIN m.objects /\ \A o \in DOMAIN P : P[o] = m.objects[o]
    <3>1. IsPart(P, k, ObjectSet(k))
      BY <1>1, DropPart
    <3>. QED BY <3>1 DEF Drop
  <2>. HIDE DEF P
  <2>3. \A o \in DOMAIN P : P[o].layer \in DOMAIN m.layers /\ P[o].folder \in DOMAIN m.folders \union {None}
    BY <2>2 DEF Sound, ObjectsClosed
  <2>. QED BY <1>2, <2>1, <2>2, <2>3, ObjectsChanged
<1>3. CASE r.do = "merge"
  <2>. DEFINE O == m.objects
              v == [O[r.id] EXCEPT !.geom = r.geom]
              Q == [O EXCEPT ![r.id] = v]
              P == Drop(Q, {r.to})
  <2>1. r.id \in DOMAIN O /\ r.geom \in Geoms
    BY <1>3, RequestFields DEF Accepts
  <2>2. O[r.id] \in ObjectSet(k) /\ O[r.id].layer \in DOMAIN m.layers /\ O[r.id].folder \in DOMAIN m.folders \union {None}
    BY <1>1, <2>1 DEF IsPart, Sound, ObjectsClosed
  <2>3. v \in ObjectSet(k) /\ v.layer \in DOMAIN m.layers /\ v.folder \in DOMAIN m.folders \union {None}
    BY <2>1, <2>2 DEF ObjectSet
  <2>4. After(m, r, new) = [m EXCEPT !.objects = P]
    BY <1>3 DEF After, MergedMap
  <2>. HIDE DEF v
  <2>5. /\ IsPart(Q, k, ObjectSet(k)) /\ DOMAIN Q = DOMAIN O
        /\ \A o \in DOMAIN Q : Q[o] = IF o = r.id THEN v ELSE O[o]
    BY <1>1, <2>1, <2>3 DEF IsPart
  <2>. HIDE DEF Q
  <2>6. IsPart(P, k, ObjectSet(k)) /\ DOMAIN P = DOMAIN Q \ {r.to} /\ \A o \in DOMAIN P : P[o] = Q[o]
    <3>1. IsPart(P, k, ObjectSet(k))
      BY <2>5, DropPart
    <3>. QED BY <3>1 DEF Drop
  <2>. HIDE DEF P
  <2>7. \A o \in DOMAIN P : P[o].layer \in DOMAIN m.layers /\ P[o].folder \in DOMAIN m.folders \union {None}
    BY <2>3, <2>5, <2>6 DEF Sound, ObjectsClosed
  <2>8. Sound([m EXCEPT !.objects = P], k)
    BY <2>6, <2>7, ObjectsChanged
  <2>9. [m EXCEPT !.objects = P].objects = P
    BY <1>1, PartOfMap
  <2>. QED BY <2>1, <2>4, <2>5, <2>6, <2>8, <2>9
<1>4. CASE r.do = "deleteLayer"
  <2>1. r.id # 1 /\ After(m, r, new) = WithoutLayer(m, r.id)
    BY <1>4 DEF Accepts, Standard, After
  <2>. QED BY <1>1, <1>4, <2>1, WithoutLayerFits
<1>5. CASE r.do = "deleteFolder"
  <2>1. After(m, r, new) = WithoutFolder(m, r.id)
    BY <1>5 DEF After
  <2>. QED BY <1>1, <1>5, <2>1, WithoutFolderFits
<1>6. CASE r.do \in {"listLayers", "listObjects"}
  <2>1. After(m, r, new) = m
    BY <1>6 DEF After
  <2>. QED BY <1>6, <2>1
<1>. QED BY <1>2, <1>3, <1>4, <1>5, <1>6

(* Every handler leaves a map that is sound, and what it answers with.      *)
LEMMA AfterFits ==
  ASSUME NEW k \in Nat, k > 1, NEW m, Sound(m, k), NEW r \in Requests(k), Accepts(m, r), NEW new,
         r.do \in Creations => new \in 1..(k - 1), r.do \notin Creations => new = r.id
  PROVE  /\ Sound(After(m, r, new), k)
         /\ r.do \in {"addObject", "setGeom", "setLayer", "setCrop"} => new \in DOMAIN After(m, r, new).objects
         /\ r.do = "merge" /\ ~FailsAfterwards(r) => r.id \in DOMAIN After(m, r, new).objects
<1>1. CASE r.do \in {"setGeom", "setLayer", "setCrop", "objectTo", "moveObject"}
  BY <1>1, AfterObject DEF Creations
<1>2. CASE r.do \in Creations
  BY <1>2, AfterCreation DEF Creations
<1>3. CASE r.do \in {"patchLayer", "layerTo", "moveLayer", "patchFolder"}
  BY <1>3, AfterLayer
<1>4. CASE r.do \in {"deleteObject", "merge", "deleteLayer", "deleteFolder", "listLayers", "listObjects"}
  BY <1>4, AfterDeletion DEF FailsAfterwards
<1>5. r.do \in Dos
  BY RequestFields
<1>. QED BY <1>1, <1>2, <1>3, <1>4, <1>5 DEF Dos, StoreDo, Creations

-----------------------------------------------------------------------------
(* The client's copy of the map                                             *)

LEMMA UpsertFits ==
  ASSUME NEW k \in Nat, NEW m, IsMap(m, k), NEW i \in 1..(k - 1), NEW o \in ObjectSet(k)
  PROVE  IsMap(Upsert(m, i, o), k)
<1>1. IsPart(m.objects, k, ObjectSet(k))
  BY DEF IsMap
<1>2. IsPart(Put(m.objects, i, o), k, ObjectSet(k))
  BY <1>1, PutPart
<1>3. IsMap([m EXCEPT !.objects = Put(m.objects, i, o)], k)
  BY <1>2, MapWith
<1>. QED BY <1>3 DEF Upsert

(* What the client shows after an answer is a map again.                    *)
LEMMA ShownFits ==
  ASSUME NEW k \in Nat, k > 1, IsMap(store, k), NEW r \in Requests(k), NEW reply, IsMap(reply.map, k),
         r.do \in {"addObject", "setGeom", "setLayer", "setCrop"} => reply.id \in DOMAIN reply.map.objects,
         r.do = "merge" => r.id \in DOMAIN reply.map.objects
  PROVE  IsMap(Shown(r, reply), k)
<1>. DEFINE m == reply.map
<1>1. IsPart(m.objects, k, ObjectSet(k)) /\ IsPart(store.objects, k, ObjectSet(k)) /\ IsPart(store.layers, k, LayerSet(k))
  BY DEF IsMap
<1>2. \A o \in DOMAIN m.objects : o \in 1..(k - 1) /\ m.objects[o] \in ObjectSet(k)
  BY <1>1 DEF IsPart
<1>3. r.to \in Below(k)
  BY RequestFields
<1>4. CASE r.do \in {"addObject", "setGeom", "setLayer", "setCrop"}
  <2>1. Shown(r, reply) = Upsert(store, reply.id, m.objects[reply.id])
    BY <1>4 DEF Shown
  <2>2. reply.id \in 1..(k - 1) /\ m.objects[reply.id] \in ObjectSet(k)
    BY <1>2, <1>4
  <2>. QED BY <2>1, <2>2, UpsertFits
<1>5. CASE r.do = "deleteObject"
  <2>1. Shown(r, reply) = [store EXCEPT !.objects = Drop(store.objects, {r.id})]
    BY <1>5 DEF Shown
  <2>2. IsPart(Drop(store.objects, {r.id}), k, ObjectSet(k))
    BY <1>1, DropPart
  <2>3. IsMap([store EXCEPT !.objects = Drop(store.objects, {r.id})], k)
    BY <2>2, MapWith
  <2>. QED BY <2>1, <2>3
<1>6. CASE r.do = "merge"
  <2>. DEFINE n == [store EXCEPT !.objects = Drop(store.objects, {r.to})]
  <2>1. Shown(r, reply) = Upsert(n, r.id, m.objects[r.id])
    BY <1>6 DEF Shown
  <2>2. IsPart(Drop(store.objects, {r.to}), k, ObjectSet(k))
    BY <1>1, DropPart
  <2>3. IsMap(n, k)
    BY <2>2, MapWith
  <2>4. r.id \in 1..(k - 1) /\ m.objects[r.id] \in ObjectSet(k)
    BY <1>2, <1>6
  <2>. HIDE DEF n
  <2>. QED BY <2>1, <2>3, <2>4, UpsertFits
<1>7. CASE r.do = "deleteLayer"
  <2>1. Shown(r, reply) = WithoutLayer(store, r.id)
    BY <1>7 DEF Shown
  <2>. QED BY <2>1, WithoutLayerFits
<1>8. CASE r.do = "deleteFolder"
  <2>1. Shown(r, reply) = WithoutFolder(store, r.id)
    BY <1>8 DEF Shown
  <2>. QED BY <2>1, WithoutFolderFits
<1>9. CASE r.do = "moveLayer" /\ r.id \in DOMAIN store.layers
  <2>. DEFINE v == [store.layers[r.id] EXCEPT !.folder = r.to]
  <2>1. Shown(r, reply) = [store EXCEPT !.layers = [store.layers EXCEPT ![r.id] = v]]
    BY <1>9 DEF Shown
  <2>2. store.layers[r.id] \in LayerSet(k)
    BY <1>1, <1>9 DEF IsPart
  <2>3. v \in LayerSet(k)
    BY <1>3, <2>2 DEF LayerSet
  <2>. HIDE DEF v
  <2>4. IsPart([store.layers EXCEPT ![r.id] = v], k, LayerSet(k))
    BY <1>1, <1>9, <2>3 DEF IsPart
  <2>5. IsMap([store EXCEPT !.layers = [store.layers EXCEPT ![r.id] = v]], k)
    BY <2>4, MapWith
  <2>. QED BY <2>1, <2>5
<1>10. CASE r.do = "moveObject" /\ r.id \in DOMAIN store.objects
  <2>. DEFINE v == [store.objects[r.id] EXCEPT !.folder = r.to]
  <2>1. Shown(r, reply) = [store EXCEPT !.objects = [store.objects EXCEPT ![r.id] = v]]
    BY <1>10 DEF Shown
  <2>2. store.objects[r.id] \in ObjectSet(k)
    BY <1>1, <1>10 DEF IsPart
  <2>3. v \in ObjectSet(k)
    BY <1>3, <2>2 DEF ObjectSet
  <2>. HIDE DEF v
  <2>4. IsPart([store.objects EXCEPT ![r.id] = v], k, ObjectSet(k))
    BY <1>1, <1>10, <2>3 DEF IsPart
  <2>5. IsMap([store EXCEPT !.objects = [store.objects EXCEPT ![r.id] = v]], k)
    BY <2>4, MapWith
  <2>. QED BY <2>1, <2>5
<1>11. CASE ~ \/ r.do \in {"addObject", "setGeom", "setLayer", "setCrop", "deleteObject", "merge", "deleteLayer", "deleteFolder"}
              \/ r.do = "moveLayer" /\ r.id \in DOMAIN store.layers
              \/ r.do = "moveObject" /\ r.id \in DOMAIN store.objects
  <2>1. Shown(r, reply) = store
    BY <1>11 DEF Shown
  <2>. QED BY <2>1
<1>. QED BY <1>4, <1>5, <1>6, <1>7, <1>8, <1>9, <1>10, <1>11

LEMMA OtherObjects ==
  ASSUME NEW k \in Nat, NEW m, IsMap(m, k), NEW P, NEW i \in DOMAIN P, P[i].layer \in DOMAIN m.layers,
         P = Put(m.objects, i, P[i])
  PROVE  Upsert(m, i, [m EXCEPT !.objects = P].objects[i]) = [m EXCEPT !.objects = P]
<1>1. [m EXCEPT !.objects = P].objects = P
  BY PartOfMap
<1>. QED BY <1>1 DEF Upsert

(* If it showed what the server had, it shows what the server has.          *)
LEMMA ShownIsAfter ==
  ASSUME NEW k \in Nat, k > 1, Sound(store, k), NEW r \in Requests(k), r.do \in StoreDo, Accepts(store, r),
         ~FailsAfterwards(r), NEW new,
         r.do \in Creations => new \in 1..(k - 1), r.do \notin Creations => new = r.id,
         NEW reply, reply.id = new, reply.map = After(store, r, new)
  PROVE  Shown(r, reply) = After(store, r, new)
<1>. DEFINE O == store.objects
            w == After(store, r, new)
<1>1. IsMap(store, k) /\ IsPart(O, k, ObjectSet(k))
  BY DEF Sound, IsMap
<1>2. /\ Sound(w, k)
      /\ r.do \in {"addObject", "setGeom", "setLayer", "setCrop"} => new \in DOMAIN w.objects
      /\ r.do = "merge" => r.id \in DOMAIN w.objects
  BY AfterFits
<1>3. \A o \in DOMAIN w.objects : w.objects[o].layer \in DOMAIN w.layers
  BY <1>2 DEF Sound, ObjectsClosed
<1>4. CASE r.do \in {"addObject", "setGeom", "setLayer", "setCrop"}
  <2>1. PICK v : w = [store EXCEPT !.objects = Put(O, new, v)]
    <3>1. CASE r.do = "addObject"
      BY <3>1 DEF After
    <3>2. CASE r.do \in {"setGeom", "setLayer", "setCrop"}
      <4>. DEFINE v == CASE r.do = "setGeom"  -> [O[r.id] EXCEPT !.geom = r.geom]
                         [] r.do = "setLayer" -> [O[r.id] EXCEPT !.layer = r.to]
                         [] r.do = "setCrop"  -> [O[r.id] EXCEPT !.crop = r.flag]
      <4>1. r.id \in DOMAIN O /\ new = r.id /\ O \in [DOMAIN O -> ObjectSet(k)]
        BY <1>1, <3>2 DEF Accepts, Creations, IsPart
      <4>2. w = [store EXCEPT !.objects = [O EXCEPT ![r.id] = v]]
        <5>1. CASE r.do = "setGeom"
          BY <5>1 DEF After
        <5>2. CASE r.do = "setLayer"
          BY <5>2 DEF After
        <5>3. CASE r.do = "setCrop"
          BY <5>3 DEF After
        <5>. QED BY <3>2, <5>1, <5>2, <5>3
      <4>. HIDE DEF v, w
      <4>3. [O EXCEPT ![r.id] = v] = Put(O, new, v)
        BY <4>1 DEF Put
      <4>. QED BY <4>2, <4>3
    <3>. QED BY <1>4, <3>1, <3>2
  <2>. DEFINE P == Put(O, new, v)
  <2>. HIDE DEF w
  <2>2. new \in DOMAIN P /\ P[new] = v
    BY DEF Put
  <2>3. P = Put(O, new, P[new])
    BY <2>2
  <2>. HIDE DEF P
  <2>4. w.objects = P /\ w.layers = store.layers
    <3>1. w = [layers |-> store.layers, folders |-> store.folders, objects |-> P]
      BY <1>1, <2>1, PartOfMap DEF P
    <3>. QED BY <3>1
  <2>5. P[new].layer \in DOMAIN store.layers
    BY <1>3, <2>2, <2>4
  <2>6. Upsert(store, new, [store EXCEPT !.objects = P].objects[new]) = [store EXCEPT !.objects = P]
    BY <1>1, <2>2, <2>3, <2>5, OtherObjects
  <2>7. Upsert(store, new, w.objects[new]) = w
    BY <2>1, <2>6 DEF P
  <2>8. Shown(r, reply) = Upsert(store, new, w.objects[new])
    BY <1>4 DEF Shown, w
  <2>. QED BY <2>7, <2>8 DEF w
<1>5. CASE r.do \in {"deleteObject", "deleteLayer", "deleteFolder"}
  <2>1. CASE r.do = "deleteObject"
    BY <2>1 DEF Shown, After
  <2>2. CASE r.do = "deleteLayer"
    BY <2>2 DEF Shown, After
  <2>3. CASE r.do = "deleteFolder"
    BY <2>3 DEF Shown, After
  <2>. QED BY <1>5, <2>1, <2>2, <2>3
<1>6. CASE r.do = "merge"
  <2>. DEFINE v == [O[r.id] EXCEPT !.geom = r.geom]
              D == Drop(O, {r.to})
              n == [store EXCEPT !.objects = D]
              P == Drop([O EXCEPT ![r.id] = v], {r.to})
  <2>1. r.id \in DOMAIN O /\ r.id # r.to /\ O \in [DOMAIN O -> ObjectSet(k)]
    BY <1>1, <1>6 DEF Accepts, FailsAfterwards, IsPart
  <2>2. w = [store EXCEPT !.objects = P]
    BY <1>6 DEF After, MergedMap
  <2>3. Shown(r, reply) = Upsert(n, r.id, w.objects[r.id])
    BY <1>6 DEF Shown
  <2>. HIDE DEF w, v
  <2>4. P = Put(D, r.id, v) /\ r.id \in DOMAIN P /\ P[r.id] = v
    BY <2>1 DEF Put, Drop
  <2>5. IsPart(D, k, ObjectSet(k))
    BY <1>1, DropPart
  <2>. HIDE DEF P, D
  <2>6. IsMap(n, k) /\ n = [layers |-> store.layers, folders |-> store.folders, objects |-> D]
    BY <1>1, <2>5, MapWith, PartOfMap
  <2>. HIDE DEF n
  <2>7. n.layers = store.layers /\ n.objects = D /\ n.folders = store.folders
    BY <2>6
  <2>8. w = [layers |-> store.layers, folders |-> store.folders, objects |-> P]
    BY <1>1, <2>2, PartOfMap
  <2>9. w.objects = P /\ w.layers = store.layers
    BY <2>8
  <2>10. P[r.id].layer \in DOMAIN n.layers
    BY <1>3, <2>4, <2>7, <2>9
  <2>11. P = Put(n.objects, r.id, P[r.id])
    BY <2>4, <2>7
  <2>12. Upsert(n, r.id, [n EXCEPT !.objects = P].objects[r.id]) = [n EXCEPT !.objects = P]
    BY <2>4, <2>6, <2>10, <2>11, OtherObjects
  <2>13. [n EXCEPT !.objects = P] = [layers |-> store.layers, folders |-> store.folders, objects |-> P]
    BY <2>6, <2>7, PartOfMap
  <2>14. [n EXCEPT !.objects = P] = w
    BY <2>8, <2>13
  <2>. QED BY <2>3, <2>12, <2>14 DEF w
<1>7. CASE r.do \in {"moveLayer", "moveObject"}
  <2>1. CASE r.do = "moveLayer"
    <3>1. r.id \in DOMAIN store.layers
      BY <2>1 DEF Accepts
    <3>. QED BY <2>1, <3>1 DEF Shown, After
  <2>2. CASE r.do = "moveObject"
    <3>1. r.id \in DOMAIN store.objects
      BY <2>2 DEF Accepts
    <3>. QED BY <2>2, <3>1 DEF Shown, After
  <2>. QED BY <1>7, <2>1, <2>2
<1>. QED BY <1>4, <1>5, <1>6, <1>7 DEF StoreDo

-----------------------------------------------------------------------------
(* Entries of the undo stack, and the requests they lead to                 *)

ItemSet(k) == [id : Below(k), layer : Below(k), geom : Geoms, crop : BOOLEAN, folder : Below(k)]

CreateSet(k) == [kind : {"create"}, id : Below(k), layer : Below(k), geom : Geoms]

PatchSet(k) == [kind : {"patch"}, id : Below(k), before : Geoms, after : Geoms]

DeleteSet(k) == [kind : {"delete"}, items : Seq(ItemSet(k))]

MergeSet(k) == [kind : {"merge"}, id : Below(k), before : Geoms, dropped : ItemSet(k), geom : Geoms]

MoveSet(k) == [kind : {"move"}, id : Below(k), from : Below(k), to : Below(k)]

LayerDeleteSet(k) ==
  [kind : {"deleteLayer"}, id : Below(k), folder : Below(k), visible : BOOLEAN, items : Seq(ItemSet(k))]

FolderDeleteSet(k) ==
  [kind : {"deleteFolder"}, id : Below(k), visible : BOOLEAN, layers : Seq(Below(k)), objects : Seq(Below(k))]

EntrySet(k) ==
  CreateSet(k) \union PatchSet(k) \union DeleteSet(k) \union MergeSet(k) \union MoveSet(k)
    \union LayerDeleteSet(k) \union FolderDeleteSet(k)

LEMMA MoreEntries ==
  ASSUME NEW k \in Nat, NEW n \in Nat, k <= n
  PROVE  EntrySet(k) \subseteq EntrySet(n)
<1>1. Below(k) \subseteq Below(n)
  BY MoreSets
<1>2. ItemSet(k) \subseteq ItemSet(n)
  BY <1>1 DEF ItemSet
<1>3. \A q \in Seq(Below(k)) : q \in Seq(Below(n))
  BY <1>1, SeqMonotonic
<1>4. \A q \in Seq(ItemSet(k)) : q \in Seq(ItemSet(n))
  BY <1>2, SeqMonotonic
<1>5. CreateSet(k) \subseteq CreateSet(n) /\ PatchSet(k) \subseteq PatchSet(n) /\ MoveSet(k) \subseteq MoveSet(n)
  BY <1>1 DEF CreateSet, PatchSet, MoveSet
<1>6. DeleteSet(k) \subseteq DeleteSet(n)
  BY <1>4 DEF DeleteSet
<1>7. MergeSet(k) \subseteq MergeSet(n)
  BY <1>1, <1>2 DEF MergeSet
<1>8. LayerDeleteSet(k) \subseteq LayerDeleteSet(n)
  BY <1>1, <1>4 DEF LayerDeleteSet
<1>9. FolderDeleteSet(k) \subseteq FolderDeleteSet(n)
  BY <1>1, <1>3 DEF FolderDeleteSet
<1>. QED BY <1>5, <1>6, <1>7, <1>8, <1>9 DEF EntrySet

LEMMA EntryCases ==
  ASSUME NEW k, NEW e \in EntrySet(k)
  PROVE  \/ e.kind = "create" /\ e \in CreateSet(k)
         \/ e.kind = "patch" /\ e \in PatchSet(k)
         \/ e.kind = "delete" /\ e \in DeleteSet(k)
         \/ e.kind = "merge" /\ e \in MergeSet(k)
         \/ e.kind = "move" /\ e \in MoveSet(k)
         \/ e.kind = "deleteLayer" /\ e \in LayerDeleteSet(k)
         \/ e.kind = "deleteFolder" /\ e \in FolderDeleteSet(k)
BY DEF EntrySet, CreateSet, PatchSet, DeleteSet, MergeSet, MoveSet, LayerDeleteSet, FolderDeleteSet

(* The requests that change the client's copy of the map, and those that    *)
(* may come before the map is loaded again.                                 *)
StoreRequests(k) == {r \in Requests(k) : r.do \in StoreDo}

EarlyRequests(k) == {r \in Requests(k) : r.do \notin {"listLayers", "listObjects"}}

AllStore(q) == \A n \in DOMAIN q : q[n].do \in StoreDo

(* The d-th request of the list loads the map again.                        *)
Reloads(q, d) ==
  /\ q[d].do = "listLayers"
  /\ \A n \in DOMAIN q : (n < d => q[n].do \notin {"listLayers", "listObjects"}) /\ (n > d => q[n].do \in StoreDo)

(* The requests the lists are made of.                                      *)
LEMMA MadeRequests ==
  ASSUME NEW k \in Nat, k > 1, NEW i \in Below(k), NEW j \in Below(k)
  PROVE  /\ \A g \in Geoms : /\ Request("addObject", i, j, g, FALSE) \in StoreRequests(k)
                             /\ Request("setGeom", i, None, g, FALSE) \in StoreRequests(k)
                             /\ Request("merge", i, j, g, FALSE) \in StoreRequests(k)
         /\ \A b \in BOOLEAN : Request("setCrop", i, None, None, b) \in StoreRequests(k)
         /\ \A do \in {"deleteObject", "setLayer", "deleteLayer", "deleteFolder", "moveLayer", "moveObject"} :
              Plain(do, i, j) \in StoreRequests(k)
         /\ Lenient(Plain("moveObject", i, j)) \in StoreRequests(k)
         /\ \A do \in {"createLayer", "createFolder"} : Plain(do, i, j) \in EarlyRequests(k)
         /\ \A do \in {"layerTo", "objectTo"} : Lenient(Plain(do, i, j)) \in EarlyRequests(k)
         /\ \A b \in BOOLEAN : /\ Lenient(Request("patchLayer", i, j, None, b)) \in EarlyRequests(k)
                               /\ Lenient(Request("patchFolder", i, j, None, b)) \in EarlyRequests(k)
         /\ \A do \in {"listLayers", "listObjects"} : Plain(do, i, j) \in Requests(k)
<1>1. None \in Below(k)
  BY DEF None, Below
<1>2. \A g \in Geoms : /\ Request("addObject", i, j, g, FALSE) \in StoreRequests(k)
                       /\ Request("setGeom", i, None, g, FALSE) \in StoreRequests(k)
                       /\ Request("merge", i, j, g, FALSE) \in StoreRequests(k)
  BY <1>1 DEF Request, StoreRequests, Requests, Dos, StoreDo
<1>3. \A b \in BOOLEAN : Request("setCrop", i, None, None, b) \in StoreRequests(k)
  BY <1>1 DEF Request, StoreRequests, Requests, Dos, StoreDo
<1>4. \A do \in {"deleteObject", "setLayer", "deleteLayer", "deleteFolder", "moveLayer", "moveObject"} :
        Plain(do, i, j) \in StoreRequests(k)
  BY DEF Plain, Request, StoreRequests, Requests, Dos, StoreDo
<1>5. Lenient(Plain("moveObject", i, j)) \in StoreRequests(k)
  BY DEF Lenient, Plain, Request, StoreRequests, Requests, Dos, StoreDo
<1>6. \A do \in {"createLayer", "createFolder"} : Plain(do, i, j) \in EarlyRequests(k)
  BY DEF Plain, Request, EarlyRequests, Requests, Dos, StoreDo
<1>7. \A do \in {"layerTo", "objectTo"} : Lenient(Plain(do, i, j)) \in EarlyRequests(k)
  BY DEF Lenient, Plain, Request, EarlyRequests, Requests, Dos, StoreDo
<1>8. \A b \in BOOLEAN : /\ Lenient(Request("patchLayer", i, j, None, b)) \in EarlyRequests(k)
                         /\ Lenient(Request("patchFolder", i, j, None, b)) \in EarlyRequests(k)
  BY DEF Lenient, Request, EarlyRequests, Requests, Dos, StoreDo
<1>9. \A do \in {"listLayers", "listObjects"} : Plain(do, i, j) \in Requests(k)
  BY DEF Plain, Request, Requests, Dos, StoreDo
<1>. QED BY <1>2, <1>3, <1>4, <1>5, <1>6, <1>7, <1>8, <1>9

LEMMA Singles ==
  ASSUME NEW S, NEW r \in S, NEW condition \in BOOLEAN
  PROVE  <<r>> \in Seq(S) /\ When(condition, r) \in Seq(S)
BY DEF When

LEMMA RestoreFits ==
  ASSUME NEW k \in Nat, k > 1, NEW item \in ItemSet(k)
  PROVE  Restore(item) \in Seq(StoreRequests(k))
<1>1. /\ item.id \in Below(k) /\ item.layer \in Below(k) /\ item.geom \in Geoms
      /\ item.crop \in BOOLEAN /\ item.folder \in Below(k)
  BY DEF ItemSet
<1>. DEFINE A == <<Request("addObject", item.id, item.layer, item.geom, FALSE)>>
            B == When(item.crop, Request("setCrop", item.id, None, None, TRUE))
            C == When(item.folder # None, Lenient(Plain("moveObject", item.id, item.folder)))
            S == StoreRequests(k)
<1>2. /\ Request("addObject", item.id, item.layer, item.geom, FALSE) \in S
      /\ Request("setCrop", item.id, None, None, TRUE) \in S
      /\ Lenient(Plain("moveObject", item.id, item.folder)) \in S
  BY <1>1, MadeRequests
<1>3. A \in Seq(S) /\ B \in Seq(S) /\ C \in Seq(S)
  <2>1. A \in Seq(S)
    BY <1>2, Singles
  <2>2. B \in Seq(S)
    BY <1>1, <1>2, Singles
  <2>3. C \in Seq(S)
    BY <1>2, Singles
  <2>. QED BY <2>1, <2>2, <2>3
<1>4. Restore(item) = (A \o B) \o C
  BY DEF Restore
<1>. HIDE DEF A, B, C, S
<1>. QED BY <1>3, <1>4, ConcatProperties DEF S

(* What RestoreAll is defined by exists for any number of items.            *)
LEMMA RestoresUpTo ==
  ASSUME NEW items, NEW n \in Nat
  PROVE  \E f : f = [k \in 0..n |-> IF k = 0 THEN <<>> ELSE f[k - 1] \o Restore(items[k])]
<1>. DEFINE Is(m, f) == f = [k \in 0..m |-> IF k = 0 THEN <<>> ELSE f[k - 1] \o Restore(items[k])]
            Bad == {m \in Nat : ~ \E f : Is(m, f)}
<1>1. ASSUME NEW m \in Bad, \A y \in Bad : ~(y < m) PROVE FALSE
  <2>1. CASE m = 0
    <3>. DEFINE f == [k \in 0..0 |-> <<>>]
    <3>1. f = [k \in 0..m |-> IF k = 0 THEN <<>> ELSE f[k - 1] \o Restore(items[k])]
      BY <2>1
    <3>. QED BY <3>1
  <2>2. CASE m # 0
    <3>1. m - 1 \in Nat /\ m - 1 < m
      BY <2>2
    <3>2. PICK g : Is(m - 1, g)
      BY <1>1, <3>1
    <3>3. g = [k \in 0..(m - 1) |-> IF k = 0 THEN <<>> ELSE g[k - 1] \o Restore(items[k])]
      BY <3>2
    <3>. DEFINE h == [k \in 0..m |-> IF k = m THEN g[m - 1] \o Restore(items[m]) ELSE g[k]]
    <3>4. ASSUME NEW k \in 0..m
          PROVE  h[k] = IF k = 0 THEN <<>> ELSE h[k - 1] \o Restore(items[k])
      <4>1. k # 0 => k - 1 \in 0..(m - 1) /\ h[k - 1] = g[k - 1]
        BY <2>2
      <4>2. CASE k = m
        BY <2>2, <4>1, <4>2
      <4>3. CASE k # m
        <5>1. k \in 0..(m - 1) /\ h[k] = g[k]
          BY <4>3
        <5>2. g[k] = IF k = 0 THEN <<>> ELSE g[k - 1] \o Restore(items[k])
          BY <3>3, <5>1
        <5>. QED BY <4>1, <5>1, <5>2
      <4>. QED BY <4>2, <4>3
    <3>5. h = [k \in 0..m |-> h[k]]
      OBVIOUS
    <3>. HIDE DEF h
    <3>6. h = [k \in 0..m |-> IF k = 0 THEN <<>> ELSE h[k - 1] \o Restore(items[k])]
      BY <3>4, <3>5
    <3>. QED BY <3>6
  <2>. QED BY <2>1, <2>2
<1>2. Bad = {}
  <2>1. Bad \in SUBSET Nat
    OBVIOUS
  <2>. HIDE DEF Bad
  <2>. QED BY <1>1, <2>1, Least
<1>. QED BY <1>2

LEMMA RestoreAllFits ==
  ASSUME NEW k \in Nat, k > 1, NEW items \in Seq(ItemSet(k))
  PROVE  RestoreAll(items) \in Seq(StoreRequests(k))
<1>. DEFINE N == Len(items)
            S == StoreRequests(k)
            f == CHOOSE f : f = [n \in 0..N |-> IF n = 0 THEN <<>> ELSE f[n - 1] \o Restore(items[n])]
            Bad == {n \in 0..N : f[n] \notin Seq(S)}
<1>1. N \in Nat
  OBVIOUS
<1>2. RestoreAll(items) = f[N]
  BY DEF RestoreAll
<1>3. f = [n \in 0..N |-> IF n = 0 THEN <<>> ELSE f[n - 1] \o Restore(items[n])]
  <2>1. \E g : g = [n \in 0..N |-> IF n = 0 THEN <<>> ELSE g[n - 1] \o Restore(items[n])]
    BY <1>1, RestoresUpTo
  <2>. HIDE DEF N
  <2>. QED BY <2>1
<1>. HIDE DEF f
<1>4. ASSUME NEW n \in Bad, \A y \in Bad : ~(y < n) PROVE FALSE
  <2>1. n \in 0..N /\ f[n] \notin Seq(S)
    OBVIOUS
  <2>2. f[n] = IF n = 0 THEN <<>> ELSE f[n - 1] \o Restore(items[n])
    BY <1>3, <2>1
  <2>3. n # 0
    BY <2>1, <2>2
  <2>4. n - 1 \in 0..N /\ n - 1 < n /\ n \in 1..N
    BY <1>1, <2>1, <2>3
  <2>5. f[n - 1] \in Seq(S)
    BY <1>4, <2>4
  <2>6. items[n] \in ItemSet(k)
    BY <2>4
  <2>7. Restore(items[n]) \in Seq(S)
    BY <2>6, RestoreFits
  <2>. HIDE DEF S
  <2>8. f[n - 1] \o Restore(items[n]) \in Seq(S)
    BY <2>5, <2>7, ConcatProperties
  <2>. QED BY <2>1, <2>2, <2>3, <2>8
<1>5. Bad = {}
  <2>1. Bad \in SUBSET Nat
    BY <1>1
  <2>. HIDE DEF Bad
  <2>. QED BY <1>4, <2>1, Least
<1>. QED BY <1>1, <1>2, <1>5

LEMMA StoreSteps ==
  ASSUME NEW k, NEW q \in Seq(StoreRequests(k))
  PROVE  q \in Seq(Requests(k)) /\ AllStore(q)
<1>1. StoreRequests(k) \subseteq Requests(k) /\ \A r \in StoreRequests(k) : r.do \in StoreDo
  BY DEF StoreRequests
<1>2. q \in Seq(Requests(k))
  BY <1>1, SeqMonotonic
<1>. QED BY <1>1, <1>2 DEF AllStore

(* A list of requests, which either change the client's copy of the map one *)
(* by one, or load the map again on the way.                                *)
Steps(q, k) ==
  /\ q \in Seq(Requests(k))
  /\ AllStore(q) \/ \E d \in DOMAIN q : Reloads(q, d)

LEMMA EarlySteps ==
  ASSUME NEW k \in Nat, k > 1, NEW A \in Seq(EarlyRequests(k)), NEW B \in Seq(StoreRequests(k))
  PROVE  Steps((A \o Reload) \o B, k)
<1>. DEFINE R == Requests(k)
            q == (A \o Reload) \o B
            d == Len(A) + 1
<1>1. /\ EarlyRequests(k) \subseteq R /\ \A r \in EarlyRequests(k) : r.do \notin {"listLayers", "listObjects"}
      /\ StoreRequests(k) \subseteq R /\ \A r \in StoreRequests(k) : r.do \in StoreDo
  BY DEF EarlyRequests, StoreRequests
<1>2. Plain("listLayers", None, None) \in R /\ Plain("listLayers", None, None).do = "listLayers"
  <2>1. None \in Below(k)
    BY DEF Below, None
  <2>. QED BY <2>1, MadeRequests DEF Plain, Request
<1>3. Reload \in Seq(R) /\ Len(Reload) = 1 /\ Reload[1].do = "listLayers"
  BY <1>2 DEF Reload
<1>4. A \in Seq(R) /\ B \in Seq(R) /\ Len(A) \in Nat /\ Len(B) \in Nat
  BY <1>1, SeqMonotonic
<1>5. /\ \A n \in 1..Len(A) : A[n].do \notin {"listLayers", "listObjects"}
      /\ \A n \in 1..Len(B) : B[n].do \in StoreDo
  BY <1>1, ElementOfSeq
<1>. HIDE DEF R
<1>. DEFINE C == A \o Reload
<1>6. /\ C \in Seq(R) /\ Len(C) = d
      /\ \A n \in 1..d : C[n] = IF n <= Len(A) THEN A[n] ELSE Reload[n - Len(A)]
  <2>1. /\ C \in Seq(R) /\ Len(C) = Len(A) + Len(Reload)
        /\ \A n \in 1..(Len(A) + Len(Reload)) : C[n] = IF n <= Len(A) THEN A[n] ELSE Reload[n - Len(A)]
    BY <1>3, <1>4, ConcatProperties
  <2>. HIDE DEF C
  <2>. QED BY <1>3, <2>1
<1>. HIDE DEF C
<1>7. /\ q \in Seq(R) /\ Len(q) = d + Len(B)
      /\ \A n \in 1..(d + Len(B)) : q[n] = IF n <= d THEN C[n] ELSE B[n - d]
  <2>1. q = C \o B
    BY DEF C
  <2>. HIDE DEF q
  <2>2. /\ q \in Seq(R) /\ Len(q) = Len(C) + Len(B)
        /\ \A n \in 1..(Len(C) + Len(B)) : q[n] = IF n <= Len(C) THEN C[n] ELSE B[n - Len(C)]
    BY <1>4, <1>6, <2>1, ConcatProperties
  <2>. QED BY <1>6, <2>2
<1>. HIDE DEF q
<1>8. d \in 1..(d + Len(B)) /\ DOMAIN q = 1..(d + Len(B)) /\ d - Len(A) = 1
  BY <1>4, <1>7
<1>9. q[d].do = "listLayers"
  BY <1>3, <1>4, <1>6, <1>7, <1>8
<1>10. ASSUME NEW n \in DOMAIN q, n < d PROVE q[n].do \notin {"listLayers", "listObjects"}
  <2>1. n \in 1..Len(A) /\ n \in 1..d /\ n \in 1..(d + Len(B)) /\ n <= d /\ n <= Len(A)
    BY <1>4, <1>8, <1>10
  <2>2. q[n] = A[n]
    BY <1>6, <1>7, <2>1
  <2>. QED BY <1>5, <2>1, <2>2
<1>11. ASSUME NEW n \in DOMAIN q, n > d PROVE q[n].do \in StoreDo
  <2>1. n - d \in 1..Len(B) /\ n \in 1..(d + Len(B)) /\ ~(n <= d)
    BY <1>4, <1>8, <1>11
  <2>2. q[n] = B[n - d]
    BY <1>7, <2>1
  <2>. QED BY <1>5, <2>1, <2>2
<1>12. Reloads(q, d)
  BY <1>9, <1>10, <1>11 DEF Reloads
<1>. QED BY <1>7, <1>8, <1>12 DEF q, R, Steps

LEMMA RedoFits ==
  ASSUME NEW k \in Nat, k > 1, NEW e \in EntrySet(k)
  PROVE  RedoSteps(e) \in Seq(StoreRequests(k))
<1>. DEFINE S == StoreRequests(k)
<1>0. None \in Below(k)
  BY DEF None, Below
<1>1. CASE e.kind = "create" /\ e \in CreateSet(k)
  <2>1. e.id \in Below(k) /\ e.layer \in Below(k) /\ e.geom \in Geoms
    BY <1>1 DEF CreateSet
  <2>2. Request("addObject", e.id, e.layer, e.geom, FALSE) \in S
    BY <2>1, MadeRequests
  <2>3. RedoSteps(e) = <<Request("addObject", e.id, e.layer, e.geom, FALSE)>>
    BY <1>1 DEF RedoSteps
  <2>. QED BY <2>2, <2>3, Singles
<1>2. CASE e.kind = "patch" /\ e \in PatchSet(k)
  <2>1. e.id \in Below(k) /\ e.after \in Geoms
    BY <1>2 DEF PatchSet
  <2>2. Request("setGeom", e.id, None, e.after, FALSE) \in S
    BY <2>1, MadeRequests
  <2>3. RedoSteps(e) = <<Request("setGeom", e.id, None, e.after, FALSE)>>
    BY <1>2 DEF RedoSteps
  <2>. QED BY <2>2, <2>3, Singles
<1>3. CASE e.kind = "delete" /\ e \in DeleteSet(k)
  <2>. DEFINE q == Deletions(e.items)
  <2>1. e.items \in Seq(ItemSet(k))
    BY <1>3 DEF DeleteSet
  <2>2. RedoSteps(e) = q
    BY <1>3 DEF RedoSteps
  <2>3. \A n \in 1..Len(e.items) : Plain("deleteObject", e.items[n].id, None) \in S
    <3>1. ASSUME NEW n \in 1..Len(e.items) PROVE e.items[n].id \in Below(k)
      <4>1. e.items[n] \in ItemSet(k)
        BY <2>1, ElementOfSeq
      <4>. QED BY <4>1 DEF ItemSet
    <3>. QED BY <1>0, <3>1, MadeRequests
  <2>4. q = [n \in 1..Len(e.items) |-> Plain("deleteObject", e.items[n].id, None)] /\ Len(e.items) \in Nat
    BY <2>1 DEF Deletions
  <2>. HIDE DEF q
  <2>5. q \in [1..Len(e.items) -> S]
    BY <2>3, <2>4
  <2>6. q \in Seq(S)
    BY <2>4, <2>5
  <2>. QED BY <2>2, <2>6
<1>4. CASE e.kind = "merge" /\ e \in MergeSet(k)
  <2>1. e.id \in Below(k) /\ e.dropped \in ItemSet(k) /\ e.geom \in Geoms
    BY <1>4 DEF MergeSet
  <2>2. e.dropped.id \in Below(k)
    BY <2>1 DEF ItemSet
  <2>3. Request("merge", e.id, e.dropped.id, e.geom, FALSE) \in S
    BY <2>1, <2>2, MadeRequests
  <2>4. RedoSteps(e) = <<Request("merge", e.id, e.dropped.id, e.geom, FALSE)>>
    BY <1>4 DEF RedoSteps
  <2>. QED BY <2>3, <2>4, Singles
<1>5. CASE e.kind = "move" /\ e \in MoveSet(k)
  <2>1. e.id \in Below(k) /\ e.to \in Below(k)
    BY <1>5 DEF MoveSet
  <2>2. Plain("setLayer", e.id, e.to) \in S
    BY <2>1, MadeRequests
  <2>3. RedoSteps(e) = <<Plain("setLayer", e.id, e.to)>>
    BY <1>5 DEF RedoSteps
  <2>. QED BY <2>2, <2>3, Singles
<1>6. CASE e.kind = "deleteLayer" /\ e \in LayerDeleteSet(k)
  <2>1. e.id \in Below(k)
    BY <1>6 DEF LayerDeleteSet
  <2>2. Plain("deleteLayer", e.id, None) \in S
    BY <1>0, <2>1, MadeRequests
  <2>3. RedoSteps(e) = <<Plain("deleteLayer", e.id, None)>>
    BY <1>6 DEF RedoSteps
  <2>. QED BY <2>2, <2>3, Singles
<1>7. CASE e.kind = "deleteFolder" /\ e \in FolderDeleteSet(k)
  <2>1. e.id \in Below(k)
    BY <1>7 DEF FolderDeleteSet
  <2>2. Plain("deleteFolder", e.id, None) \in S
    BY <1>0, <2>1, MadeRequests
  <2>3. RedoSteps(e) = <<Plain("deleteFolder", e.id, None)>>
    BY <1>7 DEF RedoSteps
  <2>. QED BY <2>2, <2>3, Singles
<1>. QED BY <1>1, <1>2, <1>3, <1>4, <1>5, <1>6, <1>7, EntryCases

LEMMA UndoFits ==
  ASSUME NEW k \in Nat, k > 1, NEW e \in EntrySet(k)
  PROVE  Steps(UndoSteps(e), k)
<1>. DEFINE S == StoreRequests(k)
            E == EarlyRequests(k)
<1>0. None \in Below(k)
  BY DEF None, Below
<1>s. \A q \in Seq(S) : Steps(q, k)
  BY StoreSteps DEF Steps
<1>e. \A A \in Seq(E), B \in Seq(S) : Steps((A \o Reload) \o B, k)
  BY EarlySteps
<1>1. CASE e.kind = "create" /\ e \in CreateSet(k)
  <2>1. e.id \in Below(k)
    BY <1>1 DEF CreateSet
  <2>2. Plain("deleteObject", e.id, None) \in S
    BY <1>0, <2>1, MadeRequests
  <2>3. UndoSteps(e) = <<Plain("deleteObject", e.id, None)>>
    BY <1>1 DEF UndoSteps
  <2>4. UndoSteps(e) \in Seq(S)
    BY <2>2, <2>3, Singles
  <2>. QED BY <1>s, <2>4
<1>2. CASE e.kind = "patch" /\ e \in PatchSet(k)
  <2>1. e.id \in Below(k) /\ e.before \in Geoms
    BY <1>2 DEF PatchSet
  <2>2. Request("setGeom", e.id, None, e.before, FALSE) \in S
    BY <2>1, MadeRequests
  <2>3. UndoSteps(e) = <<Request("setGeom", e.id, None, e.before, FALSE)>>
    BY <1>2 DEF UndoSteps
  <2>4. UndoSteps(e) \in Seq(S)
    BY <2>2, <2>3, Singles
  <2>. QED BY <1>s, <2>4
<1>3. CASE e.kind = "delete" /\ e \in DeleteSet(k)
  <2>1. e.items \in Seq(ItemSet(k))
    BY <1>3 DEF DeleteSet
  <2>2. UndoSteps(e) = RestoreAll(e.items)
    BY <1>3 DEF UndoSteps
  <2>3. UndoSteps(e) \in Seq(S)
    BY <2>1, <2>2, RestoreAllFits
  <2>. QED BY <1>s, <2>3
<1>4. CASE e.kind = "merge" /\ e \in MergeSet(k)
  <2>1. e.id \in Below(k) /\ e.dropped \in ItemSet(k) /\ e.before \in Geoms
    BY <1>4 DEF MergeSet
  <2>2. Request("setGeom", e.id, None, e.before, FALSE) \in S
    BY <2>1, MadeRequests
  <2>3. <<Request("setGeom", e.id, None, e.before, FALSE)>> \in Seq(S)
    BY <2>2, Singles
  <2>4. Restore(e.dropped) \in Seq(S)
    BY <2>1, RestoreFits
  <2>5. UndoSteps(e) = <<Request("setGeom", e.id, None, e.before, FALSE)>> \o Restore(e.dropped)
    BY <1>4 DEF UndoSteps
  <2>. HIDE DEF S
  <2>6. UndoSteps(e) \in Seq(S)
    BY <2>3, <2>4, <2>5, ConcatProperties
  <2>. QED BY <1>s, <2>6
<1>5. CASE e.kind = "move" /\ e \in MoveSet(k)
  <2>1. e.id \in Below(k) /\ e.from \in Below(k)
    BY <1>5 DEF MoveSet
  <2>2. Plain("setLayer", e.id, e.from) \in S
    BY <2>1, MadeRequests
  <2>3. UndoSteps(e) = <<Plain("setLayer", e.id, e.from)>>
    BY <1>5 DEF UndoSteps
  <2>4. UndoSteps(e) \in Seq(S)
    BY <2>2, <2>3, Singles
  <2>. QED BY <1>s, <2>4
<1>6. CASE e.kind = "deleteLayer" /\ e \in LayerDeleteSet(k)
  <2>. DEFINE r == Lenient(Request("patchLayer", e.id, e.folder, None, ~e.visible))
              A == <<Plain("createLayer", e.id, None)>>
              W == When(e.folder # None \/ ~e.visible, r)
              B == RestoreAll(e.items)
  <2>1. e.id \in Below(k) /\ e.folder \in Below(k) /\ e.visible \in BOOLEAN /\ e.items \in Seq(ItemSet(k))
    BY <1>6 DEF LayerDeleteSet
  <2>2. Plain("createLayer", e.id, None) \in E
    BY <1>0, <2>1, MadeRequests
  <2>3. r \in E
    <3>1. (~e.visible) \in BOOLEAN
      BY <2>1
    <3>. QED BY <2>1, <3>1, MadeRequests
  <2>4. A \in Seq(E)
    BY <2>2, Singles
  <2>5. W \in Seq(E)
    <3>. HIDE DEF r
    <3>. QED BY <2>1, <2>3, Singles
  <2>6. B \in Seq(S)
    BY <2>1, RestoreAllFits
  <2>7. UndoSteps(e) = ((A \o W) \o Reload) \o B
    BY <1>6 DEF UndoSteps
  <2>. HIDE DEF A, W, B, E, S
  <2>8. A \o W \in Seq(E)
    BY <2>4, <2>5, ConcatProperties
  <2>. QED BY <1>e, <2>6, <2>7, <2>8
<1>7. CASE e.kind = "deleteFolder" /\ e \in FolderDeleteSet(k)
  <2>. DEFINE r == Lenient(Request("patchFolder", e.id, None, None, TRUE))
              A == <<Plain("createFolder", e.id, None)>>
              W == When(~e.visible, r)
              L == [n \in DOMAIN e.layers |-> Lenient(Plain("layerTo", e.layers[n], e.id))]
              O == [n \in DOMAIN e.objects |-> Lenient(Plain("objectTo", e.objects[n], e.id))]
              Q == ((A \o W) \o L) \o O
  <2>1. e.id \in Below(k) /\ e.visible \in BOOLEAN /\ e.layers \in Seq(Below(k)) /\ e.objects \in Seq(Below(k))
    BY <1>7 DEF FolderDeleteSet
  <2>2. Plain("createFolder", e.id, None) \in E
    BY <1>0, <2>1, MadeRequests
  <2>3. r \in E
    BY <1>0, <2>1, MadeRequests
  <2>4. A \in Seq(E)
    BY <2>2, Singles
  <2>5. W \in Seq(E)
    <3>. HIDE DEF r
    <3>. QED BY <2>1, <2>3, Singles
  <2>6. L \in Seq(E)
    <3>1. ASSUME NEW n \in 1..Len(e.layers) PROVE Lenient(Plain("layerTo", e.layers[n], e.id)) \in E
      <4>1. e.layers[n] \in Below(k)
        BY <2>1, ElementOfSeq
      <4>. QED BY <2>1, <4>1, MadeRequests
    <3>2. L = [n \in 1..Len(e.layers) |-> Lenient(Plain("layerTo", e.layers[n], e.id))] /\ Len(e.layers) \in Nat
      BY <2>1
    <3>. HIDE DEF L, E
    <3>3. L \in [1..Len(e.layers) -> E]
      BY <3>1, <3>2
    <3>. QED BY <3>2, <3>3
  <2>7. O \in Seq(E)
    <3>1. ASSUME NEW n \in 1..Len(e.objects) PROVE Lenient(Plain("objectTo", e.objects[n], e.id)) \in E
      <4>1. e.objects[n] \in Below(k)
        BY <2>1, ElementOfSeq
      <4>. QED BY <2>1, <4>1, MadeRequests
    <3>2. O = [n \in 1..Len(e.objects) |-> Lenient(Plain("objectTo", e.objects[n], e.id))] /\ Len(e.objects) \in Nat
      BY <2>1
    <3>. HIDE DEF O, E
    <3>3. O \in [1..Len(e.objects) -> E]
      BY <3>1, <3>2
    <3>. QED BY <3>2, <3>3
  <2>8. UndoSteps(e) = Q \o Reload
    BY <1>7 DEF UndoSteps
  <2>. HIDE DEF A, W, L, O, E, S
  <2>9. A \o W \in Seq(E)
    BY <2>4, <2>5, ConcatProperties
  <2>10. (A \o W) \o L \in Seq(E)
    <3>. DEFINE C == A \o W
    <3>1. C \in Seq(E)
      BY <2>9
    <3>. HIDE DEF C
    <3>2. C \o L \in Seq(E)
      BY <2>6, <3>1, ConcatProperties
    <3>. QED BY <3>2 DEF C
  <2>11. Q \in Seq(E)
    <3>. DEFINE C == (A \o W) \o L
    <3>1. C \in Seq(E)
      BY <2>10
    <3>. HIDE DEF C
    <3>2. C \o O \in Seq(E)
      BY <2>7, <3>1, ConcatProperties
    <3>. QED BY <3>2 DEF C
  <2>. HIDE DEF Q
  <2>12. <<>> \in Seq(S) /\ Steps((Q \o Reload) \o <<>>, k)
    BY <1>e, <2>11, EmptySeq
  <2>13. (Q \o Reload) \o <<>> = Q \o Reload
    <3>1. Q \in Seq(Requests(k))
      BY <2>11, SeqMonotonic DEF E, EarlyRequests
    <3>2. Reload \in Seq(Requests(k))
      <4>1. Plain("listLayers", None, None) \in Requests(k)
        BY <1>0, MadeRequests
      <4>. QED BY <4>1 DEF Reload
    <3>3. Q \o Reload \in Seq(Requests(k))
      BY <3>1, <3>2, ConcatProperties
    <3>. QED BY <3>3, ConcatEmptySeq
  <2>. QED BY <2>8, <2>12, <2>13
<1>. QED BY <1>1, <1>2, <1>3, <1>4, <1>5, <1>6, <1>7, EntryCases

-----------------------------------------------------------------------------
(* What the agents may begin                                                *)

LEMMA AscendingFits ==
  ASSUME NEW k \in Nat, NEW S, S \subseteq 1..(k - 1)
  PROVE  /\ Cardinality(S) \in Nat
         /\ Ascending(S) \in [1..Cardinality(S) -> S]
         /\ \A i \in S : \E n \in 1..Cardinality(S) : Ascending(S)[n] = i
<1>. DEFINE N == Cardinality(S)
<1>1. S \in SUBSET Nat /\ IsFiniteSet(S) /\ N \in Nat
  <2>1. IsFiniteSet(1..(k - 1))
    BY FS_Interval
  <2>2. IsFiniteSet(S)
    BY <2>1, FS_Subset
  <2>. QED BY <2>2, FS_CardinalityType
<1>2. \E q \in [1..N -> S] : \A m, n \in 1..N : m < n => q[m] < q[n]
  <2>1. PICK q \in [1..N -> S] : Rises(q)
    BY <1>1, Ordered
  <2>2. DOMAIN q = 1..N
    OBVIOUS
  <2>. QED BY <2>1, <2>2 DEF Rises
<1>3. Ascending(S) \in [1..N -> S] /\ \A m, n \in 1..N : m < n => Ascending(S)[m] < Ascending(S)[n]
  <2>. HIDE DEF N
  <2>1. Ascending(S) = CHOOSE q \in [1..N -> S] : \A m, n \in 1..N : m < n => q[m] < q[n]
    BY DEF Ascending, N
  <2>. QED BY <1>2, <2>1
<1>. DEFINE q == Ascending(S)
<1>. HIDE DEF q
<1>4. q \in [1..N -> S] /\ Rises(q)
  <2>1. q \in [1..N -> S] /\ \A m, n \in 1..N : m < n => q[m] < q[n]
    BY <1>3 DEF q
  <2>2. DOMAIN q = 1..N
    BY <2>1
  <2>. QED BY <2>1, <2>2 DEF Rises
<1>5. \A i \in S : \E n \in 1..N : q[n] = i
  BY <1>1, <1>4, RisesOnce
<1>. QED BY <1>1, <1>4, <1>5 DEF q

LEMMA ItemFits ==
  ASSUME NEW k \in Nat, IsMap(store, k), NEW i \in DOMAIN store.objects
  PROVE  Item(i) \in ItemSet(k) /\ Item(i).id = i
<1>1. i \in Below(k) /\ store.objects[i] \in ObjectSet(k)
  BY DEF IsMap, IsPart, Below
<1>. QED BY <1>1 DEF Item, ItemSet, ObjectSet

LEMMA ItemsFit ==
  ASSUME NEW k \in Nat, IsMap(store, k), NEW S, S \subseteq DOMAIN store.objects
  PROVE  Items(S) \in Seq(ItemSet(k))
<1>. DEFINE N == Cardinality(S)
            q == Items(S)
<1>1. S \subseteq 1..(k - 1)
  BY DEF IsMap, IsPart
<1>2. N \in Nat /\ Ascending(S) \in [1..N -> S]
  BY <1>1, AscendingFits
<1>3. \A n \in 1..N : Item(Ascending(S)[n]) \in ItemSet(k)
  <2>1. \A n \in 1..N : Ascending(S)[n] \in DOMAIN store.objects
    BY <1>2
  <2>. QED BY <2>1, ItemFits
<1>4. q = [n \in 1..N |-> Item(Ascending(S)[n])]
  BY DEF Items
<1>. HIDE DEF q, N
<1>5. q \in [1..N -> ItemSet(k)]
  BY <1>3, <1>4
<1>6. q \in Seq(ItemSet(k))
  BY <1>2, <1>5
<1>. QED BY <1>6 DEF q

LEMMA AscendingIsSeq ==
  ASSUME NEW k \in Nat, NEW S, S \subseteq 1..(k - 1)
  PROVE  Ascending(S) \in Seq(Below(k))
<1>1. Cardinality(S) \in Nat /\ Ascending(S) \in [1..Cardinality(S) -> S]
  BY AscendingFits
<1>2. S \subseteq Below(k)
  BY DEF Below
<1>3. Ascending(S) \in [1..Cardinality(S) -> Below(k)]
  BY <1>1, <1>2
<1>. QED BY <1>1, <1>3

LEMMA EditsAreEntries ==
  ASSUME NEW k \in Nat, k > 1, IsMap(store, k), NEW a, NEW e \in Edits(a)
  PROVE  /\ e \in EntrySet(k)
         /\ e.kind = "merge" => e.id # e.dropped.id
<1>0. None \in Below(k)
  BY DEF None, Below
<1>1. /\ \A o \in DOMAIN store.objects : o \in Below(k) /\ store.objects[o] \in ObjectSet(k)
      /\ \A l \in DOMAIN store.layers : l \in Below(k) /\ store.layers[l] \in LayerSet(k)
      /\ \A f \in DOMAIN store.folders : f \in Below(k) /\ store.folders[f] \in FolderSet
      /\ DOMAIN store.objects \subseteq 1..(k - 1) /\ DOMAIN store.layers \subseteq 1..(k - 1)
  BY DEF IsMap, IsPart, Below
<1>2. CASE e \in Creates
  <2>1. e \in CreateSet(k)
    BY <1>0, <1>1, <1>2 DEF Creates, CreateSet
  <2>2. e.kind = "create"
    BY <2>1 DEF CreateSet
  <2>. QED BY <2>1, <2>2 DEF EntrySet
<1>3. CASE e \in Patches
  <2>1. e \in PatchSet(k)
    BY <1>1, <1>3 DEF Patches, PatchSet
  <2>2. e.kind = "patch"
    BY <2>1 DEF PatchSet
  <2>. QED BY <2>1, <2>2 DEF EntrySet
<1>4. CASE e \in Deletes
  <2>1. PICK S \in Selections : e = [kind |-> "delete", items |-> Items(S)]
    BY <1>4 DEF Deletes
  <2>2. S \subseteq DOMAIN store.objects
    BY DEF Selections
  <2>3. Items(S) \in Seq(ItemSet(k))
    BY <2>2, ItemsFit
  <2>4. e \in DeleteSet(k) /\ e.kind = "delete"
    BY <2>1, <2>3 DEF DeleteSet
  <2>. QED BY <2>4 DEF EntrySet
<1>5. CASE e \in Merges
  <2>1. PICK t \in (DOMAIN store.objects) \X (DOMAIN store.objects) \X Geoms :
          /\ t[1] # t[2]
          /\ e = [kind |-> "merge", id |-> t[1], before |-> store.objects[t[1]].geom,
                  dropped |-> Item(t[2]), geom |-> t[3]]
    BY <1>5 DEF Merges
  <2>2. t[1] \in DOMAIN store.objects /\ t[2] \in DOMAIN store.objects /\ t[3] \in Geoms
    OBVIOUS
  <2>3. t[1] \in Below(k) /\ store.objects[t[1]].geom \in Geoms
    BY <1>1, <2>2 DEF ObjectSet
  <2>4. Item(t[2]) \in ItemSet(k) /\ Item(t[2]).id = t[2]
    BY <2>2, ItemFits
  <2>5. e \in MergeSet(k) /\ e.id # e.dropped.id
    BY <2>1, <2>2, <2>3, <2>4 DEF MergeSet
  <2>. QED BY <2>5 DEF EntrySet
<1>6. CASE e \in Moves
  <2>1. e \in MoveSet(k)
    BY <1>1, <1>6 DEF Moves, MoveSet
  <2>2. e.kind = "move"
    BY <2>1 DEF MoveSet
  <2>. QED BY <2>1, <2>2 DEF EntrySet
<1>7. CASE e \in LayerDeletes
  <2>1. PICK l \in DOMAIN store.layers :
          e = [kind |-> "deleteLayer", id |-> l, folder |-> store.layers[l].folder,
               visible |-> store.layers[l].visible, items |-> Items(InLayer(store, l))]
    BY <1>7 DEF LayerDeletes
  <2>2. Items(InLayer(store, l)) \in Seq(ItemSet(k))
    <3>1. InLayer(store, l) \subseteq DOMAIN store.objects
      BY DEF InLayer
    <3>. QED BY <3>1, ItemsFit
  <2>3. l \in Below(k) /\ store.layers[l].folder \in Below(k) /\ store.layers[l].visible \in BOOLEAN
    BY <1>1 DEF LayerSet
  <2>4. e \in LayerDeleteSet(k) /\ e.kind = "deleteLayer"
    BY <2>1, <2>2, <2>3 DEF LayerDeleteSet
  <2>. QED BY <2>4 DEF EntrySet
<1>8. CASE e \in FolderDeletes
  <2>1. PICK f \in DOMAIN store.folders :
          e = [kind |-> "deleteFolder", id |-> f, visible |-> store.folders[f].visible,
               layers |-> Ascending(InFolder(store.layers, f)),
               objects |-> Ascending(InFolder(store.objects, f))]
    BY <1>8 DEF FolderDeletes
  <2>2. InFolder(store.layers, f) \subseteq 1..(k - 1) /\ InFolder(store.objects, f) \subseteq 1..(k - 1)
    BY <1>1 DEF InFolder
  <2>3. Ascending(InFolder(store.layers, f)) \in Seq(Below(k)) /\ Ascending(InFolder(store.objects, f)) \in Seq(Below(k))
    BY <2>2, AscendingIsSeq
  <2>4. f \in Below(k) /\ store.folders[f].visible \in BOOLEAN
    BY <1>1 DEF FolderSet
  <2>5. e \in FolderDeleteSet(k) /\ e.kind = "deleteFolder"
    BY <2>1, <2>3, <2>4 DEF FolderDeleteSet
  <2>. QED BY <2>5 DEF EntrySet
<1>. QED BY <1>2, <1>3, <1>4, <1>5, <1>6, <1>7, <1>8 DEF Edits

(* The requests of an edit: one, or a deletion for each object; the objects *)
(* that are merged are two.                                                 *)
EditSteps(e, q) ==
  /\ AllStore(q)
  /\ IF e.kind = "delete" THEN Len(q) <= Len(e.items) ELSE Len(q) = 1
  /\ \A n \in DOMAIN q : q[n].do = "merge" => q[n].id # q[n].to

LEMMA EditsFit ==
  ASSUME NEW k \in Nat, k > 1, IsMap(store, k), NEW a, NEW e \in Edits(a)
  PROVE  e \in EntrySet(k) /\ RedoSteps(e) \in Seq(Requests(k)) /\ EditSteps(e, RedoSteps(e))
<1>. DEFINE q == RedoSteps(e)
<1>1. e \in EntrySet(k) /\ (e.kind = "merge" => e.id # e.dropped.id)
  BY EditsAreEntries
<1>2. q \in Seq(Requests(k)) /\ AllStore(q)
  <2>1. q \in Seq(StoreRequests(k))
    BY <1>1, RedoFits
  <2>. HIDE DEF q
  <2>. QED BY <2>1, StoreSteps
<1>. SUFFICES EditSteps(e, q)
  BY <1>1, <1>2
<1>3. CASE e.kind = "delete" /\ e \in DeleteSet(k)
  <2>1. e.items \in Seq(ItemSet(k))
    BY <1>3 DEF DeleteSet
  <2>2. q = [n \in DOMAIN e.items |-> Plain("deleteObject", e.items[n].id, None)]
    BY <1>3 DEF RedoSteps, Deletions
  <2>. HIDE DEF q
  <2>3. DOMAIN q = 1..Len(e.items) /\ Len(e.items) \in Nat
    BY <2>1, <2>2
  <2>4. Len(q) = Len(e.items)
    BY <1>2, <2>3
  <2>5. ASSUME NEW n \in DOMAIN q PROVE q[n].do # "merge"
    BY <2>2 DEF Plain, Request
  <2>. QED BY <1>2, <1>3, <2>3, <2>4, <2>5 DEF EditSteps
<1>4. CASE e.kind = "merge"
  <2>1. PICK r : q = <<r>> /\ r.id = e.id /\ r.to = e.dropped.id
    BY <1>4 DEF RedoSteps, Request
  <2>. HIDE DEF q
  <2>2. Len(q) = 1 /\ DOMAIN q = {1} /\ q[1].id = e.id /\ q[1].to = e.dropped.id
    BY <2>1
  <2>. QED BY <1>1, <1>2, <1>4, <2>2 DEF EditSteps
<1>5. CASE e.kind \in {"create", "patch", "move", "deleteLayer", "deleteFolder"}
  <2>1. PICK r : q = <<r>> /\ r.do # "merge"
    <3>1. \A do, i, j, g, b : Request(do, i, j, g, b).do = do
      BY DEF Request
    <3>2. CASE e.kind = "create"
      BY <3>1, <3>2 DEF RedoSteps
    <3>3. CASE e.kind = "patch"
      BY <3>1, <3>3 DEF RedoSteps
    <3>4. CASE e.kind = "move"
      BY <3>1, <3>4 DEF RedoSteps, Plain
    <3>5. CASE e.kind = "deleteLayer"
      BY <3>1, <3>5 DEF RedoSteps, Plain
    <3>6. CASE e.kind = "deleteFolder"
      BY <3>1, <3>6 DEF RedoSteps, Plain
    <3>. QED BY <1>5, <3>2, <3>3, <3>4, <3>5, <3>6
  <2>. HIDE DEF q
  <2>2. Len(q) = 1 /\ DOMAIN q = {1} /\ q[1].do # "merge"
    BY <2>1
  <2>. QED BY <1>2, <1>5, <2>2 DEF EditSteps
<1>6. \/ e.kind = "delete" /\ e \in DeleteSet(k)
      \/ e.kind = "merge"
      \/ e.kind \in {"create", "patch", "move", "deleteLayer", "deleteFolder"}
  BY <1>1, EntryCases
<1>. QED BY <1>3, <1>4, <1>5, <1>6

LEMMA TweaksFit ==
  ASSUME NEW k \in Nat, k > 1, IsMap(store, k), NEW r \in Tweaks
  PROVE  r \in StoreRequests(k) /\ r.do # "merge"
<1>0. None \in Below(k)
  BY DEF None, Below
<1>1. /\ \A o \in DOMAIN store.objects : o \in Below(k) /\ store.objects[o] \in ObjectSet(k)
      /\ \A l \in DOMAIN store.layers : l \in Below(k)
      /\ \A f \in DOMAIN store.folders \union {None} : f \in Below(k)
  BY <1>0 DEF IsMap, IsPart, Below
<1>2. CASE r \in {Request("setCrop", o, None, None, ~store.objects[o].crop) : o \in DOMAIN store.objects}
  <2>1. PICK o \in DOMAIN store.objects : r = Request("setCrop", o, None, None, ~store.objects[o].crop)
    BY <1>2
  <2>2. (~store.objects[o].crop) \in BOOLEAN /\ o \in Below(k)
    BY <1>1
  <2>3. r \in StoreRequests(k)
    BY <2>1, <2>2, MadeRequests
  <2>. QED BY <2>1, <2>3 DEF Request
<1>3. CASE r \in Filings("moveObject", store.objects)
  <2>1. PICK p \in (DOMAIN store.objects) \X (DOMAIN store.folders \union {None}) : r = Plain("moveObject", p[1], p[2])
    BY <1>3 DEF Filings
  <2>2. p[1] \in Below(k) /\ p[2] \in Below(k)
    BY <1>1
  <2>3. r \in StoreRequests(k)
    BY <2>1, <2>2, MadeRequests
  <2>. QED BY <2>1, <2>3 DEF Plain, Request
<1>4. CASE r \in Filings("moveLayer", store.layers)
  <2>1. PICK p \in (DOMAIN store.layers) \X (DOMAIN store.folders \union {None}) : r = Plain("moveLayer", p[1], p[2])
    BY <1>4 DEF Filings
  <2>2. p[1] \in Below(k) /\ p[2] \in Below(k)
    BY <1>1
  <2>3. r \in StoreRequests(k)
    BY <2>1, <2>2, MadeRequests
  <2>. QED BY <2>1, <2>3 DEF Plain, Request
<1>. QED BY <1>2, <1>3, <1>4 DEF Tweaks

-----------------------------------------------------------------------------
(* The inductive invariant                                                  *)

MapsOK == Sound(server, fresh) /\ IsMap(store, fresh) /\ IsMap(listed, fresh)

StackOK ==
  /\ stack \in Seq(EntrySet(fresh)) /\ Len(stack) <= MaxStack
  /\ cursor \in -1..(Len(stack) - 1)
  /\ (\E V : versions \in Seq(V)) /\ Len(versions) = Len(stack) + 1

FlagsOK == frayed \in {"no"} \union Runs /\ blurred \in BOOLEAN

(* An answer has come from the server as it is now: only one agent is       *)
(* working.                                                                 *)
Answered(r, p) ==
  /\ p.map = server
  /\ r.do \in {"addObject", "setGeom", "setLayer", "setCrop"} => p.id \in DOMAIN server.objects
  /\ r.do = "merge" => r.id \in DOMAIN server.objects
  /\ r.do \in Creations => r.id < p.id

ReplyFits(a) ==
  \/ act[a].reply = NoReply
  \/ /\ act[a].todo # <<>> /\ act[a].reply.why \in {"ok"} \union Failures /\ act[a].reply.id \in Below(fresh)
     /\ act[a].reply.why = "ok" => act[a].effect /\ Answered(Sent(a), act[a].reply)
     /\ act[a].reply.why = "failed" => act[a].effect /\ FailsAfterwards(Sent(a))

IsAct(c) ==
  c = [doing |-> c.doing, todo |-> c.todo, entry |-> c.entry, reply |-> c.reply, effect |-> c.effect]

(* A single request has no effect unless it is answered with success.       *)
EditFits(c) ==
  /\ c.entry \in EntrySet(fresh) /\ EditSteps(c.entry, c.todo)
  /\ c.entry.kind # "delete" /\ c.reply.why # "ok" => ~c.effect

TweakFits(c) ==
  AllStore(c.todo) /\ Len(c.todo) = 1 /\ c.todo[1].do # "merge" /\ (c.reply.why # "ok" => ~c.effect)

Works(a) ==
  /\ IsAct(act[a])
  /\ act[a].todo \in Seq(Requests(fresh)) /\ act[a].effect \in BOOLEAN
  /\ act[a].doing \in (IF a = "undo" THEN Runs ELSE {"edit", "tweak"})
  /\ act[a].doing = "undo" => cursor >= 0
  /\ act[a].doing = "redo" => cursor < Len(stack) - 1
  /\ act[a].doing = "edit" => EditFits(act[a])
  /\ act[a].doing = "tweak" => TweakFits(act[a])
  /\ ReplyFits(a)

ActOK ==
  /\ act = [a \in Agents |-> act[a]]
  /\ \A a \in Agents : Idle(a) => act[a] = Resting
  /\ \A a \in Agents : ~Idle(a) => Works(a)
  /\ \A a, b \in Agents : a # b => Idle(a) \/ Idle(b)

(* While the map is loaded again, what was received is what the server has; *)
(* what is missing is in a layer that is still to be listed.                *)
Loads(q, d) == \A n \in DOMAIN q : IF n <= d THEN q[n].do = "listObjects" ELSE q[n].do \in StoreDo

ListedBy(q, d) ==
  /\ listed.layers = server.layers /\ listed.folders = server.folders
  /\ DOMAIN listed.objects \subseteq DOMAIN server.objects
  /\ \A o \in DOMAIN server.objects :
       IF o \in DOMAIN listed.objects THEN listed.objects[o] = server.objects[o]
       ELSE \E n \in 1..d : q[n].id = server.objects[o].layer

(* The three states of an agent: it keeps the client's copy up to date, it  *)
(* has not yet come to load it again, or it is loading it.                  *)
OneByOne(a) ==
  /\ AllStore(act[a].todo)
  /\ act[a].reply.why = "ok" => Shown(Sent(a), act[a].reply) = server
  /\ act[a].reply.why \notin {"ok", "failed"} => store = server

WillReload(a) ==
  /\ a = "undo" /\ (act[a].effect \/ store = server)
  /\ \E d \in DOMAIN act[a].todo : Reloads(act[a].todo, d)

IsLoading(a) ==
  /\ a = "undo" /\ act[a].effect
  /\ \E d \in DOMAIN act[a].todo : Loads(act[a].todo, d) /\ ListedBy(act[a].todo, d)

Current ==
  frayed = "no" =>
    /\ Quiet => store = server
    /\ \A a \in Agents : ~Idle(a) => OneByOne(a) \/ WillReload(a) \/ IsLoading(a)

EditsInv == AliasOK /\ MapsOK /\ StackOK /\ FlagsOK /\ ActOK /\ Current

LEMMA FreshFacts ==
  ASSUME AliasOK
  PROVE  fresh \in Nat /\ fresh > 1 /\ MaxId \in Nat /\ fresh <= MaxId + 1
BY MapEditsAssumption DEF AliasOK

LEMMA RestingFacts ==
  /\ Resting.doing = "nothing" /\ Resting.todo = <<>> /\ Resting.reply = NoReply /\ Resting.effect = FALSE
  /\ NoReply.why = "none" /\ IsAct(Resting)
BY DEF Resting, NoReply, IsAct

(* What an agent that is working leaves to the others.                      *)
LEMMA OthersRest ==
  ASSUME ActOK, NEW a \in Agents, ~Idle(a)
  PROVE  Works(a) /\ \A b \in Agents : b # a => act[b] = Resting
BY DEF ActOK

LEMMA ActWith ==
  ASSUME NEW c, IsAct(c), NEW v
  PROVE  /\ [c EXCEPT !.doing = v] = [doing |-> v, todo |-> c.todo, entry |-> c.entry, reply |-> c.reply, effect |-> c.effect]
         /\ [c EXCEPT !.todo = v] = [doing |-> c.doing, todo |-> v, entry |-> c.entry, reply |-> c.reply, effect |-> c.effect]
         /\ [c EXCEPT !.entry = v] = [doing |-> c.doing, todo |-> c.todo, entry |-> v, reply |-> c.reply, effect |-> c.effect]
         /\ [c EXCEPT !.reply = v] = [doing |-> c.doing, todo |-> c.todo, entry |-> c.entry, reply |-> v, effect |-> c.effect]
         /\ [c EXCEPT !.effect = v] = [doing |-> c.doing, todo |-> c.todo, entry |-> c.entry, reply |-> c.reply, effect |-> v]
BY DEF IsAct

LEMMA DoingFacts ==
  ASSUME NEW what, NEW entry, NEW todo
  PROVE  Doing(what, entry, todo) = [doing |-> what, todo |-> todo, entry |-> entry, reply |-> NoReply, effect |-> FALSE]
<1>. DEFINE c == [Resting EXCEPT !.doing = what]
            d == [c EXCEPT !.entry = entry]
<1>1. Doing(what, entry, todo) = [d EXCEPT !.todo = todo]
  BY DEF Doing
<1>2. c = [doing |-> what, todo |-> Resting.todo, entry |-> Resting.entry, reply |-> Resting.reply, effect |-> Resting.effect]
  BY RestingFacts, ActWith
<1>. HIDE DEF c
<1>3. IsAct(c) /\ c.doing = what /\ c.reply = NoReply /\ c.effect = FALSE
  BY <1>2, RestingFacts DEF IsAct
<1>4. d = [doing |-> c.doing, todo |-> c.todo, entry |-> entry, reply |-> c.reply, effect |-> c.effect]
  BY <1>3, ActWith
<1>. HIDE DEF d
<1>5. IsAct(d) /\ d.doing = what /\ d.entry = entry /\ d.reply = NoReply /\ d.effect = FALSE
  BY <1>3, <1>4 DEF IsAct
<1>6. [d EXCEPT !.todo = todo] = [doing |-> d.doing, todo |-> todo, entry |-> d.entry, reply |-> d.reply, effect |-> d.effect]
  BY <1>5, ActWith
<1>. QED BY <1>1, <1>5, <1>6

(* An agent begins.                                                         *)
LEMMA Begins ==
  ASSUME EditsInv, Quiet, NEW a \in Agents, NEW what, NEW entry, NEW todo \in Seq(Requests(fresh)),
         act' = [act EXCEPT ![a] = Doing(what, entry, todo)],
         what \in (IF a = "undo" THEN Runs ELSE {"edit", "tweak"}),
         what = "undo" => cursor >= 0, what = "redo" => cursor < Len(stack) - 1,
         what = "edit" => entry \in EntrySet(fresh) /\ EditSteps(entry, todo),
         what = "tweak" => AllStore(todo) /\ Len(todo) = 1 /\ todo[1].do # "merge",
         what \in Runs => Steps(todo, fresh),
         UNCHANGED <<server, store, alias, fresh, stack, cursor, listed, versions, frayed, blurred>>
  PROVE  EditsInv'
<1>. DEFINE c == act'[a]
<1>1. c = [doing |-> what, todo |-> todo, entry |-> entry, reply |-> NoReply, effect |-> FALSE]
  BY DoingFacts DEF EditsInv, ActOK
<1>. HIDE DEF c
<1>2. c.doing = what /\ c.todo = todo /\ c.entry = entry /\ c.reply = NoReply /\ c.effect = FALSE /\ c.reply.why = "none"
  BY <1>1 DEF NoReply
<1>3. \A b \in Agents : b # a => act'[b] = Resting
  BY DEF EditsInv, ActOK, Quiet
<1>4. what # "nothing"
  BY DEF Runs
<1>5. AliasOK' /\ MapsOK' /\ StackOK' /\ FlagsOK'
  BY DEF EditsInv, AliasOK, MapsOK, StackOK, FlagsOK
<1>6. Idle(a)' = FALSE /\ \A b \in Agents : b # a => Idle(b)'
  BY <1>2, <1>3, <1>4, RestingFacts DEF Idle, c
<1>7. Works(a)'
  <2>1. ReplyFits(a)'
    BY <1>2 DEF ReplyFits, c
  <2>2. IsAct(c)
    BY <1>1, <1>2 DEF IsAct
  <2>3. what = "edit" => EditFits(act[a])'
    BY <1>2 DEF EditFits, c
  <2>4. what = "tweak" => TweakFits(c)
    BY <1>2 DEF TweakFits
  <2>. QED BY <1>2, <2>1, <2>2, <2>3, <2>4 DEF Works, c
<1>8. ActOK'
  <2>1. act' = [b \in Agents |-> act'[b]]
    BY DEF EditsInv, ActOK
  <2>. QED BY <1>3, <1>6, <1>7, <2>1 DEF ActOK
<1>9. Current'
  <2>. SUFFICES ASSUME frayed = "no" PROVE (OneByOne(a) \/ WillReload(a))'
    BY <1>6 DEF Current, Quiet
  <2>1. store = server
    BY DEF EditsInv, Current
  <2>2. CASE AllStore(todo)
    <3>1. AllStore(c.todo) /\ c.reply.why # "ok"
      BY <1>2, <2>2
    <3>. QED BY <2>1, <3>1 DEF OneByOne, c
  <2>3. CASE a = "undo" /\ \E d \in DOMAIN todo : Reloads(todo, d)
    BY <1>2, <2>1, <2>3 DEF WillReload, c
  <2>4. a # "undo" => AllStore(todo)
    BY DEF EditSteps
  <2>. QED BY <2>2, <2>3, <2>4 DEF Steps
<1>. QED BY <1>5, <1>8, <1>9 DEF EditsInv

LEMMA EditStep ==
  ASSUME EditsInv, ~Overlap, NEW a \in {"tool", "panel"}, Edit(a)
  PROVE  EditsInv'
<1>1. PICK e \in Edits(a) : act' = [act EXCEPT ![a] = Doing("edit", e, RedoSteps(e))]
  BY DEF Edit
<1>2. /\ Quiet /\ a \in Agents /\ a # "undo"
      /\ UNCHANGED <<server, store, alias, fresh, stack, cursor, listed, versions, frayed, blurred>>
  BY DEF Edit, MayBegin, Agents
<1>3. fresh \in Nat /\ fresh > 1 /\ IsMap(store, fresh)
  BY FreshFacts DEF EditsInv, MapsOK
<1>4. e \in EntrySet(fresh) /\ RedoSteps(e) \in Seq(Requests(fresh)) /\ EditSteps(e, RedoSteps(e))
  BY <1>3, EditsFit
<1>. DEFINE q == RedoSteps(e)
<1>. HIDE DEF q
<1>5. act' = [act EXCEPT ![a] = Doing("edit", e, q)] /\ q \in Seq(Requests(fresh)) /\ EditSteps(e, q)
  BY <1>1, <1>4 DEF q
<1>6. "edit" \notin Runs /\ "edit" \in (IF a = "undo" THEN Runs ELSE {"edit", "tweak"})
  BY <1>2 DEF Runs
<1>. QED BY <1>2, <1>4, <1>5, <1>6, Begins

LEMMA TweakStep ==
  ASSUME EditsInv, ~Overlap, Tweak
  PROVE  EditsInv'
<1>1. PICK r \in Tweaks : act' = [act EXCEPT !["panel"] = Doing("tweak", None, <<r>>)]
  BY DEF Tweak
<1>2. /\ Quiet /\ "panel" \in Agents
      /\ UNCHANGED <<server, store, alias, fresh, stack, cursor, listed, versions, frayed, blurred>>
  BY DEF Tweak, MayBegin, Agents
<1>3. fresh \in Nat /\ fresh > 1 /\ IsMap(store, fresh)
  BY FreshFacts DEF EditsInv, MapsOK
<1>4. r \in StoreRequests(fresh) /\ r.do # "merge"
  BY <1>3, TweaksFit
<1>. DEFINE q == <<r>>
<1>5. q \in Seq(StoreRequests(fresh)) /\ Len(q) = 1 /\ q[1].do # "merge"
  BY <1>4, Singles
<1>. HIDE DEF q
<1>6. q \in Seq(Requests(fresh)) /\ AllStore(q)
  BY <1>5, StoreSteps
<1>7. act' = [act EXCEPT !["panel"] = Doing("tweak", None, q)]
  BY <1>1 DEF q
<1>8. "tweak" \notin Runs
  BY DEF Runs
<1>. QED BY <1>2, <1>5, <1>6, <1>7, <1>8, Begins

LEMMA PressStep ==
  ASSUME EditsInv, ~Overlap, NEW direction \in Runs, Press(direction)
  PROVE  EditsInv'
<1>. DEFINE index == IF direction = "undo" THEN cursor + 1 ELSE cursor + 2
            e == stack[index]
            q == IF direction = "undo" THEN UndoSteps(e) ELSE RedoSteps(e)
<1>1. /\ Quiet /\ "undo" \in Agents /\ index \in 1..Len(stack)
      /\ IF direction = "undo" THEN cursor >= 0 ELSE cursor < Len(stack) - 1
      /\ act' = [act EXCEPT !["undo"] = Doing(direction, e, q)]
      /\ UNCHANGED <<server, store, alias, fresh, stack, cursor, listed, versions, frayed, blurred>>
  BY DEF Press, MayBegin, Agents
<1>2. fresh \in Nat /\ fresh > 1
  BY FreshFacts DEF EditsInv
<1>. HIDE DEF index
<1>3. e \in EntrySet(fresh)
  BY <1>1, ElementOfSeq DEF EditsInv, StackOK
<1>. HIDE DEF e
<1>4. Steps(q, fresh)
  <2>1. Steps(UndoSteps(e), fresh)
    BY <1>2, <1>3, UndoFits
  <2>2. Steps(RedoSteps(e), fresh)
    <3>1. RedoSteps(e) \in Seq(StoreRequests(fresh))
      BY <1>2, <1>3, RedoFits
    <3>. DEFINE p == RedoSteps(e)
    <3>. HIDE DEF p
    <3>2. p \in Seq(StoreRequests(fresh))
      BY <3>1 DEF p
    <3>3. Steps(p, fresh)
      BY <3>2, StoreSteps DEF Steps
    <3>. QED BY <3>3 DEF p
  <2>. QED BY <2>1, <2>2
<1>. HIDE DEF q
<1>5. q \in Seq(Requests(fresh))
  BY <1>4 DEF Steps
<1>. QED BY <1>1, <1>4, <1>5, Begins DEF Runs

LEMMA ClearStep ==
  ASSUME EditsInv, ~Overlap, Clear
  PROVE  EditsInv'
<1>1. /\ Quiet /\ stack' = <<>> /\ cursor' = -1 /\ versions' = <<Content>>
      /\ UNCHANGED <<server, store, alias, fresh, act, listed, frayed>>
      /\ UNCHANGED blurred
  BY DEF Clear
<1>2. AliasOK' /\ MapsOK' /\ FlagsOK'
  BY <1>1 DEF EditsInv, AliasOK, MapsOK, FlagsOK
<1>3. StackOK'
  <2>1. stack' \in Seq(EntrySet(fresh')) /\ Len(stack') = 0
    BY <1>1, EmptySeq
  <2>2. versions' \in Seq({Content}) /\ Len(versions') = 1
    BY <1>1
  <2>3. 0 <= MaxStack
    BY MapEditsAssumption
  <2>4. \E V : versions' \in Seq(V)
    BY <2>2
  <2>5. cursor' \in -1..(Len(stack') - 1) /\ Len(versions') = Len(stack') + 1 /\ Len(stack') <= MaxStack
    BY <1>1, <2>1, <2>2, <2>3
  <2>. QED BY <2>1, <2>4, <2>5 DEF StackOK
<1>4. ActOK'
  <2>1. \A a \in Agents : Idle(a)'
    BY <1>1 DEF Quiet, Idle
  <2>2. act' = [a \in Agents |-> act'[a]] /\ \A a \in Agents : act'[a] = Resting
    BY <1>1 DEF EditsInv, ActOK, Quiet
  <2>. QED BY <2>1, <2>2 DEF ActOK
<1>5. Current'
  <2>1. \A a \in Agents : Idle(a)'
    BY <1>1 DEF Quiet, Idle
  <2>2. frayed' = "no" => store' = server'
    BY <1>1 DEF EditsInv, Current
  <2>. QED BY <2>1, <2>2 DEF Current
<1>. QED BY <1>2, <1>3, <1>4, <1>5 DEF EditsInv

-----------------------------------------------------------------------------
(* Requests and answers                                                     *)

LEMMA SentFits ==
  ASSUME AliasOK, NEW a, act[a].todo \in Seq(Requests(fresh)), act[a].todo # <<>>
  PROVE  /\ Head(act[a].todo) \in Requests(fresh) /\ Sent(a) \in Requests(fresh)
         /\ Head(act[a].todo) = act[a].todo[1] /\ 1 \in DOMAIN act[a].todo
         /\ Sent(a).do = Head(act[a].todo).do /\ Sent(a).lenient = Head(act[a].todo).lenient
         /\ act[a].doing \notin Runs \/ Sent(a).do = "listObjects" => Sent(a) = Head(act[a].todo)
<1>. DEFINE q == act[a].todo
            r == Head(q)
<1>1. r \in Requests(fresh) /\ r = q[1] /\ 1 \in DOMAIN q
  <2>1. r \in Requests(fresh)
    BY HeadTailProperties
  <2>2. 1 \in DOMAIN q /\ r = q[1]
    OBVIOUS
  <2>. QED BY <2>1, <2>2
<1>. HIDE DEF r
<1>2. PICK v : v = [do |-> r.do, id |-> Resolve(r.id), to |-> Resolve(r.to), geom |-> r.geom, flag |-> r.flag, lenient |-> r.lenient]
  OBVIOUS
<1>3. Resolved(r) = v
  <2>. DEFINE s == [r EXCEPT !.id = Resolve(r.id)]
  <2>1. s = [do |-> r.do, id |-> Resolve(r.id), to |-> r.to, geom |-> r.geom, flag |-> r.flag, lenient |-> r.lenient]
    BY <1>1 DEF Requests
  <2>2. Resolved(r) = [s EXCEPT !.to = Resolve(r.to)]
    <3>1. r.to = s.to
      BY <2>1
    <3>. QED BY <3>1 DEF Resolved
  <2>. HIDE DEF s
  <2>3. [s EXCEPT !.to = Resolve(r.to)] = v
    BY <1>2, <2>1
  <2>. QED BY <2>2, <2>3
<1>4. Resolve(r.id) \in Below(fresh) /\ Resolve(r.to) \in Below(fresh)
  BY <1>1, RequestFields, ResolveFits
<1>5. v \in Requests(fresh) /\ v.do = r.do /\ v.lenient = r.lenient
  BY <1>1, <1>2, <1>4 DEF Requests
<1>6. Sent(a) = IF act[a].doing \in Runs /\ r.do # "listObjects" THEN v ELSE r
  BY <1>3 DEF Sent, r
<1>. QED BY <1>1, <1>5, <1>6 DEF r

LEMMA ReplyIs ==
  ASSUME ActOK, NEW a \in Agents, ~Idle(a), NEW why, NEW id, NEW map, Reply(a, why, id, map)
  PROVE  /\ act' = [b \in Agents |-> act'[b]]
         /\ \A b \in Agents : b # a => act'[b] = act[b]
         /\ act'[a].doing = act[a].doing /\ act'[a].todo = act[a].todo /\ act'[a].entry = act[a].entry
         /\ act'[a].reply = [why |-> why, id |-> id, map |-> map]
         /\ act'[a].effect \in BOOLEAN /\ (act'[a].effect <=> act[a].effect \/ why \in {"ok", "failed"})
         /\ IsAct(act'[a])
<1>. DEFINE p == [why |-> why, id |-> id, map |-> map]
            A == [act EXCEPT ![a].reply = p]
<1>1. IsAct(act[a]) /\ act[a].effect \in BOOLEAN
  BY OthersRest DEF Works
<1>2. act' = [A EXCEPT ![a].effect = A[a].effect \/ why \in {"ok", "failed"}]
  BY DEF Reply
<1>3. act = [b \in Agents |-> act[b]]
  BY DEF ActOK
<1>4. A = [b \in Agents |-> IF b = a THEN [act[a] EXCEPT !.reply = p] ELSE act[b]]
  BY <1>3
<1>5. [act[a] EXCEPT !.reply = p] =
        [doing |-> act[a].doing, todo |-> act[a].todo, entry |-> act[a].entry, reply |-> p, effect |-> act[a].effect]
  BY <1>1, ActWith
<1>. HIDE DEF A, p
<1>6. /\ A[a] = [doing |-> act[a].doing, todo |-> act[a].todo, entry |-> act[a].entry, reply |-> p, effect |-> act[a].effect]
      /\ \A b \in Agents : b # a => A[b] = act[b]
  BY <1>4, <1>5
<1>7. PICK c : c = A[a]
  OBVIOUS
<1>8. /\ IsAct(c) /\ c.doing = act[a].doing /\ c.todo = act[a].todo /\ c.entry = act[a].entry
      /\ c.reply = p /\ c.effect = act[a].effect
  BY <1>6, <1>7 DEF IsAct
<1>9. PICK e \in BOOLEAN : e = (act[a].effect \/ why \in {"ok", "failed"})
  OBVIOUS
<1>10. act' = [A EXCEPT ![a].effect = e]
  BY <1>2, <1>7, <1>8, <1>9
<1>11. act' = [b \in Agents |-> IF b = a THEN [c EXCEPT !.effect = e] ELSE A[b]]
  BY <1>4, <1>7, <1>10
<1>12. [c EXCEPT !.effect = e] = [doing |-> c.doing, todo |-> c.todo, entry |-> c.entry, reply |-> c.reply, effect |-> e]
  BY <1>8, ActWith
<1>13. act'[a] = [doing |-> c.doing, todo |-> c.todo, entry |-> c.entry, reply |-> c.reply, effect |-> e]
  BY <1>11, <1>12
<1>14. act' = [b \in Agents |-> act'[b]] /\ \A b \in Agents : b # a => act'[b] = act[b]
  BY <1>6, <1>11
<1>15. act'[a].effect \in BOOLEAN /\ (act'[a].effect <=> act[a].effect \/ why \in {"ok", "failed"})
  <2>1. act'[a].effect = e
    BY <1>13
  <2>2. e <=> act[a].effect \/ why \in {"ok", "failed"}
    BY <1>9
  <2>. QED BY <1>9, <2>1, <2>2
<1>. QED BY <1>8, <1>13, <1>14, <1>15 DEF IsAct, p

LEMMA SentSame ==
  ASSUME alias' = alias, NEW a, act'[a].doing = act[a].doing, act'[a].todo = act[a].todo
  PROVE  Sent(a)' = Sent(a)
<1>1. \A i : Resolve(i)' = Resolve(i)
  BY DEF Resolve
<1>2. \A r : Resolved(r)' = Resolved(r)
  BY <1>1 DEF Resolved
<1>. QED BY <1>2 DEF Sent

LEMMA ShownSame ==
  ASSUME store' = store, NEW r, NEW p
  PROVE  Shown(r, p)' = Shown(r, p)
BY DEF Shown

(* The ids that are given out only become more.                             *)
LEMMA MoreIds ==
  ASSUME EditsInv, fresh' \in Nat, fresh <= fresh', fresh' <= MaxId + 1,
         UNCHANGED <<alias, store, stack, cursor, listed, versions, frayed, blurred>>
  PROVE  AliasOK' /\ StackOK' /\ FlagsOK' /\ IsMap(store', fresh') /\ IsMap(listed', fresh')
<1>1. fresh \in 6..(MaxId + 1) /\ fresh \in Nat /\ MaxId \in Nat
  BY FreshFacts DEF EditsInv, AliasOK
<1>2. Below(fresh) \subseteq Below(fresh') /\ EntrySet(fresh) \subseteq EntrySet(fresh')
  BY <1>1, MoreSets, MoreEntries
<1>3. AliasOK'
  <2>1. fresh' \in 6..(MaxId + 1)
    BY <1>1
  <2>2. alias' \in [Ids -> Below(fresh')]
    BY <1>2 DEF EditsInv, AliasOK
  <2>. QED BY <2>1, <2>2 DEF EditsInv, AliasOK
<1>4. StackOK'
  <2>1. stack \in Seq(EntrySet(fresh'))
    BY <1>2, SeqMonotonic DEF EditsInv, StackOK
  <2>. QED BY <2>1 DEF EditsInv, StackOK
<1>5. IsMap(store, fresh') /\ IsMap(listed, fresh')
  BY <1>1, MoreMap DEF EditsInv, MapsOK
<1>. QED BY <1>3, <1>4, <1>5 DEF EditsInv, FlagsOK

LEMMA TodoIsWork ==
  ASSUME ActOK, NEW a \in Agents, act[a].todo # <<>> \/ act[a].reply.why # "none"
  PROVE  ~Idle(a)
BY RestingFacts DEF ActOK

(* A request that is refused leaves everything as it was.                   *)
LEMMA Refused ==
  ASSUME EditsInv, NEW a \in Agents, act[a].todo # <<>>, act[a].reply.why = "none",
         NEW why \in {"missing", "refused"}, Reply(a, why, None, None),
         UNCHANGED <<server, store, alias, fresh, stack, cursor, listed, versions, frayed, blurred>>
  PROVE  EditsInv'
<1>1. ActOK /\ ~Idle(a)
  BY TodoIsWork DEF EditsInv
<1>2. Works(a) /\ \A b \in Agents : b # a => act[b] = Resting
  BY <1>1, OthersRest
<1>3. /\ act' = [b \in Agents |-> act'[b]]
      /\ \A b \in Agents : b # a => act'[b] = act[b]
      /\ act'[a].doing = act[a].doing /\ act'[a].todo = act[a].todo /\ act'[a].entry = act[a].entry
      /\ act'[a].reply = [why |-> why, id |-> None, map |-> None]
      /\ act'[a].effect \in BOOLEAN /\ (act'[a].effect <=> act[a].effect \/ why \in {"ok", "failed"})
      /\ IsAct(act'[a])
  BY <1>1, ReplyIs
<1>4. act'[a].reply.why = why /\ why # "ok" /\ why # "failed" /\ (act'[a].effect <=> act[a].effect)
  BY <1>3
<1>5. AliasOK' /\ MapsOK' /\ StackOK' /\ FlagsOK'
  BY DEF EditsInv, AliasOK, MapsOK, StackOK, FlagsOK
<1>6. ~Idle(a)' /\ \A b \in Agents : b # a => Idle(b)' /\ act'[b] = Resting
  BY <1>1, <1>2, <1>3, RestingFacts DEF Idle
<1>7. Works(a)'
  <2>1. ReplyFits(a)'
    <3>1. act'[a].reply.id \in Below(fresh')
      <4>1. act'[a].reply.id = 0 /\ fresh' \in Nat /\ fresh' > 1
        BY <1>3, FreshFacts DEF None, EditsInv
      <4>. QED BY <4>1 DEF Below
    <3>. QED BY <1>3, <1>4, <3>1 DEF ReplyFits, Failures
  <2>2. act[a].doing = "edit" => EditFits(act[a])'
    BY <1>2, <1>3, <1>4 DEF Works, EditFits
  <2>3. act[a].doing = "tweak" => TweakFits(act[a])'
    BY <1>2, <1>3, <1>4 DEF Works, TweakFits
  <2>. QED BY <1>2, <1>3, <2>1, <2>2, <2>3 DEF Works
<1>8. ActOK'
  BY <1>3, <1>6, <1>7 DEF ActOK
<1>9. Current'
  <2>. SUFFICES ASSUME frayed = "no" PROVE (OneByOne(a) \/ WillReload(a) \/ IsLoading(a))'
    BY <1>6 DEF Current, Quiet
  <2>1. CASE OneByOne(a)
    BY <1>3, <1>4, <2>1 DEF OneByOne
  <2>2. CASE WillReload(a)
    BY <1>3, <1>4, <2>2 DEF WillReload
  <2>3. CASE IsLoading(a)
    BY <1>3, <1>4, <2>3 DEF IsLoading, ListedBy
  <2>. QED BY <1>1, <2>1, <2>2, <2>3 DEF EditsInv, Current
<1>. QED BY <1>5, <1>8, <1>9 DEF EditsInv

LEMMA RefuseStep ==
  ASSUME EditsInv, NEW a \in Agents, Refuse(a)
  PROVE  EditsInv'
BY Refused DEF Refuse

(* A request that is served.                                                *)
LEMMA Served ==
  ASSUME EditsInv, NEW a \in Agents, act[a].todo # <<>>, act[a].reply.why = "none",
         NEW r, r = Sent(a), NEW id, id = (IF r.do \in Creations THEN fresh ELSE r.id),
         Accepts(server, r), id <= MaxId, server' = After(server, r, id),
         fresh' = IF r.do \in Creations THEN fresh + 1 ELSE fresh,
         NEW why, why = (IF FailsAfterwards(r) THEN "failed" ELSE "ok"), Reply(a, why, id, server'),
         UNCHANGED <<store, alias, stack, cursor, listed, versions, frayed, blurred>>
  PROVE  EditsInv'
<1>. DEFINE p == [why |-> why, id |-> id, map |-> server']
            q == act[a].todo
<1>1. ActOK /\ ~Idle(a)
  BY TodoIsWork DEF EditsInv
<1>2. Works(a) /\ \A b \in Agents : b # a => act[b] = Resting
  BY <1>1, OthersRest
<1>3. /\ act' = [b \in Agents |-> act'[b]]
      /\ \A b \in Agents : b # a => act'[b] = act[b]
      /\ act'[a].doing = act[a].doing /\ act'[a].todo = act[a].todo /\ act'[a].entry = act[a].entry
      /\ act'[a].reply = [why |-> why, id |-> id, map |-> server']
      /\ act'[a].effect \in BOOLEAN /\ (act'[a].effect <=> act[a].effect \/ why \in {"ok", "failed"})
      /\ IsAct(act'[a])
  BY <1>1, ReplyIs
<1>4. /\ act'[a].reply.why = why /\ act'[a].reply.id = id /\ act'[a].reply.map = server' /\ act'[a].effect
      /\ why \in {"ok", "failed"}
  BY <1>3
<1>5. /\ AliasOK /\ q \in Seq(Requests(fresh)) /\ q # <<>>
      /\ fresh \in Nat /\ fresh > 1 /\ MaxId \in Nat /\ fresh <= MaxId + 1
  BY <1>2, FreshFacts DEF EditsInv, Works
<1>6. /\ r \in Requests(fresh) /\ Head(q) = q[1] /\ 1 \in DOMAIN q /\ r.do = Head(q).do
      /\ act[a].doing \notin Runs \/ r.do = "listObjects" => r = Head(q)
  BY <1>5, SentFits
<1>7. r.id \in Below(fresh) /\ r.id \in Int /\ r.id >= 0 /\ r.id < fresh
  BY <1>5, <1>6, RequestFields DEF Below
<1>8. fresh' \in Nat /\ fresh <= fresh' /\ fresh' <= MaxId + 1
  BY <1>5
<1>9. AliasOK' /\ StackOK' /\ FlagsOK' /\ IsMap(store', fresh') /\ IsMap(listed', fresh')
  BY <1>8, MoreIds
<1>10. Requests(fresh) \subseteq Requests(fresh') /\ EntrySet(fresh) \subseteq EntrySet(fresh')
  BY <1>5, <1>8, MoreRequests, MoreEntries
<1>11. Sound(server, fresh')
  BY <1>5, <1>8, MoreMap DEF EditsInv, MapsOK, Sound
<1>12. /\ r.do \in Creations => id \in 1..(fresh' - 1) /\ r.id < id
       /\ r.do \notin Creations => id = r.id
       /\ id \in Below(fresh')
  BY <1>5, <1>7, <1>8 DEF Below
<1>13. /\ Sound(server', fresh')
       /\ r.do \in {"addObject", "setGeom", "setLayer", "setCrop"} => id \in DOMAIN server'.objects
       /\ r.do = "merge" /\ ~FailsAfterwards(r) => r.id \in DOMAIN server'.objects
  <2>1. r \in Requests(fresh') /\ fresh' > 1
    BY <1>5, <1>6, <1>8, <1>10
  <2>2. /\ Sound(After(server, r, id), fresh')
        /\ r.do \in {"addObject", "setGeom", "setLayer", "setCrop"} => id \in DOMAIN After(server, r, id).objects
        /\ r.do = "merge" /\ ~FailsAfterwards(r) => r.id \in DOMAIN After(server, r, id).objects
    BY <1>8, <1>11, <1>12, <2>1, AfterFits
  <2>. QED BY <2>2
<1>14. MapsOK'
  BY <1>9, <1>13 DEF MapsOK
<1>15. ~Idle(a)' /\ \A b \in Agents : b # a => Idle(b)' /\ act'[b] = Resting
  BY <1>1, <1>2, <1>3, RestingFacts DEF Idle
<1>16. Sent(a)' = r
  BY <1>3, SentSame
<1>17. Works(a)'
  <2>1. ReplyFits(a)'
    <3>1. why = "ok" => Answered(Sent(a), act[a].reply)'
      BY <1>3, <1>4, <1>12, <1>13, <1>16 DEF Answered
    <3>2. why = "failed" => FailsAfterwards(Sent(a))'
      BY <1>16 DEF FailsAfterwards
    <3>. QED BY <1>3, <1>4, <1>5, <1>12, <3>1, <3>2 DEF ReplyFits, Failures
  <2>2. why # "ok" => act[a].doing \notin {"edit", "tweak"}
    <3>. SUFFICES ASSUME r.do = "merge", r.id = r.to, act[a].doing \in {"edit", "tweak"} PROVE FALSE
      BY DEF FailsAfterwards
    <3>1. r = q[1]
      BY <1>6 DEF Runs
    <3>2. CASE act[a].doing = "edit"
      BY <1>2, <1>6, <3>1, <3>2 DEF Works, EditFits, EditSteps
    <3>3. CASE act[a].doing = "tweak"
      BY <1>2, <1>6, <3>1, <3>3 DEF Works, TweakFits
    <3>. QED BY <3>2, <3>3
  <2>3. act[a].doing = "edit" => EditFits(act[a])'
    BY <1>2, <1>3, <1>4, <1>10, <2>2 DEF Works, EditFits
  <2>4. act[a].doing = "tweak" => TweakFits(act[a])'
    BY <1>2, <1>3, <1>4, <2>2 DEF Works, TweakFits
  <2>5. act[a].todo \in Seq(Requests(fresh'))
    BY <1>5, <1>10, SeqMonotonic
  <2>. QED BY <1>2, <1>3, <2>1, <2>3, <2>4, <2>5 DEF Works
<1>18. ActOK'
  BY <1>3, <1>15, <1>17 DEF ActOK
<1>19. Current'
  <2>. SUFFICES ASSUME frayed = "no" PROVE (OneByOne(a) \/ WillReload(a) \/ IsLoading(a))'
    BY <1>15 DEF Current, Quiet
  <2>1. CASE OneByOne(a)
    <3>1. store = server /\ AllStore(q)
      BY <2>1 DEF OneByOne
    <3>2. r.do \in StoreDo
      BY <1>6, <3>1 DEF AllStore
    <3>3. PICK s : s = act'[a].reply
      OBVIOUS
    <3>4. s.id = id /\ s.map = After(store, r, id)
      BY <1>4, <3>1, <3>3
    <3>5. r \in Requests(fresh') /\ fresh' > 1 /\ Sound(store, fresh') /\ Accepts(store, r)
      BY <1>5, <1>6, <1>8, <1>10, <1>11, <3>1
    <3>6. ~FailsAfterwards(r) => Shown(r, s) = After(store, r, id)
      BY <1>8, <1>12, <3>2, <3>4, <3>5, ShownIsAfter
    <3>7. why = "ok" => Shown(r, s) = server'
      BY <3>1, <3>6
    <3>8. Shown(r, s)' = Shown(r, s)
      BY ShownSame
    <3>9. why = "ok" => Shown(Sent(a), act[a].reply)' = server'
      BY <1>16, <3>3, <3>7, <3>8
    <3>. QED BY <1>3, <1>4, <3>1, <3>9 DEF OneByOne
  <2>2. CASE WillReload(a)
    BY <1>3, <1>4, <2>2 DEF WillReload
  <2>3. CASE IsLoading(a)
    <3>1. PICK d \in DOMAIN q : Loads(q, d) /\ ListedBy(q, d) /\ a = "undo"
      BY <2>3 DEF IsLoading
    <3>2. 1 <= d
      BY <1>5, <3>1
    <3>3. r.do = "listObjects"
      BY <1>6, <3>1, <3>2 DEF Loads
    <3>4. server' = server
      BY <3>3 DEF After
    <3>5. ListedBy(q, d)'
      BY <3>1, <3>4, <1>3 DEF ListedBy
    <3>. QED BY <1>3, <1>4, <3>1, <3>5 DEF IsLoading
  <2>. QED BY <1>1, <2>1, <2>2, <2>3 DEF EditsInv, Current
<1>. QED BY <1>9, <1>14, <1>18, <1>19 DEF EditsInv

LEMMA ServeStep ==
  ASSUME EditsInv, NEW a \in Agents, Serve(a)
  PROVE  EditsInv'
<1>. DEFINE r == Sent(a)
            id == IF r.do \in Creations THEN fresh ELSE r.id
            why == IF FailsAfterwards(r) THEN "failed" ELSE "ok"
<1>1. /\ act[a].todo # <<>> /\ act[a].reply.why = "none"
      /\ UNCHANGED <<store, alias, stack, cursor, listed, versions, frayed, blurred>>
  BY DEF Serve
<1>2. CASE Accepts(server, r)
  <2>1. /\ id <= MaxId /\ server' = After(server, r, id)
        /\ fresh' = IF r.do \in Creations THEN fresh + 1 ELSE fresh
        /\ Reply(a, why, id, server')
    BY <1>2 DEF Serve
  <2>. QED BY <1>1, <1>2, <2>1, Served
<1>3. CASE ~Accepts(server, r)
  <2>1. Reply(a, "missing", None, None) /\ UNCHANGED <<server, fresh>>
    BY <1>3 DEF Serve
  <2>. QED BY <1>1, <2>1, Refused
<1>. QED BY <1>2, <1>3

-----------------------------------------------------------------------------
(* The client goes on                                                       *)

(* pushUndo: the undo stack stays as long as it may be.                     *)
LEMMA PushFits ==
  ASSUME StackOK, NEW e \in EntrySet(fresh), Push(e), fresh' = fresh
  PROVE  StackOK'
<1>. DEFINE E == EntrySet(fresh)
            n == IF cursor + 1 <= Len(stack) THEN cursor + 1 ELSE Len(stack)
            kept == SubSeq(stack, 1, n)
            past == SubSeq(versions, 1, Len(kept) + 1)
            full == Len(kept) = MaxStack
            left == IF full THEN Tail(kept) ELSE kept
            back == IF full THEN Tail(past) ELSE past
<1>1. stack' = Append(left, e) /\ versions' = Append(back, Content) /\ cursor' = Len(stack') - 1
  BY DEF Push
<1>2. PICK V : versions \in Seq(V)
  BY DEF StackOK
<1>3. PICK W : W = V \union {Content}
  OBVIOUS
<1>4. versions \in Seq(W) /\ Content \in W
  BY <1>2, <1>3, SeqMonotonic
<1>5. /\ stack \in Seq(E) /\ Len(stack) \in Nat /\ Len(versions) = Len(stack) + 1
      /\ Len(stack) <= MaxStack /\ MaxStack \in Nat /\ MaxStack > 0
  BY MapEditsAssumption DEF StackOK
<1>6. cursor \in Int /\ cursor >= -1 /\ cursor <= Len(stack) - 1
  BY <1>5 DEF StackOK
<1>7. n = cursor + 1 /\ n \in Nat /\ n <= Len(stack)
  BY <1>5, <1>6
<1>. HIDE DEF n
<1>8. kept \in Seq(E) /\ Len(kept) = n
  <2>1. \A i \in 1..n : stack[i] \in E
    BY <1>5, <1>7, ElementOfSeq
  <2>2. kept \in Seq(E) /\ Len(kept) = IF 1 <= n THEN n - 1 + 1 ELSE 0
    BY <1>7, <2>1, SubSeqProperties
  <2>. QED BY <1>7, <2>2
<1>. HIDE DEF kept
<1>9. past \in Seq(W) /\ Len(past) = n + 1
  <2>1. PICK j : j = n + 1
    OBVIOUS
  <2>2. j \in Int /\ 1 <= j /\ j <= Len(versions)
    BY <1>5, <1>7, <2>1
  <2>3. \A i \in 1..j : versions[i] \in W
    BY <1>4, <2>2, ElementOfSeq
  <2>4. SubSeq(versions, 1, j) \in Seq(W) /\ Len(SubSeq(versions, 1, j)) = IF 1 <= j THEN j - 1 + 1 ELSE 0
    BY <2>2, <2>3, SubSeqProperties
  <2>5. past = SubSeq(versions, 1, j)
    BY <1>8, <2>1
  <2>. HIDE DEF past
  <2>. QED BY <1>7, <2>1, <2>2, <2>4, <2>5
<1>. HIDE DEF past
<1>10. /\ left \in Seq(E) /\ Len(left) \in Nat /\ Len(left) < MaxStack
       /\ back \in Seq(W) /\ Len(back) = Len(left) + 1
  <2>1. CASE full
    <3>1. kept # <<>> /\ past # <<>>
      BY <1>5, <1>7, <1>8, <1>9, <2>1, EmptySeq
    <3>2. Tail(kept) \in Seq(E) /\ Len(Tail(kept)) = Len(kept) - 1
      BY <1>8, <3>1, HeadTailProperties
    <3>3. Tail(past) \in Seq(W) /\ Len(Tail(past)) = Len(past) - 1
      BY <1>9, <3>1, HeadTailProperties
    <3>4. left = Tail(kept) /\ back = Tail(past)
      BY <2>1
    <3>5. Len(Tail(kept)) \in Nat /\ Len(Tail(kept)) < MaxStack /\ Len(Tail(past)) = Len(Tail(kept)) + 1
      BY <1>5, <1>7, <1>8, <1>9, <2>1, <3>2, <3>3
    <3>. QED BY <3>2, <3>3, <3>4, <3>5
  <2>2. CASE ~full
    <3>1. left = kept /\ back = past
      BY <2>2
    <3>2. Len(kept) \in Nat /\ Len(kept) < MaxStack /\ Len(past) = Len(kept) + 1
      BY <1>5, <1>7, <1>8, <1>9, <2>2
    <3>. QED BY <1>8, <1>9, <3>1, <3>2
  <2>. QED BY <2>1, <2>2
<1>. HIDE DEF left, back
<1>11. stack' \in Seq(E) /\ Len(stack') = Len(left) + 1
  BY <1>1, <1>10, AppendProperties
<1>12. versions' \in Seq(W) /\ Len(versions') = Len(back) + 1
  BY <1>1, <1>4, <1>10, AppendProperties
<1>13. stack' \in Seq(EntrySet(fresh')) /\ (\E U : versions' \in Seq(U))
  BY <1>11, <1>12
<1>14. /\ Len(stack') <= MaxStack /\ Len(versions') = Len(stack') + 1
       /\ cursor' \in -1..(Len(stack') - 1)
  BY <1>1, <1>5, <1>10, <1>11, <1>12
<1>. QED BY <1>13, <1>14 DEF StackOK

(* aliasId: the aliases still lead upwards.                                 *)
LEMMA AliasedFits ==
  ASSUME AliasOK, NEW a, NEW r \in Requests(fresh), Answered(r, act[a].reply),
         act[a].reply.id \in Below(fresh), alias' = Aliased(a, r), fresh' = fresh
  PROVE  AliasOK'
<1>1. fresh \in Nat /\ fresh > 1 /\ MaxId \in Nat /\ fresh <= MaxId + 1
  BY FreshFacts
<1>2. CASE r.do \in Creations /\ r.id # None
  <2>1. r.id \in Below(fresh) /\ r.id # 0
    BY <1>2, RequestFields DEF None
  <2>2. r.id \in Ids
    BY <1>1, <2>1 DEF Ids, Below
  <2>3. act[a].reply.id \in Below(fresh) /\ r.id < act[a].reply.id
    BY <1>2 DEF Answered
  <2>4. PICK i : i = act[a].reply.id
    OBVIOUS
  <2>5. alias' = [alias EXCEPT ![r.id] = i] /\ i \in Below(fresh) /\ r.id < i
    BY <1>2, <2>3, <2>4 DEF Aliased
  <2>. QED BY <2>2, <2>5 DEF AliasOK
<1>3. CASE ~(r.do \in Creations /\ r.id # None)
  <2>1. alias' = alias
    BY <1>3 DEF Aliased
  <2>. QED BY <2>1 DEF AliasOK
<1>. QED BY <1>2, <1>3

(* The objects of every layer are asked for.                                *)
LEMMA ListingsFit ==
  ASSUME NEW k \in Nat, k > 1, NEW S, S \subseteq 1..(k - 1)
  PROVE  /\ Listings(S) \in Seq(Requests(k)) /\ Cardinality(S) \in Nat /\ Len(Listings(S)) = Cardinality(S)
         /\ \A n \in 1..Cardinality(S) : Listings(S)[n].do = "listObjects"
         /\ \A i \in S : \E n \in 1..Cardinality(S) : Listings(S)[n].id = i
<1>. DEFINE N == Cardinality(S)
            q == Listings(S)
<1>1. N \in Nat /\ Ascending(S) \in [1..N -> S] /\ \A i \in S : \E n \in 1..N : Ascending(S)[n] = i
  BY AscendingFits
<1>2. None \in Below(k) /\ S \subseteq Below(k)
  BY DEF None, Below
<1>3. q = [n \in 1..N |-> Plain("listObjects", Ascending(S)[n], None)]
  BY DEF Listings
<1>. HIDE DEF N, q
<1>4. \A n \in 1..N : Ascending(S)[n] \in Below(k)
  BY <1>1, <1>2
<1>5. \A n \in 1..N : Plain("listObjects", Ascending(S)[n], None) \in Requests(k)
  BY <1>2, <1>4, MadeRequests
<1>6. q \in [1..N -> Requests(k)]
  BY <1>3, <1>5
<1>7. q \in Seq(Requests(k)) /\ Len(q) = N
  BY <1>1, <1>6
<1>8. \A n \in 1..N : q[n].do = "listObjects" /\ q[n].id = Ascending(S)[n]
  BY <1>3 DEF Plain, Request
<1>. QED BY <1>1, <1>7, <1>8 DEF N, q

(* What the client goes on with: success, or a failure that does not stop   *)
(* it.                                                                      *)
LEMMA Taken ==
  ASSUME EditsInv, NEW a \in Agents, Take(a)
  PROVE  /\ ~Idle(a) /\ Works(a) /\ \A b \in Agents : b # a => act[b] = Resting
         /\ act[a].todo \in Seq(Requests(fresh)) /\ act[a].todo # <<>>
         /\ Sent(a) \in Requests(fresh) /\ Sent(a).do = act[a].todo[1].do /\ Sent(a).lenient = act[a].todo[1].lenient
         /\ Sent(a).do = "listObjects" => Sent(a) = act[a].todo[1]
         /\ 1 \in DOMAIN act[a].todo
         /\ act[a].reply.why \in {"ok", "missing", "refused"} /\ act[a].reply.id \in Below(fresh)
         /\ act[a].reply.why = "ok" => act[a].effect /\ Answered(Sent(a), act[a].reply)
         /\ act[a].reply.why # "ok" => Sent(a).do \notin {"merge", "listLayers", "listObjects"}
         /\ act[a].reply.why # "ok" => Sent(a).lenient
<1>1. Proceeds(a) /\ act[a].reply.why # "none"
  BY DEF Take, Proceeds, Failures
<1>2. ~Idle(a)
  BY <1>1, TodoIsWork DEF EditsInv
<1>3. Works(a) /\ \A b \in Agents : b # a => act[b] = Resting
  BY <1>2, OthersRest DEF EditsInv
<1>4. act[a].todo \in Seq(Requests(fresh)) /\ act[a].todo # <<>>
  BY <1>1, <1>3, RestingFacts DEF Works, ReplyFits
<1>5. /\ Sent(a) \in Requests(fresh) /\ Head(act[a].todo) = act[a].todo[1] /\ 1 \in DOMAIN act[a].todo
      /\ Sent(a).do = act[a].todo[1].do /\ Sent(a).lenient = act[a].todo[1].lenient
      /\ Sent(a).do = "listObjects" => Sent(a) = act[a].todo[1]
  BY <1>4, SentFits DEF EditsInv
<1>6. Sent(a).do \in {"merge", "listLayers", "listObjects"} => ~Sent(a).lenient
  BY <1>5, RequestFields
<1>7. /\ act[a].reply.why \in {"ok"} \union Failures /\ act[a].reply.id \in Below(fresh)
      /\ act[a].reply.why = "ok" => act[a].effect /\ Answered(Sent(a), act[a].reply)
      /\ act[a].reply.why = "failed" => FailsAfterwards(Sent(a))
  BY <1>1, <1>3, RestingFacts DEF Works, ReplyFits
<1>8. act[a].reply.why # "ok" => Sent(a).lenient
  BY <1>1, <1>5 DEF Proceeds
<1>9. act[a].reply.why # "failed"
  BY <1>6, <1>7, <1>8 DEF FailsAfterwards
<1>10. act[a].reply.why \in {"ok", "missing", "refused"}
  BY <1>7, <1>9 DEF Failures
<1>. QED BY <1>2, <1>3, <1>4, <1>5, <1>6, <1>7, <1>8, <1>10

(* The map that loadMapData has received once the objects of l have come.   *)
ListedWith(m, l) ==
  [listed EXCEPT !.objects = [o \in DOMAIN listed.objects \union InLayer(m, l) |->
                                IF o \in InLayer(m, l) THEN m.objects[o] ELSE listed.objects[o]]]

LEMMA ListedFits ==
  ASSUME NEW k \in Nat, IsMap(listed, k), NEW m, IsMap(m, k), NEW l
  PROVE  /\ IsMap(ListedWith(m, l), k)
         /\ ListedWith(m, l).layers = listed.layers /\ ListedWith(m, l).folders = listed.folders
         /\ DOMAIN ListedWith(m, l).objects = DOMAIN listed.objects \union InLayer(m, l)
         /\ \A o \in DOMAIN listed.objects \union InLayer(m, l) :
              ListedWith(m, l).objects[o] = IF o \in InLayer(m, l) THEN m.objects[o] ELSE listed.objects[o]
<1>. DEFINE P == [o \in DOMAIN listed.objects \union InLayer(m, l) |->
                    IF o \in InLayer(m, l) THEN m.objects[o] ELSE listed.objects[o]]
<1>1. IsPart(listed.objects, k, ObjectSet(k)) /\ IsPart(m.objects, k, ObjectSet(k))
  BY DEF IsMap
<1>2. InLayer(m, l) \subseteq DOMAIN m.objects
  BY DEF InLayer
<1>3. IsPart(P, k, ObjectSet(k))
  BY <1>1, <1>2 DEF IsPart
<1>4. ListedWith(m, l) = [listed EXCEPT !.objects = P]
  BY DEF ListedWith
<1>5. /\ DOMAIN P = DOMAIN listed.objects \union InLayer(m, l)
      /\ \A o \in DOMAIN listed.objects \union InLayer(m, l) :
           P[o] = IF o \in InLayer(m, l) THEN m.objects[o] ELSE listed.objects[o]
  OBVIOUS
<1>. HIDE DEF P
<1>6. IsMap([listed EXCEPT !.objects = P], k)
  BY <1>3, MapWith
<1>7. [listed EXCEPT !.objects = P] = [layers |-> listed.layers, folders |-> listed.folders, objects |-> P]
  BY PartOfMap
<1>8. ListedWith(m, l).objects = P /\ ListedWith(m, l).layers = listed.layers /\ ListedWith(m, l).folders = listed.folders
  BY <1>4, <1>7
<1>. QED BY <1>4, <1>5, <1>6, <1>8

LEMMA EmptyFits ==
  ASSUME NEW k \in Nat
  PROVE  IsMap(NothingListed, k) /\ \A V : IsPart(<<>>, k, V)
<1>1. \A V : IsPart(<<>>, k, V)
  BY DEF IsPart
<1>. QED BY <1>1 DEF IsMap, NothingListed

(* What Take does to the aliases and to the maps.                           *)
LEMMA TakenMaps ==
  ASSUME EditsInv, NEW a \in Agents, Take(a)
  PROVE  AliasOK' /\ MapsOK' /\ FlagsOK'
<1>. DEFINE r == Sent(a)
            ok == act[a].reply.why = "ok"
<1>1. UNCHANGED <<server, fresh, frayed>> /\ blurred' = (blurred \/ ~ok \/ act[a].doing = "tweak")
  BY DEF Take
<1>2. /\ fresh \in Nat /\ fresh > 1 /\ AliasOK
      /\ Sound(server, fresh) /\ IsMap(server, fresh) /\ IsMap(store, fresh) /\ IsMap(listed, fresh)
  BY FreshFacts DEF EditsInv, MapsOK, Sound
<1>3. r \in Requests(fresh) /\ (ok => Answered(r, act[a].reply)) /\ act[a].reply.id \in Below(fresh)
  BY Taken
<1>4. AliasOK'
  <2>1. CASE ok
    <3>1. alias' = Aliased(a, r)
      BY <2>1 DEF Take
    <3>. QED BY <1>1, <1>2, <1>3, <2>1, <3>1, AliasedFits
  <2>2. CASE ~ok
    <3>1. alias' = alias
      BY <2>2 DEF Take
    <3>. QED BY <1>1, <1>2, <3>1 DEF AliasOK
  <2>. QED BY <2>1, <2>2
<1>5. IsMap(store', fresh) /\ IsMap(listed', fresh)
  <2>1. CASE ok /\ r.do = "listLayers"
    <3>1. listed' = [act[a].reply.map EXCEPT !.objects = <<>>] /\ store' = store
      BY <2>1 DEF Take, Listing
    <3>2. listed' = [server EXCEPT !.objects = <<>>]
      BY <1>3, <2>1, <3>1 DEF Answered
    <3>3. IsPart(<<>>, fresh, ObjectSet(fresh))
      BY <1>2, EmptyFits
    <3>4. IsMap([server EXCEPT !.objects = <<>>], fresh)
      BY <1>2, <3>3, MapWith
    <3>. QED BY <1>2, <3>1, <3>2, <3>4
  <2>2. CASE ok /\ r.do = "listObjects"
    <3>1. PICK m : m = act[a].reply.map
      OBVIOUS
    <3>2. m = server
      BY <1>3, <2>2, <3>1 DEF Answered
    <3>3. Listing(a, r)
      BY <2>2 DEF Take
    <3>4. \E last \in BOOLEAN :
            /\ listed' = IF last THEN NothingListed ELSE ListedWith(m, r.id)
            /\ store' = IF last THEN ListedWith(m, r.id) ELSE store
      <4>1. PICK last \in BOOLEAN : last = (Len(act[a].todo) = 1 \/ act[a].todo[2].do # "listObjects")
        OBVIOUS
      <4>2. /\ listed' = IF last THEN NothingListed ELSE ListedWith(m, r.id)
            /\ store' = IF last THEN ListedWith(m, r.id) ELSE store
        BY <2>2, <3>1, <3>3, <4>1 DEF Listing, ListedWith
      <4>. QED BY <4>2
    <3>5. IsMap(ListedWith(m, r.id), fresh) /\ IsMap(NothingListed, fresh)
      BY <1>2, <3>2, ListedFits, EmptyFits
    <3>. QED BY <1>2, <3>4, <3>5
  <2>3. CASE ~(ok /\ r.do \in {"listLayers", "listObjects"})
    <3>1. store' = (IF ok THEN Shown(r, act[a].reply) ELSE store) /\ listed' = listed
      BY <2>3 DEF Take
    <3>2. ok => IsMap(Shown(r, act[a].reply), fresh)
      <4>1. PICK p : p = act[a].reply
        OBVIOUS
      <4>2. ok => /\ IsMap(p.map, fresh)
                  /\ r.do \in {"addObject", "setGeom", "setLayer", "setCrop"} => p.id \in DOMAIN p.map.objects
                  /\ r.do = "merge" => r.id \in DOMAIN p.map.objects
        BY <1>2, <1>3, <4>1 DEF Answered
      <4>3. ok => IsMap(Shown(r, p), fresh)
        BY <1>2, <1>3, <4>2, ShownFits
      <4>. QED BY <4>1, <4>3
    <3>. QED BY <1>2, <3>1, <3>2
  <2>. QED BY <2>1, <2>2, <2>3
<1>6. MapsOK'
  BY <1>1, <1>2, <1>5 DEF MapsOK
<1>7. FlagsOK'
  <2>1. blurred' \in BOOLEAN
    BY <1>1
  <2>. QED BY <1>1, <2>1 DEF EditsInv, FlagsOK
<1>. QED BY <1>4, <1>6, <1>7

(* What remains to be sent: all but the first request, and before that, once *)
(* the layers are known, a request for each of them.                        *)
Shortened(q, t, k) ==
  /\ q \in Seq(Requests(k)) /\ Len(t) \in Nat
  /\ Len(q) = Len(t) - 1 /\ \A n \in 1..(Len(t) - 1) : q[n] = t[n + 1]

LayersFirst(q, t, k, L, N) ==
  /\ q \in Seq(Requests(k)) /\ Len(t) \in Nat
  /\ N \in Nat \ {0} /\ Len(q) = N + Len(t) - 1
  /\ \A n \in 1..N : q[n].do = "listObjects"
  /\ \A n \in (N + 1)..Len(q) : q[n] = t[n - N + 1]
  /\ \A l \in L : \E n \in 1..N : q[n].id = l

LEMMA RestIsTail ==
  ASSUME EditsInv, NEW a \in Agents, Take(a), act[a].reply.why # "ok" \/ Sent(a).do # "listLayers"
  PROVE  Shortened(Rest(a, Sent(a)), act[a].todo, fresh)
<1>0. PICK t, q : t = act[a].todo /\ q = Rest(a, Sent(a))
  OBVIOUS
<1>1. t \in Seq(Requests(fresh)) /\ t # <<>>
  BY <1>0, Taken
<1>2. PICK s : s = Tail(t)
  OBVIOUS
<1>3. s \in Seq(Requests(fresh)) /\ Len(s) = Len(t) - 1 /\ \A n \in 1..Len(s) : s[n] = t[n + 1]
  BY <1>1, <1>2, HeadTailProperties
<1>4. q = <<>> \o s
  BY <1>0, <1>2 DEF Rest
<1>5. q = s
  BY <1>3, <1>4, ConcatEmptySeq
<1>6. Shortened(q, t, fresh)
  BY <1>1, <1>3, <1>5 DEF Shortened
<1>. QED BY <1>0, <1>6

LEMMA RestIsListed ==
  ASSUME EditsInv, NEW a \in Agents, Take(a), act[a].reply.why = "ok", Sent(a).do = "listLayers"
  PROVE  LayersFirst(Rest(a, Sent(a)), act[a].todo, fresh, DOMAIN server.layers, Cardinality(DOMAIN server.layers))
<1>0. PICK t, q, L, N, R :
        /\ t = act[a].todo /\ q = Rest(a, Sent(a)) /\ L = DOMAIN server.layers /\ N = Cardinality(L)
        /\ R = Requests(fresh)
  OBVIOUS
<1>1. t \in Seq(R) /\ t # <<>> /\ Answered(Sent(a), act[a].reply)
  BY <1>0, Taken
<1>2. PICK s : s = Tail(t)
  OBVIOUS
<1>3. s \in Seq(R) /\ Len(s) = Len(t) - 1 /\ \A n \in 1..Len(s) : s[n] = t[n + 1]
  BY <1>1, <1>2, HeadTailProperties
<1>4. Len(t) \in Nat /\ Len(s) \in Nat
  BY <1>1, <1>3
<1>5. fresh \in Nat /\ fresh > 1 /\ L \subseteq 1..(fresh - 1) /\ 1 \in L
  BY <1>0, FreshFacts DEF EditsInv, MapsOK, Sound, IsMap, IsPart
<1>6. PICK l : l = Listings(L)
  OBVIOUS
<1>7. l \in Seq(R) /\ N \in Nat /\ Len(l) = N
  BY <1>0, <1>5, <1>6, ListingsFit
<1>71. /\ \A n \in 1..N : l[n].do = "listObjects"
       /\ \A i \in L : \E n \in 1..N : l[n].id = i
  BY <1>0, <1>5, <1>6, ListingsFit
<1>8. N # 0
  BY <1>5, <1>7, <1>71
<1>9. q = l \o s
  <2>1. act[a].reply.map = server
    BY <1>1 DEF Answered
  <2>. QED BY <1>0, <1>2, <1>6, <2>1 DEF Rest
<1>10. /\ l \o s \in Seq(R) /\ Len(l \o s) = Len(l) + Len(s)
       /\ \A n \in 1..(Len(l) + Len(s)) : (l \o s)[n] = IF n <= Len(l) THEN l[n] ELSE s[n - Len(l)]
  BY <1>3, <1>7, ConcatProperties
<1>11. /\ q \in Seq(R) /\ Len(q) = N + Len(s)
       /\ \A n \in 1..(N + Len(s)) : q[n] = IF n <= N THEN l[n] ELSE s[n - N]
  BY <1>7, <1>9, <1>10
<1>12. Len(q) = N + Len(t) - 1
  BY <1>3, <1>4, <1>7, <1>11
<1>13. \A n \in 1..N : q[n] = l[n]
  <2>. SUFFICES ASSUME NEW n \in 1..N PROVE q[n] = l[n]
    OBVIOUS
  <2>1. n \in 1..(N + Len(s)) /\ n <= N
    BY <1>4, <1>7
  <2>. QED BY <1>11, <2>1
<1>14. \A n \in (N + 1)..Len(q) : q[n] = t[n - N + 1]
  <2>. SUFFICES ASSUME NEW n \in (N + 1)..Len(q) PROVE q[n] = t[n - N + 1]
    OBVIOUS
  <2>1. n \in 1..(N + Len(s)) /\ ~(n <= N) /\ n - N \in 1..Len(s)
    BY <1>4, <1>7, <1>11
  <2>2. q[n] = s[n - N]
    BY <1>11, <2>1
  <2>. QED BY <1>3, <2>1, <2>2
<1>15. /\ q \in Seq(Requests(fresh)) /\ Len(t) \in Nat
       /\ N \in Nat \ {0} /\ Len(q) = N + Len(t) - 1
  BY <1>0, <1>4, <1>7, <1>8, <1>11, <1>12
<1>16. \A n \in 1..N : q[n].do = "listObjects"
  BY <1>71, <1>13
<1>17. \A i \in L : \E n \in 1..N : q[n].id = i
  BY <1>71, <1>13
<1>18. LayersFirst(q, t, fresh, L, N)
  BY <1>14, <1>15, <1>16, <1>17 DEF LayersFirst
<1>. QED BY <1>0, <1>18

LEMMA RestFits ==
  ASSUME EditsInv, NEW a \in Agents, Take(a)
  PROVE  Rest(a, Sent(a)) \in Seq(Requests(fresh)) /\ Len(act[a].todo) \in Nat
<1>1. CASE act[a].reply.why # "ok" \/ Sent(a).do # "listLayers"
  BY <1>1, RestIsTail DEF Shortened
<1>2. CASE act[a].reply.why = "ok" /\ Sent(a).do = "listLayers"
  BY <1>2, RestIsListed DEF LayersFirst
<1>. QED BY <1>1, <1>2

(* Whichever way the client keeps its copy of the map up to date, it goes   *)
(* on doing so.                                                             *)
LEMMA TakenOneByOne ==
  ASSUME EditsInv, NEW a \in Agents, Take(a), OneByOne(a), NEW q, q = Rest(a, Sent(a))
  PROVE  store' = server /\ AllStore(q)
<1>. DEFINE t == act[a].todo
            r == Sent(a)
            ok == act[a].reply.why = "ok"
<1>1. /\ t \in Seq(Requests(fresh)) /\ t # <<>> /\ 1 \in DOMAIN t /\ r.do = t[1].do
      /\ act[a].reply.why \in {"ok", "missing", "refused"}
  BY Taken
<1>2. r.do \in StoreDo
  BY <1>1 DEF OneByOne, AllStore
<1>3. r.do \notin {"listLayers", "listObjects"}
  BY <1>2 DEF StoreDo
<1>4. store' = server
  <2>1. store' = IF ok THEN Shown(r, act[a].reply) ELSE store
    BY <1>3 DEF Take
  <2>. QED BY <1>1, <2>1 DEF OneByOne
<1>5. Len(t) \in Nat /\ Len(q) = Len(t) - 1 /\ \A n \in 1..(Len(t) - 1) : q[n] = t[n + 1]
  BY <1>3, RestIsTail DEF Shortened
<1>6. q \in Seq(Requests(fresh))
  BY <1>3, RestIsTail DEF Shortened
<1>7. AllStore(q)
  <2>. SUFFICES ASSUME NEW n \in DOMAIN q PROVE q[n].do \in StoreDo
    BY DEF AllStore
  <2>1. n \in 1..(Len(t) - 1)
    BY <1>5, <1>6
  <2>2. n + 1 \in DOMAIN t
    BY <1>1, <1>5, <2>1
  <2>. QED BY <1>5, <2>1, <2>2 DEF OneByOne, AllStore
<1>. QED BY <1>4, <1>7

LEMMA TakenWillReload ==
  ASSUME EditsInv, NEW a \in Agents, Take(a), WillReload(a), NEW q, q = Rest(a, Sent(a))
  PROVE  \/ (act[a].effect \/ store' = server) /\ \E d \in DOMAIN q : Reloads(q, d)
         \/ act[a].effect /\ \E d \in DOMAIN q : Loads(q, d) /\ ListedBy(q, d)'
<1>1. PICK t : t = act[a].todo
  OBVIOUS
<1>. DEFINE r == Sent(a)
            ok == act[a].reply.why = "ok"
<1>2. /\ t \in Seq(Requests(fresh)) /\ t # <<>> /\ 1 \in DOMAIN t /\ r.do = t[1].do
      /\ ok => act[a].effect /\ Answered(r, act[a].reply)
      /\ ~ok => r.do # "listLayers"
  BY <1>1, Taken
<1>3. PICK d \in DOMAIN t : Reloads(t, d)
  BY <1>1 DEF WillReload
<1>4. Len(t) \in Nat /\ d \in 1..Len(t) /\ q \in Seq(Requests(fresh)) /\ DOMAIN q = 1..Len(q) /\ DOMAIN t = 1..Len(t)
  BY <1>1, <1>2, RestFits
<1>5. CASE d > 1
  <2>1. r.do \notin {"listLayers", "listObjects"}
    BY <1>2, <1>3, <1>5 DEF Reloads
  <2>2. Len(q) = Len(t) - 1 /\ \A n \in 1..(Len(t) - 1) : q[n] = t[n + 1]
    BY <1>1, <2>1, RestIsTail DEF Shortened
  <2>3. act[a].effect \/ store' = server
    <3>1. ~ok => store' = store
      BY <2>1 DEF Take
    <3>2. Take(a) => server' = server
      BY DEF Take
    <3>. QED BY <1>2, <3>1 DEF WillReload
  <2>4. d - 1 \in DOMAIN q
    BY <1>4, <1>5, <2>2
  <2>5. Reloads(q, d - 1)
    <3>1. q[d - 1] = t[d]
      BY <1>4, <1>5, <2>2
    <3>2. ASSUME NEW n \in DOMAIN q
          PROVE  /\ n + 1 \in DOMAIN t /\ q[n] = t[n + 1]
                 /\ (n < d - 1 => n + 1 < d) /\ (n > d - 1 => n + 1 > d)
      <4>1. n \in 1..(Len(t) - 1)
        BY <1>4, <2>2, <3>2
      <4>. QED BY <1>4, <2>2, <4>1
    <3>. QED BY <1>3, <3>1, <3>2 DEF Reloads
  <2>. QED BY <2>3, <2>4, <2>5
<1>6. CASE d = 1
  <2>1. r.do = "listLayers" /\ ok
    BY <1>2, <1>3, <1>6 DEF Reloads
  <2>2. PICK L, N : L = DOMAIN server.layers /\ N = Cardinality(L)
    OBVIOUS
  <2>3. /\ N \in Nat \ {0} /\ Len(q) = N + Len(t) - 1
        /\ \A n \in 1..N : q[n].do = "listObjects"
        /\ \A n \in (N + 1)..Len(q) : q[n] = t[n - N + 1]
        /\ \A l \in L : \E n \in 1..N : q[n].id = l
    <3>1. LayersFirst(q, t, fresh, L, N)
      BY <1>1, <2>1, <2>2, RestIsListed
    <3>. QED BY <3>1 DEF LayersFirst
  <2>4. N \in DOMAIN q
    BY <1>4, <2>3
  <2>5. Loads(q, N)
    <3>. SUFFICES ASSUME NEW n \in DOMAIN q, ~(n <= N) PROVE q[n].do \in StoreDo
      BY <1>4, <2>3 DEF Loads
    <3>1. n \in (N + 1)..Len(q) /\ n - N + 1 \in 1..Len(t) /\ n - N + 1 > 1
      BY <1>4, <2>3
    <3>2. q[n] = t[n - N + 1]
      BY <2>3, <3>1
    <3>. QED BY <1>3, <1>4, <1>6, <3>1, <3>2 DEF Reloads
  <2>6. ListedBy(q, N)'
    <3>1. server' = server
      BY DEF Take
    <3>2. listed' = [server EXCEPT !.objects = <<>>]
      <4>1. listed' = [act[a].reply.map EXCEPT !.objects = <<>>]
        BY <2>1 DEF Take, Listing
      <4>. QED BY <1>2, <2>1, <4>1 DEF Answered
    <3>3. IsMap(server, fresh) /\ \A o \in DOMAIN server.objects : server.objects[o].layer \in L
      BY <2>2 DEF EditsInv, MapsOK, Sound, ObjectsClosed
    <3>4. listed' = [layers |-> server.layers, folders |-> server.folders, objects |-> <<>>]
      BY <3>2, <3>3, PartOfMap
    <3>5. listed'.layers = server.layers /\ listed'.folders = server.folders /\ DOMAIN listed'.objects = {}
      BY <3>4
    <3>. QED BY <2>3, <3>1, <3>3, <3>5 DEF ListedBy
  <2>. QED BY <1>2, <2>1, <2>4, <2>5, <2>6
<1>. QED BY <1>4, <1>5, <1>6

LEMMA TakenLoading ==
  ASSUME EditsInv, NEW a \in Agents, Take(a), IsLoading(a), NEW q, q = Rest(a, Sent(a))
  PROVE  \/ store' = server /\ AllStore(q)
         \/ act[a].effect /\ \E d \in DOMAIN q : Loads(q, d) /\ ListedBy(q, d)'
<1>1. PICK t : t = act[a].todo
  OBVIOUS
<1>. DEFINE ok == act[a].reply.why = "ok"
<1>2. PICK r : r = Sent(a)
  OBVIOUS
<1>3. PICK d \in DOMAIN t : Loads(t, d) /\ ListedBy(t, d) /\ act[a].effect
  BY <1>1 DEF IsLoading
<1>4. /\ t \in Seq(Requests(fresh)) /\ t # <<>> /\ 1 \in DOMAIN t /\ r.do = t[1].do
      /\ ok => Answered(r, act[a].reply)
      /\ ~ok => r.do # "listObjects"
      /\ r.do = "listObjects" => r = t[1]
  BY <1>1, <1>2, Taken
<1>5. Len(t) \in Nat /\ d \in 1..Len(t) /\ q \in Seq(Requests(fresh)) /\ DOMAIN q = 1..Len(q) /\ DOMAIN t = 1..Len(t)
  BY <1>1, <1>4, RestFits
<1>6. r.do = "listObjects" /\ ok /\ r = t[1]
  <2>1. 1 <= d
    BY <1>5
  <2>. QED BY <1>3, <1>4, <2>1 DEF Loads
<1>7. Len(q) = Len(t) - 1 /\ \A n \in 1..(Len(t) - 1) : q[n] = t[n + 1]
  <2>1. Sent(a).do # "listLayers"
    BY <1>2, <1>6
  <2>. QED BY <1>1, <2>1, RestIsTail DEF Shortened
<1>8. PICK w : w = ListedWith(server, r.id)
  OBVIOUS
<1>9. PICK last \in BOOLEAN :
        /\ last <=> Len(t) = 1 \/ t[2].do # "listObjects"
        /\ listed' = IF last THEN NothingListed ELSE w
        /\ store' = IF last THEN w ELSE store
  <2>1. PICK last \in BOOLEAN : last = (Len(act[a].todo) = 1 \/ act[a].todo[2].do # "listObjects")
    OBVIOUS
  <2>2. PICK m : m = act[a].reply.map
    OBVIOUS
  <2>3. m = server
    BY <1>4, <1>6, <2>2 DEF Answered
  <2>4. Listing(a, r)
    BY <1>2, <1>6 DEF Take
  <2>5. /\ listed' = IF last THEN NothingListed ELSE ListedWith(m, r.id)
        /\ store' = IF last THEN ListedWith(m, r.id) ELSE store
    BY <1>6, <2>1, <2>2, <2>4 DEF Listing, ListedWith
  <2>6. last <=> Len(t) = 1 \/ t[2].do # "listObjects"
    BY <1>1, <2>1
  <2>. QED BY <1>8, <2>3, <2>5, <2>6
<1>10. /\ IsMap(server, fresh) /\ IsMap(listed, fresh) /\ fresh \in Nat /\ server' = server
  BY FreshFacts DEF EditsInv, MapsOK, Sound, Take
<1>11. /\ IsMap(w, fresh) /\ w.layers = server.layers /\ w.folders = server.folders
       /\ DOMAIN w.objects = DOMAIN listed.objects \union InLayer(server, r.id)
       /\ \A o \in DOMAIN listed.objects \union InLayer(server, r.id) :
            w.objects[o] = IF o \in InLayer(server, r.id) THEN server.objects[o] ELSE listed.objects[o]
  BY <1>3, <1>8, <1>10, ListedFits DEF ListedBy
<1>12. /\ DOMAIN w.objects \subseteq DOMAIN server.objects
       /\ \A o \in DOMAIN w.objects : w.objects[o] = server.objects[o]
       /\ \A o \in DOMAIN server.objects \ DOMAIN w.objects :
            /\ server.objects[o].layer # r.id
            /\ \E n \in 1..d : t[n].id = server.objects[o].layer
  <2>1. \A o \in InLayer(server, r.id) : o \in DOMAIN server.objects
    BY DEF InLayer
  <2>2. \A o \in DOMAIN server.objects : server.objects[o].layer = r.id => o \in InLayer(server, r.id)
    BY DEF InLayer
  <2>. QED BY <1>3, <1>11, <2>1, <2>2 DEF ListedBy
<1>13. CASE d = 1
  <2>1. AllStore(q)
    <3>. SUFFICES ASSUME NEW n \in DOMAIN q PROVE q[n].do \in StoreDo
      BY DEF AllStore
    <3>1. n + 1 \in DOMAIN t /\ ~(n + 1 <= d) /\ q[n] = t[n + 1]
      BY <1>5, <1>7, <1>13
    <3>. QED BY <1>3, <3>1 DEF Loads
  <2>2. last
    <3>. SUFFICES ASSUME Len(t) # 1 PROVE t[2].do # "listObjects"
      BY <1>9
    <3>1. 2 \in DOMAIN t /\ ~(2 <= d)
      BY <1>5, <1>13
    <3>. QED BY <1>3, <3>1 DEF Loads, StoreDo
  <2>3. DOMAIN server.objects \subseteq DOMAIN w.objects
    <3>. SUFFICES ASSUME NEW o \in DOMAIN server.objects \ DOMAIN w.objects PROVE FALSE
      OBVIOUS
    <3>1. PICK n \in 1..d : t[n].id = server.objects[o].layer
      BY <1>12
    <3>2. n = 1
      BY <1>13, <3>1
    <3>. QED BY <1>6, <1>12, <3>1, <3>2
  <2>4. w.objects = server.objects
    BY <1>10, <1>11, <1>12, <2>3 DEF IsMap, IsPart
  <2>5. w = server
    BY <1>10, <1>11, <2>4 DEF IsMap
  <2>. QED BY <1>9, <2>1, <2>2, <2>5
<1>14. CASE d > 1
  <2>1. ~last
    <3>1. 2 \in DOMAIN t /\ 2 <= d /\ Len(t) # 1
      BY <1>5, <1>14
    <3>. QED BY <1>3, <1>9, <3>1 DEF Loads
  <2>2. listed' = w
    BY <1>9, <2>1
  <2>3. d - 1 \in DOMAIN q
    BY <1>5, <1>7, <1>14
  <2>4. Loads(q, d - 1)
    <3>. SUFFICES ASSUME NEW n \in DOMAIN q
                  PROVE  IF n <= d - 1 THEN q[n].do = "listObjects" ELSE q[n].do \in StoreDo
      BY DEF Loads
    <3>1. n + 1 \in DOMAIN t /\ q[n] = t[n + 1] /\ (n <= d - 1 <=> n + 1 <= d)
      BY <1>5, <1>7
    <3>. QED BY <1>3, <3>1 DEF Loads
  <2>5. PICK c : c = d - 1
    OBVIOUS
  <2>6. ASSUME NEW o \in DOMAIN server.objects \ DOMAIN w.objects
        PROVE  \E n \in 1..c : q[n].id = server.objects[o].layer
    <3>1. PICK n \in 1..d : t[n].id = server.objects[o].layer
      BY <1>12
    <3>2. n # 1
      BY <1>6, <1>12, <3>1
    <3>3. n - 1 \in 1..c /\ q[n - 1] = t[n]
      BY <1>5, <1>7, <1>14, <2>5, <3>1, <3>2
    <3>. QED BY <3>1, <3>3
  <2>7. ListedBy(q, c)'
    BY <1>10, <1>11, <1>12, <2>2, <2>6 DEF ListedBy
  <2>. QED BY <1>3, <2>3, <2>4, <2>5, <2>7
<1>. QED BY <1>5, <1>13, <1>14

(* The client sends the next request.                                       *)
LEMMA GoesOn ==
  ASSUME ActOK, NEW a \in Agents, IsAct(act[a]), NEW q,
         act' = [act EXCEPT ![a].todo = q, ![a].reply = NoReply]
  PROVE  /\ act' = [b \in Agents |-> act'[b]]
         /\ \A b \in Agents : b # a => act'[b] = act[b]
         /\ act'[a].doing = act[a].doing /\ act'[a].todo = q /\ act'[a].entry = act[a].entry
         /\ act'[a].reply = NoReply /\ act'[a].effect = act[a].effect /\ IsAct(act'[a])
<1>. DEFINE A == [act EXCEPT ![a].todo = q]
<1>1. act' = [A EXCEPT ![a].reply = NoReply]
  OBVIOUS
<1>2. act = [b \in Agents |-> act[b]]
  BY DEF ActOK
<1>3. A = [b \in Agents |-> IF b = a THEN [act[a] EXCEPT !.todo = q] ELSE act[b]]
  BY <1>2
<1>4. [act[a] EXCEPT !.todo = q] =
        [doing |-> act[a].doing, todo |-> q, entry |-> act[a].entry, reply |-> act[a].reply, effect |-> act[a].effect]
  BY ActWith
<1>. HIDE DEF A
<1>5. PICK c : c = A[a]
  OBVIOUS
<1>6. /\ IsAct(c) /\ c.doing = act[a].doing /\ c.todo = q /\ c.entry = act[a].entry /\ c.effect = act[a].effect
      /\ \A b \in Agents : b # a => A[b] = act[b]
  BY <1>3, <1>4, <1>5 DEF IsAct
<1>7. act' = [b \in Agents |-> IF b = a THEN [c EXCEPT !.reply = NoReply] ELSE A[b]]
  BY <1>1, <1>3, <1>5
<1>8. [c EXCEPT !.reply = NoReply] = [doing |-> c.doing, todo |-> c.todo, entry |-> c.entry, reply |-> NoReply, effect |-> c.effect]
  BY <1>6, ActWith
<1>9. act'[a] = [doing |-> c.doing, todo |-> c.todo, entry |-> c.entry, reply |-> NoReply, effect |-> c.effect]
  BY <1>7, <1>8
<1>10. act' = [b \in Agents |-> act'[b]] /\ \A b \in Agents : b # a => act'[b] = act[b]
  BY <1>6, <1>7
<1>. QED BY <1>6, <1>9, <1>10 DEF IsAct

(* What is left of an edit that has more to send: it deletes objects.       *)
LEMMA EditGoesOn ==
  ASSUME NEW e \in EntrySet(fresh), NEW R, NEW t \in Seq(R), NEW q \in Seq(R), q # <<>>, EditSteps(e, t),
         Len(q) = Len(t) - 1, \A n \in 1..(Len(t) - 1) : q[n] = t[n + 1], AllStore(q)
  PROVE  EditSteps(e, q) /\ e.kind = "delete"
<1>1. Len(q) \in Nat \ {0} /\ Len(t) \in Nat
  BY EmptySeq
<1>2. e.kind = "delete"
  BY <1>1 DEF EditSteps
<1>3. e.items \in Seq(ItemSet(fresh))
  BY <1>2, EntryCases DEF DeleteSet
<1>4. Len(q) <= Len(e.items)
  <2>1. Len(e.items) \in Nat
    BY <1>3
  <2>. QED BY <1>1, <1>2, <2>1 DEF EditSteps
<1>5. \A n \in DOMAIN q : q[n].do = "merge" => q[n].id # q[n].to
  <2>. SUFFICES ASSUME NEW n \in DOMAIN q PROVE q[n].do = "merge" => q[n].id # q[n].to
    OBVIOUS
  <2>1. n + 1 \in DOMAIN t /\ q[n] = t[n + 1]
    BY <1>1
  <2>. QED BY <2>1 DEF EditSteps
<1>. QED BY <1>2, <1>4, <1>5 DEF EditSteps

LEMMA TakeMore ==
  ASSUME EditsInv, NEW a \in Agents, Take(a), NEW q, q = Rest(a, Sent(a)), q # <<>>
  PROVE  EditsInv'
<1>1. PICK t : t = act[a].todo
  OBVIOUS
<1>2. /\ ~Idle(a) /\ Works(a) /\ \A b \in Agents : b # a => act[b] = Resting
      /\ t \in Seq(Requests(fresh)) /\ t # <<>> /\ 1 \in DOMAIN t /\ Sent(a).do = t[1].do
  BY <1>1, Taken
<1>3. /\ act' = [act EXCEPT ![a].todo = q, ![a].reply = NoReply]
      /\ UNCHANGED <<server, fresh, frayed, stack, cursor, versions>>
  BY DEF Take
<1>4. /\ act' = [b \in Agents |-> act'[b]]
      /\ \A b \in Agents : b # a => act'[b] = act[b]
      /\ act'[a].doing = act[a].doing /\ act'[a].todo = q /\ act'[a].entry = act[a].entry
      /\ act'[a].reply = NoReply /\ act'[a].effect = act[a].effect /\ IsAct(act'[a])
  BY <1>2, <1>3, GoesOn DEF EditsInv, Works
<1>5. AliasOK' /\ MapsOK' /\ FlagsOK'
  BY TakenMaps
<1>6. StackOK'
  BY <1>3 DEF EditsInv, StackOK
<1>7. ~Idle(a)' /\ \A b \in Agents : b # a => Idle(b)' /\ act'[b] = Resting
  BY <1>2, <1>4, RestingFacts DEF Idle
<1>8. /\ q \in Seq(Requests(fresh)) /\ Len(q) \in Nat \ {0} /\ Len(t) \in Nat
      /\ ~(Sent(a).do = "listLayers") => Len(q) = Len(t) - 1 /\ \A n \in 1..(Len(t) - 1) : q[n] = t[n + 1]
  <2>1. q \in Seq(Requests(fresh)) /\ Len(t) \in Nat
    BY <1>1, RestFits
  <2>2. Len(q) \in Nat \ {0}
    BY <2>1, EmptySeq
  <2>3. ~(Sent(a).do = "listLayers") => Len(q) = Len(t) - 1 /\ \A n \in 1..(Len(t) - 1) : q[n] = t[n + 1]
    BY <1>1, RestIsTail DEF Shortened
  <2>. QED BY <2>1, <2>2, <2>3
<1>9. Works(a)'
  <2>1. ReplyFits(a)'
    BY <1>4 DEF ReplyFits
  <2>2. AllStore(t) => AllStore(q) /\ Len(q) = Len(t) - 1 /\ \A n \in 1..(Len(t) - 1) : q[n] = t[n + 1]
    <3>. SUFFICES ASSUME AllStore(t)
                  PROVE  AllStore(q) /\ Len(q) = Len(t) - 1 /\ \A n \in 1..(Len(t) - 1) : q[n] = t[n + 1]
      OBVIOUS
    <3>1. Sent(a).do \in StoreDo
      BY <1>2 DEF AllStore
    <3>2. Len(q) = Len(t) - 1 /\ \A n \in 1..(Len(t) - 1) : q[n] = t[n + 1]
      BY <1>8, <3>1 DEF StoreDo
    <3>3. AllStore(q)
      <4>. SUFFICES ASSUME NEW n \in DOMAIN q PROVE q[n].do \in StoreDo
        BY DEF AllStore
      <4>1. n + 1 \in DOMAIN t /\ q[n] = t[n + 1]
        BY <1>2, <1>8, <3>2
      <4>. QED BY <4>1 DEF AllStore
    <3>. QED BY <3>2, <3>3
  <2>3. act[a].doing = "edit" => EditFits(act[a])'
    <3>. SUFFICES ASSUME act[a].doing = "edit" PROVE EditFits(act[a])'
      OBVIOUS
    <3>1. act[a].entry \in EntrySet(fresh) /\ EditSteps(act[a].entry, t)
      BY <1>1, <1>2 DEF Works, EditFits
    <3>2. EditSteps(act[a].entry, q) /\ act[a].entry.kind = "delete"
      <4>1. AllStore(t)
        BY <3>1 DEF EditSteps
      <4>2. PICK e : e = act[a].entry
        OBVIOUS
      <4>3. EditSteps(e, q) /\ e.kind = "delete"
        BY <1>2, <1>8, <2>2, <3>1, <4>1, <4>2, EditGoesOn
      <4>. QED BY <4>2, <4>3
    <3>. QED BY <1>3, <1>4, <3>1, <3>2 DEF EditFits
  <2>4. act[a].doing # "tweak"
    <3>. SUFFICES ASSUME act[a].doing = "tweak" PROVE FALSE
      OBVIOUS
    <3>1. AllStore(t) /\ Len(t) = 1
      BY <1>1, <1>2 DEF Works, TweakFits
    <3>. QED BY <1>8, <2>2, <3>1
  <2>. QED BY <1>2, <1>3, <1>4, <1>8, <2>1, <2>3, <2>4 DEF Works
<1>10. ActOK'
  BY <1>4, <1>7, <1>9 DEF ActOK
<1>11. Current'
  <2>. SUFFICES ASSUME frayed = "no" PROVE (OneByOne(a) \/ WillReload(a) \/ IsLoading(a))'
    BY <1>3, <1>7 DEF Current, Quiet
  <2>1. \/ store' = server /\ AllStore(q)
        \/ a = "undo" /\ (act[a].effect \/ store' = server) /\ \E d \in DOMAIN q : Reloads(q, d)
        \/ a = "undo" /\ act[a].effect /\ \E d \in DOMAIN q : Loads(q, d) /\ ListedBy(q, d)'
    <3>1. CASE OneByOne(a)
      BY <3>1, TakenOneByOne
    <3>2. CASE WillReload(a)
      <4>1. a = "undo"
        BY <3>2 DEF WillReload
      <4>. QED BY <3>2, <4>1, TakenWillReload
    <3>3. CASE IsLoading(a)
      <4>1. a = "undo"
        BY <3>3 DEF IsLoading
      <4>. QED BY <3>3, <4>1, TakenLoading
    <3>. QED BY <1>2, <3>1, <3>2, <3>3 DEF EditsInv, Current
  <2>2. CASE store' = server /\ AllStore(q)
    BY <1>3, <1>4, <2>2, RestingFacts DEF OneByOne
  <2>3. CASE a = "undo" /\ (act[a].effect \/ store' = server) /\ \E d \in DOMAIN q : Reloads(q, d)
    <3>1. \E d \in DOMAIN act'[a].todo : Reloads(act'[a].todo, d)
      BY <1>4, <2>3
    <3>2. act'[a].effect \/ store' = server'
      BY <1>3, <1>4, <2>3
    <3>. QED BY <2>3, <3>1, <3>2 DEF WillReload
  <2>4. CASE a = "undo" /\ act[a].effect /\ \E d \in DOMAIN q : Loads(q, d) /\ ListedBy(q, d)'
    <3>1. PICK d \in DOMAIN q : Loads(q, d) /\ ListedBy(q, d)'
      BY <2>4
    <3>2. ListedBy(act[a].todo, d)'
      BY <1>4, <3>1 DEF ListedBy
    <3>. QED BY <1>4, <2>4, <3>1, <3>2 DEF IsLoading
  <2>. QED BY <2>1, <2>2, <2>3, <2>4
<1>. QED BY <1>5, <1>6, <1>10, <1>11 DEF EditsInv

(* The last answer.                                                         *)
LEMMA TakeLast ==
  ASSUME EditsInv, NEW a \in Agents, Take(a), Rest(a, Sent(a)) = <<>>
  PROVE  EditsInv'
<1>1. /\ ~Idle(a) /\ Works(a) /\ \A b \in Agents : b # a => act[b] = Resting
      /\ act[a].reply.id \in Below(fresh)
  BY Taken
<1>2. /\ act' = [act EXCEPT ![a] = Resting] /\ Finish(a)
      /\ UNCHANGED <<server, fresh, frayed>>
  BY DEF Take
<1>3. AliasOK' /\ MapsOK' /\ FlagsOK'
  BY TakenMaps
<1>4. act' = [b \in Agents |-> act'[b]] /\ \A b \in Agents : act'[b] = Resting
  BY <1>1, <1>2 DEF EditsInv, ActOK
<1>5. \A b \in Agents : Idle(b)'
  BY <1>4, RestingFacts DEF Idle
<1>6. ActOK'
  BY <1>4, <1>5 DEF ActOK
<1>7. Current'
  <2>1. frayed = "no" => store' = server
    <3>. SUFFICES ASSUME frayed = "no" PROVE store' = server
      OBVIOUS
    <3>1. PICK q : q = Rest(a, Sent(a))
      OBVIOUS
    <3>2. DOMAIN q = {}
      BY <3>1
    <3>3. CASE OneByOne(a)
      BY <3>1, <3>3, TakenOneByOne
    <3>4. CASE WillReload(a)
      BY <3>1, <3>2, <3>4, TakenWillReload
    <3>5. CASE IsLoading(a)
      BY <3>1, <3>2, <3>5, TakenLoading
    <3>. QED BY <1>1, <3>3, <3>4, <3>5 DEF EditsInv, Current
  <2>. QED BY <1>2, <1>5, <2>1 DEF Current
<1>8. StackOK'
  <2>1. CASE act[a].doing = "edit"
    <3>1. PICK e : e = IF act[a].entry.kind = "create" THEN [act[a].entry EXCEPT !.id = act[a].reply.id] ELSE act[a].entry
      OBVIOUS
    <3>2. Push(e)
      <4>1. Push(IF act[a].entry.kind = "create" THEN [act[a].entry EXCEPT !.id = act[a].reply.id] ELSE act[a].entry)
        BY <1>2, <2>1 DEF Finish, Runs
      <4>. QED BY <3>1, <4>1
    <3>3. PICK d : d = act[a].entry
      OBVIOUS
    <3>4. d \in EntrySet(fresh)
      BY <1>1, <2>1, <3>3 DEF Works, EditFits
    <3>5. e \in EntrySet(fresh)
      <4>1. CASE d.kind = "create"
        <5>1. d \in CreateSet(fresh)
          BY <3>4, <4>1, EntryCases
        <5>2. PICK i : i = act[a].reply.id
          OBVIOUS
        <5>3. e = [d EXCEPT !.id = i] /\ i \in Below(fresh)
          BY <1>1, <3>1, <3>3, <4>1, <5>2
        <5>4. e \in CreateSet(fresh)
          BY <5>1, <5>3 DEF CreateSet
        <5>. QED BY <5>4 DEF EntrySet
      <4>2. CASE d.kind # "create"
        BY <3>1, <3>3, <3>4, <4>2
      <4>. QED BY <4>1, <4>2
    <3>. QED BY <1>2, <3>2, <3>5, PushFits DEF EditsInv
  <2>2. CASE act[a].doing \in Runs
    <3>1. a = "undo" /\ "edit" \notin Runs
      BY <1>1, <2>2 DEF Works, Runs
    <3>2. cursor' = Moved /\ UNCHANGED <<stack, versions>>
      BY <1>2, <2>2, <3>1 DEF Finish, Runs
    <3>3. cursor' \in -1..(Len(stack) - 1)
      <4>1. cursor \in Int /\ cursor >= -1 /\ cursor <= Len(stack) - 1 /\ Len(stack) \in Nat
        BY DEF EditsInv, StackOK
      <4>2. CASE act[a].doing = "undo"
        <5>1. cursor >= 0 /\ cursor' = cursor - 1
          BY <1>1, <3>1, <3>2, <4>2 DEF Works, Moved
        <5>. QED BY <4>1, <5>1
      <4>3. CASE act[a].doing = "redo"
        <5>1. cursor < Len(stack) - 1 /\ cursor' = cursor + 1
          BY <1>1, <3>1, <3>2, <4>3 DEF Works, Moved
        <5>. QED BY <4>1, <5>1
      <4>. QED BY <2>2, <4>2, <4>3 DEF Runs
    <3>. QED BY <1>2, <3>2, <3>3 DEF EditsInv, StackOK
  <2>3. CASE act[a].doing # "edit" /\ act[a].doing \notin Runs
    <3>1. UNCHANGED <<stack, cursor, versions>>
      BY <1>2, <2>3 DEF Finish
    <3>. QED BY <1>2, <3>1 DEF EditsInv, StackOK
  <2>. QED BY <2>1, <2>2, <2>3
<1>. QED BY <1>3, <1>6, <1>7, <1>8 DEF EditsInv

LEMMA TakeStep ==
  ASSUME EditsInv, NEW a \in Agents, Take(a)
  PROVE  EditsInv'
BY TakeMore, TakeLast

-----------------------------------------------------------------------------
(* Giving up, and the invariant                                             *)

LEMMA NobodyWorks ==
  ASSUME EditsInv, NEW a \in Agents, ~Idle(a), act' = [act EXCEPT ![a] = Resting],
         frayed' = "no" => store' = server'
  PROVE  ActOK' /\ Current'
<1>1. act' = [b \in Agents |-> act'[b]] /\ \A b \in Agents : act'[b] = Resting
  BY DEF EditsInv, ActOK
<1>2. \A b \in Agents : Idle(b)'
  BY <1>1, RestingFacts DEF Idle
<1>3. ActOK'
  BY <1>1, <1>2 DEF ActOK
<1>. QED BY <1>2, <1>3 DEF Current

(* An edit that fails half way is a deletion of several objects.            *)
LEMMA GiveUpEditStep ==
  ASSUME EditsInv, NEW a \in Agents, GiveUpEdit(a)
  PROVE  EditsInv'
<1>1. /\ act[a].doing \in {"edit", "tweak"} /\ act[a].reply.why \in Failures
      /\ act' = [act EXCEPT ![a] = Resting]
      /\ UNCHANGED <<server, store, alias, fresh, listed, frayed>>
      /\ UNCHANGED blurred
  BY DEF GiveUpEdit
<1>2. ~Idle(a)
  BY <1>1 DEF Idle
<1>3. Works(a) /\ a # "undo" /\ act[a].doing \notin Runs
  <2>1. Works(a)
    BY <1>2, OthersRest DEF EditsInv
  <2>. QED BY <1>1, <2>1 DEF Works, Runs
<1>4. PICK t : t = act[a].todo
  OBVIOUS
<1>5. /\ t \in Seq(Requests(fresh)) /\ t # <<>>
      /\ act[a].reply.why = "failed" => FailsAfterwards(Sent(a))
  BY <1>1, <1>3, <1>4, RestingFacts DEF Works, ReplyFits, Failures
<1>6. act[a].reply.why \notin {"ok", "failed"}
  <2>1. Sent(a) = t[1] /\ 1 \in DOMAIN t
    BY <1>3, <1>4, <1>5, SentFits DEF EditsInv
  <2>2. t[1].do = "merge" => t[1].id # t[1].to
    BY <1>1, <1>3, <1>4, <2>1 DEF Works, EditFits, EditSteps, TweakFits
  <2>3. act[a].reply.why # "failed"
    BY <1>5, <2>1, <2>2 DEF FailsAfterwards
  <2>. QED BY <1>1, <2>3 DEF Failures
<1>7. frayed = "no" => store = server
  BY <1>2, <1>3, <1>6 DEF EditsInv, Current, OneByOne, WillReload, IsLoading
<1>8. ActOK' /\ Current'
  <2>1. frayed' = "no" => store' = server'
    BY <1>1, <1>7
  <2>. QED BY <1>1, <1>2, <2>1, NobodyWorks
<1>9. AliasOK' /\ MapsOK' /\ FlagsOK'
  BY <1>1 DEF EditsInv, AliasOK, MapsOK, FlagsOK
<1>10. StackOK'
  <2>1. CASE act[a].effect
    <3>1. PICK e : e = act[a].entry
      OBVIOUS
    <3>2. e \in EntrySet(fresh) /\ e.kind = "delete" /\ EditSteps(e, t)
      BY <1>1, <1>3, <1>4, <1>6, <2>1, <3>1 DEF Works, EditFits, TweakFits
    <3>3. e \in DeleteSet(fresh) /\ e.items \in Seq(ItemSet(fresh))
      BY <3>2, EntryCases DEF DeleteSet
    <3>4. PICK n : n = Len(e.items) - Len(t)
      OBVIOUS
    <3>5. n \in Nat /\ n <= Len(e.items) /\ Len(e.items) \in Nat
      <4>1. Len(t) \in Nat /\ Len(e.items) \in Nat
        BY <1>5, <3>3
      <4>. QED BY <3>2, <3>4, <4>1 DEF EditSteps
    <3>6. \A i \in 1..n : e.items[i] \in ItemSet(fresh)
      BY <3>3, <3>5, ElementOfSeq
    <3>7. SubSeq(e.items, 1, n) \in Seq(ItemSet(fresh))
      BY <3>5, <3>6, SubSeqProperties
    <3>8. PICK s : s = SubSeq(e.items, 1, n)
      OBVIOUS
    <3>9. [e EXCEPT !.items = s] \in DeleteSet(fresh)
      BY <3>3, <3>7, <3>8 DEF DeleteSet
    <3>10. PICK d : d = [e EXCEPT !.items = s]
      OBVIOUS
    <3>11. Push(d)
      <4>1. Push([act[a].entry EXCEPT !.items = SubSeq(@, 1, Len(@) - Len(act[a].todo))])
        BY <2>1 DEF GiveUpEdit
      <4>2. d = [act[a].entry EXCEPT !.items = SubSeq(@, 1, Len(@) - Len(act[a].todo))]
        BY <1>4, <3>1, <3>4, <3>8, <3>10
      <4>. QED BY <4>1, <4>2
    <3>12. d \in EntrySet(fresh)
      BY <3>9, <3>10 DEF EntrySet
    <3>. QED BY <1>1, <3>11, <3>12, PushFits DEF EditsInv
  <2>2. CASE ~act[a].effect
    <3>1. UNCHANGED <<stack, cursor, versions>>
      BY <2>2 DEF GiveUpEdit
    <3>. QED BY <1>1, <3>1 DEF EditsInv, StackOK
  <2>. QED BY <2>1, <2>2
<1>. QED BY <1>8, <1>9, <1>10 DEF EditsInv

(* A run that is given up before it had an effect left everything as it was;*)
(* otherwise it is frayed.                                                  *)
LEMMA GiveUpRunStep ==
  ASSUME EditsInv, GiveUpRun
  PROVE  EditsInv'
<1>1. /\ act["undo"].reply.why \in Failures
      /\ frayed' = IF act["undo"].effect /\ frayed # "redo" THEN act["undo"].doing ELSE frayed
      /\ act' = [act EXCEPT !["undo"] = Resting]
      /\ listed' = NothingListed
      /\ UNCHANGED <<server, store, alias, fresh, stack, cursor, versions>>
      /\ UNCHANGED blurred
  BY DEF GiveUpRun
<1>2. "undo" \in Agents /\ ~Idle("undo")
  <2>1. "undo" \in Agents /\ act["undo"].reply.why # "none"
    BY <1>1 DEF Agents, Failures
  <2>. QED BY <2>1, TodoIsWork DEF EditsInv
<1>3. Works("undo")
  BY <1>2, OthersRest DEF EditsInv
<1>4. /\ act["undo"].doing \in Runs /\ act["undo"].effect \in BOOLEAN
      /\ act["undo"].reply.why # "ok" /\ (act["undo"].reply.why = "failed" => act["undo"].effect)
  BY <1>1, <1>3, RestingFacts DEF Works, ReplyFits, Failures
<1>5. frayed' = "no" => store' = server'
  <2>. SUFFICES ASSUME frayed' = "no" PROVE store = server
    BY <1>1
  <2>1. ~act["undo"].effect /\ frayed = "no"
    BY <1>1, <1>4 DEF Runs
  <2>2. act["undo"].reply.why \notin {"ok", "failed"}
    BY <1>4, <2>1
  <2>. QED BY <1>2, <2>1, <2>2 DEF EditsInv, Current, OneByOne, WillReload, IsLoading
<1>6. ActOK' /\ Current'
  BY <1>1, <1>2, <1>5, NobodyWorks
<1>7. AliasOK' /\ StackOK'
  BY <1>1 DEF EditsInv, AliasOK, StackOK
<1>8. FlagsOK'
  BY <1>1, <1>4 DEF EditsInv, FlagsOK
<1>9. MapsOK'
  <2>1. fresh \in Nat
    BY FreshFacts DEF EditsInv
  <2>. QED BY <1>1, <2>1, EmptyFits DEF EditsInv, MapsOK
<1>. QED BY <1>6, <1>7, <1>8, <1>9 DEF EditsInv

(* The map that the program starts with.                                    *)
LEMMA StartMapFits ==
  Sound(StartMap, 6)
<1>. DEFINE L == [l \in {1, 2} |-> IF l = 1 THEN [folder |-> None, visible |-> TRUE]
                                            ELSE [folder |-> 3, visible |-> FALSE]]
            F == [f \in {3} |-> [visible |-> FALSE]]
            g == CHOOSE h \in Geoms : TRUE
            O == [o \in {4, 5} |-> [layer |-> 2, geom |-> g, crop |-> o = 4,
                                    folder |-> IF o = 5 THEN 3 ELSE None]]
<1>1. StartMap = [layers |-> L, folders |-> F, objects |-> O]
  BY DEF StartMap
<1>2. g \in Geoms
  BY MapEditsAssumption
<1>3. None = 0 /\ Below(6) = 0..5 /\ 1..(6 - 1) = 1..5
  BY DEF None, Below
<1>4. IsPart(L, 6, LayerSet(6)) /\ DOMAIN L = {1, 2} /\ \A l \in {1, 2} : L[l].folder \in {3, None}
  BY <1>3 DEF IsPart, LayerSet
<1>5. IsPart(F, 6, FolderSet) /\ DOMAIN F = {3}
  BY <1>3 DEF IsPart, FolderSet
<1>. HIDE DEF g
<1>6. IsPart(O, 6, ObjectSet(6)) /\ DOMAIN O = {4, 5} /\ \A o \in {4, 5} : O[o].layer = 2 /\ O[o].folder \in {3, None}
  <2>1. \A o \in {4, 5} : (o = 4) \in BOOLEAN
    OBVIOUS
  <2>2. \A o \in {4, 5} : O[o] \in ObjectSet(6)
    BY <1>2, <1>3, <2>1 DEF ObjectSet
  <2>3. O \in [{4, 5} -> ObjectSet(6)]
    BY <2>2
  <2>4. DOMAIN O = {4, 5} /\ {4, 5} \subseteq 1..(6 - 1)
    BY <1>3
  <2>. QED BY <2>3, <2>4 DEF IsPart
<1>. HIDE DEF L, F, O
<1>7. IsMap(StartMap, 6) /\ StartMap.layers = L /\ StartMap.folders = F /\ StartMap.objects = O
  BY <1>1, <1>4, <1>5, <1>6 DEF IsMap
<1>. QED BY <1>4, <1>5, <1>6, <1>7 DEF Sound, LayersClosed, ObjectsClosed

LEMMA EditsInit ==
  ASSUME Init
  PROVE  EditsInv
<1>1. AliasOK
  <2>1. fresh = 6 /\ None = 0 /\ MaxId \in Nat /\ MaxId >= 5 /\ Below(6) = 0..5
    BY MapEditsAssumption DEF Init, None, Below
  <2>. QED BY <2>1 DEF Init, AliasOK
<1>2. MapsOK
  BY StartMapFits, EmptyFits DEF Init, MapsOK, Sound
<1>3. StackOK
  <2>1. stack \in Seq(EntrySet(fresh)) /\ Len(stack) = 0
    BY EmptySeq DEF Init
  <2>2. versions \in Seq({StartMap}) /\ Len(versions) = 1
    BY DEF Init
  <2>3. 0 <= MaxStack
    BY MapEditsAssumption
  <2>4. \E V : versions \in Seq(V)
    BY <2>2
  <2>5. cursor \in -1..(Len(stack) - 1) /\ Len(versions) = Len(stack) + 1 /\ Len(stack) <= MaxStack
    BY <2>1, <2>2, <2>3 DEF Init
  <2>. QED BY <2>1, <2>4, <2>5 DEF StackOK
<1>4. FlagsOK
  BY DEF Init, FlagsOK
<1>5. act = [a \in Agents |-> act[a]] /\ \A a \in Agents : act[a] = Resting /\ Idle(a)
  BY RestingFacts DEF Init, Idle
<1>6. ActOK
  BY <1>5 DEF ActOK
<1>7. Current
  BY <1>5 DEF Init, Current
<1>. QED BY <1>1, <1>2, <1>3, <1>4, <1>6, <1>7 DEF EditsInv

LEMMA EditsKeep ==
  ASSUME EditsInv, ~Overlap, [Next]_vars
  PROVE  EditsInv'
<1>1. ASSUME NEW a \in {"tool", "panel"}, Edit(a) PROVE EditsInv'
  BY <1>1, EditStep
<1>2. CASE Tweak
  BY <1>2, TweakStep
<1>3. ASSUME NEW direction \in Runs, Press(direction) PROVE EditsInv'
  BY <1>3, PressStep
<1>4. CASE Clear
  BY <1>4, ClearStep
<1>5. ASSUME NEW a \in Agents, Step(a) PROVE EditsInv'
  BY <1>5, ServeStep, RefuseStep, TakeStep, GiveUpEditStep DEF Step
<1>6. CASE GiveUpRun
  BY <1>6, GiveUpRunStep
<1>7. CASE UNCHANGED vars
  <2>1. UNCHANGED <<server, store, alias, fresh, stack, cursor, act, listed>> /\ UNCHANGED <<versions, frayed, blurred>>
    BY <1>7 DEF vars
  <2>2. AliasOK' /\ MapsOK' /\ StackOK' /\ FlagsOK'
    BY <2>1 DEF EditsInv, AliasOK, MapsOK, StackOK, FlagsOK
  <2>3. \A a : Sent(a)' = Sent(a)
    BY <2>1, SentSame
  <2>4. ActOK'
    BY <2>1, <2>3 DEF EditsInv, ActOK, Idle, Works, EditFits, TweakFits, ReplyFits, Answered
  <2>5. Current'
    <3>1. \A r, p : Shown(r, p)' = Shown(r, p)
      BY <2>1, ShownSame
    <3>. QED BY <2>1, <2>3, <3>1 DEF EditsInv, Current, Quiet, Idle, OneByOne, WillReload, IsLoading, ListedBy
  <2>. QED BY <2>2, <2>4, <2>5 DEF EditsInv
<1>. QED BY <1>1, <1>2, <1>3, <1>4, <1>5, <1>6, <1>7 DEF Next

LEMMA EditsShape ==
  ASSUME EditsInv
  PROVE  TypeOK
<1>1. fresh \in Nat /\ fresh > 1 /\ MaxId \in Nat /\ fresh <= MaxId + 1 /\ fresh \in 6..(MaxId + 1)
  BY FreshFacts DEF EditsInv, AliasOK
<1>2. MapType(server)
  <2>1. /\ IsPart(server.layers, fresh, LayerSet(fresh)) /\ IsPart(server.folders, fresh, FolderSet)
        /\ IsPart(server.objects, fresh, ObjectSet(fresh)) /\ LayersClosed(server) /\ ObjectsClosed(server)
    BY DEF EditsInv, MapsOK, Sound, IsMap
  <2>2. 1..(fresh - 1) \subseteq Ids
    BY <1>1 DEF Ids
  <2>3. DOMAIN server.layers \union DOMAIN server.folders \union DOMAIN server.objects \subseteq Ids
    BY <2>1, <2>2 DEF IsPart
  <2>4. \A l \in DOMAIN server.layers :
          server.layers[l] \in [folder : DOMAIN server.folders \union {None}, visible : BOOLEAN]
    BY <2>1 DEF IsPart, LayerSet, LayersClosed
  <2>5. \A f \in DOMAIN server.folders : server.folders[f] \in [visible : BOOLEAN]
    BY <2>1 DEF IsPart, FolderSet
  <2>6. \A o \in DOMAIN server.objects :
          server.objects[o] \in [layer : DOMAIN server.layers, geom : Geoms, crop : BOOLEAN,
                                 folder : DOMAIN server.folders \union {None}]
    BY <2>1 DEF IsPart, ObjectSet, ObjectsClosed
  <2>. QED BY <2>3, <2>4, <2>5, <2>6 DEF MapType
<1>3. \A i \in Ids : alias[i] = None \/ alias[i] \in (i + 1)..(fresh - 1)
  <2>. SUFFICES ASSUME NEW i \in Ids, alias[i] # None PROVE alias[i] \in (i + 1)..(fresh - 1)
    OBVIOUS
  <2>1. alias[i] \in Below(fresh) /\ i < alias[i] /\ i \in Int
    BY DEF EditsInv, AliasOK, Ids
  <2>. QED BY <1>1, <2>1 DEF Below
<1>4. \A a \in Agents : act[a].doing \in {"nothing", "edit", "tweak"} \union Runs
  BY RestingFacts DEF EditsInv, ActOK, Works
<1>5. /\ Len(stack) <= MaxStack /\ cursor \in -1..(Len(stack) - 1)
      /\ Len(versions) = Len(stack) + 1
      /\ frayed \in {"no"} \union Runs /\ blurred \in BOOLEAN
  BY DEF EditsInv, StackOK, FlagsOK
<1>. QED BY <1>1, <1>2, <1>3, <1>4, <1>5 DEF TypeOK

(* Editing, undo and redo keep to the maps, the aliases, the undo stack and *)
(* the requests as the invariant has them: createTracked and the other      *)
(* functions of layers/ops.js, run of map/undo.js and loadMapData, when no  *)
(* agent begins before the others have ended.                               *)
THEOREM EditsInvariant ==
  ASSUME ~Overlap
  PROVE  Spec => []EditsInv
<1>1. Init => EditsInv
  BY EditsInit
<1>2. EditsInv /\ [Next]_vars => EditsInv'
  BY EditsKeep
<1>. QED BY <1>1, <1>2, PTL DEF Spec

(* The database never holds an object or a layer of which the layer or the  *)
(* folder is gone, aliases lead to newer ids that exist, the undo stack is  *)
(* no longer than MAX and the cursor stays inside of it.                    *)
THEOREM EditsAreTyped ==
  ASSUME ~Overlap
  PROVE  Spec => []TypeOK
<1>1. EditsInv => TypeOK
  BY EditsShape
<1>. QED BY <1>1, EditsInvariant, PTL

(* Between two actions the client shows what the server has, although it    *)
(* applies every answer by itself and loads the map again only when an undo *)
(* has restored a layer or a folder: for any number of ids, geometries and  *)
(* edits, and with any refusals.                                            *)
THEOREM StoreStaysCurrent ==
  ASSUME ~Overlap
  PROVE  Spec => []StoreIsCurrent
<1>1. EditsInv => StoreIsCurrent
  BY DEF EditsInv, Current, StoreIsCurrent
<1>. QED BY <1>1, EditsInvariant, PTL
=============================================================================
