--------------------------- MODULE Browser_proofs ---------------------------
(* Two parts of the web client: the drawing tools, whose buttons and modes  *)
(* agree with what is selected and lose no stroke, for any number of        *)
(* objects, layers, points, tasks, marks and changes made elsewhere; and    *)
(* the runs of snapshots, whose results are published as a whole and told   *)
(* as such, for any number of runs, tasks and objects.                      *)
EXTENDS MCBrowser, FiniteSetTheorems, SequenceTheorems, WellFoundedInduction, TLAPS

-----------------------------------------------------------------------------
(* The drawing tools (MapTools)                                             *)

Rises(f) == \A m, n \in DOMAIN f : m < n => f[m] < f[n]

(* A finite set of numbers can be put in order.                             *)
LEMMA Ordered ==
  ASSUME NEW P \in SUBSET Nat, IsFiniteSet(P)
  PROVE  \E f \in [1..Cardinality(P) -> P] : Rises(f)
<1>. DEFINE N == Cardinality(P)
            below(i) == {j \in P : j <= i}
            rank == [i \in P |-> Cardinality(below(i))]
<1>1. N \in Nat
  BY FS_CardinalityType
<1>2. ASSUME NEW i \in P
      PROVE  IsFiniteSet(below(i)) /\ rank[i] \in 1..N
  <2>1. IsFiniteSet(below(i)) /\ Cardinality(below(i)) <= N
    BY FS_Subset
  <2>2. Cardinality(below(i)) \in Nat /\ Cardinality(below(i)) # 0
    <3>1. i \in below(i)
      OBVIOUS
    <3>. QED BY <2>1, <3>1, FS_CardinalityType, FS_EmptySet
  <2>. QED BY <1>1, <2>1, <2>2
<1>3. ASSUME NEW i \in P, NEW j \in P, i < j
      PROVE  rank[i] < rank[j]
  <2>0. i \in Nat /\ j \in Nat /\ \A k \in P : k \in Nat
    OBVIOUS
  <2>1. below(i) \subseteq below(j) /\ j \in below(j) /\ j \notin below(i)
    <3>1. ASSUME NEW k \in P, k <= i PROVE k <= j
      BY <1>3, <2>0, <3>1
    <3>2. j <= j /\ ~ (j <= i)
      BY <1>3, <2>0
    <3>. QED BY <3>1, <3>2
  <2>2. Cardinality(below(i)) <= Cardinality(below(j)) /\ Cardinality(below(i)) # Cardinality(below(j))
    <3>. HIDE DEF below
    <3>. QED BY <1>2, <2>1, FS_Subset
  <2>. QED BY <1>2, <2>2
<1>4. rank \in Injection(P, 1..N)
  <2>1. rank \in [P -> 1..N]
    BY <1>2
  <2>2. \A i, j \in P : rank[i] = rank[j] => i = j
    <3>1. ASSUME NEW i \in P, NEW j \in P, i # j PROVE rank[i] # rank[j]
      <4>1. i < j \/ j < i
        BY <3>1
      <4>2. rank[i] \in Nat /\ rank[j] \in Nat
        BY <1>2
      <4>3. (i < j => rank[i] < rank[j]) /\ (j < i => rank[j] < rank[i])
        BY <1>3
      <4>. HIDE DEF rank
      <4>. QED BY <4>1, <4>2, <4>3
    <3>. QED BY <3>1
  <2>. HIDE DEF rank
  <2>. QED BY <2>1, <2>2 DEF Injection, IsInjective
<1>5. rank \in Surjection(P, 1..N)
  <2>1. IsFiniteSet(1..N) /\ Cardinality(1..N) = N
    BY <1>1, FS_Interval
  <2>. HIDE DEF rank
  <2>. QED BY <1>4, <2>1, FS_Injection
<1>. HIDE DEF rank
<1>6. \A n \in 1..N : \E i \in P : rank[i] = n
  BY <1>5 DEF Surjection
<1>. DEFINE f == [n \in 1..N |-> CHOOSE i \in P : rank[i] = n]
<1>7. f \in [1..N -> P] /\ \A n \in 1..N : rank[f[n]] = n
  BY <1>6
<1>8. Rises(f)
  <2>1. ASSUME NEW m \in 1..N, NEW n \in 1..N, m < n PROVE f[m] < f[n]
    <3>1. f[m] \in Nat /\ f[n] \in Nat /\ rank[f[m]] = m /\ rank[f[n]] = n /\ f[m] \in P /\ f[n] \in P
      BY <1>7
    <3>2. ~ (f[n] < f[m]) /\ f[n] # f[m]
      <4>. HIDE DEF f
      <4>1. f[n] < f[m] => n < m
        BY <1>3, <3>1
      <4>. QED BY <2>1, <3>1, <4>1
    <3>. HIDE DEF f
    <3>. QED BY <3>1, <3>2
  <2>. QED BY <2>1, <1>7 DEF Rises
<1>. QED BY <1>7, <1>8

(* And then every one of them is in it once.                                *)
LEMMA RisesOnce ==
  ASSUME NEW P \in SUBSET Nat, IsFiniteSet(P), NEW f \in [1..Cardinality(P) -> P], Rises(f)
  PROVE  /\ \A m, n \in 1..Cardinality(P) : f[m] = f[n] => m = n
         /\ \A i \in P : \E n \in 1..Cardinality(P) : f[n] = i
<1>. DEFINE N == Cardinality(P)
<1>1. N \in Nat
  BY FS_CardinalityType
<1>2. ASSUME NEW m \in 1..N, NEW n \in 1..N, f[m] = f[n] PROVE m = n
  <2>1. DOMAIN f = 1..N /\ f[m] \in Nat /\ f[n] \in Nat
    OBVIOUS
  <2>2. (m < n => f[m] < f[n]) /\ (n < m => f[n] < f[m])
    BY <2>1 DEF Rises
  <2>. QED BY <1>1, <1>2, <2>1, <2>2
<1>3. f \in Injection(1..N, P)
  BY <1>2 DEF Injection, IsInjective
<1>4. IsFiniteSet(1..N) /\ Cardinality(1..N) = N
  BY <1>1, FS_Interval
<1>5. f \in Surjection(1..N, P)
  BY <1>3, <1>4, FS_Injection
<1>. QED BY <1>2, <1>5 DEF Surjection

(* The number of elements is the same by both names.                        *)
LEMMA SameCardinality ==
  ASSUME NEW S
  PROVE  T!Cardinality(S) = Cardinality(S)
BY DEF Cardinality, T!Cardinality

Distinct(q) == \A i, j \in DOMAIN q : q[i] = q[j] => i = j

(* What a selection of a sequence is.                                       *)
LEMMA OnlyFacts ==
  ASSUME NEW V, NEW q \in Seq(V), NEW S
  PROVE  /\ T!Only(q, S) \in Seq(V) /\ Len(T!Only(q, S)) <= Len(q)
         /\ T!ToSet(T!Only(q, S)) = T!ToSet(q) \intersect S
         /\ Distinct(q) => Distinct(T!Only(q, S))
<1>. DEFINE P == {i \in DOMAIN q : q[i] \in S}
            N == Cardinality(P)
            kept == T!Ascending(P)
<1>1. DOMAIN q = 1..Len(q) /\ Len(q) \in Nat /\ \A i \in DOMAIN q : q[i] \in V
  OBVIOUS
<1>2. IsFiniteSet(P) /\ P \in SUBSET Nat /\ N \in Nat /\ N <= Len(q)
  <2>1. IsFiniteSet(1..Len(q)) /\ Cardinality(1..Len(q)) = Len(q)
    BY <1>1, FS_Interval
  <2>2. P \in SUBSET (1..Len(q))
    BY <1>1
  <2>3. IsFiniteSet(P) /\ Cardinality(P) <= Len(q)
    <3>. HIDE DEF P
    <3>. QED BY <2>1, <2>2, FS_Subset
  <2>4. Cardinality(P) \in Nat
    <3>. HIDE DEF P
    <3>. QED BY <2>3, FS_CardinalityType
  <2>. QED BY <2>2, <2>3, <2>4
<1>3. kept \in [1..N -> P] /\ Rises(kept)
  <2>. HIDE DEF P
  <2>1. PICK n : n = N
    OBVIOUS
  <2>2. T!Cardinality(P) = n
    BY <2>1, SameCardinality
  <2>3. kept = CHOOSE f \in [1..n -> P] : \A k, l \in DOMAIN f : k < l => f[k] < f[l]
    BY <2>2 DEF T!Ascending
  <2>4. \E f \in [1..n -> P] : \A k, l \in DOMAIN f : k < l => f[k] < f[l]
    BY <1>2, <2>1, Ordered DEF Rises
  <2>. HIDE DEF kept
  <2>. QED BY <2>1, <2>3, <2>4 DEF Rises
<1>4. T!Only(q, S) = [n \in 1..N |-> q[kept[n]]]
  <2>1. DOMAIN kept = 1..N
    BY <1>3
  <2>2. T!Only(q, S) = [n \in DOMAIN kept |-> q[kept[n]]]
    BY DEF T!Only
  <2>. HIDE DEF P, kept
  <2>. QED BY <2>1, <2>2
<1>5. PICK k : k = kept
  OBVIOUS
<1>6. /\ k \in [1..N -> P] /\ T!Only(q, S) = [n \in 1..N |-> q[k[n]]]
      /\ \A m, n \in 1..N : k[m] = k[n] => m = n
      /\ \A i \in P : \E n \in 1..N : k[n] = i
  <2>. HIDE DEF P, kept
  <2>. QED BY <1>2, <1>3, <1>4, <1>5, RisesOnce
<1>. HIDE DEF kept, N
<1>7. T!Only(q, S) \in Seq(V) /\ Len(T!Only(q, S)) = N
  BY <1>1, <1>2, <1>6
<1>8. T!ToSet(T!Only(q, S)) = T!ToSet(q) \intersect S
  BY <1>6 DEF T!ToSet
<1>9. Distinct(q) => Distinct(T!Only(q, S))
  BY <1>6 DEF Distinct
<1>. QED BY <1>2, <1>7, <1>8, <1>9

-----------------------------------------------------------------------------
(* The state of the tools, u, beside the objects of the client              *)

AnyLayer == Layers \union {T!None, Home[1]}
Tools == {"select", "ruler", "compass", "text", "freehand", "polygon"}
Modes == {"none", "create", "brush", "eraser", "connect", "polygon"}
Ui ==
  [active : Tools, merge : BOOLEAN, session : BOOLEAN, mode : Modes,
   selected : Seq(Nat), outlined : SUBSET Nat, ruler : BOOLEAN, compass : BOOLEAN,
   points : Nat, stroke : Nat \union {T!Nothing}, circle : BOOLEAN,
   marks : SUBSET Nat, hovered : Nat, picked : Nat, layer : AnyLayer]

(* ModesAgree of u.                                                         *)
ModesOf(u) ==
  /\ u.merge => u.active = "select" /\ Len(u.selected) <= 2
  /\ u.session => u.active \in T!Drawing
  /\ (u.active = "freehand") = (u.mode \in {"create", "brush", "eraser", "connect"})
  /\ (u.active = "polygon") = (u.mode = "polygon")
  /\ u.active = "freehand" => u.session = (u.mode = "create")
  /\ u.stroke # T!Nothing => u.active = "freehand"
  /\ u.points > 0 => u.active = "polygon"
  /\ u.ruler => u.active \in T!Drawing \union {"ruler"}
  /\ u.compass => u.active \in T!Drawing \union {"compass"}

(* SelectionAgrees of u, with these objects.                                *)
OneLayer(u, known) == \A o, p \in T!Selected(u) : known[o].layer = known[p].layer

SelectionOf(u, known, mixes, lags) ==
  /\ T!Selected(u) \subseteq u.outlined /\ u.outlined \subseteq DOMAIN known
  /\ T!Selected(u) \subseteq DOMAIN known
  /\ Distinct(u.selected)
  /\ mixes \/ OneLayer(u, known)
  /\ lags \/ u.outlined = T!Selected(u)

Agree(u, known, mixes, lags) == u \in Ui /\ ModesOf(u) /\ SelectionOf(u, known, mixes, lags)

(* u and v have the same selection.                                         *)
SameSelection(u, v) == u.selected = v.selected /\ u.outlined = v.outlined

(* A change of the rest of ui leaves the selection as good as it was.       *)
LEMMA SelectionKept ==
  ASSUME NEW u, NEW v, NEW known, NEW mixes, NEW lags,
         SelectionOf(u, known, mixes, lags), SameSelection(u, v)
  PROVE  SelectionOf(v, known, mixes, lags)
BY DEF SelectionOf, SameSelection, OneLayer, T!Selected

(* An empty selection is a good one.                                        *)
LEMMA NoneSelected ==
  ASSUME NEW u, NEW known, NEW mixes, NEW lags, u.selected = <<>>, u.outlined = {}
  PROVE  SelectionOf(u, known, mixes, lags)
BY DEF SelectionOf, OneLayer, T!Selected, T!ToSet, Distinct

(* A selection of one object that is there is a good one.                   *)
LEMMA OneSelected ==
  ASSUME NEW u, NEW known, NEW mixes, NEW lags, NEW o \in DOMAIN known,
         u.selected = <<o>>, u.outlined = {o}
  PROVE  SelectionOf(u, known, mixes, lags)
<1>1. T!Selected(u) = {o}
  BY DEF T!Selected, T!ToSet
<1>2. Distinct(<<o>>)
  BY DEF Distinct
<1>. QED BY <1>1, <1>2 DEF SelectionOf, OneLayer

(* setSelection: what it selects and what it leaves alone.                  *)
LEMMA SelectOnlyFacts ==
  ASSUME NEW u, NEW q \in Seq(Nat), u \in Ui
  PROVE  /\ T!SelectOnly(u, q) \in Ui
         /\ T!SelectOnly(u, q).selected = q /\ T!SelectOnly(u, q).outlined = T!ToSet(q)
         /\ ModesOf(u) /\ (u.merge => Len(q) <= 2) => ModesOf(T!SelectOnly(u, q))
<1>1. PICK S : S = T!ToSet(q)
  OBVIOUS
<1>2. S \in SUBSET Nat
  BY <1>1 DEF T!ToSet
<1>3. T!SelectOnly(u, q) = [u EXCEPT !.selected = q, !.outlined = S]
  BY <1>1 DEF T!SelectOnly
<1>4. T!SelectOnly(u, q) \in Ui /\ T!SelectOnly(u, q).selected = q /\ T!SelectOnly(u, q).outlined = S
  BY <1>2, <1>3 DEF Ui
<1>5. ModesOf(u) /\ (u.merge => Len(q) <= 2) => ModesOf(T!SelectOnly(u, q))
  BY <1>3 DEF ModesOf, Ui
<1>. QED BY <1>1, <1>4, <1>5

(* clearSelection.                                                          *)
LEMMA ClearedAgrees ==
  ASSUME NEW u, NEW known, NEW mixes, NEW lags, u \in Ui, ModesOf(u)
  PROVE  Agree(T!Cleared(u), known, mixes, lags)
<1>1. /\ T!Cleared(u) \in Ui /\ T!Cleared(u).selected = <<>> /\ T!Cleared(u).outlined = {}
      /\ ModesOf(T!Cleared(u))
  <2>1. PICK q : q = <<>>
    OBVIOUS
  <2>2. T!ToSet(q) = {} /\ q \in Seq(Nat) /\ Len(q) <= 2
    BY <2>1 DEF T!ToSet
  <2>. QED BY <2>1, <2>2, SelectOnlyFacts DEF T!Cleared
<1>. QED BY <1>1, NoneSelected DEF Agree

(* A mark loses its selection.                                              *)
LEMMA UnpickedAgrees ==
  ASSUME NEW u, NEW known, NEW mixes, NEW lags, Agree(u, known, mixes, lags)
  PROVE  Agree(T!Unpicked(u), known, mixes, lags)
<1>1. T!Unpicked(u) \in Ui /\ ModesOf(T!Unpicked(u)) /\ SameSelection(u, T!Unpicked(u))
  BY DEF Agree, T!Unpicked, Ui, ModesOf, SameSelection, T!None
<1>. QED BY <1>1, SelectionKept DEF Agree

(* A click on an object selects it alone.                                   *)
LEMMA SelectOneAgrees ==
  ASSUME NEW u, NEW known, NEW mixes, NEW lags, NEW o \in DOMAIN known, o \in Nat,
         u \in Ui, ModesOf(u)
  PROVE  Agree(T!SelectOnly(u, <<o>>), known, mixes, lags)
<1>. DEFINE v == T!SelectOnly(u, <<o>>)
<1>1. v \in Ui /\ v.selected = <<o>> /\ v.outlined = {o} /\ ModesOf(v)
  <2>1. PICK q : q = <<o>>
    OBVIOUS
  <2>2. T!ToSet(q) = {o} /\ q \in Seq(Nat) /\ Len(q) <= 2
    BY <2>1 DEF T!ToSet
  <2>. QED BY <2>1, <2>2, SelectOnlyFacts
<1>. QED BY <1>1, OneSelected DEF Agree

(* A second click takes an object out of the selection.                     *)
LEMMA DeselectedAgrees ==
  ASSUME NEW u, NEW known, NEW mixes, NEW lags, NEW o, Agree(u, known, mixes, lags)
  PROVE  Agree(T!Deselected(u, o), known, mixes, lags)
<1>. DEFINE v == T!Deselected(u, o)
<1>1. u \in Ui /\ u.selected \in Seq(Nat) /\ ModesOf(u) /\ SelectionOf(u, known, mixes, lags)
  BY DEF Agree, Ui
<1>2. PICK q : q = T!Only(u.selected, T!ToSet(u.selected) \ {o})
  OBVIOUS
<1>3. q \in Seq(Nat) /\ Len(q) <= Len(u.selected) /\ (Distinct(u.selected) => Distinct(q))
      /\ T!ToSet(q) = T!ToSet(u.selected) \ {o}
  BY <1>1, <1>2, OnlyFacts
<1>4. v = [u EXCEPT !.selected = q, !.outlined = @ \ {o}]
  BY <1>2 DEF T!Deselected
<1>5. v \in Ui /\ v.selected = q /\ v.outlined = u.outlined \ {o}
  BY <1>1, <1>3, <1>4 DEF Ui
<1>6. ModesOf(v)
  <2>1. Len(q) \in Nat /\ Len(u.selected) \in Nat
    BY <1>1, <1>3
  <2>. QED BY <1>1, <1>3, <1>4, <2>1 DEF Ui, ModesOf
<1>7. SelectionOf(v, known, mixes, lags)
  BY <1>1, <1>3, <1>5 DEF SelectionOf, OneLayer, T!Selected
<1>. QED BY <1>5, <1>6, <1>7 DEF Agree

(* One more, of the same layer.                                             *)
LEMMA AddedAgrees ==
  ASSUME NEW u, NEW known, NEW mixes, NEW lags, Agree(u, known, mixes, lags),
         NEW o \in DOMAIN known, o \in Nat, o \notin T!Selected(u),
         \A s \in T!Selected(u) : known[s].layer = known[o].layer,
         u.merge => Len(u.selected) < 2
  PROVE  Agree(T!Added(u, o), known, mixes, lags)
<1>. DEFINE v == T!Added(u, o)
<1>1. u \in Ui /\ u.selected \in Seq(Nat) /\ ModesOf(u) /\ SelectionOf(u, known, mixes, lags)
  BY DEF Agree, Ui
<1>2. PICK q : q = Append(u.selected, o)
  OBVIOUS
<1>3. /\ q \in Seq(Nat) /\ Len(q) = Len(u.selected) + 1 /\ Len(u.selected) \in Nat
      /\ \A i \in 1..Len(u.selected) : q[i] = u.selected[i]
      /\ q[Len(q)] = o /\ DOMAIN q = 1..(Len(u.selected) + 1) /\ DOMAIN u.selected = 1..Len(u.selected)
  BY <1>1, <1>2
<1>4. T!ToSet(q) = T!Selected(u) \union {o}
  BY <1>3 DEF T!ToSet, T!Selected
<1>5. v = [u EXCEPT !.selected = q, !.outlined = @ \union {o}]
  BY <1>2 DEF T!Added
<1>6. v \in Ui /\ v.selected = q /\ v.outlined = u.outlined \union {o}
  <2>1. PICK S : S = u.outlined \union {o}
    OBVIOUS
  <2>2. S \in SUBSET Nat
    BY <1>1, <2>1 DEF Ui
  <2>3. v = [u EXCEPT !.selected = q, !.outlined = S]
    BY <1>5, <2>1, <1>1 DEF Ui
  <2>. QED BY <1>1, <1>3, <2>1, <2>2, <2>3 DEF Ui
<1>7. ModesOf(v)
  BY <1>1, <1>3, <1>5 DEF Ui, ModesOf
<1>8. Distinct(q)
  <2>1. Distinct(u.selected) /\ \A i \in 1..Len(u.selected) : u.selected[i] # o
    BY <1>1, <1>3 DEF SelectionOf, T!Selected, T!ToSet
  <2>2. ASSUME NEW i \in DOMAIN q, NEW j \in DOMAIN q, q[i] = q[j] PROVE i = j
    <3>1. \A k \in DOMAIN q : k \in 1..Len(u.selected) \/ k = Len(q)
      BY <1>3
    <3>2. \A k, l \in 1..Len(u.selected) : q[k] = q[l] => k = l
      BY <1>3, <2>1 DEF Distinct
    <3>. QED BY <1>3, <2>1, <2>2, <3>1, <3>2
  <2>. QED BY <2>2 DEF Distinct
<1>9. SelectionOf(v, known, mixes, lags)
  BY <1>1, <1>4, <1>6, <1>8 DEF SelectionOf, OneLayer, T!Selected
<1>. QED BY <1>6, <1>7, <1>9 DEF Agree

(* onRecordsRebuilt: the selection loses what is gone.                      *)
LEMMA RebuiltAgrees ==
  ASSUME NEW u, NEW known, NEW new, NEW mixes, NEW lags, NEW S, Agree(u, known, mixes, lags),
         S \subseteq DOMAIN new,
         mixes \/ \A s \in T!Selected(u) \intersect S : new[s].layer = known[s].layer
  PROVE  Agree(T!Rebuilt(u, S), new, mixes, lags)
<1>. DEFINE v == T!Rebuilt(u, S)
<1>1. u \in Ui /\ u.selected \in Seq(Nat) /\ ModesOf(u) /\ SelectionOf(u, known, mixes, lags)
  BY DEF Agree, Ui
<1>2. PICK q : q = T!Only(u.selected, S)
  OBVIOUS
<1>3. q \in Seq(Nat) /\ Len(q) <= Len(u.selected) /\ (Distinct(u.selected) => Distinct(q))
      /\ T!ToSet(q) = T!ToSet(u.selected) \intersect S
  BY <1>1, <1>2, OnlyFacts
<1>4. v = T!SelectOnly(u, q)
  BY <1>2 DEF T!Rebuilt
<1>5. u.merge => Len(q) <= 2
  BY <1>1, <1>3 DEF ModesOf
<1>6. v \in Ui /\ v.selected = q /\ v.outlined = T!ToSet(q) /\ ModesOf(v)
  BY <1>1, <1>3, <1>4, <1>5, SelectOnlyFacts
<1>7. SelectionOf(v, new, mixes, lags)
  BY <1>1, <1>3, <1>6 DEF SelectionOf, OneLayer, T!Selected
<1>. QED BY <1>6, <1>7 DEF Agree

(* cancelMergeMode.                                                         *)
LEMMA MergeCancelledAgrees ==
  ASSUME NEW u, NEW known, NEW mixes, NEW lags, Agree(u, known, mixes, lags)
  PROVE  Agree(T!MergeCancelled(u), known, mixes, lags) /\ ~T!MergeCancelled(u).merge
<1>1. CASE ~u.merge
  BY <1>1 DEF T!MergeCancelled
<1>2. CASE u.merge
  <2>1. PICK v : v = T!Cleared(u)
    OBVIOUS
  <2>2. Agree(v, known, mixes, lags)
    BY <2>1, ClearedAgrees DEF Agree
  <2>3. PICK w : w = [v EXCEPT !.merge = FALSE]
    OBVIOUS
  <2>4. w \in Ui /\ ModesOf(w) /\ ~w.merge /\ SameSelection(v, w)
    BY <2>2, <2>3 DEF Agree, Ui, ModesOf, SameSelection
  <2>5. Agree(w, known, mixes, lags)
    BY <2>2, <2>4, SelectionKept DEF Agree
  <2>. QED BY <1>2, <2>1, <2>3, <2>4, <2>5 DEF T!MergeCancelled
<1>3. u.merge \in BOOLEAN
  BY DEF Agree, Ui
<1>. QED BY <1>1, <1>2, <1>3

(* setTool.                                                                 *)
LEMMA ToolSetAgrees ==
  ASSUME NEW u, NEW known, NEW mixes, NEW lags, Agree(u, known, mixes, lags), NEW t \in T!Buttons
  PROVE  Agree(T!ToolSet(u, t), known, mixes, lags)
         /\ (~u.merge \/ t # "select" => ~T!ToolSet(u, t).merge)
<1>1. PICK v : v = IF t = "select" THEN u ELSE T!MergeCancelled(u)
  OBVIOUS
<1>2. Agree(v, known, mixes, lags) /\ (t # "select" => ~v.merge) /\ (t = "select" => v = u)
  BY <1>1, MergeCancelledAgrees
<1>3. PICK w : w = T!ToolSet(u, t)
  OBVIOUS
<1>4. w = [v EXCEPT !.stroke = T!Nothing, !.points = 0, !.ruler = FALSE, !.compass = FALSE,
                    !.session = FALSE, !.active = t, !.mode = "none"]
  BY <1>1, <1>2, <1>3 DEF T!ToolSet, T!Deactivated, Agree, Ui
<1>5. w \in Ui /\ ModesOf(w) /\ SameSelection(v, w) /\ w.merge = v.merge
  <2>1. v \in Ui /\ ModesOf(v)
    BY <1>2 DEF Agree
  <2>2. t \in Tools /\ "none" \in Modes /\ T!Nothing \in Nat \union {T!Nothing}
    BY DEF T!Buttons, Tools, Modes, T!Nothing
  <2>3. w \in Ui
    BY <1>4, <2>1, <2>2 DEF Ui
  <2>4. /\ w.active = t /\ w.mode = "none" /\ w.stroke = T!Nothing /\ w.points = 0 /\ ~w.ruler /\ ~w.compass
        /\ ~w.session /\ w.merge = v.merge /\ w.selected = v.selected /\ w.outlined = v.outlined
    BY <1>4, <2>1 DEF Ui
  <2>5. w.merge => w.active = "select" /\ Len(w.selected) <= 2
    BY <1>2, <2>1, <2>4 DEF ModesOf
  <2>6. t # "freehand" /\ t # "polygon"
    BY DEF T!Buttons
  <2>. QED BY <2>3, <2>4, <2>5, <2>6 DEF ModesOf, SameSelection
<1>6. Agree(w, known, mixes, lags)
  BY <1>2, <1>5, SelectionKept DEF Agree
<1>. QED BY <1>2, <1>3, <1>5, <1>6

(* cancelActiveTool, the Escape key.                                        *)
LEMMA CancelledAgrees ==
  ASSUME NEW u, NEW known, NEW mixes, NEW lags, Agree(u, known, mixes, lags)
  PROVE  Agree(T!Cancelled(u), known, mixes, lags) /\ ~T!Cancelled(u).merge
<1>1. PICK v : v = T!MergeCancelled(u)
  OBVIOUS
<1>2. Agree(v, known, mixes, lags) /\ ~v.merge
  BY <1>1, MergeCancelledAgrees
<1>3. PICK w : w = [v EXCEPT !.circle = FALSE]
  OBVIOUS
<1>4. w \in Ui /\ ModesOf(w) /\ ~w.merge /\ SameSelection(v, w)
  BY <1>2, <1>3 DEF Agree, Ui, ModesOf, SameSelection
<1>5. Agree(w, known, mixes, lags)
  BY <1>2, <1>4, SelectionKept DEF Agree
<1>. QED BY <1>1, <1>3, <1>4, <1>5, ToolSetAgrees DEF T!Cancelled, T!Buttons

(* startFreehandEdit, and the polygon mode that ends it.                    *)
LEMMA DrawnAgrees ==
  ASSUME NEW u, NEW known, NEW mixes, NEW lags, u \in Ui, SelectionOf(u, known, mixes, lags),
         ~u.merge, NEW m \in Modes \ {"none"}, m # "polygon" => u.session = (m = "create")
  PROVE  Agree(T!Drawn(u, m), known, mixes, lags)
<1>1. PICK w : w = T!Drawn(u, m)
  OBVIOUS
<1>2. w = [u EXCEPT !.stroke = T!Nothing, !.points = 0, !.mode = m,
                    !.active = IF m = "polygon" THEN "polygon" ELSE "freehand"]
  BY <1>1 DEF T!Drawn
<1>3. w \in Ui
  <2>1. PICK t : t = IF m = "polygon" THEN "polygon" ELSE "freehand"
    OBVIOUS
  <2>2. t \in Tools /\ m \in Modes /\ T!Nothing \in Nat \union {T!Nothing}
    BY <2>1 DEF Tools, T!Nothing
  <2>. QED BY <1>2, <2>1, <2>2 DEF Ui
<1>4. ModesOf(w) /\ SameSelection(u, w)
  BY <1>2, <1>3 DEF Ui, ModesOf, SameSelection, T!Drawing, Modes
<1>. QED BY <1>1, <1>3, <1>4, SelectionKept DEF Agree

(* setEditDrawMode.                                                         *)
LEMMA ModeSetAgrees ==
  ASSUME NEW u, NEW known, NEW mixes, NEW lags, u \in Ui, SelectionOf(u, known, mixes, lags),
         ~u.merge, NEW m \in {"brush", "eraser", "polygon", "connect"},
         m \in {"eraser", "connect"} => ~u.session
  PROVE  Agree(T!ModeSet(u, m), known, mixes, lags)
<1>1. u.session \in BOOLEAN
  BY DEF Ui
<1>2. PICK n : n = IF u.session /\ m # "polygon" THEN "create" ELSE m
  OBVIOUS
<1>3. n \in Modes \ {"none"} /\ (n # "polygon" => u.session = (n = "create"))
  BY <1>1, <1>2 DEF Modes
<1>. QED BY <1>2, <1>3, DrawnAgrees DEF T!ModeSet

(* startCreateArea, startPolygonMode and startManualConnectMode.            *)
LEMMA StartingAgrees ==
  ASSUME NEW u, NEW known, NEW mixes, NEW lags, Agree(u, known, mixes, lags),
         NEW m \in {"brush", "polygon", "connect"}
  PROVE  Agree(T!Starting(u, m), known, mixes, lags)
<1>1. PICK v : v = T!DrawingEnded(u)
  OBVIOUS
<1>2. v \in Ui /\ ModesOf(v)
  <2>1. CASE u.active \in T!Drawing
    <3>1. v = [u EXCEPT !.stroke = T!Nothing, !.points = 0, !.ruler = FALSE, !.compass = FALSE]
      BY <1>1, <2>1 DEF T!DrawingEnded, T!Deactivated
    <3>2. T!Nothing \in Nat \union {T!Nothing} /\ u \in Ui /\ ModesOf(u)
      BY DEF T!Nothing, Agree
    <3>3. v \in Ui
      BY <3>1, <3>2 DEF Ui
    <3>4. /\ v.stroke = T!Nothing /\ v.points = 0 /\ ~v.ruler /\ ~v.compass /\ v.active = u.active /\ v.mode = u.mode
          /\ v.session = u.session /\ v.merge = u.merge /\ v.selected = u.selected
      BY <3>1, <3>2 DEF Ui
    <3>. QED BY <3>2, <3>3, <3>4 DEF ModesOf
  <2>2. CASE u.active \notin T!Drawing
    BY <1>1, <2>2 DEF T!DrawingEnded, Agree
  <2>. QED BY <2>1, <2>2
<1>3. PICK c : c = T!Cleared(v)
  OBVIOUS
<1>4. Agree(c, known, mixes, lags)
  BY <1>2, <1>3, ClearedAgrees
<1>5. PICK w : w = [c EXCEPT !.merge = FALSE, !.session = m # "connect"]
  OBVIOUS
<1>6. w \in Ui /\ ~w.merge /\ SameSelection(c, w) /\ w.session = (m # "connect")
  BY <1>4, <1>5 DEF Agree, Ui, SameSelection
<1>7. SelectionOf(w, known, mixes, lags)
  BY <1>4, <1>6, SelectionKept DEF Agree
<1>8. T!Starting(u, m) = T!ModeSet(w, m)
  BY <1>1, <1>3, <1>5 DEF T!Starting
<1>. QED BY <1>6, <1>7, <1>8, ModeSetAgrees

(* openEditAreaMode.                                                        *)
LEMMA EditingAgrees ==
  ASSUME NEW u, NEW mixes, NEW lags, Agree(u, records, mixes, lags),
         records[u.selected[1]].layer \in AnyLayer
  PROVE  Agree(T!Editing(u), records, mixes, lags)
<1>1. PICK l \in AnyLayer : l = records[u.selected[1]].layer
  OBVIOUS
<1>2. PICK w : w = [u EXCEPT !.merge = FALSE, !.session = FALSE, !.layer = l]
  OBVIOUS
<1>3. w \in Ui /\ ~w.merge /\ ~w.session /\ SameSelection(u, w)
  BY <1>2 DEF Agree, Ui, SameSelection
<1>4. SelectionOf(w, records, mixes, lags)
  BY <1>3, SelectionKept DEF Agree
<1>5. T!Editing(u) = T!ModeSet(w, "brush")
  BY <1>1, <1>2 DEF T!Editing
<1>. QED BY <1>3, <1>4, <1>5, ModeSetAgrees

(* startMergePolygonsMode.                                                  *)
LEMMA MergingAgrees ==
  ASSUME NEW u, NEW known, NEW mixes, NEW lags, Agree(u, known, mixes, lags)
  PROVE  Agree(T!Merging(u), known, mixes, lags)
<1>1. PICK v : v = IF u.active \in T!Drawing THEN T!Cancelled(u) ELSE u
  OBVIOUS
<1>2. Agree(v, known, mixes, lags)
  BY <1>1, CancelledAgrees
<1>3. PICK c : c = T!Cleared(v)
  OBVIOUS
<1>4. Agree(c, known, mixes, lags) /\ c.selected = <<>>
  <2>1. v \in Ui
    BY <1>2 DEF Agree
  <2>2. c.selected = <<>>
    BY <1>3, <2>1 DEF T!Cleared, T!SelectOnly, Ui
  <2>. QED BY <1>2, <1>3, <2>2, ClearedAgrees DEF Agree
<1>5. PICK w : w = [c EXCEPT !.merge = TRUE]
  OBVIOUS
<1>6. w \in Ui /\ w.selected = <<>> /\ SameSelection(c, w) /\ w.merge
  BY <1>4, <1>5 DEF Agree, Ui, SameSelection
<1>7. PICK x : x = [w EXCEPT !.stroke = T!Nothing, !.points = 0, !.ruler = FALSE, !.compass = FALSE,
                             !.session = FALSE, !.active = "select", !.mode = "none"]
  OBVIOUS
<1>8. x \in Ui /\ SameSelection(w, x) /\ x.selected = <<>> /\ ModesOf(x)
  <2>1. "select" \in Tools /\ "none" \in Modes /\ T!Nothing \in Nat \union {T!Nothing}
    BY DEF Tools, Modes, T!Nothing
  <2>2. x \in Ui
    BY <1>6, <1>7, <2>1 DEF Ui
  <2>3. /\ x.active = "select" /\ x.mode = "none" /\ x.stroke = T!Nothing /\ x.points = 0 /\ ~x.ruler /\ ~x.compass
        /\ ~x.session /\ x.selected = <<>> /\ x.outlined = w.outlined
    BY <1>6, <1>7 DEF Ui
  <2>. QED BY <1>6, <2>2, <2>3 DEF ModesOf, SameSelection
<1>9. T!Merging(u) = x
  BY <1>1, <1>3, <1>5, <1>6, <1>7 DEF T!Merging, T!ToolSet, T!Deactivated, Ui
<1>10. Agree(x, known, mixes, lags)
  BY <1>4, <1>6, <1>8, SelectionKept DEF Agree
<1>. QED BY <1>9, <1>10

(* resetTools.                                                              *)
LEMMA ResetAgrees ==
  ASSUME NEW u, NEW known, NEW mixes, NEW lags, Agree(u, known, mixes, lags)
  PROVE  Agree(T!Reset(u), known, mixes, lags)
<1>1. PICK v : v = T!Cancelled(u)
  OBVIOUS
<1>2. PICK c : c = T!Cleared(v)
  OBVIOUS
<1>3. Agree(c, known, mixes, lags)
  BY <1>1, <1>2, CancelledAgrees, ClearedAgrees DEF Agree
<1>4. PICK w : w = [c EXCEPT !.marks = {}, !.hovered = T!None, !.picked = T!None]
  OBVIOUS
<1>5. w \in Ui /\ ModesOf(w) /\ SameSelection(c, w)
  BY <1>3, <1>4 DEF Agree, Ui, ModesOf, SameSelection, T!None
<1>6. T!Reset(u) = w
  BY <1>1, <1>2, <1>4 DEF T!Reset
<1>. QED BY <1>3, <1>5, <1>6, SelectionKept DEF Agree

(* selectFeature, with and without a modifier key.                          *)
LEMMA FeatureAgrees ==
  ASSUME NEW u, NEW mixes, NEW lags, Agree(u, records, mixes, lags), ~u.merge,
         NEW o \in DOMAIN records, o \in Nat, NEW multi \in BOOLEAN
  PROVE  Agree(T!Feature(u, o, multi), records, mixes, lags)
<1>1. CASE multi /\ o \in T!Selected(u)
  BY <1>1, DeselectedAgrees DEF T!Feature
<1>2. CASE ~(multi /\ o \in T!Selected(u)) /\ multi /\ T!SameLayer(u, o)
  <2>1. Agree(T!Added(u, o), records, mixes, lags)
    BY <1>2, AddedAgrees DEF T!SameLayer
  <2>. QED BY <1>2, <2>1, UnpickedAgrees DEF T!Feature
<1>3. CASE ~(multi /\ o \in T!Selected(u)) /\ ~(multi /\ T!SameLayer(u, o))
  <2>1. Agree(T!SelectOnly(u, <<o>>), records, mixes, lags)
    BY SelectOneAgrees DEF Agree
  <2>2. T!Feature(u, o, multi) = T!Unpicked(T!SelectOnly(u, <<o>>))
    BY <1>3 DEF T!Feature
  <2>. QED BY <2>1, <2>2, UnpickedAgrees
<1>. QED BY <1>1, <1>2, <1>3

(* toggleMergeSelection: two objects at most, of one layer.                 *)
LEMMA ToggledAgrees ==
  ASSUME NEW u, NEW mixes, NEW lags, Agree(u, records, mixes, lags),
         NEW o \in DOMAIN records, o \in Nat
  PROVE  Agree(T!Toggled(u, o), records, mixes, lags)
<1>1. CASE o \in T!Selected(u)
  BY <1>1, DeselectedAgrees DEF T!Toggled
<1>2. CASE o \notin T!Selected(u) /\ Len(u.selected) < 2
           /\ (u.selected # <<>> => records[u.selected[1]].layer = records[o].layer)
  <2>1. u.selected \in Seq(Nat)
    BY DEF Agree, Ui
  <2>2. \A s \in T!Selected(u) : records[s].layer = records[o].layer
    <3>1. Len(u.selected) = 0 \/ Len(u.selected) = 1
      <4>1. PICK n : n = Len(u.selected)
        OBVIOUS
      <4>2. n \in Nat /\ n < 2
        BY <1>2, <2>1, <4>1
      <4>3. n = 0 \/ n = 1
        BY <4>2
      <4>. QED BY <4>1, <4>3
    <3>2. \A s \in T!Selected(u) : u.selected # <<>> /\ s = u.selected[1]
      BY <2>1, <3>1 DEF T!Selected, T!ToSet
    <3>. QED BY <1>2, <3>2
  <2>3. Agree(T!Added(u, o), records, mixes, lags)
    BY <1>2, <2>2, AddedAgrees
  <2>. QED BY <1>2, <2>3 DEF T!Toggled
<1>3. CASE o \notin T!Selected(u) /\ ~(Len(u.selected) < 2
           /\ (u.selected # <<>> => records[u.selected[1]].layer = records[o].layer))
  BY <1>3 DEF T!Toggled
<1>. QED BY <1>1, <1>2, <1>3

-----------------------------------------------------------------------------
(* The state behind the tools                                               *)

TaskDo == {"create", "brush", "eraser", "connect", "polygon", "move", "delete", "merge", "circle"}
TaskSet == [do : TaskDo, ids : Seq(Nat), layer : AnyLayer, n : Nat]
RequestSet ==
  [do : {"add", "patch", "move", "merge", "delete"}, ids : Seq(Nat), layer : AnyLayer,
   shape : SUBSET Nat, loses : SUBSET Nat, selects : BOOLEAN, served : BOOLEAN]
Object == [layer : AnyLayer, shape : SUBSET Nat]

TwoOf(ids) == Len(ids) = 2 /\ ids[1] # ids[2]

(* The objects have had ids from 1 on; those that are there have one.       *)
Typed ==
  /\ records \in [DOMAIN records -> Object] /\ server \in [DOMAIN server -> Object]
  /\ applied \in Seq(SUBSET Nat)
  /\ DOMAIN records \subseteq 1..Len(applied) /\ DOMAIN server \subseteq 1..Len(applied)
  /\ queued \in Nat /\ mixed \in BOOLEAN /\ late \in BOOLEAN
  /\ queue \in Seq(TaskSet) /\ flight \in Seq(RequestSet)

TaskFits(t) ==
  /\ t.do = "merge" => TwoOf(t.ids)
  /\ t.do = "delete" => t.ids # <<>>
  /\ t.do = "circle" => t.ids = <<>>

TasksFit ==
  \A n \in DOMAIN queue : TaskFits(queue[n])

(* What the user was told of the objects of r is in its shape, but for what *)
(* it loses.                                                                *)
Keeps(r, told) ==
  (told[r.ids[1]] \union (IF r.do = "merge" THEN told[r.ids[2]] ELSE {})) \ r.loses \subseteq r.shape

RequestFits(r, told) ==
  /\ r.do # "add" \/ r.served => r.ids # <<>>
  /\ r.do = "merge" => TwoOf(r.ids)
  /\ r.selects => r.do = "merge"
  /\ r.do \in {"patch", "move", "merge"} => T!ToSet(r.ids) \subseteq DOMAIN told
  /\ r.do \in {"patch", "merge"} \/ (r.served /\ r.do # "delete") =>
       r.ids[1] \in DOMAIN told /\ Keeps(r, told)

(* What the server has done that the client does not know of yet.           *)
ServedFits(r, known) ==
  r.served =>
    /\ r.do = "delete" => r.ids[1] \notin DOMAIN known
    /\ r.do # "delete" /\ r.ids[1] \in DOMAIN known => known[r.ids[1]].shape = r.shape
    /\ r.do = "merge" => r.ids[2] \notin DOMAIN known

(* A request at a time, see StrokesStay.                                    *)
FlightFits ==
  /\ Len(flight) <= 1
  /\ \A i \in DOMAIN flight : RequestFits(flight[i], applied) /\ ServedFits(flight[i], server)

StrokesAreThere ==
  /\ \A o \in DOMAIN records : applied[o] \subseteq records[o].shape
  /\ \A o \in DOMAIN server :
       (\A i \in DOMAIN flight : flight[i].served => flight[i].ids[1] # o)
         => applied[o] \subseteq server[o].shape

ToolsInv ==
  Typed /\ Agree(ui, records, mixed, late) /\ TasksFit /\ FlightFits /\ StrokesAreThere

-----------------------------------------------------------------------------
(* What an event does to the tools                                          *)

(* The ghosts mixed and late follow the selection.                          *)
LEMMA BecomesAgrees ==
  ASSUME NEW u, NEW known, NEW mixes \in BOOLEAN, NEW lags \in BOOLEAN,
         Agree(u, known, mixes, lags), T!Becomes(u, mixes, lags)
  PROVE  Agree(ui', known, mixed', late') /\ mixed' \in BOOLEAN /\ late' \in BOOLEAN
<1>1. /\ ui' = u /\ mixed' = (mixes /\ Len(u.selected) > 1)
      /\ late' = (lags /\ u.outlined # T!Selected(u))
  BY DEF T!Becomes
<1>2. u \in Ui /\ u.selected \in Seq(Nat) /\ ModesOf(u) /\ SelectionOf(u, known, mixes, lags)
  BY DEF Agree, Ui
<1>3. ~ (Len(u.selected) > 1) => OneLayer(u, known)
  <2>1. ASSUME ~ (Len(u.selected) > 1), NEW o \in T!Selected(u), NEW p \in T!Selected(u) PROVE o = p
    <3>1. PICK i \in DOMAIN u.selected, j \in DOMAIN u.selected : o = u.selected[i] /\ p = u.selected[j]
      BY DEF T!Selected, T!ToSet
    <3>2. i = j
      <4>1. PICK n : n = Len(u.selected)
        OBVIOUS
      <4>2. n \in Nat /\ ~ (n > 1) /\ i \in 1..n /\ j \in 1..n
        BY <1>2, <2>1, <4>1
      <4>. QED BY <4>2
    <3>. QED BY <3>1, <3>2
  <2>. QED BY <2>1 DEF OneLayer
<1>4. SelectionOf(u, known, mixed', late')
  BY <1>1, <1>2, <1>3 DEF SelectionOf
<1>. QED BY <1>1, <1>2, <1>4 DEF Agree

(* Any change of ui that agrees keeps the invariant.                        *)
LEMMA ShowKeeps ==
  ASSUME ToolsInv, NEW u, T!Show(u), Agree(u, records, mixed, late)
  PROVE  ToolsInv'
<1>1. UNCHANGED <<records, hidden, server, queue, flight, queued, elsewhere, applied>>
      /\ T!Becomes(u, mixed, late)
  BY DEF T!Show
<1>2. Agree(ui', records, mixed', late') /\ mixed' \in BOOLEAN /\ late' \in BOOLEAN
  BY <1>1, BecomesAgrees DEF ToolsInv, Typed
<1>. QED BY <1>1, <1>2 DEF ToolsInv, Typed, TasksFit, FlightFits, StrokesAreThere

(* The same objects, another state of the tools.                            *)
LEMMA ObjectsKnown ==
  ASSUME ToolsInv
  PROVE  /\ ui \in Ui /\ ui.selected \in Seq(Nat) /\ ModesOf(ui) /\ T!Selected(ui) \subseteq DOMAIN records
         /\ \A o \in DOMAIN records : o \in Nat /\ records[o].layer \in AnyLayer
         /\ \A i \in DOMAIN ui.selected : ui.selected[i] \in DOMAIN records
<1>1. ui \in Ui /\ ui.selected \in Seq(Nat) /\ ModesOf(ui) /\ T!Selected(ui) \subseteq DOMAIN records
  BY DEF ToolsInv, Agree, SelectionOf, Ui
<1>2. \A i \in DOMAIN ui.selected : ui.selected[i] \in DOMAIN records
  BY <1>1 DEF T!Selected, T!ToSet
<1>3. ASSUME NEW o \in DOMAIN records PROVE o \in Nat /\ records[o].layer \in AnyLayer
  <2>1. records[o] \in Object /\ o \in 1..Len(applied) /\ applied \in Seq(SUBSET Nat)
    BY DEF ToolsInv, Typed
  <2>. QED BY <2>1 DEF Object
<1>. QED BY <1>1, <1>2, <1>3

(* A click on an object, or in the list of objects.                         *)
LEMMA ClickKeeps ==
  ASSUME ToolsInv, NEW o, NEW multi \in BOOLEAN, T!ObjectClick(o, multi) \/ (T!SelectFromList(o) /\ multi = FALSE)
  PROVE  ToolsInv'
<1>. USE ObjectsKnown
<1>1. Agree(ui, records, mixed, late)
  BY DEF ToolsInv
<1>2. CASE T!ObjectClick(o, multi)
  <2>1. o \in DOMAIN records /\ o \in Nat
    BY <1>2 DEF T!ObjectClick, T!Visible
  <2>2. Agree(T!Toggled(ui, o), records, mixed, late)
    BY <1>1, <2>1, ToggledAgrees
  <2>3. ui.selected = <<o>> => Agree(T!Editing(ui), records, mixed, late)
    BY <1>1, <2>1, EditingAgrees
  <2>4. ~ui.merge => Agree(T!Feature(T!Unpicked(ui), o, multi), records, mixed, late)
    <3>1. PICK v : v = T!Unpicked(ui)
      OBVIOUS
    <3>2. Agree(v, records, mixed, late) /\ v.merge = ui.merge
      BY <1>1, <3>1, UnpickedAgrees DEF T!Unpicked, Ui
    <3>. QED BY <2>1, <3>1, <3>2, FeatureAgrees
  <2>5. ui.merge \in BOOLEAN
    BY DEF Ui
  <2>. QED BY <1>2, <2>2, <2>3, <2>4, <2>5, ShowKeeps DEF T!ObjectClick
<1>3. CASE T!SelectFromList(o)
  <2>1. PICK v : v = IF ui.active = "select" THEN ui ELSE T!ToolSet(ui, "select")
    OBVIOUS
  <2>2. Agree(v, records, mixed, late)
    BY <1>1, <2>1, ToolSetAgrees DEF T!Buttons
  <2>3. T!Show(T!Feature(v, o, FALSE)) /\ o \in DOMAIN records /\ o \in Nat
    BY <1>3, <2>1 DEF T!SelectFromList
  <2>4. Agree(T!Feature(v, o, FALSE), records, mixed, late)
    BY <2>2, <2>3, SelectOneAgrees, UnpickedAgrees DEF T!Feature, Agree
  <2>. QED BY <2>3, <2>4, ShowKeeps
<1>. QED BY <1>2, <1>3

(* Marks, drafts and the popup have no part in the selection.               *)
LEMMA MarkedFacts ==
  ASSUME T!MapToolsAssumption, NEW u \in Ui
  PROVE  /\ T!Marked(u) \in Ui
         /\ \E S \in SUBSET Nat : T!Marked(u) = [u EXCEPT !.marks = S]
<1>1. PICK S : S = u.marks \union (IF 1..MaxMarks \ u.marks = {} THEN {}
                                   ELSE {CHOOSE i \in 1..MaxMarks \ u.marks : TRUE})
  OBVIOUS
<1>2. MaxMarks \in Nat /\ u.marks \in SUBSET Nat
  BY DEF T!MapToolsAssumption, Ui
<1>3. S \in SUBSET Nat
  <2>1. 1..MaxMarks \ u.marks # {} => (CHOOSE i \in 1..MaxMarks \ u.marks : TRUE) \in Nat
    BY <1>2
  <2>. QED BY <1>1, <1>2, <2>1
<1>4. T!Marked(u) = [u EXCEPT !.marks = S]
  BY <1>1 DEF T!Marked
<1>. QED BY <1>3, <1>4 DEF Ui

(* A draft that is drawn or dropped changes nothing else.                   *)
LEMMA DraftAgrees ==
  ASSUME NEW u \in Ui, NEW v \in Ui, NEW known, NEW mixes, NEW lags, Agree(u, known, mixes, lags),
         SameSelection(u, v), v.active = u.active, v.mode = u.mode, v.merge = u.merge, v.session = u.session,
         v.stroke # T!Nothing => u.active = "freehand", v.points > 0 => u.active = "polygon",
         v.ruler => u.active \in T!Drawing \union {"ruler"}, v.compass => u.active \in T!Drawing \union {"compass"}
  PROVE  Agree(v, known, mixes, lags)
<1>1. ModesOf(v)
  BY DEF Agree, ModesOf, SameSelection
<1>. QED BY <1>1, SelectionKept DEF Agree

(* A click on the map, for whichever tool is active.                        *)
LEMMA MapClickKeeps ==
  ASSUME T!MapToolsAssumption, ToolsInv, T!MapClick
  PROVE  ToolsInv'
<1>. DEFINE u == [ui EXCEPT !.circle = FALSE]
<1>1. ui \in Ui /\ ModesOf(ui) /\ Agree(ui, records, mixed, late)
  BY ObjectsKnown DEF ToolsInv
<1>2. u \in Ui /\ SameSelection(ui, u) /\ \A f \in DOMAIN ui \ {"circle"} : u[f] = ui[f]
  BY <1>1 DEF Ui, SameSelection
<1>3. PICK w : w = u
  OBVIOUS
<1>4. /\ w \in Ui /\ w.active = ui.active /\ w.mode = ui.mode /\ w.merge = ui.merge /\ w.session = ui.session
      /\ w.stroke = ui.stroke /\ w.points = ui.points /\ w.ruler = ui.ruler /\ w.compass = ui.compass
      /\ w.selected = ui.selected /\ w.outlined = ui.outlined
  BY <1>1, <1>3 DEF Ui
<1>. HIDE DEF u
<1>5. Agree(w, records, mixed, late) /\ ModesOf(w)
  BY <1>1, <1>4, DraftAgrees DEF SameSelection, ModesOf, Agree
<1>6. CASE ui.active = "select" /\ T!Show(T!Unpicked(T!Cleared(w)))
  BY <1>5, <1>6, ClearedAgrees, UnpickedAgrees, ShowKeeps DEF Agree
<1>7. ASSUME NEW m, m = w \/ m = T!Marked(w)
      PROVE  /\ m \in Ui /\ m.active = ui.active /\ m.mode = ui.mode /\ m.merge = ui.merge /\ m.session = ui.session
             /\ m.stroke = ui.stroke /\ m.points = ui.points /\ m.ruler = ui.ruler /\ m.compass = ui.compass
             /\ m.selected = ui.selected /\ m.outlined = ui.outlined
  <2>1. CASE m = w
    BY <1>4, <2>1
  <2>2. CASE m = T!Marked(w)
    <3>1. PICK S \in SUBSET Nat : m = [w EXCEPT !.marks = S]
      BY <1>4, <2>2, MarkedFacts
    <3>. QED BY <1>4, <3>1 DEF Ui
  <2>. QED BY <1>7, <2>1, <2>2
<1>8. CASE ui.active = "ruler" /\ T!Show([IF ui.ruler THEN T!Marked(w) ELSE w EXCEPT !.ruler = ~@])
  <2>1. PICK m : m = IF ui.ruler THEN T!Marked(w) ELSE w
    OBVIOUS
  <2>2. PICK n : n = [m EXCEPT !.ruler = ~@]
    OBVIOUS
  <2>3. m \in Ui /\ m.active = "ruler"
    BY <1>7, <1>8, <2>1
  <2>4. /\ n \in Ui /\ n.active = ui.active /\ n.mode = ui.mode /\ n.merge = ui.merge /\ n.session = ui.session
        /\ n.stroke = ui.stroke /\ n.points = ui.points /\ n.compass = ui.compass
        /\ n.selected = ui.selected /\ n.outlined = ui.outlined
    BY <1>7, <2>1, <2>2 DEF Ui
  <2>5. Agree(n, records, mixed, late)
    BY <1>1, <1>8, <2>4, DraftAgrees DEF SameSelection, ModesOf
  <2>. QED BY <1>8, <2>1, <2>2, <2>5, ShowKeeps
<1>9. CASE ui.active = "compass" /\ T!Show([IF ui.compass THEN T!Marked(w) ELSE w EXCEPT
                                            !.compass = ~@, !.circle = ui.compass])
  <2>1. PICK m : m = IF ui.compass THEN T!Marked(w) ELSE w
    OBVIOUS
  <2>2. PICK n : n = [m EXCEPT !.compass = ~@, !.circle = ui.compass]
    OBVIOUS
  <2>3. m \in Ui /\ ui.compass \in BOOLEAN
    BY <1>1, <1>7, <2>1 DEF Ui
  <2>6. PICK b \in BOOLEAN : b = ~m.compass
    BY <2>3 DEF Ui
  <2>7. n = [m EXCEPT !.compass = b, !.circle = ui.compass]
    BY <2>2, <2>3, <2>6 DEF Ui
  <2>4. /\ n \in Ui /\ n.active = ui.active /\ n.mode = ui.mode /\ n.merge = ui.merge /\ n.session = ui.session
        /\ n.stroke = ui.stroke /\ n.points = ui.points /\ n.ruler = ui.ruler
        /\ n.selected = ui.selected /\ n.outlined = ui.outlined
    BY <1>7, <2>1, <2>3, <2>7 DEF Ui
  <2>5. Agree(n, records, mixed, late)
    BY <1>1, <1>9, <2>4, DraftAgrees DEF SameSelection, ModesOf
  <2>. QED BY <1>9, <2>1, <2>2, <2>5, ShowKeeps
<1>10. CASE ui.active = "text" /\ T!Show(T!Marked(w))
  <2>1. PICK m : m = T!Marked(w)
    OBVIOUS
  <2>2. Agree(m, records, mixed, late)
    BY <1>1, <1>7, <2>1, DraftAgrees DEF SameSelection, ModesOf
  <2>. QED BY <1>10, <2>1, <2>2, ShowKeeps
<1>11. CASE ui.active = "polygon" /\ T!Show([w EXCEPT !.points = @ + 1])
  <2>1. PICK n : n = [w EXCEPT !.points = @ + 1]
    OBVIOUS
  <2>2. /\ n \in Ui /\ n.active = ui.active /\ n.mode = ui.mode /\ n.merge = ui.merge /\ n.session = ui.session
        /\ n.stroke = ui.stroke /\ n.ruler = ui.ruler /\ n.compass = ui.compass
        /\ n.selected = ui.selected /\ n.outlined = ui.outlined
    BY <1>4, <2>1 DEF Ui
  <2>3. Agree(n, records, mixed, late)
    BY <1>1, <1>11, <2>2, DraftAgrees DEF SameSelection, ModesOf
  <2>. QED BY <1>11, <2>1, <2>3, ShowKeeps
<1>. QED BY <1>3, <1>6, <1>8, <1>9, <1>10, <1>11 DEF T!MapClick, u

(* What happens to marks, and a pen that is put down.                       *)
LEMMA MarksKeep ==
  ASSUME ToolsInv, T!Hover \/ T!PickMark \/ T!DeleteMark \/ T!PenDown
  PROVE  ToolsInv'
<1>1. ui \in Ui /\ ModesOf(ui) /\ Agree(ui, records, mixed, late) /\ ui.marks \in SUBSET Nat
  BY ObjectsKnown DEF ToolsInv, Ui
<1>2. CASE T!Hover
  <2>1. PICK m \in ui.marks \union {T!None} : T!Show([ui EXCEPT !.hovered = m])
    BY <1>2 DEF T!Hover
  <2>2. PICK v : v = [ui EXCEPT !.hovered = m]
    OBVIOUS
  <2>3. v \in Ui /\ SameSelection(ui, v) /\ ModesOf(v)
    <3>1. m \in Nat
      BY <1>1, <2>1 DEF T!None
    <3>. QED BY <1>1, <2>2, <3>1 DEF Ui, SameSelection, ModesOf
  <2>. QED BY <1>1, <2>1, <2>2, <2>3, SelectionKept, ShowKeeps DEF Agree
<1>3. CASE T!PickMark
  <2>1. PICK m \in ui.marks : T!Show([T!Cleared(ui) EXCEPT !.picked = m])
    BY <1>3 DEF T!PickMark
  <2>2. PICK c : c = T!Cleared(ui)
    OBVIOUS
  <2>3. Agree(c, records, mixed, late)
    BY <1>1, <2>2, ClearedAgrees
  <2>4. PICK v : v = [c EXCEPT !.picked = m]
    OBVIOUS
  <2>5. v \in Ui /\ SameSelection(c, v) /\ ModesOf(v)
    BY <1>1, <2>1, <2>3, <2>4 DEF Agree, Ui, SameSelection, ModesOf
  <2>. QED BY <2>1, <2>2, <2>3, <2>4, <2>5, SelectionKept, ShowKeeps DEF Agree
<1>4. CASE T!DeleteMark
  <2>1. PICK m \in ui.marks : T!Show(T!Without(ui, m))
    BY <1>4 DEF T!DeleteMark
  <2>2. PICK v : v = T!Without(ui, m)
    OBVIOUS
  <2>3. v \in Ui /\ SameSelection(ui, v) /\ ModesOf(v)
    BY <1>1, <2>1, <2>2 DEF Ui, SameSelection, ModesOf, T!None, T!Without
  <2>. QED BY <1>1, <2>1, <2>2, <2>3, SelectionKept, ShowKeeps DEF Agree
<1>5. CASE T!PenDown
  <2>1. PICK s \in Nat : ui.active = "freehand" /\ T!Show([ui EXCEPT !.stroke = s])
    <3>1. T!None \in Nat /\ (Len(ui.selected) = 1 => ui.selected[1] \in Nat)
      BY <1>1 DEF T!None, Ui
    <3>. QED BY <1>5, <3>1 DEF T!PenDown
  <2>2. PICK v : v = [ui EXCEPT !.stroke = s]
    OBVIOUS
  <2>3. v \in Ui /\ SameSelection(ui, v) /\ ModesOf(v)
    BY <1>1, <2>1, <2>2 DEF Ui, SameSelection, ModesOf
  <2>. QED BY <1>1, <2>1, <2>2, <2>3, SelectionKept, ShowKeeps DEF Agree
<1>. QED BY <1>2, <1>3, <1>4, <1>5

(* The buttons of the toolbar and their keys.                               *)
LEMMA ToolbarKeeps ==
  ASSUME ToolsInv, T!Toolbar
  PROVE  ToolsInv'
<1>1. ui \in Ui /\ ModesOf(ui) /\ Agree(ui, records, mixed, late)
  BY ObjectsKnown DEF ToolsInv
<1>2. CASE \E t \in T!Buttons : T!Show(T!ToolSet(ui, t))
  BY <1>1, <1>2, ToolSetAgrees, ShowKeeps
<1>3. CASE T!Show(T!Cancelled(ui)) \/ T!Show(T!Merging(ui)) \/ T!Show(T!MergeCancelled(ui)) \/ T!Show(T!Reset(ui))
  BY <1>1, <1>3, CancelledAgrees, MergingAgrees, MergeCancelledAgrees, ResetAgrees, ShowKeeps
<1>4. CASE \E m \in {"brush", "polygon", "connect"} : T!Show(T!Starting(ui, m))
  BY <1>1, <1>4, StartingAgrees, ShowKeeps
<1>5. CASE Len(ui.selected) = 1 /\ T!Show(T!Editing(ui))
  <2>1. records[ui.selected[1]].layer \in AnyLayer
    BY <1>5, ObjectsKnown
  <2>. QED BY <1>1, <1>5, <2>1, EditingAgrees, ShowKeeps
<1>6. ASSUME NEW m \in {"brush", "eraser", "polygon"}, ui.active \in T!Drawing, m = "eraser" => ~ui.session,
             T!Show(T!ModeSet(ui, m))
      PROVE  ToolsInv'
  <2>1. ~ui.merge /\ SelectionOf(ui, records, mixed, late)
    BY <1>1, <1>6 DEF ModesOf, T!Drawing, Agree
  <2>. QED BY <1>1, <1>6, <2>1, ModeSetAgrees, ShowKeeps
<1>. QED BY <1>2, <1>3, <1>4, <1>5, <1>6 DEF T!Toolbar

-----------------------------------------------------------------------------
(* Events that queue a task                                                 *)

(* A task goes into the queue with what it is about.                        *)
LEMMA QueueKeeps ==
  ASSUME ToolsInv, NEW t \in TaskSet, NEW u, T!Queue(t, u), Agree(u, records, mixed, late),
         TaskFits(t)
  PROVE  ToolsInv'
<1>1. /\ UNCHANGED <<records, hidden, server, flight, elsewhere, applied>>
      /\ T!Becomes(u, mixed, late) /\ queued' = queued + 1 /\ queue' = Append(queue, t)
  BY DEF T!Queue
<1>2. Agree(ui', records, mixed', late') /\ mixed' \in BOOLEAN /\ late' \in BOOLEAN
  BY <1>1, BecomesAgrees DEF ToolsInv, Typed
<1>3. queue \in Seq(TaskSet) /\ queued \in Nat
  BY DEF ToolsInv, Typed
<1>4. /\ queue' \in Seq(TaskSet) /\ DOMAIN queue' = 1..(Len(queue) + 1) /\ Len(queue) \in Nat
      /\ \A n \in 1..Len(queue) : queue'[n] = queue[n] /\ n \in DOMAIN queue
      /\ queue'[Len(queue) + 1] = t
  BY <1>1, <1>3
<1>5. TasksFit'
  <2>1. \A k \in DOMAIN queue : TaskFits(queue[k])
    BY DEF ToolsInv, TasksFit
  <2>2. ASSUME NEW n \in DOMAIN queue' PROVE TaskFits(queue'[n])
    <3>1. n = Len(queue) + 1 \/ n \in 1..Len(queue)
      BY <1>4
    <3>2. n \in 1..Len(queue) => queue'[n] = queue[n] /\ n \in DOMAIN queue
      BY <1>4
    <3>3. CASE n = Len(queue) + 1
      <4>1. queue'[n] = t
        BY <1>4, <3>3
      <4>. QED BY <4>1
    <3>4. CASE n \in 1..Len(queue)
      BY <2>1, <3>2, <3>4
    <3>. QED BY <3>1, <3>3, <3>4
  <2>. QED BY <2>2 DEF TasksFit
<1>6. Typed'
  BY <1>1, <1>2, <1>3, <1>4 DEF ToolsInv, Typed
<1>. QED BY <1>1, <1>2, <1>5, <1>6 DEF ToolsInv, FlightFits, StrokesAreThere

(* A task that is well-formed when it is queued.                            *)
LEMMA TaskFacts ==
  ASSUME NEW do \in TaskDo, NEW ids \in Seq(Nat), NEW layer \in AnyLayer, queued \in Nat,
         do = "merge" => TwoOf(ids), do = "delete" => ids # <<>>, do = "circle" => ids = <<>>
  PROVE  T!Task(do, ids, layer) \in TaskSet /\ TaskFits(T!Task(do, ids, layer))
<1>1. PICK t : t = T!Task(do, ids, layer)
  OBVIOUS
<1>2. t \in TaskSet /\ t.do = do /\ t.ids = ids
  BY <1>1 DEF T!Task, TaskSet
<1>. QED BY <1>1, <1>2 DEF TaskFits

(* onFreehandUp: the stroke is queued.                                      *)
LEMMA PenUpKeeps ==
  ASSUME ToolsInv, T!PenUp
  PROVE  ToolsInv'
<1>1. ui \in Ui /\ ModesOf(ui) /\ Agree(ui, records, mixed, late) /\ queued \in Nat
  BY ObjectsKnown DEF ToolsInv, Typed
<1>2. PICK v : v = [ui EXCEPT !.stroke = T!Nothing]
  OBVIOUS
<1>3. v \in Ui /\ SameSelection(ui, v) /\ ModesOf(v)
  <2>1. T!Nothing \in Int
    BY DEF T!Nothing
  <2>. QED BY <1>1, <1>2, <2>1 DEF Ui, SameSelection, ModesOf
<1>4. Agree(v, records, mixed, late)
  BY <1>1, <1>3, SelectionKept DEF Agree
<1>5. ASSUME T!Queue(T!Task(ui.mode, IF ui.stroke = T!None THEN <<>> ELSE <<ui.stroke>>, T!None), v), ui.stroke # T!Nothing
      PROVE  ToolsInv'
  <2>1. ui.mode \in {"create", "brush", "eraser", "connect"}
    BY <1>1, <1>5 DEF ModesOf
  <2>2. ui.mode \in TaskDo /\ ui.mode \notin {"merge", "delete", "circle"} /\ T!None \in AnyLayer
    BY <2>1 DEF TaskDo, AnyLayer
  <2>3. PICK ids : ids = IF ui.stroke = T!None THEN <<>> ELSE <<ui.stroke>>
    OBVIOUS
  <2>4. ids \in Seq(Nat)
    <3>1. ui.stroke \in Nat
      BY <1>1, <1>5 DEF Ui
    <3>. QED BY <2>3, <3>1
  <2>5. PICK t : t = T!Task(ui.mode, ids, T!None)
    OBVIOUS
  <2>6. t \in TaskSet /\ TaskFits(t)
    BY <1>1, <2>2, <2>4, <2>5, TaskFacts
  <2>. QED BY <1>4, <1>5, <2>3, <2>5, <2>6, QueueKeeps
<1>. QED BY <1>2, <1>4, <1>5, ShowKeeps DEF T!PenUp

(* finishPolygonDraw: the polygon is queued.                                *)
LEMMA PolygonKeeps ==
  ASSUME ToolsInv, NEW u, T!FinishPolygon(u), Agree(u, records, mixed, late)
  PROVE  ToolsInv'
<1>1. ui \in Ui /\ queued \in Nat /\ u \in Ui /\ ModesOf(u)
  BY ObjectsKnown DEF ToolsInv, Typed, Agree
<1>2. PICK v : v = [u EXCEPT !.points = 0]
  OBVIOUS
<1>3. v \in Ui /\ SameSelection(u, v) /\ ModesOf(v)
  <2>1. v \in Ui /\ v.points = 0 /\ \A f \in DOMAIN u \ {"points"} : v[f] = u[f]
    BY <1>1, <1>2 DEF Ui
  <2>2. /\ v.active = u.active /\ v.mode = u.mode /\ v.merge = u.merge /\ v.session = u.session /\ v.stroke = u.stroke
        /\ v.ruler = u.ruler /\ v.compass = u.compass /\ v.selected = u.selected /\ v.outlined = u.outlined
    BY <1>1, <1>2 DEF Ui
  <2>3. ~ (v.points > 0)
    BY <2>1
  <2>. QED BY <1>1, <2>1, <2>2, <2>3 DEF SameSelection, ModesOf
<1>4. Agree(v, records, mixed, late)
  BY <1>3, SelectionKept DEF Agree
<1>5. PICK ids : ids = IF ~ui.session /\ Len(ui.selected) = 1 THEN ui.selected ELSE <<>>
  OBVIOUS
<1>6. ids \in Seq(Nat) /\ ui.layer \in AnyLayer /\ "polygon" \in TaskDo
  BY <1>1, <1>5 DEF Ui, TaskDo
<1>7. T!Queue(T!Task("polygon", ids, ui.layer), v)
  BY <1>2, <1>5 DEF T!FinishPolygon
<1>. QED BY <1>1, <1>4, <1>6, <1>7, TaskFacts, QueueKeeps

(* The buttons that queue a task.                                           *)
LEMMA ButtonsKeep ==
  ASSUME ToolsInv, T!FinishPolygon(ui) \/ T!FinishEdit \/ T!DeleteSelected \/ T!MergeSelected \/ T!CircleAction
                   \/ (\E l \in Layers : T!ChooseLayer(l))
  PROVE  ToolsInv'
<1>1. ui \in Ui /\ ModesOf(ui) /\ Agree(ui, records, mixed, late) /\ queued \in Nat /\ ui.selected \in Seq(Nat)
      /\ ui.layer \in AnyLayer /\ T!None \in AnyLayer /\ {"move", "delete", "merge", "circle", "eraser"} \subseteq TaskDo
  BY ObjectsKnown DEF ToolsInv, Typed, Ui, AnyLayer, TaskDo
<1>2. CASE T!FinishPolygon(ui) \/ T!FinishEdit
  BY <1>1, <1>2, ToolSetAgrees, PolygonKeeps, ShowKeeps DEF T!FinishEdit, T!Buttons
<1>3. CASE T!DeleteSelected
  <2>1. T!Queue(T!Task("delete", ui.selected, T!None), ui) /\ ui.selected # <<>>
    BY <1>3 DEF T!DeleteSelected
  <2>. QED BY <1>1, <2>1, TaskFacts, QueueKeeps
<1>4. CASE T!MergeSelected
  <2>1. T!Queue(T!Task("merge", ui.selected, T!None), ui) /\ Len(ui.selected) = 2
    BY <1>4 DEF T!MergeSelected
  <2>2. TwoOf(ui.selected)
    <3>1. Distinct(ui.selected) /\ DOMAIN ui.selected = 1..2
      BY <1>1, <2>1 DEF Agree, SelectionOf
    <3>. QED BY <2>1, <3>1 DEF TwoOf, Distinct
  <2>. QED BY <1>1, <2>1, <2>2, TaskFacts, QueueKeeps
<1>5. CASE T!CircleAction
  <2>1. PICK v : v = [ui EXCEPT !.circle = FALSE]
    OBVIOUS
  <2>2. v \in Ui /\ SameSelection(ui, v) /\ ModesOf(v)
    BY <1>1, <2>1 DEF Ui, SameSelection, ModesOf
  <2>3. Agree(v, records, mixed, late)
    BY <1>1, <2>2, SelectionKept DEF Agree
  <2>4. T!Queue(T!Task("circle", <<>>, ui.layer), v) \/ T!Queue(T!Task("eraser", ui.selected, T!None), v)
    BY <1>5, <2>1 DEF T!CircleAction
  <2>5. <<>> \in Seq(Nat)
    OBVIOUS
  <2>. QED BY <1>1, <2>3, <2>4, <2>5, TaskFacts, QueueKeeps
<1>6. ASSUME NEW l \in Layers, T!ChooseLayer(l) PROVE ToolsInv'
  <2>1. PICK v : v = [ui EXCEPT !.layer = l]
    OBVIOUS
  <2>2. l \in AnyLayer
    BY DEF AnyLayer
  <2>3. v \in Ui /\ SameSelection(ui, v) /\ ModesOf(v)
    BY <1>1, <2>1, <2>2 DEF Ui, SameSelection, ModesOf
  <2>4. Agree(v, records, mixed, late)
    BY <1>1, <2>3, SelectionKept DEF Agree
  <2>5. T!Queue(T!Task("move", ui.selected, l), v) \/ T!Show(v)
    BY <1>6, <2>1 DEF T!ChooseLayer
  <2>. QED BY <1>1, <2>2, <2>4, <2>5, TaskFacts, QueueKeeps, ShowKeeps
<1>. QED BY <1>2, <1>3, <1>4, <1>5, <1>6

-----------------------------------------------------------------------------
(* What a task asks for                                                     *)

(* r asks for this.                                                         *)
Asks(r, do, ids, S, L) ==
  r \in RequestSet /\ r.do = do /\ r.ids = ids /\ r.shape = S /\ r.loses = L
  /\ r.selects = FALSE /\ r.served = FALSE

(* What a request of an edit asks.                                          *)
LEMMA RequestFacts ==
  ASSUME NEW do \in {"add", "patch", "move", "merge", "delete"}, NEW ids \in Seq(Nat),
         NEW S \in SUBSET Nat, NEW L \in SUBSET Nat
  PROVE  Asks(T!Reshaping(do, ids, S, L), do, ids, S, L)
<1>1. PICK q : q = T!Request(do, ids, T!None, S)
  OBVIOUS
<1>2. T!None \in AnyLayer
  BY DEF AnyLayer
<1>3. q \in RequestSet /\ q.do = do /\ q.ids = ids /\ q.shape = S /\ q.selects = FALSE /\ q.served = FALSE
  BY <1>1, <1>2 DEF T!Request, RequestSet
<1>4. PICK r : r = [q EXCEPT !.loses = L]
  OBVIOUS
<1>5. /\ r \in RequestSet /\ r.do = q.do /\ r.ids = q.ids /\ r.shape = q.shape /\ r.loses = L
      /\ r.selects = q.selects /\ r.served = q.served
  BY <1>3, <1>4 DEF RequestSet
<1>. QED BY <1>1, <1>3, <1>4, <1>5 DEF Asks, T!Reshaping

(* keepLargestPart: what is not discarded is in the part that is kept.      *)
LEMMA WhatIsDiscarded ==
  ASSUME NEW parts, NEW S, NEW A, A \subseteq UNION parts
  PROVE  A \ T!Discarded(parts, S) \subseteq S
<1>1. ASSUME NEW x \in A, x \notin T!Discarded(parts, S) PROVE x \in S
  BY <1>1 DEF T!Discarded
<1>. QED BY <1>1

(* Where a sequence of one or two objects has its first and second.         *)
LEMMA FirstOf ==
  ASSUME NEW ids \in Seq(Nat)
  PROVE  /\ ids # <<>> => ids[1] \in T!ToSet(ids) /\ ids[1] \in Nat
         /\ TwoOf(ids) => ids # <<>> /\ ids[2] \in T!ToSet(ids) /\ ids[2] \in Nat
                          /\ T!ToSet(ids) = {ids[1], ids[2]} /\ DOMAIN ids = {1, 2}
<1>1. ASSUME ids # <<>> PROVE ids[1] \in T!ToSet(ids) /\ ids[1] \in Nat
  <2>1. 1 \in DOMAIN ids
    BY <1>1
  <2>. QED BY <2>1 DEF T!ToSet
<1>2. ASSUME TwoOf(ids)
      PROVE  ids # <<>> /\ ids[2] \in T!ToSet(ids) /\ ids[2] \in Nat /\ T!ToSet(ids) = {ids[1], ids[2]} /\ DOMAIN ids = {1, 2}
  <2>1. DOMAIN ids = 1..2
    BY <1>2 DEF TwoOf
  <2>2. DOMAIN ids = {1, 2}
    BY <2>1
  <2>3. T!ToSet(ids) = {ids[1], ids[2]} /\ ids[2] \in Nat
    <3>1. 1 \in DOMAIN ids /\ 2 \in DOMAIN ids /\ \A i \in DOMAIN ids : i = 1 \/ i = 2
      BY <2>2
    <3>2. \A x : x \in T!ToSet(ids) <=> \E i \in DOMAIN ids : x = ids[i]
      BY DEF T!ToSet
    <3>3. \A x : x \in T!ToSet(ids) <=> x = ids[1] \/ x = ids[2]
      BY <3>1, <3>2
    <3>. QED BY <3>1, <3>3
  <2>. QED BY <2>1, <2>2, <2>3, <1>2 DEF TwoOf
<1>. QED BY <1>1, <1>2

(* A request that joins shapes names all it drops.                          *)
LEMMA JoiningFits ==
  ASSUME NEW do \in {"patch", "merge"}, NEW ids \in Seq(Nat), ids # <<>>,
         NEW parts \in SUBSET (SUBSET Nat), NEW r \in T!Joining(do, ids, parts),
         do = "merge" => TwoOf(ids) /\ applied[ids[2]] \subseteq UNION parts,
         T!ToSet(ids) \subseteq DOMAIN applied, applied[ids[1]] \subseteq UNION parts
  PROVE  r \in RequestSet /\ r.do = do /\ ~r.served /\ RequestFits(r, applied)
<1>1. PICK S \in T!Kept(parts) : r = T!Reshaping(do, ids, S, T!Discarded(parts, S))
  BY DEF T!Joining
<1>2. PICK L : L = T!Discarded(parts, S)
  OBVIOUS
<1>3. S \in SUBSET Nat /\ L \in SUBSET Nat
  <2>1. PICK together \in SUBSET parts : S = UNION together
    BY DEF T!Kept
  <2>. QED BY <1>2, <2>1 DEF T!Discarded
<1>4. \A A : A \subseteq UNION parts => A \ L \subseteq S
  <2>1. ASSUME NEW A, A \subseteq UNION parts PROVE A \ L \subseteq S
    BY <1>2, <2>1, WhatIsDiscarded
  <2>. QED BY <2>1
<1>5. do \in {"add", "patch", "move", "merge", "delete"}
  OBVIOUS
<1>6. /\ r \in RequestSet /\ r.do = do /\ r.ids = ids /\ r.shape = S /\ r.loses = L
      /\ r.selects = FALSE /\ r.served = FALSE
  <2>1. Asks(T!Reshaping(do, ids, S, L), do, ids, S, L)
    BY <1>3, <1>5, RequestFacts
  <2>2. r = T!Reshaping(do, ids, S, L)
    BY <1>1, <1>2
  <2>. QED BY <2>1, <2>2 DEF Asks
<1>7. ids[1] \in DOMAIN applied
  BY FirstOf
<1>8. Keeps(r, applied)
  <2>1. PICK a, b : a = applied[ids[1]] /\ b = applied[ids[2]]
    OBVIOUS
  <2>2. a \ L \subseteq S
    BY <1>4, <2>1
  <2>3. do = "merge" => b \ L \subseteq S
    BY <1>4, <2>1
  <2>. QED BY <1>6, <2>1, <2>2, <2>3 DEF Keeps
<1>. QED BY <1>6, <1>7, <1>8 DEF RequestFits

(* A request that adds, moves or deletes drops nothing.                     *)
LEMMA PlainFits ==
  ASSUME NEW do \in {"add", "move", "delete"}, NEW ids \in Seq(Nat), NEW layer \in AnyLayer,
         NEW S \in SUBSET Nat, do # "add" => ids # <<>>, do = "move" => T!ToSet(ids) \subseteq DOMAIN applied
  PROVE  T!Request(do, ids, layer, S) \in RequestSet /\ ~T!Request(do, ids, layer, S).served
         /\ RequestFits(T!Request(do, ids, layer, S), applied)
<1>1. PICK r : r = T!Request(do, ids, layer, S)
  OBVIOUS
<1>2. r \in RequestSet /\ r.do = do /\ r.ids = ids /\ ~r.selects /\ ~r.served
  BY <1>1 DEF T!Request, RequestSet
<1>3. RequestFits(r, applied)
  BY <1>2 DEF RequestFits
<1>. QED BY <1>1, <1>2, <1>3

(* What the client knows of an object is what the user was told, or more.   *)
LEMMA ShapeFacts ==
  ASSUME ToolsInv, NEW o \in DOMAIN records
  PROVE  /\ o \in Nat /\ o \in DOMAIN applied /\ applied[o] \subseteq T!Shape(o) /\ T!Shape(o) \in SUBSET Nat
         /\ records[o] \in Object
<1>1. /\ records[o] \in Object /\ o \in 1..Len(applied) /\ applied \in Seq(SUBSET Nat)
      /\ applied[o] \subseteq records[o].shape
  BY DEF ToolsInv, Typed, StrokesAreThere
<1>2. o \in Nat /\ o \in DOMAIN applied
  BY <1>1
<1>. QED BY <1>1, <1>2 DEF Object, T!Shape

(* A stroke that is added to an object.                                     *)
LEMMA GrowingFits ==
  ASSUME ToolsInv, NEW t \in TaskSet, NEW o \in DOMAIN records, NEW r \in T!Growing(t, o)
  PROVE  r \in RequestSet /\ ~r.served /\ RequestFits(r, applied)
<1>1. t.n \in Nat
  BY DEF TaskSet
<1>2. PICK parts \in SUBSET (SUBSET Nat) : parts = {T!Shape(o), {t.n}}
  BY <1>1, ShapeFacts
<1>3. PICK ids : ids = <<o>>
  OBVIOUS
<1>4. ids \in Seq(Nat) /\ ids # <<>> /\ ids[1] = o /\ T!ToSet(ids) = {o}
  <2>1. o \in Nat
    BY ShapeFacts
  <2>. QED BY <1>3, <2>1 DEF T!ToSet
<1>5. applied[o] \subseteq UNION parts /\ o \in DOMAIN applied
  BY <1>2, ShapeFacts
<1>6. r \in T!Joining("patch", ids, parts)
  BY <1>2, <1>3 DEF T!Growing
<1>. QED BY <1>4, <1>5, <1>6, JoiningFits

(* A merge, of a line that connects or of the selected objects.             *)
LEMMA MergingFits ==
  ASSUME ToolsInv, NEW ids \in Seq(Nat), TwoOf(ids), T!ToSet(ids) \subseteq DOMAIN records,
         NEW parts \in SUBSET (SUBSET Nat), T!Shape(ids[1]) \in parts, T!Shape(ids[2]) \in parts,
         NEW r \in T!Joining("merge", ids, parts)
  PROVE  r \in RequestSet /\ r.do = "merge" /\ ~r.served /\ RequestFits(r, applied)
<1>1. ids[1] \in DOMAIN records /\ ids[2] \in DOMAIN records /\ ids # <<>>
  BY FirstOf
<1>2. applied[ids[1]] \subseteq UNION parts /\ applied[ids[2]] \subseteq UNION parts
  BY <1>1, ShapeFacts
<1>3. T!ToSet(ids) \subseteq DOMAIN applied
  BY ShapeFacts
<1>. QED BY <1>1, <1>2, <1>3, JoiningFits

(* mergeSelectedPolygons: the merge that selects what comes of it.          *)
LEMMA MergingTwoFits ==
  ASSUME ToolsInv, NEW ids \in Seq(Nat), TwoOf(ids), T!ToSet(ids) \subseteq DOMAIN records,
         NEW r \in T!MergingTwo(ids)
  PROVE  r \in RequestSet /\ ~r.served /\ RequestFits(r, applied)
<1>1. PICK parts : parts = {T!Shape(ids[1]), T!Shape(ids[2])}
  OBVIOUS
<1>2. ids[1] \in DOMAIN records /\ ids[2] \in DOMAIN records
  BY FirstOf
<1>3. parts \in SUBSET (SUBSET Nat) /\ T!Shape(ids[1]) \in parts /\ T!Shape(ids[2]) \in parts
  BY <1>1, <1>2, ShapeFacts
<1>4. PICK q \in T!Joining("merge", ids, parts) : r = [q EXCEPT !.selects = TRUE]
  BY <1>1 DEF T!MergingTwo
<1>5. q \in RequestSet /\ q.do = "merge" /\ ~q.served /\ RequestFits(q, applied)
  BY <1>3, <1>4, MergingFits
<1>6. /\ r \in RequestSet /\ r.do = "merge" /\ r.ids = q.ids /\ r.shape = q.shape /\ r.loses = q.loses
      /\ r.served = q.served
  BY <1>4, <1>5 DEF RequestSet
<1>7. Keeps(r, applied)
  BY <1>5, <1>6 DEF RequestFits, Keeps
<1>. QED BY <1>5, <1>6, <1>7 DEF RequestFits

(* A stroke that connects two objects.                                      *)
LEMMA ConnectingFits ==
  ASSUME ToolsInv, NEW t \in TaskSet, NEW r \in T!Connecting(t)
  PROVE  r \in RequestSet /\ ~r.served /\ RequestFits(r, applied)
<1>1. PICK o \in T!Near, p \in T!Near : r \in T!Bridging(t, o, p)
  BY DEF T!Connecting
<1>2. o \in DOMAIN records /\ p \in DOMAIN records
  BY DEF T!Near, T!Visible
<1>3. CASE o = p
  BY <1>1, <1>2, <1>3, GrowingFits DEF T!Bridging
<1>4. CASE o # p
  <2>1. PICK ids : ids = <<o, p>>
    OBVIOUS
  <2>2. ids \in Seq(Nat) /\ TwoOf(ids) /\ ids[1] = o /\ ids[2] = p
    BY <1>2, <1>4, <2>1, ShapeFacts DEF TwoOf
  <2>3. T!ToSet(ids) \subseteq DOMAIN records
    BY <1>2, <2>2, FirstOf
  <2>4. t.n \in Nat
    BY DEF TaskSet
  <2>5. PICK parts : parts = {T!Shape(o), T!Shape(p), {t.n}}
    OBVIOUS
  <2>6. parts \in SUBSET (SUBSET Nat) /\ T!Shape(o) \in parts /\ T!Shape(p) \in parts
    BY <1>2, <2>4, <2>5, ShapeFacts
  <2>7. r \in T!Joining("merge", ids, parts)
    BY <1>1, <1>4, <2>1, <2>5 DEF T!Bridging
  <2>. QED BY <2>2, <2>3, <2>6, <2>7, MergingFits
<1>. QED BY <1>3, <1>4

(* A stroke of the eraser.                                                  *)
LEMMA ErasingFits ==
  ASSUME ToolsInv, NEW ids \in Seq(Nat), ids # <<>>, T!ToSet(ids) \subseteq DOMAIN records, NEW r \in T!Erasing(ids)
  PROVE  r \in RequestSet /\ ~r.served /\ RequestFits(r, applied)
<1>1. PICK s \in T!Shape(ids[1]) : r = T!Reshaping("patch", ids, T!Shape(ids[1]) \ {s}, {s})
  BY DEF T!Erasing
<1>2. ids[1] \in DOMAIN records
  BY FirstOf
<1>3. PICK S \in SUBSET Nat, L \in SUBSET Nat : S = T!Shape(ids[1]) \ {s} /\ L = {s}
  BY <1>2, ShapeFacts
<1>4. r = T!Reshaping("patch", ids, S, L)
  BY <1>1, <1>3
<1>5. /\ r \in RequestSet /\ r.do = "patch" /\ r.ids = ids /\ r.shape = S /\ r.loses = L
      /\ r.selects = FALSE /\ r.served = FALSE
  <2>1. Asks(T!Reshaping("patch", ids, S, L), "patch", ids, S, L)
    BY RequestFacts
  <2>. QED BY <1>4, <2>1 DEF Asks
<1>6. applied[ids[1]] \ L \subseteq S /\ ids[1] \in DOMAIN applied /\ T!ToSet(ids) \subseteq DOMAIN applied
  BY <1>2, <1>3, ShapeFacts
<1>7. Keeps(r, applied)
  BY <1>5, <1>6 DEF Keeps
<1>. QED BY <1>5, <1>6, <1>7 DEF RequestFits

(* Whatever a task sends, no stroke is dropped without being named.         *)
LEMMA RequestsFit ==
  ASSUME ToolsInv, NEW t \in TaskSet, TaskFits(t), NEW r \in T!Requests(t)
  PROVE  r \in RequestSet /\ ~r.served /\ RequestFits(r, applied)
<1>1. /\ t.do \in TaskDo /\ t.ids \in Seq(Nat) /\ t.layer \in AnyLayer /\ {t.n} \in SUBSET Nat
      /\ ui.layer \in AnyLayer /\ T!None \in AnyLayer /\ <<>> \in Seq(Nat) /\ {} \in SUBSET Nat
  BY ObjectsKnown DEF TaskSet, Ui, AnyLayer
<1>2. CASE r \in T!Adding(t, ui.layer) \/ r \in T!Adding(t, t.layer)
  BY <1>1, <1>2, PlainFits DEF T!Adding
<1>3. CASE r \in T!Connecting(t)
  BY <1>3, ConnectingFits
<1>4. CASE t.ids # <<>> /\ r = T!Request("delete", t.ids, T!None, {})
  BY <1>1, <1>4, PlainFits
<1>5. ASSUME t.ids # <<>>, T!ToSet(t.ids) \subseteq DOMAIN records
      PROVE  /\ r \in T!Growing(t, t.ids[1]) => r \in RequestSet /\ ~r.served /\ RequestFits(r, applied)
             /\ r = T!Request("move", t.ids, t.layer, {}) => r \in RequestSet /\ ~r.served /\ RequestFits(r, applied)
             /\ r \in T!Erasing(t.ids) => r \in RequestSet /\ ~r.served /\ RequestFits(r, applied)
  <2>1. t.ids[1] \in DOMAIN records /\ T!ToSet(t.ids) \subseteq DOMAIN applied
    BY <1>1, <1>5, FirstOf, ShapeFacts
  <2>. QED BY <1>1, <1>5, <2>1, GrowingFits, PlainFits, ErasingFits
<1>6. ASSUME TwoOf(t.ids), T!ToSet(t.ids) \subseteq DOMAIN records, r \in T!MergingTwo(t.ids)
      PROVE  r \in RequestSet /\ ~r.served /\ RequestFits(r, applied)
  BY <1>1, <1>6, MergingTwoFits
<1>7. /\ t.do = "merge" => TwoOf(t.ids)
      /\ t.do = "circle" => t.ids = <<>>
  BY DEF TaskFits
<1>8. \/ r \in T!Adding(t, ui.layer) \/ r \in T!Adding(t, t.layer) \/ r \in T!Connecting(t)
      \/ t.ids # <<>> /\ r = T!Request("delete", t.ids, T!None, {})
      \/ /\ t.ids # <<>> /\ T!ToSet(t.ids) \subseteq DOMAIN records
         /\ \/ r \in T!Growing(t, t.ids[1]) \/ r = T!Request("move", t.ids, t.layer, {}) \/ r \in T!Erasing(t.ids)
            \/ t.do = "merge" /\ r \in T!MergingTwo(t.ids)
  BY <1>1, <1>7 DEF T!Requests, TaskDo
<1>. QED BY <1>2, <1>3, <1>4, <1>5, <1>6, <1>7, <1>8

-----------------------------------------------------------------------------
(* The steps of the chain                                                   *)

(* The request that is in flight, if there is one.                          *)
LEMMA OneFlight ==
  ASSUME ToolsInv, NEW i \in DOMAIN flight
  PROVE  /\ i = 1 /\ Len(flight) = 1 /\ DOMAIN flight = {1} /\ flight[1] \in RequestSet
         /\ RequestFits(flight[1], applied) /\ ServedFits(flight[1], server)
         /\ T!RemoveAt(flight, 1) = <<>>
<1>1. flight \in Seq(RequestSet) /\ Len(flight) <= 1
  BY DEF ToolsInv, Typed, FlightFits
<1>2. Len(flight) \in Nat /\ DOMAIN flight = 1..Len(flight)
  BY <1>1
<1>3. i = 1 /\ Len(flight) = 1
  BY <1>1, <1>2
<1>4. DOMAIN flight = {1}
  BY <1>2, <1>3
<1>5. RequestFits(flight[1], applied) /\ ServedFits(flight[1], server)
  BY <1>4 DEF ToolsInv, FlightFits
<1>6. flight[1] \in RequestSet
  BY <1>1, <1>4
<1>7. T!RemoveAt(flight, 1) = <<>>
  <2>1. SubSeq(flight, 1, 0) = <<>> /\ SubSeq(flight, 2, 1) = <<>>
    BY <1>1
  <2>2. T!RemoveAt(flight, 1) = SubSeq(flight, 1, 0) \o SubSeq(flight, 2, 1)
    BY <1>3 DEF T!RemoveAt
  <2>. QED BY <2>1, <2>2
<1>. QED BY <1>3, <1>4, <1>5, <1>6, <1>7

(* The first task of the queue runs.                                        *)
LEMMA RunKeeps ==
  ASSUME ToolsInv, T!Run
  PROVE  ToolsInv'
<1>1. /\ flight = <<>> /\ queue # <<>> /\ queue' = Tail(queue)
      /\ UNCHANGED <<records, hidden, server, queued, elsewhere, applied>>
  BY DEF T!Run, T!MayRun
<1>2. queue \in Seq(TaskSet) /\ Agree(ui, records, mixed, late) /\ mixed \in BOOLEAN /\ late \in BOOLEAN
  BY DEF ToolsInv, Typed
<1>3. /\ queue' \in Seq(TaskSet) /\ Head(queue) \in TaskSet /\ Head(queue) = queue[1] /\ 1 \in DOMAIN queue
      /\ \A n \in DOMAIN queue' : queue'[n] = queue[n + 1] /\ n + 1 \in DOMAIN queue
  BY <1>1, <1>2
<1>4. TasksFit'
  <2>1. \A n \in DOMAIN queue : TaskFits(queue[n])
    BY DEF ToolsInv, TasksFit
  <2>2. \A n \in DOMAIN queue' : TaskFits(queue'[n])
    BY <1>3, <2>1
  <2>. QED BY <2>2 DEF TasksFit
<1>5. \A o \in DOMAIN server : applied[o] \subseteq server[o].shape
  BY <1>1 DEF ToolsInv, StrokesAreThere
<1>6. CASE UNCHANGED <<flight, ui, mixed, late>>
  BY <1>1, <1>3, <1>4, <1>6 DEF ToolsInv, Typed, FlightFits, StrokesAreThere
<1>7. ASSUME NEW r \in T!Requests(Head(queue)), flight' = Append(flight, r),
             T!Becomes(IF r.do \in {"merge", "delete"} THEN T!Cleared(ui) ELSE ui, mixed, late)
      PROVE  ToolsInv'
  <2>1. TaskFits(Head(queue))
    BY <1>3 DEF ToolsInv, TasksFit
  <2>2. r \in RequestSet /\ ~r.served /\ RequestFits(r, applied)
    BY <1>3, <2>1, RequestsFit
  <2>3. flight' = <<r>>
    BY <1>1, <1>7
  <2>4. flight' \in Seq(RequestSet) /\ Len(flight') = 1 /\ DOMAIN flight' = {1} /\ flight'[1] = r
    BY <2>2, <2>3
  <2>5. PICK u : u = IF r.do \in {"merge", "delete"} THEN T!Cleared(ui) ELSE ui
    OBVIOUS
  <2>6. Agree(u, records, mixed, late)
    BY <1>2, <2>5, ClearedAgrees DEF Agree
  <2>7. Agree(ui', records, mixed', late') /\ mixed' \in BOOLEAN /\ late' \in BOOLEAN
    BY <1>2, <1>7, <2>5, <2>6, BecomesAgrees
  <2>8. FlightFits'
    <3>1. RequestFits(r, applied') /\ ServedFits(r, server')
      BY <1>1, <2>2 DEF ServedFits
    <3>. QED BY <2>4, <3>1 DEF FlightFits
  <2>9. StrokesAreThere'
    BY <1>1, <1>5 DEF ToolsInv, StrokesAreThere
  <2>10. Typed'
    BY <1>1, <1>3, <2>4, <2>7 DEF ToolsInv, Typed
  <2>. QED BY <1>1, <1>4, <2>7, <2>8, <2>9, <2>10 DEF ToolsInv
<1>. QED BY <1>6, <1>7 DEF T!Run

(* The request that is in flight is gone: nothing was served that the client*)
(* does not know of.                                                        *)
LEMMA FailKeeps ==
  ASSUME ToolsInv, NEW i \in DOMAIN flight, T!Fail(i)
  PROVE  ToolsInv'
<1>. USE OneFlight
<1>1. PICK r : r = flight[1]
  OBVIOUS
<1>2. /\ flight' = <<>>
      /\ applied' = [o \in DOMAIN applied |->
                       IF r.served /\ o = r.ids[1] /\ o \in DOMAIN server
                       THEN applied[o] \intersect server[o].shape ELSE applied[o]]
      /\ UNCHANGED <<ui, records, hidden, server, queue, queued, mixed, late>>
  BY <1>1 DEF T!Fail
<1>3. applied \in Seq(SUBSET Nat)
  BY DEF ToolsInv, Typed
<1>4. \A o \in DOMAIN applied : applied'[o] \subseteq applied[o] /\ applied'[o] \in SUBSET Nat
  <2>1. \A o \in DOMAIN applied : applied[o] \in SUBSET Nat
    BY <1>3
  <2>. QED BY <1>2, <2>1
<1>5. applied' \in Seq(SUBSET Nat) /\ Len(applied') = Len(applied) /\ DOMAIN applied' = DOMAIN applied
  <2>1. DOMAIN applied = 1..Len(applied) /\ Len(applied) \in Nat /\ DOMAIN applied' = DOMAIN applied
    BY <1>2, <1>3
  <2>. QED BY <1>2, <1>4, <2>1
<1>6. \A o \in DOMAIN records \union DOMAIN server : o \in DOMAIN applied
  BY <1>3 DEF ToolsInv, Typed
<1>7. StrokesAreThere'
  <2>1. \A o \in DOMAIN records : applied'[o] \subseteq records[o].shape
    BY <1>4, <1>6 DEF ToolsInv, StrokesAreThere
  <2>2. ASSUME NEW o \in DOMAIN server PROVE applied'[o] \subseteq server[o].shape
    <3>1. CASE r.served /\ o = r.ids[1]
      BY <1>2, <1>6, <3>1
    <3>2. CASE r.served => r.ids[1] # o
      <4>1. applied[o] \subseteq server[o].shape
        BY <1>1, <3>2 DEF ToolsInv, StrokesAreThere
      <4>. QED BY <1>4, <1>6, <4>1
    <3>. QED BY <3>1, <3>2
  <2>. QED BY <1>2, <2>1, <2>2 DEF StrokesAreThere
<1>8. FlightFits'
  BY <1>2 DEF FlightFits
<1>9. Typed'
  BY <1>2, <1>5 DEF ToolsInv, Typed
<1>. QED BY <1>2, <1>7, <1>8, <1>9 DEF ToolsInv, TasksFit

(* upsertObject on a function.                                              *)
LEMMA PutFacts ==
  ASSUME NEW f, NEW o, NEW v
  PROVE  /\ DOMAIN T!Put(f, o, v) = DOMAIN f \union {o} /\ T!Put(f, o, v)[o] = v
         /\ \A p \in DOMAIN f : p # o => T!Put(f, o, v)[p] = f[p]
         /\ T!Put(f, o, v) \in [DOMAIN f \union {o} -> {T!Put(f, o, v)[p] : p \in DOMAIN f \union {o}}]
BY DEF T!Put

(* A new object has the next id.                                            *)
Longer(q, f, o) ==
  /\ f \in Seq(SUBSET Nat) /\ DOMAIN q \subseteq DOMAIN f /\ o \in DOMAIN f
  /\ o \notin DOMAIN q /\ f[o] = {} /\ \A p \in DOMAIN q : f[p] = q[p]

(* A new object makes the sequence of the applied strokes longer.           *)
LEMMA PutLengthens ==
  ASSUME NEW q \in Seq(SUBSET Nat), NEW o, o = Len(q) + 1
  PROVE  Longer(q, T!Put(q, o, {}), o)
<1>1. DOMAIN q = 1..Len(q) /\ Len(q) \in Nat
  OBVIOUS
<1>2. DOMAIN q \union {Len(q) + 1} = 1..(Len(q) + 1)
  BY <1>1
<1>3. PICK f : f = T!Put(q, o, {})
  OBVIOUS
<1>4. f = [p \in 1..(Len(q) + 1) |-> IF p = Len(q) + 1 THEN {} ELSE q[p]]
  BY <1>2, <1>3 DEF T!Put
<1>5. \A p \in 1..(Len(q) + 1) : f[p] \in SUBSET Nat
  <2>1. ASSUME NEW p \in 1..(Len(q) + 1), p # Len(q) + 1 PROVE q[p] \in SUBSET Nat
    <3>1. p \in DOMAIN q
      BY <1>1, <2>1
    <3>. QED BY <3>1
  <2>. QED BY <1>4, <2>1
<1>6. f \in Seq(SUBSET Nat) /\ DOMAIN f = 1..(Len(q) + 1)
  BY <1>1, <1>4, <1>5
<1>7. Len(q) + 1 \notin DOMAIN q /\ \A p \in DOMAIN q : f[p] = q[p]
  BY <1>1, <1>4
<1>8. f[Len(q) + 1] = {} /\ Len(q) + 1 \in DOMAIN f
  BY <1>1, <1>4
<1>. QED BY <1>1, <1>3, <1>6, <1>7, <1>8 DEF Longer

(* removeObject on a function.                                              *)
LEMMA DropFacts ==
  ASSUME NEW f, NEW S
  PROVE  /\ DOMAIN T!Drop(f, S) = DOMAIN f \ S /\ \A p \in DOMAIN f \ S : T!Drop(f, S)[p] = f[p]
         /\ T!Drop(f, S) \in [DOMAIN f \ S -> {f[p] : p \in DOMAIN f \ S}]
BY DEF T!Drop

(* What the server has after r is served, o being what it is about.         *)
ServedObjects(r, o, new) ==
  /\ new \in [DOMAIN new -> Object] /\ DOMAIN new \subseteq DOMAIN server \union {o}
  /\ \A p \in DOMAIN new : p # o => p \in DOMAIN server /\ new[p] = server[p]
  /\ r.do # "delete" => o \in DOMAIN new
  /\ r.do = "delete" => o \notin DOMAIN new
  /\ r.do = "merge" => r.ids[2] \notin DOMAIN new
  /\ r.do \in {"add", "patch", "merge"} => new[o].shape = r.shape
  /\ r.do = "move" => o \in DOMAIN server /\ new[o].shape = server[o].shape

(* The handlers of layers_service leave objects.                            *)
LEMMA ServedIs ==
  ASSUME server \in [DOMAIN server -> Object], NEW r \in RequestSet, T!Accepts(r),
         r.do # "add" => r.ids # <<>>, r.do = "merge" => TwoOf(r.ids),
         NEW o, r.do # "add" => o = r.ids[1]
  PROVE  ServedObjects(r, o, T!Served(r, o))
<1>. PICK new : new = T!Served(r, o)
  OBVIOUS
<1>1. /\ r.do \in {"add", "patch", "move", "merge", "delete"} /\ r.ids \in Seq(Nat) /\ r.layer \in AnyLayer
      /\ r.shape \in SUBSET Nat
  BY DEF RequestSet
<1>2. r.do # "add" => o \in DOMAIN server
  <2>1. CASE r.do = "delete"
    <3>1. o \in T!ToSet(<<r.ids[1]>>)
      BY <2>1 DEF T!ToSet
    <3>. QED BY <2>1, <3>1 DEF T!Accepts
  <2>2. CASE r.do \notin {"add", "delete"}
    <3>1. o \in T!ToSet(r.ids)
      BY <1>1, <2>2, FirstOf
    <3>. QED BY <2>2, <3>1 DEF T!Accepts
  <2>. QED BY <1>1, <2>1, <2>2
<1>3. \A p \in DOMAIN server : server[p].layer \in AnyLayer /\ server[p].shape \in SUBSET Nat
  BY DEF Object
<1>4. CASE r.do = "add"
  <2>1. PICK v : v = [layer |-> r.layer, shape |-> r.shape]
    OBVIOUS
  <2>2. v \in Object /\ v.shape = r.shape
    BY <1>1, <2>1 DEF Object
  <2>3. new = T!Put(server, o, v)
    BY <1>4, <2>1 DEF T!Served
  <2>4. new = [p \in DOMAIN server \union {o} |-> IF p = o THEN v ELSE server[p]]
    BY <2>3 DEF T!Put
  <2>. QED BY <1>4, <2>2, <2>4 DEF ServedObjects
<1>5. CASE r.do = "patch"
  <2>1. new = [server EXCEPT ![o].shape = r.shape]
    BY <1>5 DEF T!Served
  <2>2. new[o] = [server[o] EXCEPT !.shape = r.shape] /\ DOMAIN new = DOMAIN server
        /\ \A p \in DOMAIN server : p # o => new[p] = server[p]
    BY <1>2, <1>5, <2>1
  <2>3. new[o] \in Object /\ new[o].shape = r.shape
    BY <1>1, <1>2, <1>5, <2>2 DEF Object
  <2>4. new \in [DOMAIN server -> Object]
    BY <2>1, <2>2, <2>3
  <2>. QED BY <1>2, <1>5, <2>2, <2>3, <2>4 DEF ServedObjects
<1>6. CASE r.do = "move"
  <2>1. new = [server EXCEPT ![o].layer = r.layer]
    BY <1>6 DEF T!Served
  <2>2. /\ new[o] = [server[o] EXCEPT !.layer = r.layer] /\ DOMAIN new = DOMAIN server
        /\ \A p \in DOMAIN server : p # o => new[p] = server[p]
    BY <1>2, <1>6, <2>1
  <2>3. new[o] \in Object /\ new[o].shape = server[o].shape
    BY <1>1, <1>2, <1>6, <2>2 DEF Object
  <2>4. new \in [DOMAIN server -> Object]
    BY <2>1, <2>2, <2>3
  <2>. QED BY <1>2, <1>6, <2>2, <2>3, <2>4 DEF ServedObjects
<1>7. CASE r.do = "merge"
  <2>0. PICK mid : mid = [server EXCEPT ![o].shape = r.shape]
    OBVIOUS
  <2>1. new = T!Drop(mid, {r.ids[2]})
    BY <1>7, <2>0 DEF T!Served
  <2>2. /\ mid[o] = [server[o] EXCEPT !.shape = r.shape] /\ DOMAIN mid = DOMAIN server
        /\ \A p \in DOMAIN server : p # o => mid[p] = server[p]
    BY <1>2, <1>7, <2>0
  <2>3. mid[o] \in Object /\ mid[o].shape = r.shape
    BY <1>1, <1>2, <1>7, <2>2 DEF Object
  <2>4. \A p \in DOMAIN server : mid[p] \in Object
    BY <2>2, <2>3
  <2>5. /\ new \in [DOMAIN server \ {r.ids[2]} -> Object] /\ DOMAIN new = DOMAIN server \ {r.ids[2]}
        /\ \A p \in DOMAIN new : new[p] = mid[p]
    BY <2>1, <2>2, <2>4 DEF T!Drop
  <2>6. o # r.ids[2]
    BY <1>7 DEF TwoOf
  <2>. QED BY <1>2, <1>7, <2>2, <2>3, <2>5, <2>6 DEF ServedObjects
<1>8. CASE r.do = "delete"
  <2>1. new = [p \in DOMAIN server \ {o} |-> server[p]]
    BY <1>8 DEF T!Served, T!Drop
  <2>. QED BY <1>8, <2>1 DEF ServedObjects
<1>. QED BY <1>1, <1>4, <1>5, <1>6, <1>7, <1>8

(* The server applies what the request names.                               *)
LEMMA ServeKeeps ==
  ASSUME ToolsInv, NEW i \in DOMAIN flight, T!Serve(i)
  PROVE  ToolsInv'
<1>. USE OneFlight
<1>1. PICK r : r = flight[1]
  OBVIOUS
<1>2. PICK o : o = IF r.do = "add" THEN T!NewId ELSE r.ids[1]
  OBVIOUS
<1>3. PICK new : new = T!Served(r, o)
  OBVIOUS
<1>4. PICK w : w = [(IF r.do = "delete" THEN r
                     ELSE [r EXCEPT !.layer = new[o].layer, !.shape = new[o].shape,
                                    !.ids = IF r.do = "add" THEN <<o>> ELSE @]) EXCEPT !.served = TRUE]
  OBVIOUS
<1>5. /\ ~r.served /\ T!Accepts(r) /\ server' = new /\ flight' = [flight EXCEPT ![1] = w]
      /\ applied' = IF r.do = "add" THEN T!Put(applied, o, {}) ELSE applied
      /\ UNCHANGED <<ui, records, hidden, queue, queued, elsewhere, mixed, late>>
  <2>1. i = 1
    OBVIOUS
  <2>2. server' = new /\ ~r.served /\ T!Accepts(r)
        /\ applied' = (IF r.do = "add" THEN T!Put(applied, o, {}) ELSE applied)
    BY <1>1, <1>2, <1>3, <2>1 DEF T!Serve
  <2>3. flight' = T!Replaced(1, w)
    BY <1>1, <1>2, <1>4, <2>1, <2>2 DEF T!Serve
  <2>4. UNCHANGED <<ui, records, hidden, queue, queued, elsewhere, mixed, late>>
    BY DEF T!Serve
  <2>. QED BY <2>2, <2>3, <2>4 DEF T!Replaced
<1>6. /\ r \in RequestSet /\ RequestFits(r, applied)
      /\ r.do # "add" => r.ids # <<>>
      /\ r.do = "merge" => TwoOf(r.ids)
  BY <1>1 DEF RequestFits
<1>7. /\ server \in [DOMAIN server -> Object] /\ applied \in Seq(SUBSET Nat)
      /\ DOMAIN records \subseteq 1..Len(applied) /\ DOMAIN server \subseteq 1..Len(applied)
      /\ Len(applied) \in Nat /\ DOMAIN applied = 1..Len(applied)
  BY DEF ToolsInv, Typed
<1>8. ServedObjects(r, o, new)
  BY <1>2, <1>3, <1>5, <1>6, <1>7, ServedIs
<1>9. r.do = "add" => o = Len(applied) + 1
  <2>1. Cardinality(DOMAIN applied) = Len(applied)
    <3>1. PICK n \in Nat : n = Len(applied) /\ DOMAIN applied = 1..n
      BY <1>7
    <3>2. Cardinality(1..n) = n
      BY FS_Interval
    <3>. QED BY <3>1, <3>2
  <2>2. T!NewId = 1 + Len(applied)
    BY <2>1, SameCardinality DEF T!NewId
  <2>. QED BY <1>2, <1>7, <2>2
<1>10. /\ applied' \in Seq(SUBSET Nat) /\ DOMAIN applied \subseteq DOMAIN applied'
       /\ \A p \in DOMAIN applied : applied'[p] = applied[p]
       /\ r.do = "add" => o \in DOMAIN applied' /\ applied'[o] = {} /\ o \notin DOMAIN applied
       /\ r.do # "add" => applied' = applied
  <2>1. CASE r.do = "add"
    <3>1. Longer(applied, T!Put(applied, o, {}), o)
      BY <1>7, <1>9, <2>1, PutLengthens
    <3>2. applied' = T!Put(applied, o, {})
      BY <1>5, <2>1
    <3>3. Longer(applied, applied', o)
      BY <3>1, <3>2
    <3>. QED BY <2>1, <3>3 DEF Longer
  <2>2. CASE r.do # "add"
    BY <1>5, <1>7, <2>2
  <2>. QED BY <2>1, <2>2
<1>11. r.do # "add" => o \in Nat /\ o = r.ids[1]
  BY <1>2, <1>6, FirstOf DEF RequestSet
<1>12. o \in Nat
  BY <1>7, <1>9, <1>11
<1>13. /\ w \in RequestSet /\ w.do = r.do /\ w.served = TRUE /\ w.loses = r.loses /\ w.selects = r.selects
       /\ w.ids = IF r.do = "add" THEN <<o>> ELSE r.ids
       /\ r.do = "delete" => w.shape = r.shape
       /\ r.do # "delete" => w.shape = new[o].shape
  <2>1. CASE r.do = "delete"
    <3>1. w = [r EXCEPT !.served = TRUE]
      BY <1>4, <2>1
    <3>. QED BY <1>6, <2>1, <3>1 DEF RequestSet
  <2>2. CASE r.do # "delete"
    <3>1. PICK ids, l, S : ids = (IF r.do = "add" THEN <<o>> ELSE r.ids) /\ l = new[o].layer /\ S = new[o].shape
      OBVIOUS
    <3>2. ids \in Seq(Nat)
      BY <1>6, <1>12, <3>1 DEF RequestSet
    <3>3. l \in AnyLayer /\ S \in SUBSET Nat
      <4>1. new[o] \in Object
        BY <1>8, <2>2 DEF ServedObjects
      <4>. QED BY <3>1, <4>1 DEF Object
    <3>4. w = [r EXCEPT !.layer = l, !.shape = S, !.ids = ids, !.served = TRUE]
      BY <1>4, <1>6, <2>2, <3>1 DEF RequestSet
    <3>. QED BY <1>6, <2>2, <3>1, <3>2, <3>3, <3>4 DEF RequestSet
  <2>. QED BY <2>1, <2>2
<1>14. flight' = <<w>> /\ flight' \in Seq(RequestSet) /\ Len(flight') = 1 /\ DOMAIN flight' = {1} /\ flight'[1] = w
  <2>1. flight \in Seq(RequestSet) /\ Len(flight) = 1
    BY DEF ToolsInv, Typed
  <2>. QED BY <1>5, <1>13, <2>1
<1>15. w.ids[1] = o
  BY <1>11, <1>13
<1>16. \A p \in DOMAIN server : applied[p] \subseteq server[p].shape
  <2>1. \A k \in DOMAIN flight : ~flight[k].served
    BY <1>1, <1>5
  <2>. QED BY <2>1 DEF ToolsInv, StrokesAreThere
<1>17. RequestFits(w, applied')
  <2>1. w.do \in {"patch", "move", "merge"} => T!ToSet(w.ids) \subseteq DOMAIN applied' /\ o \in DOMAIN applied'
    <3>1. r.do \in {"patch", "move", "merge"} => T!ToSet(r.ids) \subseteq DOMAIN applied /\ o \in T!ToSet(r.ids)
      BY <1>6, <1>11, FirstOf DEF RequestFits, RequestSet
    <3>. QED BY <1>10, <1>13, <3>1
  <2>2. w.do # "delete" => o \in DOMAIN applied'
    BY <1>6, <1>10, <1>13, <2>1 DEF RequestSet
  <2>3. w.do # "delete" => Keeps(w, applied')
    <3>1. CASE r.do = "add"
      <4>1. applied'[o] \ w.loses \subseteq w.shape
        BY <1>10, <3>1
      <4>. QED BY <1>13, <1>15, <3>1, <4>1 DEF Keeps
    <3>2. CASE r.do \in {"patch", "merge"}
      <4>1. w.shape = r.shape /\ w.loses = r.loses /\ w.ids = r.ids /\ applied' = applied
        BY <1>8, <1>10, <1>13, <3>2 DEF ServedObjects
      <4>2. Keeps(r, applied)
        BY <1>6, <3>2 DEF RequestFits
      <4>. QED BY <1>13, <4>1, <4>2 DEF Keeps
    <3>3. CASE r.do = "move"
      <4>1. o \in DOMAIN server /\ w.shape = server[o].shape /\ applied' = applied
        BY <1>8, <1>10, <1>13, <3>3 DEF ServedObjects
      <4>2. applied'[o] \ w.loses \subseteq w.shape
        BY <1>16, <4>1
      <4>. QED BY <1>13, <1>15, <3>3, <4>2 DEF Keeps
    <3>. QED BY <1>6, <1>13, <3>1, <3>2, <3>3 DEF RequestSet
  <2>4. w.ids # <<>> /\ (w.do = "merge" => TwoOf(w.ids)) /\ (w.selects => w.do = "merge")
    BY <1>6, <1>13 DEF RequestFits
  <2>. QED BY <1>15, <2>1, <2>2, <2>3, <2>4 DEF RequestFits
<1>18. ServedFits(w, server')
  <2>1. /\ w.do = "delete" => o \notin DOMAIN new
        /\ w.do # "delete" => new[o].shape = w.shape
        /\ w.do = "merge" => w.ids[2] \notin DOMAIN new
    BY <1>8, <1>13 DEF ServedObjects
  <2>. QED BY <1>5, <1>15, <2>1 DEF ServedFits
<1>19. FlightFits'
  BY <1>14, <1>17, <1>18 DEF FlightFits
<1>20. StrokesAreThere'
  <2>1. \A p \in DOMAIN records : applied'[p] \subseteq records[p].shape
    BY <1>7, <1>10 DEF ToolsInv, StrokesAreThere
  <2>2. ASSUME NEW p \in DOMAIN new, p # o PROVE applied'[p] \subseteq new[p].shape
    <3>1. p \in DOMAIN server /\ new[p] = server[p]
      BY <1>8, <2>2 DEF ServedObjects
    <3>. QED BY <1>7, <1>10, <1>16, <3>1
  <2>3. flight'[1].served /\ flight'[1].ids[1] = o /\ 1 \in DOMAIN flight'
    BY <1>13, <1>14, <1>15
  <2>. QED BY <1>5, <2>1, <2>2, <2>3 DEF StrokesAreThere
<1>21. Typed'
  <2>1. new \in [DOMAIN new -> Object] /\ DOMAIN new \subseteq 1..Len(applied')
    <3>1. DOMAIN new \subseteq DOMAIN server \union {o} /\ (r.do = "delete" => o \notin DOMAIN new)
          /\ new \in [DOMAIN new -> Object]
      BY <1>8 DEF ServedObjects
    <3>2. DOMAIN applied' = 1..Len(applied')
      BY <1>10
    <3>3. r.do # "delete" => o \in DOMAIN applied'
      BY <1>6, <1>13, <1>17, <1>15 DEF RequestFits
    <3>. QED BY <1>7, <1>10, <3>1, <3>2, <3>3
  <2>2. DOMAIN records \subseteq 1..Len(applied')
    <3>1. DOMAIN applied' = 1..Len(applied')
      BY <1>10
    <3>. QED BY <1>7, <1>10, <3>1
  <2>. QED BY <1>5, <1>10, <1>14, <2>1, <2>2 DEF ToolsInv, Typed
<1>22. Agree(ui', records', mixed', late') /\ TasksFit'
  BY <1>5 DEF ToolsInv, TasksFit
<1>. QED BY <1>19, <1>20, <1>21, <1>22 DEF ToolsInv

(* EXCEPT on a sequence of one.                                             *)
LEMMA OneReplaced ==
  ASSUME NEW V, NEW q \in Seq(V), Len(q) = 1, NEW w \in V
  PROVE  [q EXCEPT ![1] = w] = <<w>>
OBVIOUS

(* A task that deletes goes on with the rest of its objects.                *)
LEMMA RestOfMany ==
  ASSUME NEW q \in Seq(Nat), Len(q) > 1
  PROVE  Tail(q) \in Seq(Nat) /\ Tail(q) # <<>>
<1>1. q # <<>>
  OBVIOUS
<1>2. PICK w : w = Tail(q)
  OBVIOUS
<1>3. w \in Seq(Nat) /\ Len(w) = Len(q) - 1
  BY <1>1, <1>2, HeadTailProperties
<1>4. Len(w) # 0
  <2>1. PICK m, n \in Nat : m = Len(w) /\ n = Len(q)
    BY <1>3
  <2>2. n > 1 /\ m = n - 1
    BY <1>3, <2>1
  <2>3. m # 0
    BY <2>2
  <2>. QED BY <2>1, <2>3
<1>5. w # <<>>
  BY <1>4
<1>. QED BY <1>2, <1>3, <1>5

(* A stronger excuse.                                                       *)
LEMMA AgreeWeakened ==
  ASSUME NEW u, NEW known, NEW mixes, NEW lags, NEW mixes2, NEW lags2,
         Agree(u, known, mixes, lags), mixes => mixes2, lags => lags2
  PROVE  Agree(u, known, mixes2, lags2)
BY DEF Agree, SelectionOf

(* The client's objects once it has taken the answer r.                     *)
LEMMA TakenIs ==
  ASSUME ToolsInv, NEW r \in RequestSet, r.do # "delete" => r.ids # <<>>, r.do = "merge" => TwoOf(r.ids)
  PROVE  /\ T!Taken(r) \in [DOMAIN T!Taken(r) -> Object]
         /\ DOMAIN T!Taken(r) \subseteq DOMAIN records \union (IF r.do = "delete" THEN {} ELSE {r.ids[1]})
         /\ r.do = "delete" => r.ids[1] \notin DOMAIN T!Taken(r)
         /\ \A p \in DOMAIN T!Taken(r) : p # r.ids[1] => T!Taken(r)[p] = records[p] /\ p \in DOMAIN records
         /\ r.do # "delete" => r.ids[1] \in DOMAIN T!Taken(r) /\ T!Taken(r)[r.ids[1]].shape = r.shape
<1>1. records \in [DOMAIN records -> Object]
  BY DEF ToolsInv, Typed
<1>2. PICK new : new = T!Taken(r)
  OBVIOUS
<1>3. CASE r.do = "delete"
  <2>1. new = [p \in DOMAIN records \ {r.ids[1]} |-> records[p]]
    BY <1>2, <1>3 DEF T!Taken, T!Drop
  <2>. QED BY <1>1, <1>2, <1>3, <2>1
<1>4. CASE r.do # "delete"
  <2>1. PICK v : v = [layer |-> r.layer, shape |-> r.shape]
    OBVIOUS
  <2>2. v \in Object /\ v.shape = r.shape
    BY <2>1 DEF Object, RequestSet
  <2>3. PICK gone : gone = IF r.do = "merge" THEN {r.ids[2]} ELSE {}
    OBVIOUS
  <2>4. r.ids[1] \notin gone
    BY <2>3 DEF TwoOf
  <2>5. new = T!Drop(T!Put(records, r.ids[1], v), gone)
    BY <1>2, <1>4, <2>1, <2>3 DEF T!Taken
  <2>6. PICK mid : mid = T!Put(records, r.ids[1], v)
    OBVIOUS
  <2>7. mid = [p \in DOMAIN records \union {r.ids[1]} |-> IF p = r.ids[1] THEN v ELSE records[p]]
    BY <2>6 DEF T!Put
  <2>8. /\ DOMAIN mid = DOMAIN records \union {r.ids[1]} /\ mid[r.ids[1]] = v
        /\ \A p \in DOMAIN records : p # r.ids[1] => mid[p] = records[p]
        /\ \A p \in DOMAIN mid : mid[p] \in Object
    BY <1>1, <2>2, <2>7
  <2>9. new = [p \in DOMAIN mid \ gone |-> mid[p]]
    BY <2>5, <2>6 DEF T!Drop
  <2>10. DOMAIN new = DOMAIN mid \ gone /\ new \in [DOMAIN new -> Object] /\ \A p \in DOMAIN new : new[p] = mid[p]
    BY <2>8, <2>9
  <2>. QED BY <1>2, <1>4, <2>2, <2>4, <2>8, <2>10
<1>. QED BY <1>3, <1>4

(* What the user takes to be saved then is in the answer.                   *)
LEMMA ToldIs ==
  ASSUME ToolsInv, NEW r \in RequestSet, r.do # "delete" => r.ids[1] \in DOMAIN applied /\ Keeps(r, applied),
         r.do = "merge" => r.ids[2] \in DOMAIN applied
  PROVE  /\ T!Told(r) \in Seq(SUBSET Nat) /\ Len(T!Told(r)) = Len(applied) /\ DOMAIN T!Told(r) = DOMAIN applied
         /\ \A p \in DOMAIN applied : p # r.ids[1] \/ r.do = "delete" => T!Told(r)[p] = applied[p]
         /\ r.do # "delete" => T!Told(r)[r.ids[1]] \subseteq r.shape
<1>1. applied \in Seq(SUBSET Nat)
  BY DEF ToolsInv, Typed
<1>2. CASE r.do = "delete"
  BY <1>1, <1>2 DEF T!Told
<1>3. CASE r.do # "delete"
  <2>1. PICK joined : joined = IF r.do = "merge" THEN applied[r.ids[2]] ELSE {}
    OBVIOUS
  <2>2. PICK S : S = (applied[r.ids[1]] \union joined \union r.shape) \ r.loses
    OBVIOUS
  <2>3. S \subseteq r.shape
    <3>1. (applied[r.ids[1]] \union joined) \ r.loses \subseteq r.shape
      BY <1>3, <2>1 DEF Keeps
    <3>. QED BY <2>2, <3>1
  <2>4. S \in SUBSET Nat
    BY <2>3 DEF RequestSet
  <2>5. T!Told(r) = [applied EXCEPT ![r.ids[1]] = S]
    BY <1>3, <2>1, <2>2 DEF T!Told
  <2>6. PICK f : f = [applied EXCEPT ![r.ids[1]] = S]
    OBVIOUS
  <2>7. f \in Seq(SUBSET Nat) /\ Len(f) = Len(applied) /\ DOMAIN f = DOMAIN applied
    BY <1>1, <1>3, <2>4, <2>6, ExceptSeq
  <2>8. f[r.ids[1]] = S /\ \A p \in DOMAIN applied : p # r.ids[1] => f[p] = applied[p]
    BY <1>3, <2>6
  <2>. QED BY <1>3, <2>3, <2>5, <2>6, <2>7, <2>8
<1>. QED BY <1>2, <1>3

(* A merge of the selected objects selects its result.                      *)
LEMMA ResultingAgrees ==
  ASSUME NEW u, NEW known, NEW mixes, NEW lags, NEW r \in RequestSet, Agree(u, known, mixes, lags),
         r.selects => r.ids # <<>> /\ r.ids[1] \in DOMAIN known,
         r.selects /\ u.merge => lags
  PROVE  Agree(T!Resulting(u, r), known, mixes, lags)
<1>1. u \in Ui /\ ModesOf(u) /\ u.merge \in BOOLEAN
  BY DEF Agree, Ui
<1>2. CASE ~r.selects
  BY <1>2 DEF T!Resulting
<1>3. CASE r.selects
  <2>1. PICK o \in Nat : o = r.ids[1] /\ o \in DOMAIN known
    BY <1>3, FirstOf DEF RequestSet
  <2>2. CASE ~u.merge
    <3>1. Agree(T!SelectOnly(u, <<o>>), known, mixes, lags)
      BY <1>1, <2>1, SelectOneAgrees
    <3>. QED BY <1>3, <2>1, <2>2, <3>1, UnpickedAgrees DEF T!Resulting
  <2>3. CASE u.merge
    <3>1. PICK q, S : q = <<o>> /\ S = u.outlined \union {o}
      OBVIOUS
    <3>2. q \in Seq(Nat) /\ Len(q) = 1 /\ T!ToSet(q) = {o} /\ Distinct(q)
      BY <2>1, <3>1 DEF T!ToSet, Distinct
    <3>3. S \in SUBSET Nat
      BY <1>1, <2>1, <3>1 DEF Ui
    <3>4. PICK v : v = [u EXCEPT !.selected = q, !.outlined = S]
      OBVIOUS
    <3>5. v \in Ui /\ v.selected = q /\ v.outlined = S
      BY <1>1, <3>2, <3>3, <3>4 DEF Ui
    <3>6. ModesOf(v)
      <4>1. /\ v.active = u.active /\ v.mode = u.mode /\ v.merge = u.merge /\ v.session = u.session
            /\ v.stroke = u.stroke /\ v.points = u.points /\ v.ruler = u.ruler /\ v.compass = u.compass
        BY <1>1, <3>4 DEF Ui
      <4>2. Len(v.selected) <= 2
        <5>1. Len(q) <= 2
          BY <3>2
        <5>. QED BY <3>5, <5>1
      <4>. QED BY <1>1, <4>1, <4>2 DEF ModesOf
    <3>7. SelectionOf(v, known, mixes, lags)
      <4>1. u.outlined \subseteq DOMAIN known
        BY DEF Agree, SelectionOf
      <4>. QED BY <1>3, <2>1, <2>3, <3>1, <3>2, <3>5, <4>1 DEF SelectionOf, OneLayer, T!Selected
    <3>8. T!Resulting(u, r) = v
      BY <1>1, <1>3, <2>1, <2>3, <3>1, <3>4 DEF T!Resulting, Ui
    <3>. QED BY <3>5, <3>6, <3>7, <3>8 DEF Agree
  <2>. QED BY <1>1, <2>2, <2>3
<1>4. r.selects \in BOOLEAN
  BY DEF RequestSet
<1>. QED BY <1>2, <1>3, <1>4

(* The client takes the answer in.                                          *)
LEMMA TakeKeeps ==
  ASSUME ToolsInv, NEW i \in DOMAIN flight, T!Take(i)
  PROVE  ToolsInv'
<1>1. PICK r : r = flight[1]
  OBVIOUS
<1>2. /\ i = 1 /\ r \in RequestSet /\ RequestFits(r, applied) /\ ServedFits(r, server)
      /\ Len(flight) = 1 /\ DOMAIN flight = {1} /\ T!RemoveAt(flight, 1) = <<>>
  BY <1>1, OneFlight
<1>3. PICK u : u = T!Rebuilt(ui, T!Visible(records', hidden))
  OBVIOUS
<1>4. PICK mixes : mixes = (mixed \/ \E s \in T!Selected(u) : s \in DOMAIN records /\ records[s].layer # records'[s].layer)
  OBVIOUS
<1>5. PICK lags : lags = (late \/ (r.selects /\ u.merge))
  OBVIOUS
<1>6. /\ r.served /\ records' = T!Taken(r) /\ applied' = T!Told(r) /\ T!Becomes(T!Resulting(u, r), mixes, lags)
      /\ flight' = IF r.do = "delete" /\ Len(r.ids) > 1
                   THEN [flight EXCEPT ![1] = [r EXCEPT !.ids = Tail(@), !.served = FALSE]] ELSE <<>>
      /\ UNCHANGED <<hidden, server, queue, queued, elsewhere>>
  <2>1. r.served /\ records' = T!Taken(r) /\ applied' = T!Told(r)
    BY <1>1, <1>2 DEF T!Take
  <2>2. T!Becomes(T!Resulting(u, r), mixes, lags)
    BY <1>1, <1>2, <1>3, <1>4, <1>5 DEF T!Take
  <2>3. flight' = IF r.do = "delete" /\ Len(r.ids) > 1
                  THEN [flight EXCEPT ![1] = [r EXCEPT !.ids = Tail(@), !.served = FALSE]] ELSE <<>>
    BY <1>1, <1>2 DEF T!Take, T!Replaced
  <2>4. UNCHANGED <<hidden, server, queue, queued, elsewhere>>
    BY DEF T!Take
  <2>. QED BY <2>1, <2>2, <2>3, <2>4
<1>7. /\ r.do \in {"add", "patch", "move", "merge", "delete"} /\ r.ids \in Seq(Nat) /\ r.ids # <<>>
      /\ r.do = "merge" => TwoOf(r.ids) /\ r.ids[2] \in DOMAIN applied
      /\ r.selects => r.do = "merge"
      /\ r.do # "delete" => r.ids[1] \in DOMAIN applied /\ Keeps(r, applied)
  <2>1. r.do \in {"add", "patch", "move", "merge", "delete"} /\ r.ids \in Seq(Nat)
    BY <1>2 DEF RequestSet
  <2>2. r.ids # <<>> /\ (r.do = "merge" => TwoOf(r.ids) /\ T!ToSet(r.ids) \subseteq DOMAIN applied)
    BY <1>2, <1>6 DEF RequestFits
  <2>3. r.do # "delete" => r.ids[1] \in DOMAIN applied /\ Keeps(r, applied)
    BY <1>2, <1>6 DEF RequestFits
  <2>4. r.selects => r.do = "merge"
    BY <1>2 DEF RequestFits
  <2>. QED BY <2>1, <2>2, <2>3, <2>4, FirstOf
<1>8. /\ records' \in [DOMAIN records' -> Object]
      /\ DOMAIN records' \subseteq DOMAIN records \union (IF r.do = "delete" THEN {} ELSE {r.ids[1]})
      /\ r.do = "delete" => r.ids[1] \notin DOMAIN records'
      /\ \A p \in DOMAIN records' : p # r.ids[1] => records'[p] = records[p] /\ p \in DOMAIN records
      /\ r.do # "delete" => r.ids[1] \in DOMAIN records' /\ records'[r.ids[1]].shape = r.shape
  BY <1>2, <1>6, <1>7, TakenIs
<1>9. /\ applied' \in Seq(SUBSET Nat) /\ Len(applied') = Len(applied) /\ DOMAIN applied' = DOMAIN applied
      /\ \A p \in DOMAIN applied : p # r.ids[1] \/ r.do = "delete" => applied'[p] = applied[p]
      /\ r.do # "delete" => applied'[r.ids[1]] \subseteq r.shape
  BY <1>2, <1>6, <1>7, ToldIs
<1>10. /\ applied \in Seq(SUBSET Nat) /\ DOMAIN records \subseteq 1..Len(applied) /\ DOMAIN server \subseteq 1..Len(applied)
       /\ DOMAIN applied = 1..Len(applied) /\ flight \in Seq(RequestSet) /\ Agree(ui, records, mixed, late)
       /\ mixed \in BOOLEAN /\ late \in BOOLEAN
  BY DEF ToolsInv, Typed
<1>11. Agree(u, records', mixes, lags)
  <2>1. Agree(ui, records, mixes, lags)
    BY <1>4, <1>5, <1>10, AgreeWeakened
  <2>2. PICK S : S = T!Visible(records', hidden)
    OBVIOUS
  <2>3. S \subseteq DOMAIN records'
    BY <2>2 DEF T!Visible
  <2>4. ui.selected \in Seq(Nat) /\ T!Selected(ui) \subseteq DOMAIN records
    BY <1>10 DEF Agree, SelectionOf, Ui
  <2>5. T!Selected(u) = T!Selected(ui) \intersect S
    <3>1. PICK q : q = T!Only(ui.selected, S)
      OBVIOUS
    <3>2. T!ToSet(q) = T!ToSet(ui.selected) \intersect S /\ q \in Seq(Nat)
      BY <2>4, <3>1, OnlyFacts
    <3>3. u.selected = q
      BY <1>3, <1>10, <2>2, <3>1, <3>2, SelectOnlyFacts DEF T!Rebuilt, Agree
    <3>. QED BY <3>2, <3>3 DEF T!Selected
  <2>6. mixes \/ \A s \in T!Selected(ui) \intersect S : records'[s].layer = records[s].layer
    BY <1>4, <2>4, <2>5
  <2>. QED BY <1>3, <2>1, <2>2, <2>3, <2>6, RebuiltAgrees
<1>12. Agree(T!Resulting(u, r), records', mixes, lags)
  BY <1>2, <1>5, <1>7, <1>8, <1>11, ResultingAgrees
<1>13. mixes \in BOOLEAN /\ lags \in BOOLEAN
  BY <1>4, <1>5, <1>10
<1>14. Agree(ui', records', mixed', late') /\ mixed' \in BOOLEAN /\ late' \in BOOLEAN
  BY <1>6, <1>12, <1>13, BecomesAgrees
<1>15. /\ flight' \in Seq(RequestSet) /\ Len(flight') <= 1
       /\ \A k \in DOMAIN flight' : /\ ~flight'[k].served
                                    /\ RequestFits(flight'[k], applied') /\ ServedFits(flight'[k], server')
  <2>1. CASE ~(r.do = "delete" /\ Len(r.ids) > 1)
    BY <1>6, <2>1
  <2>2. CASE r.do = "delete" /\ Len(r.ids) > 1
    <3>1. PICK q : q = Tail(r.ids)
      OBVIOUS
    <3>2. q \in Seq(Nat) /\ q # <<>>
      BY <1>7, <2>2, <3>1, RestOfMany
    <3>3. PICK w : w = [r EXCEPT !.ids = q, !.served = FALSE]
      OBVIOUS
    <3>4. w \in RequestSet /\ w.do = "delete" /\ w.ids = q /\ w.selects = r.selects /\ w.served = FALSE
      BY <1>2, <2>2, <3>2, <3>3 DEF RequestSet
    <3>5. flight' = [flight EXCEPT ![1] = w]
      BY <1>2, <1>6, <2>2, <3>1, <3>3 DEF RequestSet
    <3>6. flight' \in Seq(RequestSet) /\ Len(flight') = 1 /\ DOMAIN flight' = {1} /\ flight'[1] = w
      <4>1. flight' = <<w>>
        BY <1>2, <1>10, <3>4, <3>5, OneReplaced
      <4>. QED BY <3>4, <4>1
    <3>7. RequestFits(w, applied') /\ ServedFits(w, server')
      BY <1>7, <2>2, <3>2, <3>4 DEF RequestFits, ServedFits
    <3>. QED BY <3>4, <3>6, <3>7
  <2>. QED BY <2>1, <2>2
<1>16. FlightFits'
  BY <1>15 DEF FlightFits
<1>17. StrokesAreThere'
  <2>1. ASSUME NEW p \in DOMAIN records' PROVE applied'[p] \subseteq records'[p].shape
    <3>1. CASE p = r.ids[1]
      BY <1>8, <1>9, <3>1
    <3>2. CASE p # r.ids[1]
      <4>1. records'[p] = records[p] /\ p \in DOMAIN records /\ p \in DOMAIN applied
        BY <1>8, <1>10, <3>2
      <4>. QED BY <1>9, <3>2, <4>1 DEF ToolsInv, StrokesAreThere
    <3>. QED BY <3>1, <3>2
  <2>2. ASSUME NEW p \in DOMAIN server PROVE applied'[p] \subseteq server[p].shape
    <3>1. CASE p = r.ids[1]
      <4>1. r.do # "delete" /\ server[p].shape = r.shape
        BY <1>2, <1>6, <3>1 DEF ServedFits
      <4>. QED BY <1>9, <3>1, <4>1
    <3>2. CASE p # r.ids[1]
      <4>1. \A k \in DOMAIN flight : flight[k].ids[1] # p
        BY <1>1, <1>2, <3>2
      <4>2. applied[p] \subseteq server[p].shape
        BY <4>1 DEF ToolsInv, StrokesAreThere
      <4>. QED BY <1>9, <1>10, <3>2, <4>2
    <3>. QED BY <3>1, <3>2
  <2>. QED BY <1>6, <2>1, <2>2 DEF StrokesAreThere
<1>18. Typed'
  <2>1. DOMAIN records' \subseteq 1..Len(applied') /\ DOMAIN server \subseteq 1..Len(applied')
    BY <1>7, <1>8, <1>9, <1>10
  <2>. QED BY <1>6, <1>8, <1>9, <1>14, <1>15, <2>1 DEF ToolsInv, Typed
<1>. QED BY <1>6, <1>14, <1>16, <1>17, <1>18 DEF ToolsInv, TasksFit

(* Another client removes or moves an object.                               *)
LEMMA ElsewhereKeeps ==
  ASSUME ToolsInv, T!Elsewhere
  PROVE  ToolsInv'
<1>1. UNCHANGED <<queue, flight, queued, applied>>
  BY DEF T!Elsewhere
<1>2. PICK gone : gone \in {{}} \union {{o} : o \in DOMAIN records} /\ records' = T!Drop(records, gone) /\ server' = T!Drop(server, gone)
  <2>1. CASE \E o \in DOMAIN records \intersect DOMAIN server :
               records' = T!Drop(records, {o}) /\ server' = T!Drop(server, {o})
    BY <2>1
  <2>2. CASE UNCHANGED <<records, server>>
    <3>1. records \in [DOMAIN records -> Object] /\ server \in [DOMAIN server -> Object]
      BY DEF ToolsInv, Typed
    <3>2. records' = T!Drop(records, {}) /\ server' = T!Drop(server, {})
      BY <2>2, <3>1 DEF T!Drop
    <3>. QED BY <3>2
  <2>. QED BY <2>1, <2>2 DEF T!Elsewhere
<1>3. /\ DOMAIN records' = DOMAIN records \ gone /\ \A p \in DOMAIN records' : records'[p] = records[p]
      /\ DOMAIN server' = DOMAIN server \ gone /\ \A p \in DOMAIN server' : server'[p] = server[p]
      /\ records' \in [DOMAIN records' -> Object] /\ server' \in [DOMAIN server' -> Object]
  <2>1. records \in [DOMAIN records -> Object] /\ server \in [DOMAIN server -> Object]
    BY DEF ToolsInv, Typed
  <2>. QED BY <1>2, <2>1 DEF T!Drop
<1>4. PICK u \in {T!Rebuilt(ui, T!Visible(records', hidden')), T!Cleared(ui)} : T!Becomes(u, mixed, late)
  BY DEF T!Elsewhere
<1>5. Agree(ui, records, mixed, late) /\ mixed \in BOOLEAN /\ late \in BOOLEAN
  BY DEF ToolsInv, Typed
<1>6. Agree(u, records', mixed, late)
  <2>1. CASE u = T!Cleared(ui)
    BY <1>5, <2>1, ClearedAgrees DEF Agree
  <2>2. CASE u = T!Rebuilt(ui, T!Visible(records', hidden'))
    <3>1. PICK S : S = T!Visible(records', hidden')
      OBVIOUS
    <3>2. S \subseteq DOMAIN records'
      BY <3>1 DEF T!Visible
    <3>3. \A s \in T!Selected(ui) \intersect S : records'[s].layer = records[s].layer
      BY <1>3, <3>2
    <3>. QED BY <1>5, <2>2, <3>1, <3>2, <3>3, RebuiltAgrees
  <2>. QED BY <1>4, <2>1, <2>2
<1>7. Agree(ui', records', mixed', late') /\ mixed' \in BOOLEAN /\ late' \in BOOLEAN
  BY <1>4, <1>5, <1>6, BecomesAgrees
<1>8. FlightFits'
  <2>1. ASSUME NEW i \in DOMAIN flight PROVE RequestFits(flight[i], applied) /\ ServedFits(flight[i], server')
    <3>1. RequestFits(flight[i], applied) /\ ServedFits(flight[i], server)
      BY DEF ToolsInv, FlightFits
    <3>. QED BY <1>3, <3>1 DEF ServedFits
  <2>. QED BY <1>1, <2>1 DEF ToolsInv, FlightFits
<1>9. StrokesAreThere'
  <2>1. \A p \in DOMAIN records' : applied[p] \subseteq records'[p].shape
    BY <1>3 DEF ToolsInv, StrokesAreThere
  <2>2. ASSUME NEW p \in DOMAIN server', \A i \in DOMAIN flight : flight[i].served => flight[i].ids[1] # p
        PROVE  applied[p] \subseteq server'[p].shape
    <3>1. p \in DOMAIN server /\ server'[p] = server[p]
      BY <1>3
    <3>. QED BY <2>2, <3>1 DEF ToolsInv, StrokesAreThere
  <2>. QED BY <1>1, <2>1, <2>2 DEF StrokesAreThere
<1>10. Typed'
  BY <1>1, <1>3, <1>7 DEF ToolsInv, Typed
<1>. QED BY <1>1, <1>7, <1>8, <1>9, <1>10 DEF ToolsInv, TasksFit

-----------------------------------------------------------------------------
(* The whole                                                                *)

(* The invariant holds at the start.                                        *)
LEMMA ToolsInvInit ==
  ASSUME T!MapToolsAssumption, T!Init
  PROVE  ToolsInv
<1>1. Home \in Seq(Layers) /\ DOMAIN Home = 1..Len(Home) /\ Len(Home) \in Nat
  BY DEF T!MapToolsAssumption
<1>2. Agree(ui, records, mixed, late)
  <2>1. PICK l \in AnyLayer : l = Home[1]
    BY DEF AnyLayer
  <2>2. "select" \in Tools /\ "none" \in Modes /\ T!Nothing \in Nat \union {T!Nothing} /\ T!None \in Nat
    BY DEF Tools, Modes, T!Nothing, T!None
  <2>3. ui = T!StartUi
    BY DEF T!Init
  <2>4. ui \in Ui
    BY <2>1, <2>2, <2>3 DEF T!StartUi, Ui
  <2>5. ModesOf(ui) /\ ui.selected = <<>> /\ ui.outlined = {}
    BY <2>3 DEF T!StartUi, ModesOf
  <2>. QED BY <2>4, <2>5, NoneSelected DEF Agree
<1>3. /\ records = [o \in DOMAIN Home |-> [layer |-> Home[o], shape |-> {}]] /\ server = records
      /\ applied = [o \in DOMAIN Home |-> {}] /\ queue = <<>> /\ flight = <<>> /\ queued = 0
      /\ mixed = FALSE /\ late = FALSE
  BY DEF T!Init, T!StartObjects
<1>4. records \in [DOMAIN records -> Object] /\ DOMAIN records = 1..Len(Home)
  BY <1>1, <1>3 DEF Object, AnyLayer
<1>5. applied \in Seq(SUBSET Nat) /\ Len(applied) = Len(Home)
  BY <1>1, <1>3
<1>6. Typed
  <2>1. queue \in Seq(TaskSet) /\ flight \in Seq(RequestSet) /\ queued \in Nat /\ mixed \in BOOLEAN /\ late \in BOOLEAN
    <3>1. queue \in Seq(TaskSet) /\ flight \in Seq(RequestSet) /\ queued \in Nat
      BY <1>3
    <3>2. mixed \in BOOLEAN /\ late \in BOOLEAN
      BY <1>3
    <3>. QED BY <3>1, <3>2
  <2>2. DOMAIN records \subseteq 1..Len(applied) /\ DOMAIN server \subseteq 1..Len(applied)
    BY <1>3, <1>4, <1>5
  <2>3. server \in [DOMAIN server -> Object]
    BY <1>3, <1>4
  <2>. QED BY <1>4, <1>5, <2>1, <2>2, <2>3 DEF Typed
<1>7. StrokesAreThere
  BY <1>1, <1>3, <1>4 DEF StrokesAreThere
<1>. QED BY <1>2, <1>3, <1>6, <1>7 DEF ToolsInv, TasksFit, FlightFits

(* Every step keeps the invariant.                                          *)
LEMMA ToolsInvNext ==
  ASSUME T!MapToolsAssumption, ToolsInv, T!Next
  PROVE  ToolsInv'
<1>1. CASE T!Browser
  <2>1. ASSUME NEW o \in 1..MaxId, NEW multi \in BOOLEAN, T!ObjectClick(o, multi) PROVE ToolsInv'
    BY <2>1, ClickKeeps
  <2>2. ASSUME NEW o \in 1..MaxId, T!SelectFromList(o) PROVE ToolsInv'
    BY <2>2, ClickKeeps
  <2>3. CASE T!FinishPolygon(ui) \/ T!FinishEdit \/ T!DeleteSelected \/ T!MergeSelected \/ T!CircleAction
             \/ \E l \in Layers : T!ChooseLayer(l)
    BY <2>3, ButtonsKeep
  <2>. QED BY <1>1, <2>1, <2>2, <2>3, MapClickKeeps, MarksKeep, ToolbarKeeps, PenUpKeeps DEF T!Browser
<1>2. CASE T!Run \/ T!Elsewhere
  BY <1>2, RunKeeps, ElsewhereKeeps
<1>3. ASSUME NEW i \in DOMAIN flight, T!Serve(i) \/ T!Fail(i) \/ T!Take(i) PROVE ToolsInv'
  BY <1>3, ServeKeeps, FailKeeps, TakeKeeps
<1>. QED BY <1>1, <1>2, <1>3 DEF T!Next

(* A step of another part keeps the invariant.                              *)
LEMMA ToolsInvStutter ==
  ASSUME ToolsInv, UNCHANGED T!vars
  PROVE  ToolsInv'
BY DEF ToolsInv, T!vars, Typed, TasksFit, FlightFits, StrokesAreThere

(* A selection without repetitions is as long as its set is large.          *)
LEMMA CardinalityOfDistinct ==
  ASSUME NEW q \in Seq(Nat), Distinct(q)
  PROVE  Cardinality(T!ToSet(q)) = Len(q)
<1>1. DOMAIN q = 1..Len(q) /\ Len(q) \in Nat
  OBVIOUS
<1>2. PICK n, S : n = Len(q) /\ S = T!ToSet(q) /\ n \in Nat
  BY <1>1
<1>3. q \in [1..n -> S] /\ \A s \in S : \E i \in 1..n : q[i] = s
  BY <1>1, <1>2 DEF T!ToSet
<1>4. q \in Bijection(1..n, S)
  BY <1>1, <1>2, <1>3 DEF Distinct, Bijection, Injection, Surjection, IsInjective
<1>5. IsFiniteSet(1..n) /\ Cardinality(1..n) = n
  <2>1. n \in Nat
    BY <1>2
  <2>2. IsFiniteSet(1..n) /\ Cardinality(1..n) = IF 1 > n THEN 0 ELSE n - 1 + 1
    BY <2>1, FS_Interval
  <2>. QED BY <2>1, <2>2
<1>6. Cardinality(S) = n
  BY <1>4, <1>5, FS_Bijection DEF ExistsBijection
<1>. QED BY <1>2, <1>6

(* The invariant is stronger than ToolsAgree ...                            *)
LEMMA ToolsInvAgrees ==
  ASSUME ToolsInv
  PROVE  T!ToolsAgree
<1>1. ui.selected \in Seq(Nat) /\ ModesOf(ui) /\ SelectionOf(ui, records, mixed, late)
  BY DEF ToolsInv, Agree, Ui
<1>2. Cardinality(T!Selected(ui)) = Len(ui.selected)
  BY <1>1, CardinalityOfDistinct DEF T!Selected, SelectionOf
<1>3. T!ModesAgree
  BY <1>1 DEF ModesOf, T!ModesAgree
<1>4. T!SelectionAgrees
  BY <1>1, <1>2, SameCardinality DEF SelectionOf, OneLayer, T!SelectionAgrees
<1>. QED BY <1>3, <1>4 DEF T!ToolsAgree

(* ... and than StrokesStay.                                                *)
LEMMA ToolsInvStrokes ==
  ASSUME ToolsInv
  PROVE  T!StrokesStay
<1>1. ASSUME NEW o \in DOMAIN server, \A i \in DOMAIN flight : flight[i].served => o \notin T!ToSet(flight[i].ids)
      PROVE  applied[o] \subseteq server[o].shape
  <2>1. ASSUME NEW i \in DOMAIN flight, flight[i].served PROVE flight[i].ids[1] # o
    <3>1. flight[i] \in RequestSet /\ RequestFits(flight[i], applied)
      BY DEF ToolsInv, Typed, FlightFits
    <3>2. flight[i].ids \in Seq(Nat) /\ flight[i].ids # <<>>
      BY <2>1, <3>1 DEF RequestSet, RequestFits
    <3>3. flight[i].ids[1] \in T!ToSet(flight[i].ids)
      BY <3>2, FirstOf
    <3>. QED BY <1>1, <2>1, <3>3
  <2>. QED BY <2>1 DEF ToolsInv, StrokesAreThere
<1>. QED BY <1>1 DEF T!StrokesStay

-----------------------------------------------------------------------------
(* The runs                                                                 *)

(* The invariant holds in every behaviour of the browser of the run.        *)
LEMMA ToolsInvAlways == SpecMC => []ToolsInv
<1>. USE MCBrowserAssumption
<1>1. InitMC => ToolsInv
  BY ToolsInvInit DEF InitMC
<1>2. ToolsInv /\ [NextMC]_<<part, vars, tools, map>> => ToolsInv'
  <2>1. NextMC => T!Next \/ UNCHANGED tools
    BY DEF NextMC
  <2>2. UNCHANGED tools => UNCHANGED T!vars
    BY DEF tools, T!vars
  <2>. QED BY <2>1, <2>2, ToolsInvNext, ToolsInvStutter
<1>. QED BY <1>1, <1>2, PTL DEF SpecMC

(* Whatever the user does while edits are under way, the tools, the modes   *)
(* and the selection stay in agreement (map/tools.js): ToolsAgree.          *)
THEOREM ToolsAlwaysAgree == SpecMC => []ToolsAgree
<1>1. ToolsInv => ToolsAgree
  BY ToolsInvAgrees DEF ToolsAgree
<1>. QED BY <1>1, ToolsInvAlways, PTL

(* What the user was told is part of an object is in the database, as soon  *)
(* as no answer about it is under way (tools.js:89): StrokesStay.           *)
THEOREM StrokesAlwaysStay == SpecMC => []StrokesStay
<1>1. ToolsInv => StrokesStay
  BY ToolsInvStrokes DEF StrokesStay
<1>. QED BY <1>1, ToolsInvAlways, PTL

-----------------------------------------------------------------------------
(* The runs of snapshots (SnapshotRun)                                      *)

(* The shape of the state                                                   *)

Stages == {"health", "create", "poll", "publish", "answer", "reload", "end"}
RunSet ==
  [kind : {"upload", "segment"}, stage : Stages, task : Nat, classes : SUBSET Classes,
   count : Nat, told : Stages \union {None, "done"}]
TaskRow == [status : {"PENDING", "COMPLETED", "FAILED", "gone"}, result : Seq(Classes)]
ObjectSet == [layer : Classes, number : Nat, task : Nat]
TxSet == [open : BOOLEAN, classes : Seq(Classes), todo : SUBSET Nat, adds : Seq(ObjectSet)]

Shape ==
  /\ runs \in Seq(RunSet) /\ Len(runs) <= MaxRuns
  /\ tasks \in Seq(TaskRow) /\ objects \in Seq(ObjectSet)
  /\ tx \in [0..MaxRuns -> TxSet]
  /\ file \in BOOLEAN /\ disabled \in BOOLEAN /\ segRunning \in BOOLEAN
  /\ overlapped \in BOOLEAN

(* The buttons: a segmentation at a time, and ControlsComeBack.             *)
Controls ==
  /\ segRunning = (Active("segment") # {})
  /\ \A r, s \in Active("segment") : r = s
  /\ Active("upload") = {} => disabled = ~file

(* A run has a task of its own, and is told something only at its end.      *)
Owned ==
  \A r \in DOMAIN runs :
    /\ runs[r].task <= Len(tasks)
    /\ runs[r].stage \in {"health", "create"} => runs[r].task = NoTask
    /\ runs[r].stage \in {"poll", "publish", "answer", "reload"} => runs[r].task # NoTask
    /\ runs[r].stage # "end" => runs[r].told = None
    /\ runs[r].stage = "end" => runs[r].told \in (Stages \ {"end"}) \union {"done"}
    /\ \A s \in DOMAIN runs : runs[r].task = runs[s].task /\ runs[r].task # NoTask => r = s

(* A run that has seen its task completed.                                  *)
Past(r) ==
  /\ runs[r].task # NoTask
  /\ \/ runs[r].stage \in {"publish", "answer", "reload"}
     \/ runs[r].told \in {"publish", "answer", "reload", "done"}

ResultIsThere ==
  \A r \in DOMAIN runs : Past(r) => tasks[runs[r].task].status \in {"COMPLETED", "gone"}

(* A transaction belongs to the drawing tools or to a run that publishes,   *)
(* or has given up meanwhile; nothing of its result is there before.        *)
Publishing(a) ==
  /\ a \in DOMAIN runs /\ Past(a) /\ (runs[a].stage = "publish" \/ runs[a].told = "publish")
  /\ ResultOf(a) = {}
  /\ tx[a].classes = tasks[runs[a].task].result
  /\ tx[a].todo \subseteq Wanted(a)
  /\ Len(tx[a].adds) + Cardinality(tx[a].todo) = Cardinality(Wanted(a))

Transactions ==
  \A a \in 0..MaxRuns :
    /\ ~Open(a) => tx[a] = Closed
    /\ tx[a].todo \subseteq DOMAIN tx[a].classes
    /\ Open(a) /\ a # Drawer => Publishing(a)
    /\ \A i \in DOMAIN tx[a].adds : tx[a].adds[i].task = TaskOf(a)

(* What is on the layers of a result is all of it.                          *)
Complete ==
  /\ \A i \in DOMAIN objects : objects[i].task <= Len(tasks)
  /\ \A r \in DOMAIN runs :
       /\ ResultOf(r) # {} =>
            /\ Past(r) /\ runs[r].stage # "publish"
            /\ Cardinality(ResultOf(r)) = Cardinality(Wanted(r))
       /\ runs[r].stage \in {"answer", "reload"} \/ runs[r].told = "done" =>
            /\ Past(r) /\ ~Open(r)
            /\ Cardinality(ResultOf(r)) = runs[r].count
            /\ runs[r].count = Cardinality(Wanted(r))

(* Numbers: those of a transaction differ from each other; they are like a  *)
(* committed one only if the transactions overlapped.                       *)
OwnDiffer ==
  \A a \in 0..MaxRuns : \A i, j \in DOMAIN tx[a].adds :
    i # j /\ tx[a].adds[i].layer = tx[a].adds[j].layer => tx[a].adds[i].number # tx[a].adds[j].number

CommittedDiffer ==
  \A a \in 0..MaxRuns : \A i \in DOMAIN tx[a].adds, j \in DOMAIN objects :
    objects[j].layer = tx[a].adds[i].layer /\ objects[j].number = tx[a].adds[i].number =>
      overlapped /\ objects[j].task # TaskOf(a)

LayersApart ==
  ~overlapped =>
    \A a, b \in 0..MaxRuns : a # b =>
      \A i \in DOMAIN tx[a].adds, j \in DOMAIN tx[b].adds : tx[a].adds[i].layer # tx[b].adds[j].layer

Numbers == NumbersDiffer /\ OwnDiffer /\ CommittedDiffer /\ LayersApart

(* There is a largest number.                                               *)
Bounded ==
  \E n \in Nat :
    /\ \A i \in DOMAIN objects : objects[i].number <= n
    /\ \A a \in 0..MaxRuns : \A i \in DOMAIN tx[a].adds : tx[a].adds[i].number <= n

SnapInv ==
  /\ Shape /\ Controls /\ Owned /\ ResultIsThere /\ Transactions /\ Complete
  /\ Numbers /\ Bounded

-----------------------------------------------------------------------------
(* MaxNumber                                                                *)

(* A set of numbers that is not empty and has a bound has a largest one.    *)
LEMMA LargestExists ==
  ASSUME NEW S \in SUBSET Nat, S # {}, NEW n \in Nat, \A x \in S : x <= n
  PROVE  Max(S) \in S /\ \A x \in S : x <= Max(S)
<1>. DEFINE U == {k \in Nat : \A x \in S : x <= k}
<1>1. PICK m \in U : \A k \in U : ~(<<k, m>> \in OpToRel(<, Nat))
  <2>1. U \subseteq Nat /\ n \in U
    OBVIOUS
  <2>. HIDE DEF U
  <2>. QED BY <2>1, WFMin, NatLessThanWellFounded
<1>2. \A k \in U : ~(k < m)
  BY <1>1 DEF OpToRel
<1>3. m \in S
  <2>1. CASE m = 0
    <3>1. PICK x \in S : x <= m
      OBVIOUS
    <3>. QED BY <2>1, <3>1
  <2>2. CASE m # 0
    <3>1. m - 1 \notin U
      BY <1>2, <2>2
    <3>. QED BY <2>2, <3>1
  <2>. QED BY <2>1, <2>2
<1>. QED BY <1>3 DEF Max

(* The number of a new object is greater than those of its layer that are   *)
(* committed, and those of its own transaction.                             *)
LEMMA NewNumber ==
  ASSUME Shape, Bounded, NEW a \in 0..MaxRuns, NEW c
  PROVE  /\ MaxNumber(a, c) \in Nat
         /\ \A i \in DOMAIN objects : objects[i].layer = c => objects[i].number <= MaxNumber(a, c)
         /\ \A i \in DOMAIN tx[a].adds : tx[a].adds[i].layer = c => tx[a].adds[i].number <= MaxNumber(a, c)
<1>. DEFINE here == {p \in ToSet(objects) \union ToSet(tx[a].adds) : p.layer = c}
            S == {0} \union {o.number : o \in here}
<1>1. /\ \A i \in DOMAIN objects : objects[i] \in ObjectSet
      /\ tx[a].adds \in Seq(ObjectSet) /\ \A i \in DOMAIN tx[a].adds : tx[a].adds[i] \in ObjectSet
  BY DEF Shape, TxSet
<1>2. PICK n \in Nat : /\ \A i \in DOMAIN objects : objects[i].number <= n
                       /\ \A i \in DOMAIN tx[a].adds : tx[a].adds[i].number <= n
  BY DEF Bounded
<1>3. \A p \in here : p.number \in Nat /\ p.number <= n
  BY <1>1, <1>2 DEF ToSet, ObjectSet
<1>4. S \in SUBSET Nat /\ 0 \in S /\ \A x \in S : x <= n
  <2>. HIDE DEF here
  <2>. QED BY <1>3
<1>5. MaxNumber(a, c) = Max(S)
  BY DEF MaxNumber
<1>6. /\ \A i \in DOMAIN objects : objects[i].layer = c => objects[i].number \in S
      /\ \A i \in DOMAIN tx[a].adds : tx[a].adds[i].layer = c => tx[a].adds[i].number \in S
  BY DEF ToSet
<1>. HIDE DEF S
<1>7. Max(S) \in S /\ \A x \in S : x <= Max(S)
  BY <1>4, LargestExists
<1>. QED BY <1>4, <1>5, <1>6, <1>7
-----------------------------------------------------------------------------
(* The steps of a run                                                       *)

(* What a run may do in one step, apart from publishing: end in the stage   *)
(* it is in, finish, or go on.                                              *)
RunMoves(p, q) ==
  /\ p.stage # "end" /\ q.kind = p.kind /\ q.count = p.count
  /\ \/ q.stage = "end" /\ q.told = p.stage /\ q.task = p.task /\ q.classes = p.classes
     \/ p.stage = "reload" /\ q.stage = "end" /\ q.told = "done" /\ q.task = p.task /\ q.classes = p.classes
     \/ /\ q.told = None /\ q.task = p.task /\ q.classes = p.classes
        /\ <<p.stage, q.stage>> \in {<<"health", "create">>, <<"answer", "reload">>}
     \/ /\ q.told = None /\ q.task = p.task /\ p.stage = "poll" /\ q.stage = "publish"
        /\ tasks[p.task].status = "COMPLETED"
     \/ /\ q.told = None /\ q.classes = p.classes /\ p.stage = "create" /\ q.stage = "poll"
        /\ q.task = Len(tasks) + 1 /\ Len(tasks') = Len(tasks) + 1

(* A step in which run r moves (no run if r = 0), tasks are added but not   *)
(* changed, nothing is published, and transactions may be rolled back.      *)
Moved(r, q) ==
  /\ IF r = 0 THEN runs' = runs
     ELSE /\ r \in DOMAIN runs /\ q \in RunSet /\ RunMoves(runs[r], q)
          /\ runs' = [runs EXCEPT ![r] = q]
  /\ UNCHANGED <<objects, overlapped>>
  /\ \A a \in 0..MaxRuns : tx'[a] \in {tx[a], Closed}
  /\ tasks' \in Seq(TaskRow) /\ Len(tasks) <= Len(tasks')
  /\ \A t \in DOMAIN tasks : tasks'[t] = tasks[t]

LEMMA MovedRuns ==
  ASSUME SnapInv, NEW r, NEW q, Moved(r, q)
  PROVE  /\ DOMAIN runs' = DOMAIN runs /\ 0 \notin DOMAIN runs
         /\ r # 0 => runs'[r] = q /\ r \in DOMAIN runs
         /\ \A s \in DOMAIN runs : s # r => runs'[s] = runs[s]
         /\ runs' \in Seq(RunSet) /\ Len(runs') = Len(runs)
         /\ \A s \in DOMAIN runs : runs[s] \in RunSet
         /\ DOMAIN tasks = 1..Len(tasks) /\ DOMAIN tasks' = 1..Len(tasks') /\ Len(tasks) \in Nat /\ Len(tasks') \in Nat
<1>1. runs \in Seq(RunSet) /\ tasks \in Seq(TaskRow) /\ tasks' \in Seq(TaskRow)
  BY DEF SnapInv, Shape, Moved
<1>2. CASE r = 0
  BY <1>1, <1>2 DEF Moved
<1>3. CASE r # 0
  <2>1. r \in DOMAIN runs /\ q \in RunSet /\ runs' = [runs EXCEPT ![r] = q] /\ Len(tasks) <= Len(tasks')
    BY <1>3 DEF Moved
  <2>2. runs' \in Seq(RunSet) /\ Len(runs') = Len(runs)
    BY <1>1, <2>1
  <2>. QED BY <1>1, <2>1, <2>2
<1>. QED BY <1>2, <1>3

LEMMA MovedOwned ==
  ASSUME SnapInv, NEW r, NEW q, Moved(r, q)
  PROVE  Owned'
<1>. USE MovedRuns
<1>1. \A s \in DOMAIN runs : runs[s].task \in Nat /\ runs[s].task <= Len(tasks)
  BY DEF SnapInv, Owned, RunSet
<1>2. r # 0 => q.task = runs[r].task \/ (runs[r].task = NoTask /\ q.task = Len(tasks) + 1 /\ Len(tasks') = Len(tasks) + 1)
  BY DEF Moved, RunMoves, SnapInv, Owned
<1>3. ASSUME NEW s \in DOMAIN runs
      PROVE  /\ runs'[s].task <= Len(tasks')
             /\ \A t \in DOMAIN runs : runs'[s].task = runs'[t].task /\ runs'[s].task # NoTask => s = t
  BY <1>1, <1>2 DEF Moved, SnapInv, Owned, NoTask
<1>4. ASSUME NEW s \in DOMAIN runs
      PROVE  /\ runs'[s].stage \in {"health", "create"} => runs'[s].task = NoTask
             /\ runs'[s].stage \in {"poll", "publish", "answer", "reload"} => runs'[s].task # NoTask
             /\ runs'[s].stage # "end" => runs'[s].told = None
             /\ runs'[s].stage = "end" => runs'[s].told \in (Stages \ {"end"}) \union {"done"}
  <2>1. CASE s # r
    BY <2>1 DEF SnapInv, Owned
  <2>2. CASE s = r
    <3>. r # 0
      BY <2>2
    <3>1. q.stage \in {"poll", "publish", "answer", "reload"} => q.task # NoTask
      BY <1>2 DEF Moved, RunMoves, SnapInv, Owned, NoTask
    <3>2. q.stage \in {"health", "create"} => q.task = NoTask
      BY DEF Moved, RunMoves, SnapInv, Owned, NoTask
    <3>3. runs[r].stage \in Stages \ {"end"}
      BY DEF Moved, RunMoves, RunSet
    <3>. QED BY <2>2, <3>1, <3>2, <3>3 DEF Moved, RunMoves
  <2>. QED BY <2>1, <2>2
<1>. QED BY <1>3, <1>4 DEF Owned

(* What a move leaves as it was: the past of runs, and what is published.   *)
LEMMA MovedKeeps ==
  ASSUME SnapInv, NEW r, NEW q, Moved(r, q), NEW s \in DOMAIN runs
  PROVE  /\ Past(s) => /\ Past(s)' /\ runs'[s].task = runs[s].task /\ runs[s].task \in DOMAIN tasks
                       /\ tasks'[runs[s].task] = tasks[runs[s].task]
                       /\ Wanted(s)' = Wanted(s)
         /\ ResultOf(s) # {} => Past(s)
         /\ Past(s) => ResultOf(s)' = ResultOf(s)
         /\ ~Past(s) => ResultOf(s)' = {}
         /\ Past(s)' /\ ~Past(s) => s = r /\ q.stage = "publish" /\ tasks'[q.task].status = "COMPLETED"
<1>. USE MovedRuns
<1>1. runs[s] \in RunSet
  BY DEF SnapInv, Shape
<1>2. ASSUME Past(s)
      PROVE  /\ Past(s)' /\ runs'[s].task = runs[s].task /\ runs[s].task \in DOMAIN tasks
             /\ tasks'[runs[s].task] = tasks[runs[s].task]
             /\ runs'[s].classes = runs[s].classes
  <2>1. runs[s].task \in 1..Len(tasks)
    BY <1>1, <1>2 DEF Past, SnapInv, Owned, RunSet, NoTask
  <2>2. runs[s].stage # "end" => runs[s].stage \in {"publish", "answer", "reload"}
    BY <1>2 DEF Past, SnapInv, Owned, None
  <2>3. Past(s)' /\ runs'[s].task = runs[s].task /\ runs'[s].classes = runs[s].classes
    <3>1. CASE s # r
      BY <1>2, <3>1 DEF Past
    <3>2. CASE s = r
      BY <1>2, <2>2, <3>2 DEF Past, Moved, RunMoves
    <3>. QED BY <3>1, <3>2
  <2>. QED BY <2>1, <2>3 DEF Moved
<1>3. Past(s) => Wanted(s)' = Wanted(s)
  BY <1>2 DEF Wanted, Allowed
<1>4. ResultOf(s) # {} => Past(s)
  BY DEF SnapInv, Complete
<1>5. Past(s) => ResultOf(s)' = ResultOf(s)
  BY <1>2 DEF ResultOf, Moved
<1>6. ASSUME ~Past(s) PROVE ResultOf(s)' = {}
  <2>1. runs'[s].task = runs[s].task \/ runs'[s].task = Len(tasks) + 1
    BY DEF Moved, RunMoves
  <2>2. CASE runs'[s].task = runs[s].task
    BY <1>4, <1>6, <2>2 DEF ResultOf, Moved
  <2>3. CASE runs'[s].task = Len(tasks) + 1
    BY <2>3 DEF ResultOf, Moved, SnapInv, Complete, Shape, ObjectSet
  <2>. QED BY <2>1, <2>2, <2>3
<1>7. ASSUME Past(s)', ~Past(s) PROVE s = r /\ q.stage = "publish" /\ tasks'[q.task].status = "COMPLETED"
  <2>1. s = r
    BY <1>7 DEF Past
  <2>2. runs[r].stage # "end" /\ runs[r].told = None
    BY <2>1 DEF Moved, RunMoves, SnapInv, Owned
  <2>3. q.stage = "publish" /\ runs[r].stage = "poll" /\ q.task = runs[r].task /\ tasks[q.task].status = "COMPLETED"
    <3>1. runs'[s] = q /\ runs[s] = runs[r] /\ RunMoves(runs[r], q)
      BY <2>1 DEF Moved
    <3>2. runs[r].stage \in {"publish", "answer", "reload"} => FALSE
      BY <1>7, <2>1 DEF Past, SnapInv, Owned
    <3>3. q.stage \in {"publish", "answer", "reload"} \/ q.told \in {"publish", "answer", "reload", "done"}
      BY <1>7, <3>1 DEF Past
    <3>4. q.told # runs[r].stage \/ q.stage # "end" \/ q.told \notin {"publish", "answer", "reload", "done"}
      BY <1>1, <2>1, <3>2 DEF RunSet, Stages
    <3>5. q.stage = "publish"
      BY <3>1, <3>2, <3>3, <3>4 DEF RunMoves, None
    <3>. QED BY <3>1, <3>5 DEF RunMoves
  <2>4. q.task \in DOMAIN tasks
    BY <1>1, <2>1, <2>3 DEF SnapInv, Owned, RunSet, NoTask
  <2>. QED BY <2>1, <2>3, <2>4 DEF Moved
<1>. QED BY <1>2, <1>3, <1>4, <1>5, <1>6, <1>7

(* A move keeps the rest of the invariant.                                  *)
LEMMA MovedRest ==
  ASSUME SnapInv, NEW r, NEW q, Moved(r, q)
  PROVE  Owned' /\ ResultIsThere' /\ Transactions' /\ Complete' /\ Numbers' /\ Bounded'
<1>. USE MovedRuns
<1>1. ResultIsThere'
  <2>1. SUFFICES ASSUME NEW s \in DOMAIN runs, Past(s)' PROVE tasks'[runs'[s].task].status \in {"COMPLETED", "gone"}
    BY DEF ResultIsThere
  <2>2. CASE Past(s)
    BY <2>2, MovedKeeps DEF SnapInv, ResultIsThere
  <2>3. CASE ~Past(s)
    <3>1. s = r /\ tasks'[q.task].status = "COMPLETED"
      BY <2>1, <2>3, MovedKeeps
    <3>. QED BY <3>1
  <2>. QED BY <2>2, <2>3
<1>2. /\ Closed.adds = <<>> /\ Closed.todo = {} /\ Closed.classes = <<>> /\ ~Closed.open
      /\ \A a \in 0..MaxRuns : tx'[a] = tx[a] \/ tx'[a] = Closed
      /\ \A a \in 0..MaxRuns : \A i \in DOMAIN tx'[a].adds : tx'[a] = tx[a] /\ Open(a)
  <2>1. Closed.adds = <<>> /\ Closed.todo = {} /\ Closed.classes = <<>> /\ ~Closed.open
    BY DEF Closed
  <2>2. \A a \in 0..MaxRuns : tx'[a] = tx[a] \/ tx'[a] = Closed
    BY DEF Moved
  <2>3. \A i \in DOMAIN Closed.adds : FALSE
    BY <2>1
  <2>. QED BY <2>1, <2>2, <2>3 DEF SnapInv, Transactions
<1>3. ASSUME NEW a \in 0..MaxRuns, Open(a), a # Drawer
      PROVE  /\ a \in DOMAIN runs /\ Past(a) /\ Past(a)'
             /\ runs[a].stage = "publish" \/ runs[a].told = "publish"
             /\ runs'[a].stage = "publish" \/ runs'[a].told = "publish"
             /\ runs'[a].task = runs[a].task /\ tasks'[runs[a].task] = tasks[runs[a].task]
             /\ Wanted(a)' = Wanted(a) /\ ResultOf(a)' = {}
  <2>1. Publishing(a)
    BY <1>3 DEF SnapInv, Transactions
  <2>2. a \in DOMAIN runs /\ Past(a) /\ (runs[a].stage = "publish" \/ runs[a].told = "publish") /\ ResultOf(a) = {}
    BY <2>1 DEF Publishing
  <2>3. runs'[a].stage = "publish" \/ runs'[a].told = "publish"
    <3>1. CASE a # r
      BY <2>2, <3>1
    <3>2. CASE a = r
      <4>1. r # 0 /\ runs[a].told = None /\ runs[a].stage = "publish"
        BY <1>3, <2>2, <3>2 DEF Moved, RunMoves, SnapInv, Owned, Drawer, None
      <4>. QED BY <3>2, <4>1 DEF Moved, RunMoves
    <3>. QED BY <3>1, <3>2
  <2>. QED BY <2>2, <2>3, MovedKeeps
<1>4. ASSUME NEW a \in 0..MaxRuns, Open(a)
      PROVE  TaskOf(a)' = TaskOf(a)
  BY <1>3, <1>4 DEF TaskOf
<1>5. Transactions'
  <2>1. SUFFICES ASSUME NEW a \in 0..MaxRuns
                 PROVE  /\ ~Open(a)' => tx'[a] = Closed
                        /\ tx'[a].todo \subseteq DOMAIN tx'[a].classes
                        /\ Open(a)' /\ a # Drawer => Publishing(a)'
                        /\ \A i \in DOMAIN tx'[a].adds : tx'[a].adds[i].task = TaskOf(a)'
    BY DEF Transactions
  <2>2. ~Open(a)' => tx'[a] = Closed
    BY <1>2 DEF Open, SnapInv, Transactions
  <2>3. tx'[a].todo \subseteq DOMAIN tx'[a].classes
    BY <1>2 DEF SnapInv, Transactions
  <2>4. ASSUME Open(a)', a # Drawer PROVE Publishing(a)'
    <3>1. tx'[a] = tx[a] /\ Open(a)
      BY <1>2, <2>4 DEF Open
    <3>2. Publishing(a)
      BY <2>4, <3>1 DEF SnapInv, Transactions
    <3>. QED BY <1>3, <2>4, <3>1, <3>2 DEF Publishing
  <2>5. \A i \in DOMAIN tx'[a].adds : tx'[a].adds[i].task = TaskOf(a)'
    BY <1>2, <1>4 DEF SnapInv, Transactions
  <2>. QED BY <2>2, <2>3, <2>4, <2>5
<1>6. Complete'
  <2>1. \A i \in DOMAIN objects' : objects'[i].task <= Len(tasks')
    <3>1. \A i \in DOMAIN objects : objects[i].task \in Nat /\ objects[i].task <= Len(tasks)
      <4>1. \A i \in DOMAIN objects : objects[i] \in ObjectSet
        BY DEF SnapInv, Shape
      <4>. QED BY <4>1 DEF SnapInv, Complete, ObjectSet
    <3>. QED BY <3>1 DEF Moved
  <2>2. ASSUME NEW s \in DOMAIN runs, ResultOf(s)' # {}
        PROVE  /\ Past(s)' /\ runs'[s].stage # "publish"
               /\ Cardinality(ResultOf(s)') = Cardinality(Wanted(s)')
    <3>1. Past(s) /\ Past(s)' /\ ResultOf(s)' = ResultOf(s) /\ Wanted(s)' = Wanted(s)
      BY <2>2, MovedKeeps
    <3>2. runs[s].stage # "publish" /\ Cardinality(ResultOf(s)) = Cardinality(Wanted(s))
      BY <2>2, <3>1 DEF SnapInv, Complete
    <3>3. runs'[s].stage # "publish"
      <4>1. CASE s # r
        BY <3>2, <4>1
      <4>2. CASE s = r
        <5>1. runs[r].stage # "poll"
          BY <3>1, <4>2 DEF Past, SnapInv, Owned, None
        <5>. QED BY <4>2, <5>1 DEF Moved, RunMoves
      <4>. QED BY <4>1, <4>2
    <3>. QED BY <3>1, <3>2, <3>3
  <2>3. ASSUME NEW s \in DOMAIN runs, runs'[s].stage \in {"answer", "reload"} \/ runs'[s].told = "done"
        PROVE  /\ Past(s)' /\ ~Open(s)'
               /\ Cardinality(ResultOf(s)') = runs'[s].count
               /\ runs'[s].count = Cardinality(Wanted(s)')
    <3>1. (runs[s].stage \in {"answer", "reload"} \/ runs[s].told = "done") /\ runs'[s].count = runs[s].count
      <4>1. CASE s # r
        BY <2>3, <4>1
      <4>2. CASE s = r
        <5>1. RunMoves(runs[s], runs'[s]) /\ runs[s] \in RunSet
          BY <4>2 DEF Moved
        <5>. QED BY <2>3, <5>1 DEF RunMoves, RunSet, Stages, None
      <4>. QED BY <4>1, <4>2
    <3>2. /\ Past(s) /\ ~Open(s)
          /\ Cardinality(ResultOf(s)) = runs[s].count
          /\ runs[s].count = Cardinality(Wanted(s))
      BY <3>1 DEF SnapInv, Complete
    <3>3. s \in 0..MaxRuns
      BY SnapshotRunAssumption DEF SnapInv, Shape, SnapshotRunAssumption
    <3>. QED BY <1>2, <3>1, <3>2, <3>3, MovedKeeps DEF Open
  <2>. QED BY <2>1, <2>2, <2>3 DEF Complete
<1>7. Numbers'
  <2>1. NumbersDiffer /\ OwnDiffer /\ CommittedDiffer /\ LayersApart
    BY DEF SnapInv, Numbers
  <2>2. objects' = objects /\ overlapped' = overlapped
    BY DEF Moved
  <2>3. NumbersDiffer'
    BY <2>1, <2>2 DEF NumbersDiffer
  <2>4. OwnDiffer'
    BY <1>2, <2>1 DEF OwnDiffer
  <2>5. CommittedDiffer'
    <3>1. \A a \in 0..MaxRuns : \A i \in DOMAIN tx'[a].adds : tx'[a] = tx[a] /\ TaskOf(a)' = TaskOf(a)
      BY <1>2, <1>4
    <3>. QED BY <2>1, <2>2, <3>1 DEF CommittedDiffer
  <2>6. LayersApart'
    BY <1>2, <2>1, <2>2 DEF LayersApart
  <2>. QED BY <2>3, <2>4, <2>5, <2>6 DEF Numbers
<1>8. Bounded'
  BY <1>2 DEF SnapInv, Bounded, Moved
<1>. QED BY <1>1, <1>5, <1>6, <1>7, <1>8, MovedOwned

(* A run goes on, or no run moves: the buttons stay as they are.            *)
LEMMA ControlsGo ==
  ASSUME SnapInv, NEW r, NEW q, Moved(r, q), r # 0 => q.stage # "end", UNCHANGED client
  PROVE  Controls'
<1>. USE MovedRuns
<1>1. ASSUME NEW kind PROVE Active(kind)' = Active(kind)
  <2>1. ASSUME NEW s \in DOMAIN runs
        PROVE  runs'[s].kind = runs[s].kind /\ (runs'[s].stage # "end" <=> runs[s].stage # "end")
    BY DEF Moved, RunMoves
  <2>. QED BY <2>1 DEF Active
<1>. QED BY <1>1 DEF SnapInv, Controls, client

(* A run ends: its button is released.                                      *)
LEMMA ControlsEnd ==
  ASSUME SnapInv, NEW r, NEW q, Moved(r, q), r # 0, q.stage = "end",
         Released(runs[r].kind), UNCHANGED <<file, clicks>>
  PROVE  Controls'
<1>. USE MovedRuns
<1>1. /\ r \in Active(runs[r].kind)
      /\ \A kind : Active(kind)' = Active(kind) \ {r}
      /\ \A kind : kind # runs[r].kind => Active(kind)' = Active(kind)
  <2>1. r \in DOMAIN runs /\ runs'[r].kind = runs[r].kind /\ runs'[r].stage = "end" /\ runs[r].stage # "end"
    BY DEF Moved, RunMoves
  <2>. QED BY <2>1 DEF Active
<1>2. CASE runs[r].kind = "segment"
  <2>1. segRunning' = FALSE /\ disabled' = disabled /\ file' = file
    BY <1>2 DEF Released
  <2>2. Active("segment")' = {} /\ Active("upload")' = Active("upload")
    BY <1>1, <1>2 DEF SnapInv, Controls
  <2>3. Active("upload") = {} => disabled = ~file
    BY DEF SnapInv, Controls
  <2>4. /\ segRunning' = (Active("segment")' # {})
        /\ \A s, t \in Active("segment")' : s = t
        /\ Active("upload")' = {} => disabled' = ~file'
    BY ONLY <2>1, <2>2, <2>3
  <2>. QED BY <2>4 DEF Controls
<1>3. CASE runs[r].kind # "segment"
  <2>1. disabled' = ~file' /\ segRunning' = segRunning
    BY <1>3 DEF Released
  <2>2. Active("segment")' = Active("segment")
    BY <1>1, <1>3
  <2>3. /\ segRunning = (Active("segment") # {})
        /\ \A s, t \in Active("segment") : s = t
    BY DEF SnapInv, Controls
  <2>4. /\ segRunning' = (Active("segment")' # {})
        /\ \A s, t \in Active("segment")' : s = t
    BY ONLY <2>1, <2>2, <2>3
  <2>. QED BY <2>1, <2>4 DEF Controls
<1>. QED BY <1>2, <1>3

(* The steps in which a run goes on, or none moves.                         *)
LEMMA GoKeeps ==
  ASSUME SnapInv, NEW r, NEW q, Moved(r, q), r # 0 => q.stage # "end",
         UNCHANGED client, tx' \in [0..MaxRuns -> TxSet]
  PROVE  SnapInv'
<1>1. Shape'
  BY MovedRuns DEF SnapInv, Shape, Moved, client
<1>. QED BY <1>1, MovedRest, ControlsGo DEF SnapInv

(* The steps in which a run ends.                                           *)
LEMMA EndKeeps ==
  ASSUME SnapInv, NEW r \in DOMAIN runs, NEW told, End(r, told),
         \/ runs[r].stage # "end" /\ told = runs[r].stage
         \/ runs[r].stage = "reload" /\ told = "done",
         UNCHANGED <<objects, overlapped>>,
         tx' \in [0..MaxRuns -> TxSet], \A a \in 0..MaxRuns : tx'[a] \in {tx[a], Closed},
         tasks' \in Seq(TaskRow), Len(tasks) <= Len(tasks'), \A t \in DOMAIN tasks : tasks'[t] = tasks[t]
  PROVE  SnapInv'
<1>. DEFINE p == runs[r]
            q == [p EXCEPT !.stage = "end", !.told = told]
<1>1. p \in RunSet /\ r # 0
  BY DEF SnapInv, Shape
<1>2. /\ q.kind = p.kind /\ q.stage = "end" /\ q.task = p.task /\ q.classes = p.classes
      /\ q.count = p.count /\ q.told = told /\ q \in RunSet
  <2>1. told \in Stages \union {None, "done"}
    BY <1>1 DEF RunSet
  <2>. QED BY <1>1, <2>1 DEF RunSet, Stages
<1>3. runs' = [runs EXCEPT ![r] = q]
  BY DEF End
<1>4. RunMoves(runs[r], q)
  BY <1>2 DEF RunMoves
<1>5. Moved(r, q)
  BY <1>1, <1>2, <1>3, <1>4 DEF Moved
<1>6. q.stage = "end"
  BY <1>2
<1>. HIDE DEF q
<1>7. Controls'
  BY <1>1, <1>5, <1>6, ControlsEnd DEF End
<1>8. Shape'
  <2>1. file' \in BOOLEAN /\ disabled' \in BOOLEAN /\ segRunning' \in BOOLEAN
    BY DEF SnapInv, Shape, End, Released
  <2>. QED BY <1>5, <2>1, MovedRuns DEF SnapInv, Shape, Moved
<1>. QED BY <1>5, <1>7, <1>8, MovedRest DEF SnapInv

(* The stages that a run goes on to.                                        *)
LEMMA RunGoesOn ==
  ASSUME SnapInv, NEW r \in DOMAIN runs, NEW q \in RunSet, runs' = [runs EXCEPT ![r] = q],
         RunMoves(runs[r], q), q.stage # "end", UNCHANGED <<client, layers>>,
         tasks' \in Seq(TaskRow), Len(tasks) <= Len(tasks'), \A t \in DOMAIN tasks : tasks'[t] = tasks[t]
  PROVE  SnapInv'
<1>1. tx' \in [0..MaxRuns -> TxSet] /\ UNCHANGED client
  BY DEF SnapInv, Shape, layers
<1>2. Moved(r, q)
  BY DEF Moved, layers, SnapInv, Shape
<1>. QED BY <1>1, <1>2, GoKeeps

LEMMA ReadyKeeps ==
  ASSUME SnapInv, NEW r \in DOMAIN runs, Ready(r) \/ Published(r)
  PROVE  SnapInv'
<1>. DEFINE next == IF runs[r].stage = "health" THEN "create" ELSE "reload"
            q == [runs[r] EXCEPT !.stage = next]
<1>1. runs[r] \in RunSet /\ tasks \in Seq(TaskRow)
  BY DEF SnapInv, Shape
<1>2. /\ runs' = [runs EXCEPT ![r] = q] /\ UNCHANGED <<client, layers, tasks>>
      /\ <<runs[r].stage, next>> \in {<<"health", "create">>, <<"answer", "reload">>}
  BY DEF Ready, Published, Goes, At
<1>3. runs[r].told = None
  BY <1>2 DEF SnapInv, Owned
<1>4. q \in RunSet /\ q.stage = next /\ q.told = None /\ q.task = runs[r].task /\ q.classes = runs[r].classes
      /\ q.kind = runs[r].kind /\ q.count = runs[r].count
  BY <1>1, <1>3 DEF RunSet, Stages
<1>5. RunMoves(runs[r], q) /\ q.stage # "end"
  <2>. HIDE DEF q
  <2>. QED BY <1>2, <1>4 DEF RunMoves
<1>6. Len(tasks) <= Len(tasks)
  BY <1>1
<1>. HIDE DEF q
<1>. QED BY <1>1, <1>2, <1>4, <1>5, <1>6, RunGoesOn

(* Ends that change neither tasks nor layers.                               *)
LEMMA EndsAlone ==
  ASSUME SnapInv, NEW r \in DOMAIN runs, NEW told, End(r, told), UNCHANGED <<tasks, layers>>,
         \/ runs[r].stage # "end" /\ told = runs[r].stage
         \/ runs[r].stage = "reload" /\ told = "done"
  PROVE  SnapInv'
<1>1. /\ UNCHANGED <<objects, overlapped>> /\ tx' \in [0..MaxRuns -> TxSet]
      /\ \A a \in 0..MaxRuns : tx'[a] \in {tx[a], Closed}
      /\ tasks' \in Seq(TaskRow) /\ Len(tasks) <= Len(tasks') /\ \A t \in DOMAIN tasks : tasks'[t] = tasks[t]
  BY DEF layers, SnapInv, Shape
<1>. QED BY <1>1, EndKeeps

LEMMA GiveUpKeeps ==
  ASSUME SnapInv, NEW r \in DOMAIN runs, GiveUp(r) \/ Reload(r)
  PROVE  SnapInv'
<1>1. CASE GiveUp(r)
  <2>1. End(r, runs[r].stage) /\ UNCHANGED <<tasks, layers>> /\ runs[r].stage # "end"
    BY <1>1 DEF GiveUp, At
  <2>. QED BY <2>1, EndsAlone
<1>2. CASE Reload(r)
  <2>1. End(r, "done") /\ UNCHANGED <<tasks, layers>> /\ runs[r].stage = "reload"
    BY <1>2 DEF Reload, At
  <2>. QED BY <2>1, EndsAlone
<1>. QED BY <1>1, <1>2

LEMMA CreateKeeps ==
  ASSUME SnapInv, NEW r \in DOMAIN runs, Create(r)
  PROVE  SnapInv'
<1>1. runs[r] \in RunSet /\ tasks \in Seq(TaskRow) /\ runs[r].stage = "create" /\ runs[r].told = None
  BY DEF SnapInv, Shape, Create, At, Owned
<1>2. /\ tasks' \in Seq(TaskRow) /\ Len(tasks') = Len(tasks) + 1
      /\ \A t \in DOMAIN tasks : tasks'[t] = tasks[t]
  <2>1. PICK s \in {"PENDING", "FAILED"} : tasks' = Append(tasks, [status |-> s, result |-> <<>>])
    BY DEF Create
  <2>2. [status |-> s, result |-> <<>>] \in TaskRow
    BY DEF TaskRow
  <2>. QED BY <1>1, <2>1, <2>2
<1>3. CASE runs' = [runs EXCEPT ![r].stage = "poll", ![r].task = Len(tasks')] /\ UNCHANGED client
  <2>. DEFINE n == Len(tasks) + 1
              q == [runs[r] EXCEPT !.stage = "poll", !.task = n]
  <2>0. n \in Nat
    BY <1>1
  <2>1. runs' = [runs EXCEPT ![r] = q]
    BY <1>2, <1>3
  <2>2. q \in RunSet /\ q.stage = "poll" /\ q.told = None /\ q.task = n
        /\ q.classes = runs[r].classes /\ q.kind = runs[r].kind /\ q.count = runs[r].count
    <3>. HIDE DEF n
    <3>. QED BY <1>1, <2>0 DEF RunSet, Stages
  <2>. HIDE DEF q
  <2>3. RunMoves(runs[r], q) /\ q.stage # "end"
    BY <1>1, <1>2, <2>2 DEF RunMoves
  <2>4. UNCHANGED <<client, layers>>
    BY <1>3 DEF Create
  <2>5. Len(tasks) <= Len(tasks')
    BY <1>1, <1>2
  <2>. QED BY <1>2, <2>1, <2>2, <2>3, <2>4, <2>5, RunGoesOn
<1>4. CASE End(r, runs[r].stage)
  <2>1. UNCHANGED <<objects, overlapped>> /\ tx' \in [0..MaxRuns -> TxSet] /\ Len(tasks) <= Len(tasks')
        /\ \A a \in 0..MaxRuns : tx'[a] \in {tx[a], Closed}
    BY <1>1, <1>2 DEF Create, layers, SnapInv, Shape
  <2>. QED BY <1>1, <1>2, <1>4, <2>1, EndKeeps
<1>. QED BY <1>3, <1>4 DEF Create

LEMMA PollKeeps ==
  ASSUME SnapInv, NEW r \in DOMAIN runs, Poll(r)
  PROVE  SnapInv'
<1>1. runs[r] \in RunSet /\ tasks \in Seq(TaskRow) /\ runs[r].stage = "poll" /\ runs[r].told = None
      /\ UNCHANGED <<tasks, layers>>
  <2>1. runs[r].stage = "poll" /\ UNCHANGED <<tasks, layers>>
    BY DEF Poll, At
  <2>. QED BY <2>1 DEF SnapInv, Shape, Owned
<1>2. CASE tasks[runs[r].task].status = "COMPLETED"
  <2>1. PICK S \in Picks : runs' = [runs EXCEPT ![r].stage = "publish", ![r].classes = S]
    BY <1>2 DEF Poll
  <2>2. UNCHANGED client
    BY <1>2 DEF Poll
  <2>. DEFINE q == [runs[r] EXCEPT !.stage = "publish", !.classes = S]
  <2>3. runs' = [runs EXCEPT ![r] = q]
    BY <2>1
  <2>4. S \in SUBSET Classes
    BY SnapshotRunAssumption DEF SnapshotRunAssumption
  <2>5. q \in RunSet /\ q.stage = "publish" /\ q.told = None /\ q.task = runs[r].task
        /\ q.kind = runs[r].kind /\ q.count = runs[r].count
    BY <1>1, <2>4 DEF RunSet, Stages
  <2>. HIDE DEF q
  <2>6. RunMoves(runs[r], q) /\ q.stage # "end"
    BY <1>1, <1>2, <2>5 DEF RunMoves
  <2>7. UNCHANGED <<client, layers>> /\ tasks' \in Seq(TaskRow) /\ Len(tasks) <= Len(tasks')
        /\ \A t \in DOMAIN tasks : tasks'[t] = tasks[t]
    BY <1>1, <2>2
  <2>. QED BY <2>3, <2>5, <2>6, <2>7, RunGoesOn
<1>3. CASE tasks[runs[r].task].status # "COMPLETED"
  <2>1. End(r, runs[r].stage)
    BY <1>3 DEF Poll
  <2>. QED BY <1>1, <2>1, EndsAlone
<1>. QED BY <1>2, <1>3

LEMMA HandleUploadFileKeeps ==
  ASSUME SnapInv, NEW f \in BOOLEAN, HandleUploadFile(f)
  PROVE  SnapInv'
<1>1. Moved(0, 0) /\ tx' \in [0..MaxRuns -> TxSet]
  BY DEF HandleUploadFile, Moved, layers, SnapInv, Shape
<1>2. Shape'
  BY DEF HandleUploadFile, layers, SnapInv, Shape
<1>3. Controls'
  <2>1. \A kind : Active(kind)' = Active(kind)
    BY DEF HandleUploadFile, Active
  <2>. QED BY <2>1 DEF HandleUploadFile, SnapInv, Controls
<1>. QED BY <1>1, <1>2, <1>3, MovedRest DEF SnapInv

(* What is known of a run stays when its record, the tasks and the objects  *)
(* stay.                                                                    *)
LEMMA SameRun ==
  ASSUME NEW s \in DOMAIN runs, s \in DOMAIN runs', runs'[s] = runs[s], UNCHANGED <<tasks, objects>>
  PROVE  Past(s)' = Past(s) /\ ResultOf(s)' = ResultOf(s) /\ Wanted(s)' = Wanted(s)
BY DEF Past, ResultOf, Wanted, Allowed

(* A new run.                                                               *)
LEMMA NewRun ==
  ASSUME SnapInv, Len(runs) < MaxRuns, UNCHANGED <<tasks, layers>>,
         NEW kind \in {"upload", "segment"}, NEW stage \in {"create", "health"},
         runs' = Append(runs, Run(kind, stage))
  PROVE  /\ Owned' /\ ResultIsThere' /\ Transactions' /\ Complete' /\ Numbers' /\ Bounded'
         /\ runs' \in Seq(RunSet) /\ Len(runs') <= MaxRuns
         /\ \A k \in {"upload", "segment"} : k # kind => Active(k)' = Active(k)
         /\ Active(kind)' = Active(kind) \union {Len(runs) + 1}
<1>0. PICK n : n = Len(runs) + 1
  OBVIOUS
<1>1. /\ runs \in Seq(RunSet) /\ n \in Nat /\ DOMAIN runs = 1..Len(runs) /\ Len(runs') = n /\ DOMAIN runs' = 1..n
      /\ DOMAIN runs' = DOMAIN runs \union {n} /\ n \notin DOMAIN runs /\ n \in DOMAIN runs'
      /\ \A s \in DOMAIN runs : s \in DOMAIN runs' /\ runs'[s] = runs[s]
      /\ runs'[n] = Run(kind, stage)
  BY <1>0 DEF SnapInv, Shape
<1>2. /\ Run(kind, stage) \in RunSet /\ Run(kind, stage).task = NoTask /\ Run(kind, stage).told = None
      /\ Run(kind, stage).stage = stage /\ Run(kind, stage).kind = kind
  BY DEF Run, RunSet, Stages, NoTask
<1>3. UNCHANGED <<tasks, objects>> /\ tx' = tx /\ overlapped' = overlapped
  BY DEF layers
<1>4. \A s \in DOMAIN runs : Past(s)' = Past(s) /\ ResultOf(s)' = ResultOf(s) /\ Wanted(s)' = Wanted(s)
  BY <1>1, <1>3, SameRun
<1>5. ~Past(n)' /\ ResultOf(n)' = {}
  BY <1>1, <1>2 DEF Past, ResultOf
<1>6. \A a \in 0..MaxRuns : Open(a) => TaskOf(a)' = TaskOf(a)
  BY <1>1 DEF SnapInv, Transactions, Publishing, TaskOf
<1>7. Owned'
  <2>1. ASSUME NEW s \in DOMAIN runs'
        PROVE  /\ runs'[s].task <= Len(tasks')
               /\ runs'[s].stage \in {"health", "create"} => runs'[s].task = NoTask
               /\ runs'[s].stage \in {"poll", "publish", "answer", "reload"} => runs'[s].task # NoTask
               /\ runs'[s].stage # "end" => runs'[s].told = None
               /\ runs'[s].stage = "end" => runs'[s].told \in (Stages \ {"end"}) \union {"done"}
    <3>1. CASE s \in DOMAIN runs
      BY <1>1, <1>3, <3>1 DEF SnapInv, Owned
    <3>2. CASE s = n
      <4>1. NoTask <= Len(tasks')
        BY <1>3 DEF SnapInv, Shape, NoTask
      <4>. QED BY <1>1, <1>2, <3>2, <4>1
    <3>. QED BY <1>1, <3>1, <3>2
  <2>2. \A s, t \in DOMAIN runs' : runs'[s].task = runs'[t].task /\ runs'[s].task # NoTask => s = t
    BY <1>1, <1>2 DEF SnapInv, Owned
  <2>. QED BY <2>1, <2>2 DEF Owned
<1>8. ResultIsThere'
  BY <1>1, <1>3, <1>4, <1>5 DEF SnapInv, ResultIsThere
<1>9. Transactions'
  <2>1. SUFFICES ASSUME NEW a \in 0..MaxRuns
                 PROVE  /\ Open(a) /\ a # Drawer => Publishing(a)'
                        /\ \A i \in DOMAIN tx[a].adds : tx[a].adds[i].task = TaskOf(a)'
    BY <1>3 DEF SnapInv, Transactions, Open
  <2>2. ASSUME Open(a), a # Drawer PROVE Publishing(a)'
    <3>1. Publishing(a)
      BY <2>2 DEF SnapInv, Transactions
    <3>. QED BY <1>1, <1>3, <1>4, <3>1 DEF Publishing
  <2>3. ASSUME NEW i \in DOMAIN tx[a].adds PROVE tx[a].adds[i].task = TaskOf(a)'
    <3>1. \A j \in DOMAIN Closed.adds : FALSE
      BY DEF Closed
    <3>2. Open(a)
      BY <2>3, <3>1 DEF SnapInv, Transactions
    <3>. QED BY <1>6, <2>3, <3>2 DEF SnapInv, Transactions
  <2>. QED BY <2>2, <2>3
<1>10. Complete'
  <2>1. \A i \in DOMAIN objects' : objects'[i].task <= Len(tasks')
    BY <1>3 DEF SnapInv, Complete
  <2>2. ASSUME NEW s \in DOMAIN runs'
        PROVE  /\ ResultOf(s)' # {} =>
                    /\ Past(s)' /\ runs'[s].stage # "publish"
                    /\ Cardinality(ResultOf(s)') = Cardinality(Wanted(s)')
               /\ runs'[s].stage \in {"answer", "reload"} \/ runs'[s].told = "done" =>
                    /\ Past(s)' /\ ~Open(s)'
                    /\ Cardinality(ResultOf(s)') = runs'[s].count
                    /\ runs'[s].count = Cardinality(Wanted(s)')
    <3>1. CASE s \in DOMAIN runs
      BY <1>1, <1>3, <1>4, <3>1 DEF SnapInv, Complete, Open
    <3>2. CASE s = n
      BY <1>1, <1>2, <1>5, <3>2 DEF None
    <3>. QED BY <1>1, <3>1, <3>2
  <2>. QED BY <2>1, <2>2 DEF Complete
<1>11. Numbers'
  <2>1. \A a \in 0..MaxRuns : \A i : i \in DOMAIN tx[a].adds => TaskOf(a)' = TaskOf(a)
    <3>1. \A j \in DOMAIN Closed.adds : FALSE
      BY DEF Closed
    <3>. QED BY <1>6, <3>1 DEF SnapInv, Transactions
  <2>. QED BY <1>3, <2>1 DEF SnapInv, Numbers, NumbersDiffer, OwnDiffer, CommittedDiffer, LayersApart
<1>12. Bounded'
  BY <1>3 DEF SnapInv, Bounded
<1>13. runs' \in Seq(RunSet) /\ Len(runs') <= MaxRuns
  BY <1>0, <1>1, <1>2, SnapshotRunAssumption DEF SnapshotRunAssumption
<1>14. \A k \in {"upload", "segment"} : Active(k)' = {s \in DOMAIN runs' : runs'[s].kind = k /\ runs'[s].stage # "end"}
  BY DEF Active
<1>15. /\ \A k \in {"upload", "segment"} : k # kind => Active(k)' = Active(k)
       /\ Active(kind)' = Active(kind) \union {n}
  BY <1>1, <1>2, <1>14 DEF Active
<1>. QED BY <1>0, <1>7, <1>8, <1>9, <1>10, <1>11, <1>12, <1>13, <1>15

LEMMA StartKeeps ==
  ASSUME SnapInv, StartUploadProcessing \/ RunSegmentation
  PROVE  SnapInv'
<1>1. CASE StartUploadProcessing
  <2>1. /\ Len(runs) < MaxRuns /\ UNCHANGED <<tasks, layers>> /\ runs' = Append(runs, Run("upload", "create"))
        /\ disabled' = TRUE /\ UNCHANGED <<file, segRunning>>
    BY <1>1 DEF StartUploadProcessing
  <2>2. /\ Owned' /\ ResultIsThere' /\ Transactions' /\ Complete' /\ Numbers' /\ Bounded'
        /\ runs' \in Seq(RunSet) /\ Len(runs') <= MaxRuns
        /\ Active("segment")' = Active("segment") /\ Active("upload")' # {}
    BY <2>1, NewRun
  <2>3. Shape'
    BY <2>1, <2>2 DEF SnapInv, Shape, layers
  <2>4. Controls'
    BY <2>1, <2>2 DEF SnapInv, Controls
  <2>. QED BY <2>2, <2>3, <2>4 DEF SnapInv
<1>2. CASE RunSegmentation
  <2>1. /\ Len(runs) < MaxRuns /\ UNCHANGED <<tasks, layers>> /\ runs' = Append(runs, Run("segment", "health"))
        /\ ~segRunning /\ segRunning' = TRUE /\ UNCHANGED <<file, disabled>>
    BY <1>2 DEF RunSegmentation
  <2>2. /\ Owned' /\ ResultIsThere' /\ Transactions' /\ Complete' /\ Numbers' /\ Bounded'
        /\ runs' \in Seq(RunSet) /\ Len(runs') <= MaxRuns
        /\ Active("upload")' = Active("upload") /\ Active("segment")' = Active("segment") \union {Len(runs) + 1}
    BY <2>1, NewRun
  <2>3. Shape'
    BY <2>1, <2>2 DEF SnapInv, Shape, layers
  <2>4. Controls'
    <3>1. Active("segment") = {}
      BY <2>1 DEF SnapInv, Controls
    <3>2. Active("segment")' = {Len(runs) + 1}
      BY <2>2, <3>1
    <3>. QED BY <2>1, <2>2, <3>2 DEF SnapInv, Controls
  <2>. QED BY <2>2, <2>3, <2>4 DEF SnapInv
<1>. QED BY <1>1, <1>2

-----------------------------------------------------------------------------
(* The steps of the server                                                  *)

(* The worker does not touch a task that was completed, nor its limit the   *)
(* result of one.                                                           *)
LEMMA WorkKeeps ==
  ASSUME SnapInv, NEW t \in DOMAIN tasks, Work(t)
  PROVE  SnapInv'
<1>1. tasks \in Seq(TaskRow) /\ tasks[t] \in TaskRow /\ UNCHANGED <<runs, client, layers>>
  BY DEF SnapInv, Shape, Work
<1>2. PICK v \in TaskRow : /\ tasks' = [tasks EXCEPT ![t] = v]
                           /\ tasks[t].status \in {"COMPLETED", "gone"} =>
                                v.status \in {"COMPLETED", "gone"} /\ v.result = tasks[t].result
  <2>1. CASE tasks[t].status = "PENDING" /\ \E f \in Results :
               tasks' = [tasks EXCEPT ![t] = [status |-> "COMPLETED", result |-> f]]
    <3>1. PICK f \in Results : tasks' = [tasks EXCEPT ![t] = [status |-> "COMPLETED", result |-> f]]
      BY <2>1
    <3>2. [status |-> "COMPLETED", result |-> f] \in TaskRow
      BY SnapshotRunAssumption DEF SnapshotRunAssumption, TaskRow
    <3>. QED BY <2>1, <3>1, <3>2
  <2>2. CASE tasks[t].status = "PENDING" /\ tasks' = [tasks EXCEPT ![t].status = "FAILED"]
    <3>1. [tasks[t] EXCEPT !.status = "FAILED"] \in TaskRow
      BY <1>1 DEF TaskRow
    <3>. QED BY <2>2, <3>1
  <2>3. CASE tasks[t].status = "COMPLETED" /\ tasks' = [tasks EXCEPT ![t].status = "gone"]
    <3>1. /\ [tasks[t] EXCEPT !.status = "gone"] \in TaskRow
          /\ [tasks[t] EXCEPT !.status = "gone"].status = "gone"
          /\ [tasks[t] EXCEPT !.status = "gone"].result = tasks[t].result
      BY <1>1 DEF TaskRow
    <3>. QED BY <2>3, <3>1
  <2>. QED BY <2>1, <2>2, <2>3 DEF Work
<1>3. /\ tasks' \in Seq(TaskRow) /\ Len(tasks') = Len(tasks)
      /\ \A u \in DOMAIN tasks : tasks[u].status \in {"COMPLETED", "gone"} =>
           tasks'[u].status \in {"COMPLETED", "gone"} /\ tasks'[u].result = tasks[u].result
  BY <1>1, <1>2
<1>4. /\ runs' = runs /\ objects' = objects /\ tx' = tx /\ overlapped' = overlapped
      /\ file' = file /\ disabled' = disabled /\ segRunning' = segRunning
  BY <1>1 DEF client, layers
<1>5. ASSUME NEW s \in DOMAIN runs, Past(s)
      PROVE  /\ tasks'[runs[s].task].status \in {"COMPLETED", "gone"}
             /\ tasks'[runs[s].task].result = tasks[runs[s].task].result
             /\ Wanted(s)' = Wanted(s)
  <2>1. runs[s].task \in DOMAIN tasks
    <3>1. runs[s] \in RunSet
      BY DEF SnapInv, Shape
    <3>. QED BY <1>1, <1>5, <3>1 DEF Past, SnapInv, Owned, RunSet, NoTask
  <2>2. tasks[runs[s].task].status \in {"COMPLETED", "gone"}
    BY <1>5 DEF SnapInv, ResultIsThere
  <2>3. tasks'[runs[s].task].result = tasks[runs[s].task].result
    BY <1>3, <2>1, <2>2
  <2>4. Wanted(s)' = Wanted(s)
    BY <1>4, <2>3 DEF Wanted, Allowed
  <2>. QED BY <1>3, <2>1, <2>2, <2>3, <2>4
<1>6. \A s : Past(s)' = Past(s) /\ ResultOf(s)' = ResultOf(s)
  BY <1>4 DEF Past, ResultOf
<1>7. Shape' /\ Controls' /\ Owned'
  <2>1. Shape'
    BY <1>3, <1>4 DEF SnapInv, Shape
  <2>2. Controls'
    BY <1>4 DEF SnapInv, Controls, Active
  <2>3. Owned'
    BY <1>3, <1>4 DEF SnapInv, Owned
  <2>. QED BY <2>1, <2>2, <2>3
<1>8. ResultIsThere'
  BY <1>4, <1>5, <1>6 DEF ResultIsThere
<1>9. Transactions'
  <2>1. SUFFICES ASSUME NEW a \in 0..MaxRuns, Open(a), a # Drawer, Publishing(a) PROVE Publishing(a)'
    BY <1>4 DEF SnapInv, Transactions, Open, TaskOf
  <2>2. a \in DOMAIN runs /\ Past(a)
    BY <2>1 DEF Publishing
  <2>. QED BY <1>4, <1>5, <1>6, <2>1, <2>2 DEF Publishing
<1>10. Complete'
  <2>1. \A i \in DOMAIN objects' : objects'[i].task <= Len(tasks')
    BY <1>3, <1>4 DEF SnapInv, Complete
  <2>2. ASSUME NEW s \in DOMAIN runs
        PROVE  /\ ResultOf(s) # {} =>
                    /\ Past(s)' /\ runs[s].stage # "publish"
                    /\ Cardinality(ResultOf(s)) = Cardinality(Wanted(s)')
               /\ runs[s].stage \in {"answer", "reload"} \/ runs[s].told = "done" =>
                    /\ Past(s)' /\ ~Open(s)'
                    /\ Cardinality(ResultOf(s)) = runs[s].count
                    /\ runs[s].count = Cardinality(Wanted(s)')
    <3>1. Past(s) => Wanted(s)' = Wanted(s)
      BY <1>5
    <3>. QED BY <1>4, <1>6, <3>1 DEF SnapInv, Complete, Open
  <2>. QED BY <1>4, <1>6, <2>1, <2>2 DEF Complete
<1>11. Numbers' /\ Bounded'
  BY <1>4 DEF SnapInv, Numbers, NumbersDiffer, OwnDiffer, CommittedDiffer, LayersApart, TaskOf, Bounded
<1>. QED BY <1>7, <1>8, <1>9, <1>10, <1>11 DEF SnapInv

(* The transactions that have nothing to add hold no objects.               *)
LEMMA ClosedIsEmpty ==
  ASSUME SnapInv, NEW a \in 0..MaxRuns
  PROVE  /\ \A i \in DOMAIN tx[a].adds : Open(a)
         /\ \A i \in tx[a].todo : Open(a)
<1>1. (\A i \in DOMAIN Closed.adds : FALSE) /\ Closed.todo = {}
  BY DEF Closed
<1>. QED BY <1>1 DEF SnapInv, Transactions

(* A transaction begins.                                                    *)
LEMMA BeginKeeps ==
  ASSUME SnapInv, NEW a \in 0..MaxRuns, ~Open(a), NEW classes \in Seq(Classes), NEW places \in SUBSET DOMAIN classes,
         Begins(a, classes, places), UNCHANGED <<runs, client, tasks, objects, overlapped>>,
         a # Drawer => /\ a \in DOMAIN runs /\ runs[a].stage = "publish"
                       /\ classes = tasks[runs[a].task].result /\ places = Wanted(a)
  PROVE  SnapInv'
<1>. DEFINE new == [open |-> TRUE, classes |-> classes, todo |-> places, adds |-> <<>>]
<1>1. /\ tx' = [tx EXCEPT ![a] = new] /\ new \in TxSet
      /\ runs' = runs /\ objects' = objects /\ tasks' = tasks /\ overlapped' = overlapped
      /\ file' = file /\ disabled' = disabled /\ segRunning' = segRunning
  BY DEF Begins, TxSet, client
<1>2. /\ tx' \in [0..MaxRuns -> TxSet] /\ tx'[a] = new
      /\ \A b \in 0..MaxRuns : b # a => tx'[b] = tx[b]
  BY <1>1 DEF SnapInv, Shape
<1>3. new.open /\ new.classes = classes /\ new.todo = places /\ new.adds = <<>> /\ \A i \in DOMAIN new.adds : FALSE
  OBVIOUS
<1>. HIDE DEF new
<1>4. \A s : Past(s)' = Past(s) /\ ResultOf(s)' = ResultOf(s) /\ Wanted(s)' = Wanted(s) /\ TaskOf(s)' = TaskOf(s)
  BY <1>1 DEF Past, ResultOf, Wanted, Allowed, TaskOf
<1>5. Shape' /\ Controls' /\ Owned' /\ ResultIsThere'
  <2>1. Shape'
    BY <1>1, <1>2 DEF SnapInv, Shape
  <2>2. Controls'
    BY <1>1 DEF SnapInv, Controls, Active
  <2>3. Owned'
    BY <1>1 DEF SnapInv, Owned
  <2>4. ResultIsThere'
    BY <1>1, <1>4 DEF SnapInv, ResultIsThere
  <2>. QED BY <2>1, <2>2, <2>3, <2>4
<1>6. ASSUME a # Drawer PROVE Publishing(a)'
  <2>1. runs[a].task # NoTask /\ Past(a)
    BY <1>6 DEF Past, SnapInv, Owned
  <2>2. ResultOf(a) = {}
    BY <1>6 DEF SnapInv, Complete
  <2>3. Cardinality(places) \in Nat
    <3>1. DOMAIN classes = 1..Len(classes) /\ Len(classes) \in Nat
      OBVIOUS
    <3>2. IsFiniteSet(DOMAIN classes)
      BY <3>1, FS_Interval
    <3>3. IsFiniteSet(places)
      BY <3>2, FS_Subset
    <3>. QED BY <3>3, FS_CardinalityType
  <2>4. Len(new.adds) = 0
    BY <1>3
  <2>5. Len(new.adds) + Cardinality(new.todo) = Cardinality(Wanted(a))
    BY <1>3, <1>6, <2>3, <2>4
  <2>. QED BY <1>1, <1>2, <1>3, <1>4, <1>6, <2>1, <2>2, <2>5 DEF Publishing
<1>7. Transactions'
  <2>1. SUFFICES ASSUME NEW b \in 0..MaxRuns
                 PROVE  /\ ~Open(b)' => tx'[b] = Closed
                        /\ tx'[b].todo \subseteq DOMAIN tx'[b].classes
                        /\ Open(b)' /\ b # Drawer => Publishing(b)'
                        /\ \A i \in DOMAIN tx'[b].adds : tx'[b].adds[i].task = TaskOf(b)'
    BY DEF Transactions
  <2>2. CASE b = a
    BY <1>2, <1>3, <1>6, <2>2 DEF Open
  <2>3. CASE b # a
    <3>1. Publishing(b)' = Publishing(b)
      BY <1>1, <1>2, <1>4, <2>3 DEF Publishing
    <3>. QED BY <1>2, <1>4, <2>3, <3>1 DEF SnapInv, Transactions, Open
  <2>. QED BY <2>2, <2>3
<1>8. Complete'
  <2>1. \A i \in DOMAIN objects' : objects'[i].task <= Len(tasks')
    BY <1>1 DEF SnapInv, Complete
  <2>2. ASSUME NEW s \in DOMAIN runs
        PROVE  /\ ResultOf(s) # {} =>
                    /\ Past(s) /\ runs[s].stage # "publish"
                    /\ Cardinality(ResultOf(s)) = Cardinality(Wanted(s))
               /\ runs[s].stage \in {"answer", "reload"} \/ runs[s].told = "done" =>
                    /\ Past(s) /\ ~Open(s)'
                    /\ Cardinality(ResultOf(s)) = runs[s].count
                    /\ runs[s].count = Cardinality(Wanted(s))
    <3>1. s \in 0..MaxRuns /\ s # Drawer
      BY SnapshotRunAssumption DEF SnapInv, Shape, Drawer, SnapshotRunAssumption
    <3>2. runs[s].stage \in {"answer", "reload"} \/ runs[s].told = "done" => s # a
      BY <3>1 DEF SnapInv, Owned, None
    <3>. QED BY <1>2, <3>1, <3>2 DEF SnapInv, Complete, Open
  <2>. QED BY <1>1, <1>4, <2>1, <2>2 DEF Complete
<1>9. Numbers'
  <2>1. \A b \in 0..MaxRuns : \A i \in DOMAIN tx'[b].adds : tx'[b] = tx[b]
    BY <1>2, <1>3
  <2>. QED BY <1>1, <1>4, <2>1 DEF SnapInv, Numbers, NumbersDiffer, OwnDiffer, CommittedDiffer, LayersApart
<1>10. Bounded'
  BY <1>1, <1>2, <1>3 DEF SnapInv, Bounded
<1>. QED BY <1>5, <1>7, <1>8, <1>9, <1>10 DEF SnapInv

LEMMA PublishKeeps ==
  ASSUME SnapInv, NEW r \in DOMAIN runs, PublishToLayers(r)
  PROVE  SnapInv'
<1>1. /\ r \in 0..MaxRuns /\ r # Drawer /\ runs[r].stage = "publish" /\ ~Open(r)
      /\ UNCHANGED <<tasks, objects, overlapped>>
  BY SnapshotRunAssumption DEF SnapInv, Shape, Drawer, SnapshotRunAssumption, PublishToLayers, At
<1>2. CASE tasks[runs[r].task].status = "COMPLETED"
  <2>1. /\ Begins(r, tasks[runs[r].task].result, Wanted(r)) /\ UNCHANGED <<runs, client>>
    BY <1>2 DEF PublishToLayers
  <2>2. runs[r].task \in DOMAIN tasks /\ tasks \in Seq(TaskRow)
    <3>1. runs[r] \in RunSet /\ tasks \in Seq(TaskRow)
      BY DEF SnapInv, Shape
    <3>. QED BY <1>1, <3>1 DEF SnapInv, Owned, RunSet, NoTask
  <2>3. tasks[runs[r].task].result \in Seq(Classes)
    <3>1. tasks[runs[r].task] \in TaskRow
      BY <2>2
    <3>. QED BY <3>1 DEF TaskRow
  <2>4. Wanted(r) \in SUBSET DOMAIN tasks[runs[r].task].result
    BY DEF Wanted
  <2>. QED BY <1>1, <2>1, <2>3, <2>4, BeginKeeps
<1>3. CASE tasks[runs[r].task].status # "COMPLETED"
  <2>1. End(r, runs[r].stage) /\ UNCHANGED <<tasks, layers>>
    BY <1>3 DEF PublishToLayers, layers
  <2>. QED BY <1>1, <2>1, EndsAlone
<1>. QED BY <1>2, <1>3

LEMMA AddObjectKeeps ==
  ASSUME SnapInv, NEW c \in Classes, AddObject(c)
  PROVE  SnapInv'
<1>1. /\ Drawer \in 0..MaxRuns /\ ~Open(Drawer) /\ Begins(Drawer, <<c>>, {1})
      /\ UNCHANGED <<runs, client, tasks, objects, overlapped>>
  BY SnapshotRunAssumption DEF AddObject, Drawer, SnapshotRunAssumption
<1>2. <<c>> \in Seq(Classes) /\ {1} \in SUBSET DOMAIN <<c>>
  OBVIOUS
<1>. QED BY <1>1, <1>2, BeginKeeps

(* An object is added: its number is a new one of its layer, as far as the  *)
(* transaction sees.                                                        *)
LEMMA AddNextKeeps ==
  ASSUME SnapInv, NEW a \in 0..MaxRuns, NEW i \in tx[a].todo, AddNext(a, i)
  PROVE  SnapInv'
<1>0. PICK c, o : /\ c = tx[a].classes[i]
                  /\ o = [layer |-> c, number |-> MaxNumber(a, c) + 1, task |-> TaskOf(a)]
  OBVIOUS
<1>1. /\ tx' = [tx EXCEPT ![a].todo = @ \ {i}, ![a].adds = Append(@, o)]
      /\ overlapped' = (overlapped \/ \E b \in DOMAIN tx \ {a} : \E p \in ToSet(tx[b].adds) : p.layer = c)
      /\ runs' = runs /\ objects' = objects /\ tasks' = tasks
      /\ file' = file /\ disabled' = disabled /\ segRunning' = segRunning
  BY <1>0 DEF AddNext, client
<1>2. Open(a) /\ tx[a].todo \subseteq DOMAIN tx[a].classes /\ tx[a] \in TxSet /\ tx \in [0..MaxRuns -> TxSet]
  BY ClosedIsEmpty DEF SnapInv, Transactions, Shape
<1>3. c \in Classes
  BY <1>0, <1>2 DEF TxSet
<1>4. TaskOf(a) \in Nat /\ TaskOf(a) <= Len(tasks)
  <2>1. CASE a = Drawer
    BY <2>1 DEF TaskOf, NoTask, SnapInv, Shape
  <2>2. CASE a # Drawer
    <3>1. a \in DOMAIN runs
      BY <1>2, <2>2 DEF SnapInv, Transactions, Publishing
    <3>2. runs[a] \in RunSet
      BY <3>1 DEF SnapInv, Shape
    <3>. QED BY <2>2, <3>1, <3>2 DEF TaskOf, SnapInv, Owned, RunSet
  <2>. QED BY <2>1, <2>2
<1>5. /\ MaxNumber(a, c) \in Nat
      /\ \A j \in DOMAIN objects : objects[j].layer = c => objects[j].number <= MaxNumber(a, c)
      /\ \A j \in DOMAIN tx[a].adds : tx[a].adds[j].layer = c => tx[a].adds[j].number <= MaxNumber(a, c)
  BY NewNumber DEF SnapInv
<1>6. o \in ObjectSet /\ o.layer = c /\ o.number = MaxNumber(a, c) + 1 /\ o.task = TaskOf(a)
  BY <1>0, <1>3, <1>4, <1>5 DEF ObjectSet
<1>7. PICK new : /\ new = [tx[a] EXCEPT !.todo = @ \ {i}, !.adds = Append(@, o)]
                 /\ new \in TxSet /\ new.open = TRUE /\ new.classes = tx[a].classes
                 /\ new.todo = tx[a].todo \ {i} /\ new.adds = Append(tx[a].adds, o)
  <2>1. PICK rest, more : /\ rest = tx[a].todo \ {i} /\ more = Append(tx[a].adds, o)
                          /\ rest \in SUBSET Nat /\ more \in Seq(ObjectSet)
    <3>1. tx[a].todo \in SUBSET Nat /\ tx[a].adds \in Seq(ObjectSet)
      BY <1>2 DEF TxSet
    <3>2. Append(tx[a].adds, o) \in Seq(ObjectSet) /\ tx[a].todo \ {i} \in SUBSET Nat
      BY <1>6, <3>1
    <3>. QED BY <3>2
  <2>. DEFINE new == [tx[a] EXCEPT !.todo = rest, !.adds = more]
  <2>2. new \in TxSet /\ new.open = tx[a].open /\ new.classes = tx[a].classes /\ new.todo = rest /\ new.adds = more
    BY <1>2, <2>1 DEF TxSet
  <2>3. new = [tx[a] EXCEPT !.todo = @ \ {i}, !.adds = Append(@, o)]
    BY <2>1
  <2>. HIDE DEF new
  <2>. QED BY <1>2, <2>1, <2>2, <2>3 DEF Open
<1>8. /\ tx' \in [0..MaxRuns -> TxSet] /\ tx'[a] = new
      /\ \A b \in 0..MaxRuns : b # a => tx'[b] = tx[b]
  BY <1>1, <1>2, <1>7
<1>9. PICK k \in Nat : /\ k = Len(tx[a].adds) /\ DOMAIN tx[a].adds = 1..k /\ DOMAIN new.adds = 1..(k + 1)
                       /\ \A j \in 1..k : new.adds[j] = tx[a].adds[j]
                       /\ new.adds[k + 1] = o /\ Len(new.adds) = k + 1
  <2>1. PICK old \in Seq(ObjectSet) : old = tx[a].adds
    BY <1>2 DEF TxSet
  <2>2. new.adds = Append(old, o)
    BY <1>7, <2>1
  <2>3. /\ Len(old) \in Nat /\ DOMAIN old = 1..Len(old)
        /\ Len(Append(old, o)) = Len(old) + 1 /\ DOMAIN Append(old, o) = 1..(Len(old) + 1)
        /\ \A j \in 1..Len(old) : Append(old, o)[j] = old[j]
        /\ Append(old, o)[Len(old) + 1] = o
    OBVIOUS
  <2>. QED BY <2>1, <2>2, <2>3
<1>10. \A s : Past(s)' = Past(s) /\ ResultOf(s)' = ResultOf(s) /\ Wanted(s)' = Wanted(s) /\ TaskOf(s)' = TaskOf(s)
  BY <1>1 DEF Past, ResultOf, Wanted, Allowed, TaskOf
<1>11. \A b \in 0..MaxRuns : Open(b)' = Open(b)
  BY <1>2, <1>7, <1>8 DEF Open
<1>12. Shape' /\ Controls' /\ Owned' /\ ResultIsThere' /\ Complete'
  <2>1. Shape'
    BY <1>1, <1>8 DEF SnapInv, Shape
  <2>2. Controls'
    BY <1>1 DEF SnapInv, Controls, Active
  <2>3. Owned'
    BY <1>1 DEF SnapInv, Owned
  <2>4. ResultIsThere'
    BY <1>1, <1>10 DEF SnapInv, ResultIsThere
  <2>5. Complete'
    <3>1. \A s \in DOMAIN runs : s \in 0..MaxRuns
      BY SnapshotRunAssumption DEF SnapInv, Shape, SnapshotRunAssumption
    <3>2. \A s \in DOMAIN runs : Open(s)' = Open(s)
      BY <1>11, <3>1
    <3>. QED BY <1>1, <1>10, <3>2 DEF SnapInv, Complete
  <2>. QED BY <2>1, <2>2, <2>3, <2>4, <2>5
<1>13. ASSUME a # Drawer PROVE Publishing(a)'
  <2>1. Publishing(a)
    BY <1>2, <1>13 DEF SnapInv, Transactions
  <2>2. Cardinality(tx[a].todo) \in Nat /\ Cardinality(tx[a].todo \ {i}) = Cardinality(tx[a].todo) - 1
    <3>1. DOMAIN tx[a].classes = 1..Len(tx[a].classes) /\ Len(tx[a].classes) \in Nat
      BY <1>2 DEF TxSet
    <3>2. IsFiniteSet(DOMAIN tx[a].classes)
      BY <3>1, FS_Interval
    <3>3. IsFiniteSet(tx[a].todo)
      BY <1>2, <3>2, FS_Subset
    <3>. QED BY <3>3, FS_CardinalityType, FS_RemoveElement
  <2>3. Len(new.adds) + Cardinality(new.todo) = Cardinality(Wanted(a))
    <3>1. k + Cardinality(tx[a].todo) = Cardinality(Wanted(a))
      BY <1>9, <2>1 DEF Publishing
    <3>2. Len(new.adds) = k + 1 /\ Cardinality(new.todo) = Cardinality(tx[a].todo) - 1
      BY <1>7, <1>9, <2>2
    <3>. QED BY <2>2, <3>1, <3>2
  <2>. QED BY <1>1, <1>7, <1>8, <1>10, <2>1, <2>3 DEF Publishing
<1>14. Transactions'
  <2>1. SUFFICES ASSUME NEW b \in 0..MaxRuns
                 PROVE  /\ ~Open(b)' => tx'[b] = Closed
                        /\ tx'[b].todo \subseteq DOMAIN tx'[b].classes
                        /\ Open(b)' /\ b # Drawer => Publishing(b)'
                        /\ \A j \in DOMAIN tx'[b].adds : tx'[b].adds[j].task = TaskOf(b)'
    BY DEF Transactions
  <2>2. CASE b = a
    <3>1. ASSUME NEW j \in DOMAIN new.adds PROVE new.adds[j].task = TaskOf(a)
      <4>1. \A x \in 1..k : tx[a].adds[x].task = TaskOf(a)
        BY <1>9 DEF SnapInv, Transactions
      <4>. QED BY <1>6, <1>9, <3>1, <4>1
    <3>. QED BY <1>2, <1>7, <1>8, <1>10, <1>11, <1>13, <2>2, <3>1
  <2>3. CASE b # a
    <3>1. Publishing(b)' = Publishing(b)
      BY <1>1, <1>8, <1>10, <2>3 DEF Publishing
    <3>. QED BY <1>8, <1>10, <1>11, <2>3, <3>1 DEF SnapInv, Transactions
  <2>. QED BY <2>2, <2>3
<1>15. Numbers'
  <2>0. NumbersDiffer /\ OwnDiffer /\ CommittedDiffer /\ LayersApart
    BY DEF SnapInv, Numbers
  <2>1. NumbersDiffer' /\ (overlapped => overlapped')
    <3>1. overlapped => overlapped'
      BY <1>1
    <3>. QED BY <1>1, <2>0, <3>1 DEF NumbersDiffer
  <2>9. \A j \in 1..k : tx[a].adds[j].number \in Nat
    <3>1. \A j \in 1..k : tx[a].adds[j] \in ObjectSet
      BY <1>2, <1>9 DEF TxSet
    <3>. QED BY <3>1 DEF ObjectSet
  <2>2. ASSUME NEW x \in DOMAIN new.adds, NEW y \in DOMAIN new.adds, x # y, new.adds[x].layer = new.adds[y].layer
        PROVE  new.adds[x].number # new.adds[y].number
    <3>1. CASE x \in 1..k /\ y \in 1..k
      <4>1. new.adds[x] = tx[a].adds[x] /\ new.adds[y] = tx[a].adds[y] /\ x \in DOMAIN tx[a].adds /\ y \in DOMAIN tx[a].adds
        BY <1>9, <3>1
      <4>. QED BY <2>0, <2>2, <4>1 DEF OwnDiffer
    <3>2. CASE x = k + 1 /\ y \in 1..k
      <4>1. new.adds[y] = tx[a].adds[y] /\ y \in DOMAIN tx[a].adds /\ new.adds[x] = o
        BY <1>9, <3>2
      <4>2. tx[a].adds[y].layer = c
        BY <1>6, <2>2, <4>1
      <4>3. tx[a].adds[y].number <= MaxNumber(a, c) /\ tx[a].adds[y].number \in Nat
        BY <1>5, <2>9, <3>2, <4>1, <4>2
      <4>4. o.number # tx[a].adds[y].number
        BY <1>5, <1>6, <4>3
      <4>. QED BY <4>1, <4>4
    <3>3. CASE y = k + 1 /\ x \in 1..k
      <4>1. new.adds[x] = tx[a].adds[x] /\ x \in DOMAIN tx[a].adds /\ new.adds[y] = o
        BY <1>9, <3>3
      <4>2. tx[a].adds[x].layer = c
        BY <1>6, <2>2, <4>1
      <4>3. tx[a].adds[x].number <= MaxNumber(a, c) /\ tx[a].adds[x].number \in Nat
        BY <1>5, <2>9, <3>3, <4>1, <4>2
      <4>4. o.number # tx[a].adds[x].number
        BY <1>5, <1>6, <4>3
      <4>. QED BY <4>1, <4>4
    <3>. QED BY <1>9, <2>2, <3>1, <3>2, <3>3
  <2>3. ASSUME NEW x \in DOMAIN new.adds, NEW y \in DOMAIN objects,
               objects[y].layer = new.adds[x].layer, objects[y].number = new.adds[x].number
        PROVE  overlapped' /\ objects[y].task # TaskOf(a)
    <3>1. CASE x \in 1..k
      BY <1>9, <2>0, <2>1, <2>3, <3>1 DEF CommittedDiffer
    <3>2. CASE x = k + 1
      BY <1>5, <1>6, <1>9, <2>3, <3>2
    <3>. QED BY <1>9, <3>1, <3>2
  <2>4. OwnDiffer' /\ CommittedDiffer'
    <3>1. OwnDiffer'
      BY <1>8, <2>0, <2>2 DEF OwnDiffer
    <3>2. ASSUME NEW b \in 0..MaxRuns, NEW x \in DOMAIN tx'[b].adds, NEW y \in DOMAIN objects,
                 objects[y].layer = tx'[b].adds[x].layer, objects[y].number = tx'[b].adds[x].number
          PROVE  overlapped' /\ objects[y].task # TaskOf(b)
      <4>1. CASE b = a
        BY <1>8, <2>3, <3>2, <4>1
      <4>2. CASE b # a
        <5>1. tx'[b] = tx[b]
          BY <1>8, <4>2
        <5>2. overlapped /\ objects[y].task # TaskOf(b)
          BY <2>0, <3>2, <5>1 DEF CommittedDiffer
        <5>. QED BY <2>1, <5>2
      <4>. QED BY <4>1, <4>2
    <3>3. objects' = objects /\ \A b : TaskOf(b)' = TaskOf(b)
      BY <1>1, <1>10
    <3>. QED BY <3>1, <3>2, <3>3 DEF CommittedDiffer
  <2>5. ASSUME ~overlapped', NEW b \in 0..MaxRuns, b # a, NEW x \in DOMAIN new.adds, NEW y \in DOMAIN tx[b].adds
        PROVE  new.adds[x].layer # tx[b].adds[y].layer
    <3>1. CASE x \in 1..k
      <4>1. new.adds[x] = tx[a].adds[x] /\ x \in DOMAIN tx[a].adds
        BY <1>9, <3>1
      <4>. QED BY <2>0, <2>1, <2>5, <4>1 DEF LayersApart
    <3>2. CASE x = k + 1
      <4>1. b \in DOMAIN tx \ {a} /\ tx[b].adds[y] \in ToSet(tx[b].adds)
        BY <1>2, <2>5 DEF ToSet
      <4>2. tx[b].adds[y].layer # c
        BY <1>1, <2>5, <4>1
      <4>. QED BY <1>6, <1>9, <3>2, <4>2
    <3>. QED BY <1>9, <3>1, <3>2
  <2>6. ASSUME ~overlapped', NEW b \in 0..MaxRuns, NEW d \in 0..MaxRuns, b # d,
               NEW x \in DOMAIN tx'[b].adds, NEW y \in DOMAIN tx'[d].adds
        PROVE  tx'[b].adds[x].layer # tx'[d].adds[y].layer
    <3>1. CASE b = a
      BY <1>8, <2>5, <2>6, <3>1
    <3>2. CASE d = a
      BY <1>8, <2>5, <2>6, <3>2
    <3>3. CASE b # a /\ d # a
      <4>1. tx'[b] = tx[b] /\ tx'[d] = tx[d]
        BY <1>8, <2>6, <3>3
      <4>. QED BY <2>0, <2>1, <2>6, <4>1 DEF LayersApart
    <3>. QED BY <3>1, <3>2, <3>3
  <2>7. LayersApart'
    BY <2>6 DEF LayersApart
  <2>. QED BY <2>1, <2>4, <2>7 DEF Numbers
<1>16. Bounded'
  <2>1. PICK n \in Nat : /\ \A j \in DOMAIN objects : objects[j].number <= n
                         /\ \A b \in 0..MaxRuns : \A j \in DOMAIN tx[b].adds : tx[b].adds[j].number <= n
    BY DEF SnapInv, Bounded
  <2>2. PICK m \in Nat : m = n + MaxNumber(a, c) + 1
    BY <1>5
  <2>3. \A x \in Nat : x <= n => x <= m
    BY <1>5, <2>2
  <2>4. \A j \in DOMAIN objects' : objects'[j].number <= m
    <3>1. \A j \in DOMAIN objects : objects[j] \in ObjectSet
      BY DEF SnapInv, Shape
    <3>. QED BY <1>1, <2>1, <2>3, <3>1 DEF ObjectSet
  <2>5. ASSUME NEW b \in 0..MaxRuns, NEW j \in DOMAIN tx'[b].adds PROVE tx'[b].adds[j].number <= m
    <3>1. CASE b # a \/ j \in 1..k
      <4>1. j \in DOMAIN tx[b].adds /\ tx'[b].adds[j] = tx[b].adds[j] /\ tx[b] \in TxSet
        BY <1>2, <1>8, <1>9, <2>5, <3>1
      <4>2. tx[b].adds[j] \in ObjectSet
        BY <4>1 DEF TxSet
      <4>. QED BY <2>1, <2>3, <4>1, <4>2 DEF ObjectSet
    <3>2. CASE b = a /\ j = k + 1
      <4>1. tx'[b].adds[j] = o
        BY <1>8, <1>9, <3>2
      <4>. QED BY <1>5, <1>6, <2>2, <4>1
    <3>. QED BY <1>8, <1>9, <2>5, <3>1, <3>2
  <2>. QED BY <2>4, <2>5 DEF Bounded
<1>. QED BY <1>12, <1>14, <1>15, <1>16 DEF SnapInv

(* A transaction is rolled back: its run, if it has not given up, ends.     *)
LEMMA RollbackKeeps ==
  ASSUME SnapInv, NEW a \in 0..MaxRuns, Rollback(a)
  PROVE  SnapInv'
<1>1. /\ tx' = [tx EXCEPT ![a] = Closed] /\ UNCHANGED <<tasks, objects, overlapped>>
      /\ tasks \in Seq(TaskRow) /\ tx \in [0..MaxRuns -> TxSet]
  BY DEF Rollback, SnapInv, Shape
<1>2. Closed \in TxSet
  BY DEF Closed, TxSet
<1>3. /\ tx' \in [0..MaxRuns -> TxSet] /\ \A b \in 0..MaxRuns : tx'[b] \in {tx[b], Closed}
      /\ tasks' \in Seq(TaskRow) /\ Len(tasks) <= Len(tasks') /\ \A t \in DOMAIN tasks : tasks'[t] = tasks[t]
  BY <1>1, <1>2
<1>4. CASE a # Drawer /\ At(a, "publish")
  <2>1. Open(a) /\ End(a, runs[a].stage) /\ runs[a].stage = "publish"
    BY <1>4 DEF Rollback, At
  <2>2. a \in DOMAIN runs
    BY <1>4, <2>1 DEF SnapInv, Transactions, Publishing
  <2>. QED BY <1>1, <1>3, <2>1, <2>2, EndKeeps
<1>5. CASE ~(a # Drawer /\ At(a, "publish"))
  <2>1. UNCHANGED <<runs, client>>
    BY <1>5 DEF Rollback
  <2>2. Moved(0, 0)
    BY <1>1, <1>3, <2>1 DEF Moved
  <2>. QED BY <1>3, <2>1, <2>2, GoKeeps
<1>. QED BY <1>4, <1>5

(* A transaction is committed: what it added is on the layers, all of it,   *)
(* and its run, if it has not given up, has its answer.                     *)
LEMMA CommitKeeps ==
  ASSUME SnapInv, NEW a \in 0..MaxRuns, Commit(a)
  PROVE  SnapInv'
<1>1. /\ Open(a) /\ tx[a].todo = {} /\ tx' = [tx EXCEPT ![a] = Closed]
      /\ objects' = objects \o tx[a].adds
      /\ tasks' = tasks /\ overlapped' = overlapped
      /\ file' = file /\ disabled' = disabled /\ segRunning' = segRunning
  BY DEF Commit, client
<1>2. /\ runs \in Seq(RunSet) /\ tasks \in Seq(TaskRow) /\ tx[a].adds \in Seq(ObjectSet) /\ objects \in Seq(ObjectSet)
      /\ Len(objects) \in Nat /\ Len(tx[a].adds) \in Nat /\ tx \in [0..MaxRuns -> TxSet]
  <2>1. tx[a] \in TxSet
    BY DEF SnapInv, Shape
  <2>. QED BY <2>1 DEF SnapInv, Shape, TxSet
<1>3. PICK m \in Nat, k \in Nat :
        /\ m = Len(objects) /\ k = Len(tx[a].adds) /\ DOMAIN objects = 1..m /\ DOMAIN tx[a].adds = 1..k
        /\ DOMAIN objects' = 1..(m + k) /\ objects' \in Seq(ObjectSet)
        /\ \A i \in 1..m : objects'[i] = objects[i]
        /\ \A i \in (m + 1)..(m + k) : objects'[i] = tx[a].adds[i - m]
  <2>1. PICK os \in Seq(ObjectSet), adds \in Seq(ObjectSet) : os = objects /\ adds = tx[a].adds
    BY <1>2
  <2>2. /\ Len(os) \in Nat /\ Len(adds) \in Nat /\ DOMAIN os = 1..Len(os) /\ DOMAIN adds = 1..Len(adds)
        /\ os \o adds \in Seq(ObjectSet) /\ Len(os \o adds) = Len(os) + Len(adds)
        /\ DOMAIN (os \o adds) = 1..(Len(os) + Len(adds))
        /\ \A i \in 1..Len(os) : (os \o adds)[i] = os[i]
        /\ \A i \in (Len(os) + 1)..(Len(os) + Len(adds)) : (os \o adds)[i] = adds[i - Len(os)]
    OBVIOUS
  <2>3. objects' = os \o adds
    BY <1>1, <2>1
  <2>4. \E m \in Nat, k \in Nat : m = Len(os) /\ k = Len(adds)
    BY <2>2
  <2>. QED BY <2>1, <2>2, <2>3, <2>4
<1>4. /\ Closed \in TxSet /\ ~Closed.open /\ Closed.todo = {} /\ Closed.classes = <<>> /\ \A i \in DOMAIN Closed.adds : FALSE
  BY DEF Closed, TxSet
<1>5. /\ tx' \in [0..MaxRuns -> TxSet] /\ tx'[a] = Closed
      /\ \A b \in 0..MaxRuns : b # a => tx'[b] = tx[b]
      /\ \A b \in 0..MaxRuns : \A i \in DOMAIN tx'[b].adds : b # a /\ tx'[b] = tx[b]
  BY <1>1, <1>2, <1>4
<1>6. a # Drawer => /\ a \in DOMAIN runs /\ Past(a) /\ (runs[a].stage = "publish" \/ runs[a].told = "publish")
                    /\ ResultOf(a) = {} /\ k = Cardinality(Wanted(a))
  <2>1. a # Drawer => Publishing(a)
    BY <1>1 DEF SnapInv, Transactions
  <2>2. Cardinality(tx[a].todo) = 0
    BY <1>1, FS_EmptySet
  <2>. QED BY <1>3, <2>1, <2>2 DEF Publishing
<1>7. /\ \A i \in (m + 1)..(m + k) :
           i - m \in 1..k /\ objects'[i] = tx[a].adds[i - m] /\ objects'[i].task = TaskOf(a)
      /\ TaskOf(a) \in Nat /\ TaskOf(a) <= Len(tasks)
  <2>1. \A i \in 1..k : tx[a].adds[i].task = TaskOf(a)
    BY <1>3 DEF SnapInv, Transactions
  <2>2. \A i \in (m + 1)..(m + k) : i - m \in 1..k
    OBVIOUS
  <2>3. TaskOf(a) \in Nat /\ TaskOf(a) <= Len(tasks)
    <3>1. CASE a = Drawer
      BY <1>2, <3>1 DEF TaskOf, NoTask
    <3>2. CASE a # Drawer
      <4>1. runs[a] \in RunSet /\ a \in DOMAIN runs
        BY <1>2, <1>6, <3>2
      <4>. QED BY <3>2, <4>1 DEF TaskOf, SnapInv, Owned, RunSet
    <3>. QED BY <3>1, <3>2
  <2>. QED BY <1>3, <2>1, <2>2, <2>3
(* The runs *)
<1>8. /\ DOMAIN runs' = DOMAIN runs /\ runs' \in Seq(RunSet) /\ Len(runs') = Len(runs)
      /\ \A s \in DOMAIN runs :
           /\ runs'[s].task = runs[s].task /\ runs'[s].told = runs[s].told /\ runs'[s].classes = runs[s].classes
           /\ runs'[s].kind = runs[s].kind
           /\ s # a \/ runs[s].stage # "publish" => runs'[s].stage = runs[s].stage /\ runs'[s].count = runs[s].count
           /\ s = a /\ runs[s].stage = "publish" => runs'[s].stage = "answer" /\ runs'[s].count = k
  <2>1. CASE a # Drawer /\ At(a, "publish")
    <3>. DEFINE q == [runs[a] EXCEPT !.stage = "answer", !.count = k]
    <3>1. runs' = [runs EXCEPT ![a] = q] /\ a \in DOMAIN runs /\ runs[a].stage = "publish" /\ runs[a] \in RunSet
      <4>1. a \in DOMAIN runs /\ runs[a].stage = "publish" /\ runs[a] \in RunSet
        BY <1>2, <1>6, <2>1 DEF At
      <4>2. runs' = [runs EXCEPT ![a].stage = "answer", ![a].count = k]
        BY <1>3, <2>1 DEF Commit
      <4>. QED BY <4>1, <4>2
    <3>2. /\ q \in RunSet /\ q.stage = "answer" /\ q.count = k /\ q.task = runs[a].task /\ q.told = runs[a].told
          /\ q.classes = runs[a].classes /\ q.kind = runs[a].kind
      BY <3>1 DEF RunSet, Stages
    <3>. HIDE DEF q
    <3>3. /\ DOMAIN runs' = DOMAIN runs /\ runs' \in Seq(RunSet) /\ Len(runs') = Len(runs) /\ runs'[a] = q
          /\ \A s \in DOMAIN runs : s # a => runs'[s] = runs[s]
      BY <1>2, <3>1, <3>2
    <3>. QED BY <3>1, <3>2, <3>3
  <2>2. CASE ~(a # Drawer /\ At(a, "publish"))
    <3>1. runs' = runs
      BY <2>2 DEF Commit
    <3>2. Drawer \notin DOMAIN runs
      BY <1>2 DEF Drawer
    <3>. QED BY <1>2, <2>2, <3>1, <3>2 DEF At
  <2>. QED BY <2>1, <2>2
<1>9. \A s \in DOMAIN runs : runs[s].stage # "end" => runs[s].told = None
  BY DEF SnapInv, Owned
<1>10. \A s \in DOMAIN runs : Past(s)' = Past(s) /\ Wanted(s)' = Wanted(s)
  <2>1. ASSUME NEW s \in DOMAIN runs PROVE Past(s)' = Past(s)
    <3>1. runs'[s].stage = runs[s].stage \/ (runs'[s].stage = "answer" /\ runs[s].stage = "publish")
      BY <1>8
    <3>. QED BY <1>8, <3>1 DEF Past
  <2>. QED BY <1>1, <1>8, <2>1 DEF Wanted, Allowed
<1>11. \A b \in 0..MaxRuns : Open(b) => TaskOf(b)' = TaskOf(b) /\ (b # Drawer => b \in DOMAIN runs /\ TaskOf(b) # NoTask)
  <2>1. SUFFICES ASSUME NEW b \in 0..MaxRuns, Open(b), b # Drawer
                 PROVE  runs'[b].task = runs[b].task /\ b \in DOMAIN runs /\ runs[b].task # NoTask
    BY DEF TaskOf
  <2>2. b \in DOMAIN runs /\ Past(b)
    BY <2>1 DEF SnapInv, Transactions, Publishing
  <2>. QED BY <1>8, <2>2 DEF Past
(* What is on the layers of a result *)
<1>12. \A s \in DOMAIN runs : s # a => ResultOf(s)' = ResultOf(s)
  <2>1. SUFFICES ASSUME NEW s \in DOMAIN runs, s # a, runs[s].task # NoTask
                 PROVE  \A i \in DOMAIN objects' : objects'[i].task = runs[s].task <=> i \in DOMAIN objects /\ objects[i].task = runs[s].task
    BY <1>3, <1>8 DEF ResultOf
  <2>2. TaskOf(a) # runs[s].task
    BY <1>6, <2>1 DEF TaskOf, SnapInv, Owned
  <2>. QED BY <1>3, <1>7, <2>2
<1>13. a # Drawer => Cardinality(ResultOf(a)') = k
  <2>1. SUFFICES ASSUME a # Drawer PROVE Cardinality(ResultOf(a)') = k
    OBVIOUS
  <2>2. /\ a \in DOMAIN runs /\ runs'[a].task = runs[a].task /\ runs[a].task # NoTask /\ TaskOf(a) = runs[a].task
        /\ \A i \in 1..m : objects[i].task # runs[a].task
    BY <1>3, <1>6, <1>8, <2>1 DEF TaskOf, Past, ResultOf
  <2>3. ResultOf(a)' = (m + 1)..(m + k)
    <3>1. ResultOf(a)' = {i \in 1..(m + k) : objects'[i].task = runs[a].task}
      BY <1>3, <2>2 DEF ResultOf
    <3>2. \A i \in 1..m : objects'[i].task # runs[a].task
      BY <1>3, <2>2
    <3>3. \A i \in (m + 1)..(m + k) : objects'[i].task = runs[a].task
      BY <1>7, <2>2
    <3>. QED BY <3>1, <3>2, <3>3
  <2>. QED BY <2>3, FS_Interval
<1>14. Shape' /\ Controls' /\ Owned' /\ ResultIsThere'
  <2>1. Shape'
    BY <1>1, <1>3, <1>5, <1>8 DEF SnapInv, Shape
  <2>2. Controls'
    <3>1. \A kind : Active(kind)' = Active(kind)
      <4>1. \A s \in DOMAIN runs : runs'[s].kind = runs[s].kind /\ (runs'[s].stage # "end" <=> runs[s].stage # "end")
        BY <1>8
      <4>. QED BY <1>8, <4>1 DEF Active
    <3>. QED BY <1>1, <3>1 DEF SnapInv, Controls
  <2>3. Owned'
    <3>1. ASSUME NEW s \in DOMAIN runs
          PROVE  /\ runs'[s].task <= Len(tasks)
                 /\ runs'[s].stage \in {"health", "create"} => runs'[s].task = NoTask
                 /\ runs'[s].stage \in {"poll", "publish", "answer", "reload"} => runs'[s].task # NoTask
                 /\ runs'[s].stage # "end" => runs'[s].told = None
                 /\ runs'[s].stage = "end" => runs'[s].told \in (Stages \ {"end"}) \union {"done"}
      <4>1. runs'[s].stage = runs[s].stage \/ (runs'[s].stage = "answer" /\ runs[s].stage = "publish")
        BY <1>8
      <4>. QED BY <1>8, <4>1 DEF SnapInv, Owned
    <3>. QED BY <1>1, <1>8, <3>1 DEF SnapInv, Owned
  <2>4. ResultIsThere'
    BY <1>1, <1>8, <1>10 DEF SnapInv, ResultIsThere
  <2>. QED BY <2>1, <2>2, <2>3, <2>4
<1>15. Transactions'
  <2>1. SUFFICES ASSUME NEW b \in 0..MaxRuns
                 PROVE  /\ ~Open(b)' => tx'[b] = Closed
                        /\ tx'[b].todo \subseteq DOMAIN tx'[b].classes
                        /\ Open(b)' /\ b # Drawer => Publishing(b)'
                        /\ \A i \in DOMAIN tx'[b].adds : tx'[b].adds[i].task = TaskOf(b)'
    BY DEF Transactions
  <2>2. CASE b = a
    BY <1>4, <1>5, <2>2 DEF Open
  <2>3. CASE b # a
    <3>1. Open(b) /\ b # Drawer => Publishing(b)'
      <4>1. ASSUME Open(b), b # Drawer PROVE Publishing(b)
        BY <4>1 DEF SnapInv, Transactions
      <4>. QED BY <1>1, <1>5, <1>8, <1>10, <1>12, <2>3, <4>1 DEF Publishing
    <3>2. \A i \in DOMAIN tx[b].adds : TaskOf(b)' = TaskOf(b)
      BY <1>11, ClosedIsEmpty
    <3>. QED BY <1>5, <2>3, <3>1, <3>2 DEF SnapInv, Transactions, Open
  <2>. QED BY <2>2, <2>3
<1>16. Complete'
  <2>1. ASSUME NEW i \in DOMAIN objects' PROVE objects'[i].task <= Len(tasks')
    <3>1. CASE i \in 1..m
      BY <1>1, <1>3, <3>1 DEF SnapInv, Complete
    <3>2. CASE i \in (m + 1)..(m + k)
      BY <1>1, <1>7, <3>2
    <3>. QED BY <1>3, <3>1, <3>2
  <2>2. ASSUME NEW s \in DOMAIN runs
        PROVE  /\ ResultOf(s)' # {} =>
                    /\ Past(s) /\ runs'[s].stage # "publish"
                    /\ Cardinality(ResultOf(s)') = Cardinality(Wanted(s))
               /\ runs'[s].stage \in {"answer", "reload"} \/ runs'[s].told = "done" =>
                    /\ Past(s) /\ ~Open(s)'
                    /\ Cardinality(ResultOf(s)') = runs'[s].count
                    /\ runs'[s].count = Cardinality(Wanted(s))
    <3>1. s \in 0..MaxRuns /\ s # Drawer
      BY <1>2, SnapshotRunAssumption DEF SnapInv, Shape, Drawer, SnapshotRunAssumption
    <3>2. CASE s # a
      <4>1. ResultOf(s)' = ResultOf(s) /\ Open(s)' = Open(s) /\ runs'[s].stage = runs[s].stage
            /\ runs'[s].told = runs[s].told /\ runs'[s].count = runs[s].count
        BY <1>5, <1>8, <1>12, <3>1, <3>2 DEF Open
      <4>. QED BY <4>1 DEF SnapInv, Complete
    <3>3. CASE s = a
      <4>1. Past(a) /\ Cardinality(ResultOf(a)') = k /\ k = Cardinality(Wanted(a)) /\ ~Open(a)'
        BY <1>4, <1>5, <1>6, <1>13, <3>1, <3>3 DEF Open
      <4>2. CASE runs[a].stage = "publish"
        BY <1>8, <3>3, <4>1, <4>2
      <4>3. CASE runs[a].stage # "publish"
        <5>1. runs[a].told = "publish" /\ runs[a].stage = "end"
          BY <1>6, <1>9, <3>1, <3>3, <4>3 DEF None
        <5>. QED BY <1>8, <3>3, <4>1, <5>1
      <4>. QED BY <4>2, <4>3
    <3>. QED BY <3>2, <3>3
  <2>. QED BY <1>8, <1>10, <2>1, <2>2 DEF Complete
<1>17. Numbers'
  <2>0. NumbersDiffer /\ OwnDiffer /\ CommittedDiffer /\ LayersApart
    BY DEF SnapInv, Numbers
  <2>1. NumbersDiffer'
    <3>1. SUFFICES ASSUME NEW i \in DOMAIN objects', NEW j \in DOMAIN objects', i # j,
                          objects'[i].layer = objects'[j].layer, objects'[i].number = objects'[j].number
                   PROVE  overlapped /\ objects'[i].task # objects'[j].task
      BY <1>1 DEF NumbersDiffer
    <3>2. CASE i \in 1..m /\ j \in 1..m
      BY <1>3, <2>0, <3>1, <3>2 DEF NumbersDiffer
    <3>3. CASE i \in 1..m /\ j \in (m + 1)..(m + k)
      <4>1. objects'[i] = objects[i] /\ i \in DOMAIN objects
        BY <1>3, <3>3
      <4>2. objects'[j] = tx[a].adds[j - m] /\ j - m \in DOMAIN tx[a].adds /\ objects'[j].task = TaskOf(a)
        BY <1>3, <1>7, <3>3
      <4>. QED BY <2>0, <3>1, <4>1, <4>2 DEF CommittedDiffer
    <3>4. CASE j \in 1..m /\ i \in (m + 1)..(m + k)
      <4>1. objects'[j] = objects[j] /\ j \in DOMAIN objects
        BY <1>3, <3>4
      <4>2. objects'[i] = tx[a].adds[i - m] /\ i - m \in DOMAIN tx[a].adds /\ objects'[i].task = TaskOf(a)
        BY <1>3, <1>7, <3>4
      <4>. QED BY <2>0, <3>1, <4>1, <4>2 DEF CommittedDiffer
    <3>5. CASE i \in (m + 1)..(m + k) /\ j \in (m + 1)..(m + k)
      <4>1. i - m \in 1..k /\ j - m \in 1..k /\ i - m # j - m
        BY <1>7, <3>1, <3>5
      <4>2. /\ objects'[i] = tx[a].adds[i - m] /\ i - m \in DOMAIN tx[a].adds
            /\ objects'[j] = tx[a].adds[j - m] /\ j - m \in DOMAIN tx[a].adds
        BY <1>3, <1>7, <3>5
      <4>. QED BY <2>0, <3>1, <4>1, <4>2 DEF OwnDiffer
    <3>. QED BY <1>3, <3>2, <3>3, <3>4, <3>5
  <2>2. ASSUME NEW b \in 0..MaxRuns, NEW x \in DOMAIN tx'[b].adds, NEW y \in DOMAIN objects',
               objects'[y].layer = tx'[b].adds[x].layer, objects'[y].number = tx'[b].adds[x].number
        PROVE  overlapped /\ objects'[y].task # TaskOf(b)'
    <3>1. b # a /\ tx'[b] = tx[b] /\ Open(b) /\ TaskOf(b)' = TaskOf(b) /\ x \in DOMAIN tx[b].adds
      BY <1>5, <1>11, <2>2, ClosedIsEmpty
    <3>2. CASE y \in 1..m
      BY <1>3, <2>0, <2>2, <3>1, <3>2 DEF CommittedDiffer
    <3>3. CASE y \in (m + 1)..(m + k)
      <4>1. objects'[y] = tx[a].adds[y - m] /\ y - m \in DOMAIN tx[a].adds /\ objects'[y].task = TaskOf(a)
        BY <1>3, <1>7, <3>3
      <4>2. overlapped
        BY <2>0, <2>2, <3>1, <4>1 DEF LayersApart
      <4>3. TaskOf(a) # TaskOf(b)
        BY <1>1, <1>11, <3>1 DEF TaskOf, SnapInv, Owned
      <4>. QED BY <3>1, <4>1, <4>2, <4>3
    <3>. QED BY <1>3, <3>2, <3>3
  <2>3. OwnDiffer'
    BY <1>5, <2>0 DEF OwnDiffer
  <2>4. LayersApart'
    BY <1>1, <1>5, <2>0 DEF LayersApart
  <2>5. CommittedDiffer'
    BY <1>1, <2>2 DEF CommittedDiffer
  <2>. QED BY <2>1, <2>3, <2>4, <2>5 DEF Numbers
<1>18. Bounded'
  <2>1. PICK n \in Nat : /\ \A j \in DOMAIN objects : objects[j].number <= n
                         /\ \A b \in 0..MaxRuns : \A j \in DOMAIN tx[b].adds : tx[b].adds[j].number <= n
    BY DEF SnapInv, Bounded
  <2>2. \A j \in DOMAIN objects' : objects'[j].number <= n
    <3>1. ASSUME NEW j \in 1..m PROVE objects'[j].number <= n
      BY <1>3, <2>1
    <3>2. ASSUME NEW j \in (m + 1)..(m + k) PROVE objects'[j].number <= n
      BY <1>3, <1>7, <2>1
    <3>. QED BY <1>3, <3>1, <3>2
  <2>. QED BY <1>5, <2>1, <2>2 DEF Bounded
<1>. QED BY <1>14, <1>15, <1>16, <1>17, <1>18 DEF SnapInv

-----------------------------------------------------------------------------
(* The invariant                                                            *)

LEMMA SnapInit ==
  ASSUME Init
  PROVE  SnapInv
<1>1. /\ Closed \in TxSet /\ ~Closed.open /\ Closed.todo = {} /\ Closed.classes = <<>> /\ \A i \in DOMAIN Closed.adds : FALSE
  BY DEF Closed, TxSet
<1>2. runs = <<>> /\ tasks = <<>> /\ objects = <<>> /\ \A i \in DOMAIN <<>> : FALSE
  BY DEF Init
<1>3. tx \in [0..MaxRuns -> TxSet] /\ \A a \in 0..MaxRuns : tx[a] = Closed
  BY <1>1 DEF Init
<1>4. Shape
  BY <1>2, <1>3, SnapshotRunAssumption DEF Shape, Init, SnapshotRunAssumption
<1>5. Controls
  <2>1. \A kind : Active(kind) = {}
    BY <1>2 DEF Active
  <2>. QED BY <2>1 DEF Controls, Init
<1>6. Owned /\ ResultIsThere /\ Complete
  BY <1>2 DEF Owned, ResultIsThere, Complete
<1>7. Transactions
  BY <1>1, <1>3 DEF Transactions, Open
<1>8. Numbers /\ Bounded
  BY <1>1, <1>2, <1>3 DEF Numbers, NumbersDiffer, OwnDiffer, CommittedDiffer, LayersApart, Bounded
<1>. QED BY <1>4, <1>5, <1>6, <1>7, <1>8 DEF SnapInv

LEMMA SnapNext ==
  ASSUME SnapInv, Next
  PROVE  SnapInv'
<1>1. ASSUME NEW f \in BOOLEAN, HandleUploadFile(f) PROVE SnapInv'
  BY <1>1, HandleUploadFileKeeps
<1>2. CASE StartUploadProcessing \/ RunSegmentation
  BY <1>2, StartKeeps
<1>3. ASSUME NEW r \in DOMAIN runs,
             GiveUp(r) \/ Ready(r) \/ Create(r) \/ Poll(r) \/ Published(r) \/ Reload(r) \/ PublishToLayers(r)
      PROVE  SnapInv'
  BY <1>3, GiveUpKeeps, ReadyKeeps, CreateKeeps, PollKeeps, PublishKeeps
<1>4. ASSUME NEW t \in DOMAIN tasks, Work(t) PROVE SnapInv'
  BY <1>4, WorkKeeps
<1>5. ASSUME NEW c \in Classes, AddObject(c) PROVE SnapInv'
  BY <1>5, AddObjectKeeps
<1>6. DOMAIN tx = 0..MaxRuns
  BY DEF SnapInv, Shape
<1>7. ASSUME NEW a \in 0..MaxRuns, NEW i \in tx[a].todo, AddNext(a, i) PROVE SnapInv'
  BY <1>7, AddNextKeeps
<1>8. ASSUME NEW a \in 0..MaxRuns, Commit(a) \/ Rollback(a) PROVE SnapInv'
  BY <1>8, CommitKeeps, RollbackKeeps
<1>. QED BY <1>1, <1>2, <1>3, <1>4, <1>5, <1>6, <1>7, <1>8 DEF Next

LEMMA SnapStutter ==
  ASSUME SnapInv, UNCHANGED vars
  PROVE  SnapInv'
<1>1. Moved(0, 0) /\ UNCHANGED client /\ tx' \in [0..MaxRuns -> TxSet]
  BY DEF vars, client, Moved, SnapInv, Shape
<1>. QED BY <1>1, GoKeeps

(* What the invariant says of the answers.                                  *)
LEMMA SnapshotsAgreeFromInv ==
  ASSUME SnapInv
  PROVE  SnapshotsAgree
<1>1. ASSUME NEW r \in DOMAIN runs
      PROVE  /\ ResultOf(r) # {} => /\ Cardinality(ResultOf(r)) = Cardinality(Wanted(r))
                                    /\ runs[r].told \in {None, "done", "publish", "answer", "reload"}
             /\ runs[r].told = "done" => /\ Cardinality(ResultOf(r)) = runs[r].count
                                         /\ runs[r].count = Cardinality(Wanted(r))
  <2>1. Past(r) => runs[r].told \in {None, "done", "publish", "answer", "reload"}
    BY DEF Past, SnapInv, Owned
  <2>. QED BY <2>1 DEF SnapInv, Complete
<1>2. \A r \in DOMAIN runs : ResultOf(r) # {} \/ runs[r].told = "done" => Past(r)
  BY DEF SnapInv, Complete
<1>3. ASSUME NEW r \in DOMAIN runs, Past(r)
      PROVE  Wanted(r) = {i \in DOMAIN tasks[runs[r].task].result :
                            runs[r].classes = {} \/ tasks[runs[r].task].result[i] \in runs[r].classes}
  <2>1. runs[r] \in RunSet /\ tasks \in Seq(TaskRow)
    BY DEF SnapInv, Shape
  <2>2. runs[r].task \in DOMAIN tasks
    BY <1>3, <2>1 DEF Past, SnapInv, Owned, RunSet, NoTask
  <2>3. tasks[runs[r].task] \in TaskRow
    BY <2>1, <2>2
  <2>4. \A i \in DOMAIN tasks[runs[r].task].result : tasks[runs[r].task].result[i] \in Classes
    BY <2>3 DEF TaskRow
  <2>. QED BY <2>4 DEF Wanted, Allowed
<1>4. ResultsAreTold
  BY <1>1, <1>2, <1>3 DEF ResultsAreTold
<1>5. NumbersDiffer
  BY DEF SnapInv, Numbers
<1>6. ControlsComeBack
  <2>1. \A r, s \in Active("segment") : r = s
    BY DEF SnapInv, Controls
  <2>2. Active("segment") = {} \/ \E r : Active("segment") = {r}
    BY <2>1
  <2>3. Cardinality(Active("segment")) <= 1
    <3>1. \A r : Cardinality({r}) = 1
      BY FS_Singleton
    <3>2. Cardinality({}) = 0
      BY FS_EmptySet
    <3>. QED BY <2>2, <3>1, <3>2
  <2>. QED BY <2>3 DEF ControlsComeBack, SnapInv, Controls
<1>. QED BY <1>4, <1>5, <1>6 DEF SnapshotsAgree

(* A result is published as a whole or not at all, and told as such; the    *)
(* objects of a layer differ in their numbers unless transactions overlap;  *)
(* and the buttons come back (runner.js, publish_to_layers): SnapshotsAgree *)
(* of the run, for any number of runs, tasks, objects and drawn objects.    *)
THEOREM SnapshotsAlwaysAgree == Spec => []SnapshotsAgree
<1>1. Init => SnapInv
  BY SnapInit
<1>2. SnapInv /\ [Next]_vars => SnapInv'
  BY SnapNext, SnapStutter
<1>3. SnapInv => SnapshotsAgree
  BY SnapshotsAgreeFromInv
<1>. QED BY <1>1, <1>2, <1>3, PTL DEF Spec

=============================================================================
