-------------------------- MODULE MapModel_proofs --------------------------
(* The client's model of the map: when nothing is under way, the copy is    *)
(* what the server has; what is shown is what the copy says; and an object  *)
(* that is put into a folder leaves its neighbours where they are.  For any *)
(* number of objects, layers, folders, commands and loads.                  *)
(*                                                                          *)
(* The argument: as long as nothing has excused the copy, the commands      *)
(* under way touch different layers and folders.  So what the server has is *)
(* known thing by thing: of what no command touches, what the copy has; of  *)
(* what one touches, what that command expects, which is the effect of its  *)
(* request if it has been served.  A load that no change has overtaken has  *)
(* read what the server has.                                                *)
EXTENDS Browser_proofs

-----------------------------------------------------------------------------
(* The invariant                                                            *)

LayerDo == {"showLayer", "editLayer", "patchLayer", "putLayer", "dropLayer", "detachLayer"}
ObjectDo == {"keepObject", "putObject", "detachObject"}
FolderDo == {"editFolder", "showFolder", "dropFolder", "putLayer", "keepObject", "putObject", "intoFolder"}
AloneDo == {"showLayer", "editLayer", "putLayer", "dropLayer", "editFolder", "showFolder", "dropFolder", "addFolder"}
Dos == LayerDo \union ObjectDo \union FolderDo \union {"addLayer", "addFolder"}

Asking == [do : Dos, layer : Nat, folder : Nat, on : BOOLEAN]
Things == {"layer", "folder"} \X Nat
Going ==
  [requests : Seq(Asking), served : BOOLEAN, held : Nat, about : SUBSET Things,
   keeps : SUBSET Nat, folder : Nat]
Row == [on : BOOLEAN, folder : Nat]

(* A map, and one that says where everything is.                            *)
IsMap(m) ==
  /\ m \in [layers : {m.layers}, folders : {m.folders}, own : {m.own}]
  /\ m.layers \in [DOMAIN m.layers -> Row] /\ m.folders \in [DOMAIN m.folders -> BOOLEAN]
  /\ m.own \in [DOMAIN m.own -> Nat]
  /\ DOMAIN m.layers \subseteq Nat \ {0} /\ IsFiniteSet(DOMAIN m.layers)
  /\ DOMAIN m.folders \subseteq Nat \ {0} /\ IsFiniteSet(DOMAIN m.folders)
  /\ DOMAIN m.own \subseteq M!Objects

Placed(m) ==
  /\ \A o \in DOMAIN m.own : Home[o] \in DOMAIN m.layers
  /\ \A l \in DOMAIN m.layers : m.layers[l].folder \in DOMAIN m.folders \union {M!None}

Housed(m) == \A o \in DOMAIN m.own : Home[o] \in DOMAIN m.layers

(* What m and n have for a layer or a folder t is the same.                 *)
SameLayer(m, n, l) ==
  /\ l \in DOMAIN m.layers <=> l \in DOMAIN n.layers
  /\ l \in DOMAIN m.layers => m.layers[l] = n.layers[l]
  /\ \A o \in M!Objects : Home[o] = l =>
       (o \in DOMAIN m.own <=> o \in DOMAIN n.own) /\ (o \in DOMAIN m.own => m.own[o] = n.own[o])

SameFolder(m, n, f) ==
  /\ f \in DOMAIN m.folders <=> f \in DOMAIN n.folders
  /\ f \in DOMAIN m.folders => m.folders[f] = n.folders[f]

Same(m, n, t) == IF t[1] = "layer" THEN SameLayer(m, n, t[2]) ELSE SameFolder(m, n, t[2])

There(m, t) == IF t[1] = "layer" THEN t[2] \in DOMAIN m.layers ELSE t[2] \in DOMAIN m.folders

(* The row that the server has added for a command.                         *)
Fresh(c) ==
  IF c.requests[1].do = "intoFolder" \/ (c.requests[1].do = "addLayer" /\ c.served)
  THEN {<<"layer", c.requests[1].layer>>}
  ELSE IF c.requests[1].do = "addFolder" /\ c.served THEN {<<"folder", c.requests[1].folder>>} ELSE {}

Touched(c) == c.about \union Fresh(c)

(* The ways in which a map changes.                                         *)
WithRow(m, l, row) == [layers |-> M!Put(m.layers, l, row), folders |-> m.folders, own |-> m.own]
WithFolder(m, f, on) == [layers |-> m.layers, folders |-> M!Put(m.folders, f, on), own |-> m.own]
WithOwn(m, o, f) == [layers |-> m.layers, folders |-> m.folders, own |-> M!Put(m.own, o, f)]

(* What a request does, with the ids and values of its answer.              *)
Effect(m, r) ==
  CASE r.do \in {"showLayer", "patchLayer"} -> M!Switched(m, r.layer, r.on)
    [] r.do = "putLayer"    -> IF r.layer \in DOMAIN m.layers
                               THEN WithRow(m, r.layer, [on |-> m.layers[r.layer].on, folder |-> r.folder]) ELSE m
    [] r.do = "detachLayer" -> IF r.layer \in DOMAIN m.layers
                               THEN WithRow(m, r.layer, [on |-> m.layers[r.layer].on, folder |-> M!None]) ELSE m
    [] r.do \in {"keepObject", "putObject"} ->
         IF r.layer \in DOMAIN m.own THEN WithOwn(m, r.layer, r.folder) ELSE m
    [] r.do = "detachObject" -> IF r.layer \in DOMAIN m.own THEN WithOwn(m, r.layer, M!None) ELSE m
    [] r.do = "dropLayer"  -> M!WithoutLayer(m, r.layer)
    [] r.do = "dropFolder" -> M!WithoutFolder(m, r.folder)
    [] r.do = "showFolder" -> IF r.folder \in DOMAIN m.folders THEN WithFolder(m, r.folder, r.on) ELSE m
    [] r.do = "addFolder"  -> WithFolder(m, r.folder, TRUE)
    [] r.do \in {"addLayer", "intoFolder"} -> WithRow(m, r.layer, [on |-> r.on, folder |-> r.folder])
    [] OTHER -> m

(* What the server has, if m is the client's copy, of what c touches.       *)
Begun(m, r) ==
  IF r.do = "showLayer" THEN M!Switched(m, r.layer, ~r.on)
  ELSE IF r.do = "intoFolder"
       THEN [m EXCEPT !.layers = M!Put(@, r.layer, [on |-> TRUE, folder |-> M!None])]
  ELSE m

Ended(m, r) == IF r.do = "showLayer" THEN m ELSE Effect(m, r)

Expected(m, c) == IF c.served THEN Ended(m, c.requests[1]) ELSE Begun(m, c.requests[1])

(* What the requests of a command are about.                                *)
Fits(c) ==
  /\ c.requests # <<>>
  /\ \A n \in DOMAIN c.requests :
       LET r == c.requests[n]
       IN  /\ r.do \in LayerDo => <<"layer", r.layer>> \in c.about
           /\ r.do \in ObjectDo => r.layer \in M!Objects /\ <<"layer", Home[r.layer]>> \in c.about
           /\ r.do \in FolderDo => <<"folder", r.folder>> \in c.about
           /\ r.do \in AloneDo => Len(c.requests) = 1
           /\ r.do = "addLayer" =>
                /\ n = 1
                /\ Len(c.requests) = 1 \/ (Len(c.requests) = 2 /\ c.requests[2].do = "intoFolder")
           /\ r.do = "intoFolder" => n = Len(c.requests) /\ (n = 1 \/ c.requests[1].do = "addLayer")

(* What is in a folder that is dropped or switched belongs to the command.  *)
Claims(m, c) ==
  /\ c.requests[1].do \in {"showFolder", "dropFolder"} =>
       \A l \in DOMAIN m.layers : m.layers[l].folder = c.requests[1].folder => <<"layer", l>> \in c.about
  /\ c.requests[1].do = "dropFolder" =>
       \A o \in DOMAIN m.own : m.own[o] = c.requests[1].folder => <<"layer", Home[o]>> \in c.about

(* What the copy m says about the first request.                            *)
Known(m, c) ==
  LET r == c.requests[1]
  IN  /\ \A t \in c.about : There(m, t)
      /\ \A t \in Fresh(c) : ~There(m, t) /\ t[2] # 0 /\ (t[1] = "layer" => \A o \in M!Objects : Home[o] # t[2])
      /\ r.do = "showLayer" => m.layers[r.layer].on = r.on
      /\ c.served /\ r.do = "editLayer" => m.layers[r.layer] = [on |-> r.on, folder |-> r.folder]
      /\ c.served /\ r.do = "editFolder" => m.folders[r.folder] = r.on

(* A command that moves an object out of its layer's folder.                *)
MovesOut(m, c) ==
  c.keeps # {} /\ c.folder # M!None =>
    \E l \in Nat :
      LET q == c.requests
      IN  /\ <<"layer", l>> \in c.about
          /\ \A p \in c.keeps : p \in DOMAIN m.own /\ Home[p] = l /\ m.own[p] \in {M!None, c.folder}
          /\ q[Len(q)].do \in {"putObject", "detachObject"} /\ q[Len(q)].layer \notin c.keeps
          /\ \A n \in DOMAIN q : n = Len(q) - 1 => q[n].do = "detachLayer" /\ q[n].layer = l
          /\ \A n \in DOMAIN q : n < Len(q) - 1 => q[n].do = "keepObject" /\ q[n].folder = c.folder
          /\ m.layers[l].folder = IF Len(q) = 1 THEN M!None ELSE c.folder
          /\ \A p \in c.keeps : m.own[p] = M!None => \E n \in DOMAIN q : n < Len(q) - 1 /\ q[n].layer = p

(* Nothing has happened that the copy would not hear of.                    *)
CommandFits(m, n, c, now) ==
  /\ Fits(c) /\ c.held = now
  /\ Known(m, c) /\ Claims(m, c) /\ Claims(n, c) /\ MovesOut(m, c)
  /\ \A t \in Touched(c) : Same(Expected(m, c), n, t)

Calm(m, n, q, now) ==
  /\ Placed(m)
  /\ \A i \in DOMAIN q : CommandFits(m, n, q[i], now)
  /\ \A i, j \in DOMAIN q : i # j => Touched(q[i]) \intersect Touched(q[j]) = {}
  /\ \A t \in Things : (\A i \in DOMAIN q : t \notin Touched(q[i])) => Same(m, n, t)

ListFits(q, m) == M!ToSet(q) = DOMAIN m.layers /\ Distinct(q)

(* The loads                                                                *)
Layered(load) == load.todo \in Seq({"layer"} \X DOMAIN load.layers)

LoadFits(load, n) ==
  /\ load = [seq |-> load.seq, layers |-> load.layers, folders |-> load.folders, own |-> load.own,
             todo |-> load.todo, dirty |-> load.dirty]
  /\ load.dirty \in BOOLEAN
  /\ \/ load.todo = <<<<"layers", M!None>>>> \/ load.todo = <<<<"folders", M!None>>>>
     \/ Layered(load)
  /\ load.layers \in [DOMAIN load.layers -> Row] /\ load.folders \in [DOMAIN load.folders -> BOOLEAN]
  /\ load.own \in [DOMAIN load.own -> Nat] /\ DOMAIN load.own \subseteq M!Objects
  /\ \A o \in DOMAIN load.own : Home[o] \in DOMAIN load.layers
  /\ DOMAIN load.layers \subseteq Nat \ {0} /\ IsFiniteSet(DOMAIN load.layers)
  /\ DOMAIN load.folders \subseteq Nat \ {0} /\ IsFiniteSet(DOMAIN load.folders)
  /\ ~Layered(load) => DOMAIN load.own = {}
  /\ ~load.dirty /\ load.todo # <<<<"layers", M!None>>>> => load.layers = n.layers
  /\ ~load.dirty /\ Layered(load) =>
       /\ load.folders = n.folders
       /\ DOMAIN load.own \subseteq DOMAIN n.own
       /\ \A o \in DOMAIN n.own :
            IF o \in DOMAIN load.own THEN load.own[o] = n.own[o]
            ELSE \E i \in DOMAIN load.todo : load.todo[i] = <<"layer", Home[o]>>

(* The rows that are added have ids.                                        *)
HasId(r) ==
  /\ r.do \in {"addLayer", "intoFolder"} => r.layer # M!None
  /\ r.do = "addFolder" => r.folder # M!None

(* A new layer is blank, and the answers have the ids of rows.              *)
Formed(c) ==
  /\ c.requests # <<>>
  /\ \A n \in DOMAIN c.requests : c.requests[n].do = "addLayer" =>
       c.requests[n].on = TRUE /\ c.requests[n].folder = M!None
  /\ c.served => HasId(c.requests[1])

ModelTyped ==
  /\ IsMap(copied) /\ Placed(copied) /\ IsMap(model) /\ Housed(model)
  /\ listed \in Seq(Nat) /\ epoch \in Nat /\ excused \in BOOLEAN
  /\ calls \in Nat /\ given \in Nat
  /\ commands \in Seq(Going)
  /\ \A i \in DOMAIN commands : Formed(commands[i])

LoadsFit ==
  /\ loads \in Seq({loads[k] : k \in DOMAIN loads})
  /\ \A k \in DOMAIN loads : LoadFits(loads[k], copied)

ModelInv ==
  /\ ModelTyped /\ LoadsFit /\ M!ShownAgrees
  /\ ~excused => Calm(model, copied, commands, epoch) /\ ListFits(listed, model)

-----------------------------------------------------------------------------
(* Sequences and sets                                                       *)

(* The instance has a copy of Cardinality.                                  *)
LEMMA MSameCardinality ==
  ASSUME NEW S
  PROVE  M!Cardinality(S) = Cardinality(S)
BY DEF Cardinality, M!Cardinality

(* A sequence without its element at i.                                     *)
Behind(j, i) == IF j < i THEN j ELSE j + 1

(* What is behind the element that goes moves up.                           *)
LEMMA WithoutOne ==
  ASSUME NEW V, NEW q \in Seq(V), NEW i \in DOMAIN q
  PROVE  /\ M!RemoveAt(q, i) \in Seq(V)
         /\ \A j \in DOMAIN M!RemoveAt(q, i) :
              Behind(j, i) \in DOMAIN q /\ Behind(j, i) # i /\ M!RemoveAt(q, i)[j] = q[Behind(j, i)]
         /\ \A j \in DOMAIN q : j # i => \E k \in DOMAIN M!RemoveAt(q, i) : Behind(k, i) = j
         /\ \A j, k \in DOMAIN M!RemoveAt(q, i) : Behind(j, i) = Behind(k, i) => j = k
<1>1. DOMAIN q = 1..Len(q) /\ Len(q) \in Nat /\ i \in Nat /\ 1 <= i /\ i <= Len(q)
  OBVIOUS
<1>2. PICK a, b : a = SubSeq(q, 1, i - 1) /\ b = SubSeq(q, i + 1, Len(q))
  OBVIOUS
<1>3. a \in Seq(V) /\ Len(a) = i - 1 /\ \A j \in 1..(i - 1) : a[j] = q[j]
  BY <1>1, <1>2, SubSeqProperties
<1>4. b \in Seq(V) /\ Len(b) = Len(q) - i /\ \A j \in 1..(Len(q) - i) : b[j] = q[i + j]
  <2>1. CASE i = Len(q)
    BY <1>1, <1>2, <2>1, SubSeqProperties
  <2>2. CASE i < Len(q)
    BY <1>1, <1>2, <2>2, SubSeqProperties
  <2>. QED BY <1>1, <2>1, <2>2
<1>5. PICK s : s = a \o b
  OBVIOUS
<1>6. s \in Seq(V) /\ Len(s) = Len(q) - 1 /\ DOMAIN s = 1..(Len(q) - 1)
      /\ \A j \in 1..(Len(q) - 1) : s[j] = IF j < i THEN q[j] ELSE q[j + 1]
  <2>1. s \in Seq(V) /\ Len(s) = Len(a) + Len(b)
    BY <1>3, <1>4, <1>5, ConcatProperties
  <2>2. ASSUME NEW j \in 1..(Len(q) - 1) PROVE s[j] = IF j < i THEN q[j] ELSE q[j + 1]
    <3>1. s[j] = IF j <= Len(a) THEN a[j] ELSE b[j - Len(a)]
      BY <1>1, <1>3, <1>4, <1>5, <2>1, ConcatProperties, SMTT(30)
    <3>2. CASE j < i
      <4>1. j <= Len(a) /\ j \in 1..(i - 1)
        BY <1>1, <1>3, <3>2
      <4>. QED BY <1>3, <3>1, <3>2, <4>1
    <3>3. CASE ~ (j < i)
      <4>1. ~ (j <= Len(a)) /\ j - Len(a) \in 1..(Len(q) - i) /\ i + (j - Len(a)) = j + 1
        BY <1>1, <1>3, <3>3
      <4>. QED BY <1>4, <3>1, <3>3, <4>1
    <3>. QED BY <3>2, <3>3
  <2>3. Len(s) = Len(q) - 1
    BY <1>1, <1>3, <1>4, <2>1
  <2>. QED BY <2>1, <2>2, <2>3
<1>7. s = M!RemoveAt(q, i)
  BY <1>2, <1>5 DEF M!RemoveAt
<1>8. ASSUME NEW j \in DOMAIN s
      PROVE  Behind(j, i) \in DOMAIN q /\ Behind(j, i) # i /\ s[j] = q[Behind(j, i)]
  BY <1>1, <1>6 DEF Behind
<1>9. ASSUME NEW j \in DOMAIN q, j # i PROVE \E k \in DOMAIN s : Behind(k, i) = j
  <2>1. CASE j < i
    BY <1>1, <1>6, <2>1 DEF Behind
  <2>2. CASE j > i
    <3>1. j - 1 \in DOMAIN s /\ ~ (j - 1 < i) /\ (j - 1) + 1 = j
      BY <1>1, <1>6, <2>2
    <3>. QED BY <3>1 DEF Behind
  <2>. QED BY <1>1, <1>9, <2>1, <2>2
<1>10. ASSUME NEW j \in DOMAIN s, NEW k \in DOMAIN s, Behind(j, i) = Behind(k, i) PROVE j = k
  BY <1>1, <1>6, <1>10 DEF Behind
<1>. QED BY <1>6, <1>7, <1>8, <1>9, <1>10

(* Only keeps the elements in S.                                            *)
LEMMA OnlyThose ==
  ASSUME NEW V, NEW q \in Seq(V), NEW S
  PROVE  /\ M!Only(q, S) \in Seq(V) /\ Len(M!Only(q, S)) <= Len(q)
         /\ M!ToSet(M!Only(q, S)) = M!ToSet(q) \intersect S
         /\ Distinct(q) => Distinct(M!Only(q, S))
<1>. DEFINE P == {i \in DOMAIN q : q[i] \in S}
            N == Cardinality(P)
            kept == M!Ascending(P)
<1>1. DOMAIN q = 1..Len(q) /\ Len(q) \in Nat /\ \A i \in DOMAIN q : q[i] \in V
  OBVIOUS
<1>2. IsFiniteSet(P) /\ P \in SUBSET Nat /\ N \in Nat /\ N <= Len(q)
  <2>1. IsFiniteSet(1..Len(q)) /\ Cardinality(1..Len(q)) = Len(q)
    BY <1>1, FS_Interval
  <2>2. P \in SUBSET (1..Len(q))
    BY <1>1
  <2>3. IsFiniteSet(P) /\ Cardinality(P) <= Len(q)
    <3>. HIDE DEF P
    <3>. QED BY <2>1, <2>2, FS_Subset
  <2>4. Cardinality(P) \in Nat
    <3>. HIDE DEF P
    <3>. QED BY <2>3, FS_CardinalityType
  <2>. QED BY <2>2, <2>3, <2>4
<1>3. kept \in [1..N -> P] /\ Rises(kept)
  <2>. HIDE DEF P
  <2>1. PICK n : n = N
    OBVIOUS
  <2>2. M!Cardinality(P) = n
    BY <2>1, MSameCardinality
  <2>3. kept = CHOOSE f \in [1..n -> P] : \A k, l \in DOMAIN f : k < l => f[k] < f[l]
    BY <2>2 DEF M!Ascending
  <2>4. \E f \in [1..n -> P] : \A k, l \in DOMAIN f : k < l => f[k] < f[l]
    BY <1>2, <2>1, Ordered DEF Rises
  <2>. HIDE DEF kept
  <2>. QED BY <2>1, <2>3, <2>4 DEF Rises
<1>4. M!Only(q, S) = [n \in 1..N |-> q[kept[n]]]
  <2>1. DOMAIN kept = 1..N
    BY <1>3
  <2>2. M!Only(q, S) = [n \in DOMAIN kept |-> q[kept[n]]]
    BY DEF M!Only
  <2>. HIDE DEF P, kept
  <2>. QED BY <2>1, <2>2
<1>5. PICK k : k = kept
  OBVIOUS
<1>6. /\ k \in [1..N -> P] /\ M!Only(q, S) = [n \in 1..N |-> q[k[n]]]
      /\ \A m, n \in 1..N : k[m] = k[n] => m = n
      /\ \A i \in P : \E n \in 1..N : k[n] = i
  <2>. HIDE DEF P, kept
  <2>. QED BY <1>2, <1>3, <1>4, <1>5, RisesOnce
<1>. HIDE DEF kept, N
<1>7. M!Only(q, S) \in Seq(V) /\ Len(M!Only(q, S)) = N
  BY <1>1, <1>2, <1>6
<1>8. M!ToSet(M!Only(q, S)) = M!ToSet(q) \intersect S
  BY <1>6 DEF M!ToSet
<1>9. Distinct(q) => Distinct(M!Only(q, S))
  BY <1>6 DEF Distinct
<1>. QED BY <1>2, <1>7, <1>8, <1>9

(* A set as a sequence.                                                     *)
LEMMA SetInSequence ==
  ASSUME NEW S, IsFiniteSet(S)
  PROVE  /\ Cardinality(S) \in Nat /\ M!SetToSeq(S) \in [1..Cardinality(S) -> S]
         /\ M!ToSet(M!SetToSeq(S)) = S /\ Distinct(M!SetToSeq(S))
<1>1. PICK n \in Nat : n = Cardinality(S)
  BY FS_CardinalityType
<1>2. PICK q : q = M!SetToSeq(S)
  OBVIOUS
<1>3. q = CHOOSE f \in [1..n -> S] : \A a, b \in DOMAIN f : f[a] = f[b] => a = b
  BY <1>1, <1>2, MSameCardinality DEF M!SetToSeq, M!IsInjective
<1>4. IsFiniteSet(1..n) /\ Cardinality(1..n) = n
  BY FS_Interval
<1>5. \E f \in [1..n -> S] : \A a, b \in DOMAIN f : f[a] = f[b] => a = b
  <2>1. ExistsBijection(1..n, S)
    BY <1>1, FS_CardinalityType
  <2>. QED BY <2>1 DEF ExistsBijection, Bijection, Injection, IsInjective
<1>6. q \in [1..n -> S] /\ \A a, b \in DOMAIN q : q[a] = q[b] => a = b
  BY <1>3, <1>5
<1>7. q \in Injection(1..n, S)
  BY <1>6 DEF Injection, IsInjective
<1>8. q \in Surjection(1..n, S)
  BY <1>1, <1>4, <1>7, FS_Injection
<1>9. M!ToSet(q) = S
  BY <1>6, <1>8 DEF M!ToSet, Surjection
<1>. QED BY <1>1, <1>2, <1>6, <1>9 DEF Distinct

-----------------------------------------------------------------------------
(* The ways in which a map changes                                          *)

(* A row is put into the layers.                                            *)
LEMMA RowIsPut ==
  ASSUME NEW m, IsMap(m), NEW l \in Nat \ {0}, NEW row \in Row
  PROVE  /\ IsMap(WithRow(m, l, row))
         /\ DOMAIN WithRow(m, l, row).layers = DOMAIN m.layers \union {l}
         /\ \A k \in DOMAIN m.layers \union {l} : WithRow(m, l, row).layers[k] = IF k = l THEN row ELSE m.layers[k]
         /\ WithRow(m, l, row).folders = m.folders /\ WithRow(m, l, row).own = m.own
<1>1. IsFiniteSet(DOMAIN m.layers \union {l})
  BY FS_AddElement DEF IsMap
<1>. QED BY <1>1 DEF WithRow, IsMap, M!Put, Row

(* A folder is put into the folders.                                        *)
LEMMA FolderIsPut ==
  ASSUME NEW m, IsMap(m), NEW f \in Nat \ {0}, NEW on \in BOOLEAN
  PROVE  /\ IsMap(WithFolder(m, f, on))
         /\ DOMAIN WithFolder(m, f, on).folders = DOMAIN m.folders \union {f}
         /\ \A k \in DOMAIN m.folders \union {f} : WithFolder(m, f, on).folders[k] = IF k = f THEN on ELSE m.folders[k]
         /\ WithFolder(m, f, on).layers = m.layers /\ WithFolder(m, f, on).own = m.own
<1>1. IsFiniteSet(DOMAIN m.folders \union {f})
  BY FS_AddElement DEF IsMap
<1>. QED BY <1>1 DEF WithFolder, IsMap, M!Put

(* An object is put into a folder by itself.                                *)
LEMMA OwnIsPut ==
  ASSUME NEW m, IsMap(m), NEW o \in M!Objects, NEW f \in Nat
  PROVE  /\ IsMap(WithOwn(m, o, f))
         /\ DOMAIN WithOwn(m, o, f).own = DOMAIN m.own \union {o}
         /\ \A k \in DOMAIN m.own \union {o} : WithOwn(m, o, f).own[k] = IF k = o THEN f ELSE m.own[k]
         /\ WithOwn(m, o, f).layers = m.layers /\ WithOwn(m, o, f).folders = m.folders
BY DEF WithOwn, IsMap, M!Put

(* A layer is dropped with its objects.                                     *)
LEMMA LayerIsDropped ==
  ASSUME NEW m, IsMap(m), NEW l
  PROVE  /\ IsMap(M!WithoutLayer(m, l))
         /\ DOMAIN M!WithoutLayer(m, l).layers = DOMAIN m.layers \ {l}
         /\ \A k \in DOMAIN m.layers \ {l} : M!WithoutLayer(m, l).layers[k] = m.layers[k]
         /\ M!WithoutLayer(m, l).folders = m.folders
         /\ DOMAIN M!WithoutLayer(m, l).own = {o \in DOMAIN m.own : Home[o] # l}
         /\ \A o \in DOMAIN m.own : Home[o] # l => M!WithoutLayer(m, l).own[o] = m.own[o]
<1>1. IsFiniteSet(DOMAIN m.layers \ {l})
  BY FS_Subset DEF IsMap
<1>2. M!WithoutLayer(m, l) = [layers |-> M!Drop(m.layers, {l}), folders |-> m.folders,
                              own |-> M!Drop(m.own, {o \in DOMAIN m.own : Home[o] = l})]
  <2>1. PICK a, b : a = M!Drop(m.layers, {l}) /\ b = M!Drop(m.own, {o \in DOMAIN m.own : Home[o] = l})
    OBVIOUS
  <2>2. M!WithoutLayer(m, l) = [m EXCEPT !.layers = a, !.own = b]
    BY <2>1 DEF M!WithoutLayer
  <2>. QED BY <2>1, <2>2 DEF IsMap
<1>. QED BY <1>1, <1>2 DEF IsMap, M!Drop, Row

(* A folder is dropped, and what was in it stays.                           *)
LEMMA FolderIsDropped ==
  ASSUME NEW m, IsMap(m), NEW f
  PROVE  /\ IsMap(M!WithoutFolder(m, f))
         /\ DOMAIN M!WithoutFolder(m, f).layers = DOMAIN m.layers
         /\ \A k \in DOMAIN m.layers : m.layers[k].folder # f => M!WithoutFolder(m, f).layers[k] = m.layers[k]
         /\ \A k \in DOMAIN m.layers : m.layers[k].folder = f =>
              M!WithoutFolder(m, f).layers[k] = [on |-> m.layers[k].on, folder |-> M!None]
         /\ DOMAIN M!WithoutFolder(m, f).folders = DOMAIN m.folders \ {f}
         /\ \A k \in DOMAIN m.folders \ {f} : M!WithoutFolder(m, f).folders[k] = m.folders[k]
         /\ DOMAIN M!WithoutFolder(m, f).own = DOMAIN m.own
         /\ \A o \in DOMAIN m.own : m.own[o] # f => M!WithoutFolder(m, f).own[o] = m.own[o]
         /\ \A o \in DOMAIN m.own : m.own[o] = f => M!WithoutFolder(m, f).own[o] = M!None
<1>1. IsFiniteSet(DOMAIN m.folders \ {f})
  BY FS_Subset DEF IsMap
<1>2. \A k \in DOMAIN m.layers : m.layers[k] \in Row
  BY DEF IsMap
<1>. QED BY <1>1, <1>2 DEF IsMap, M!Drop, Row, M!WithoutFolder, M!None

(* A switch sets the row.                                                   *)
LEMMA SwitchIsARow ==
  ASSUME NEW m, IsMap(m), NEW l \in Nat, NEW on \in BOOLEAN
  PROVE  M!Switched(m, l, on) =
           IF l \in DOMAIN m.layers THEN WithRow(m, l, [on |-> on, folder |-> m.layers[l].folder]) ELSE m
<1>1. CASE l \in DOMAIN m.layers
  <2>1. m.layers[l] \in Row
    BY <1>1 DEF IsMap
  <2>2. [m.layers[l] EXCEPT !.on = on] = [on |-> on, folder |-> m.layers[l].folder]
    BY <2>1 DEF Row
  <2>3. [m.layers EXCEPT ![l] = [m.layers[l] EXCEPT !.on = on]] = M!Put(m.layers, l, [on |-> on, folder |-> m.layers[l].folder])
    BY <1>1, <2>2 DEF IsMap, M!Put
  <2>. QED BY <1>1, <2>3 DEF IsMap, M!Switched, WithRow
<1>2. CASE l \notin DOMAIN m.layers
  BY <1>2 DEF M!Switched
<1>. QED BY <1>1, <1>2

(* A layer is put into a folder, or taken out.                              *)
LEMMA MoveIsARow ==
  ASSUME NEW m, IsMap(m), NEW l \in DOMAIN m.layers, NEW f
  PROVE  [m EXCEPT !.layers[l].folder = f] = WithRow(m, l, [on |-> m.layers[l].on, folder |-> f])
<1>1. m.layers[l] \in Row
  BY DEF IsMap
<1>2. [m.layers[l] EXCEPT !.folder = f] = [on |-> m.layers[l].on, folder |-> f]
  BY <1>1 DEF Row
<1>3. [m.layers EXCEPT ![l] = [m.layers[l] EXCEPT !.folder = f]] = M!Put(m.layers, l, [on |-> m.layers[l].on, folder |-> f])
  BY <1>2 DEF IsMap, M!Put
<1>. QED BY <1>3 DEF IsMap, WithRow

(* The other changes of a part of a map.                                    *)
LEMMA OtherSetsArePut ==
  ASSUME NEW m, IsMap(m), NEW k, NEW v
  PROVE  /\ k \in DOMAIN m.layers => [m EXCEPT !.layers[k] = v] = WithRow(m, k, v)
         /\ k \in DOMAIN m.folders => [m EXCEPT !.folders[k] = v] = WithFolder(m, k, v)
         /\ k \in DOMAIN m.own => [m EXCEPT !.own[k] = v] = WithOwn(m, k, v)
         /\ [m EXCEPT !.layers = M!Put(@, k, v)] = WithRow(m, k, v)
         /\ [m EXCEPT !.folders = M!Put(@, k, v)] = WithFolder(m, k, v)
<1>1. k \in DOMAIN m.layers => [m.layers EXCEPT ![k] = v] = M!Put(m.layers, k, v)
  BY DEF IsMap, M!Put
<1>2. k \in DOMAIN m.folders => [m.folders EXCEPT ![k] = v] = M!Put(m.folders, k, v)
  BY DEF IsMap, M!Put
<1>3. k \in DOMAIN m.own => [m.own EXCEPT ![k] = v] = M!Put(m.own, k, v)
  BY DEF IsMap, M!Put
<1>. QED BY <1>1, <1>2, <1>3 DEF IsMap, WithRow, WithFolder, WithOwn

-----------------------------------------------------------------------------
(* What is the same                                                         *)

(* Sameness is an equivalence.                                              *)
LEMMA SameIsSame ==
  ASSUME NEW m, NEW t
  PROVE  Same(m, m, t)
BY DEF Same, SameLayer, SameFolder

(* ... symmetric ...                                                        *)
LEMMA SameEitherWay ==
  ASSUME NEW m, NEW n, NEW t, Same(m, n, t)
  PROVE  Same(n, m, t)
BY DEF Same, SameLayer, SameFolder

(* ... and transitive.                                                      *)
LEMMA SameAsTheSame ==
  ASSUME NEW k, NEW m, NEW n, NEW t, Same(k, m, t), Same(m, n, t)
  PROVE  Same(k, n, t)
BY DEF Same, SameLayer, SameFolder

(* A thing is a layer or a folder, and its id.                              *)
LEMMA ThingIsAPair ==
  ASSUME NEW t \in Things
  PROVE  t[1] \in {"layer", "folder"} /\ t[2] \in Nat /\ t = <<t[1], t[2]>>
BY DEF Things

(* A change of one thing leaves the others as they are.                     *)
LEMMA RowIsLocal ==
  ASSUME NEW m, IsMap(m), NEW l \in Nat \ {0}, NEW row \in Row, NEW t \in Things, t # <<"layer", l>>
  PROVE  Same(WithRow(m, l, row), m, t)
BY RowIsPut, ThingIsAPair DEF Same, SameLayer, SameFolder

(* The same for a folder,                                                   *)
LEMMA FolderIsLocal ==
  ASSUME NEW m, IsMap(m), NEW f \in Nat \ {0}, NEW on \in BOOLEAN, NEW t \in Things, t # <<"folder", f>>
  PROVE  Same(WithFolder(m, f, on), m, t)
BY FolderIsPut, ThingIsAPair DEF Same, SameLayer, SameFolder

(* for an object that is put into a folder by itself,                       *)
LEMMA OwnIsLocal ==
  ASSUME NEW m, IsMap(m), NEW o \in DOMAIN m.own, NEW f \in Nat, NEW t \in Things, t # <<"layer", Home[o]>>
  PROVE  Same(WithOwn(m, o, f), m, t)
<1>1. o \in M!Objects
  BY DEF IsMap
<1>. QED BY <1>1, OwnIsPut, ThingIsAPair DEF Same, SameLayer, SameFolder

(* for a layer that is dropped,                                             *)
LEMMA DroppedLayerIsLocal ==
  ASSUME NEW m, IsMap(m), NEW l \in Nat, NEW t \in Things, t # <<"layer", l>>
  PROVE  Same(M!WithoutLayer(m, l), m, t)
BY LayerIsDropped, ThingIsAPair DEF Same, SameLayer, SameFolder

(* and for a folder that is dropped, but for what was in it.                *)
LEMMA DroppedFolderIsLocal ==
  ASSUME NEW m, IsMap(m), NEW f \in Nat, NEW t \in Things, t # <<"folder", f>>,
         \A l \in DOMAIN m.layers : m.layers[l].folder = f => t # <<"layer", l>>,
         \A o \in DOMAIN m.own : m.own[o] = f => t # <<"layer", Home[o]>>
  PROVE  Same(M!WithoutFolder(m, f), m, t)
<1>1. PICK w : w = M!WithoutFolder(m, f)
  OBVIOUS
<1>2. /\ DOMAIN w.layers = DOMAIN m.layers
      /\ \A k \in DOMAIN m.layers : m.layers[k].folder # f => w.layers[k] = m.layers[k]
      /\ DOMAIN w.own = DOMAIN m.own
      /\ \A o \in DOMAIN m.own : m.own[o] # f => w.own[o] = m.own[o]
      /\ DOMAIN w.folders = DOMAIN m.folders \ {f}
      /\ \A k \in DOMAIN m.folders \ {f} : w.folders[k] = m.folders[k]
  BY <1>1, FolderIsDropped
<1>3. CASE t[1] = "layer"
  <2>1. PICK l \in Nat : t = <<"layer", l>>
    BY <1>3, ThingIsAPair
  <2>2. SameLayer(w, m, l)
    BY <1>2, <2>1 DEF SameLayer
  <2>. QED BY <1>1, <2>1, <2>2 DEF Same
<1>4. CASE t[1] # "layer"
  <2>1. t[2] # f /\ t[2] \in Nat
    BY <1>4, ThingIsAPair
  <2>2. SameFolder(w, m, t[2])
    BY <1>2, <2>1 DEF SameFolder
  <2>. QED BY <1>1, <1>4, <2>2 DEF Same
<1>. QED BY <1>3, <1>4

(* And the changes of two maps that are the same in t.                      *)
LEMMA RowIsCongruent ==
  ASSUME NEW m, NEW n, IsMap(m), IsMap(n), NEW l \in Nat \ {0}, NEW row \in Row, NEW t \in Things,
         t = <<"layer", l>> \/ Same(m, n, t),
         t = <<"layer", l>> => \A o \in M!Objects : Home[o] = l =>
            (o \in DOMAIN m.own <=> o \in DOMAIN n.own) /\ (o \in DOMAIN m.own => m.own[o] = n.own[o])
  PROVE  Same(WithRow(m, l, row), WithRow(n, l, row), t)
BY RowIsPut, ThingIsAPair DEF Same, SameLayer, SameFolder

(* The same for the other changes.                                          *)
LEMMA FolderIsCongruent ==
  ASSUME NEW m, NEW n, IsMap(m), IsMap(n), NEW f \in Nat \ {0}, NEW on \in BOOLEAN, NEW t \in Things, Same(m, n, t)
  PROVE  Same(WithFolder(m, f, on), WithFolder(n, f, on), t)
BY FolderIsPut, ThingIsAPair DEF Same, SameLayer, SameFolder

(* For an object,                                                           *)
LEMMA OwnIsCongruent ==
  ASSUME NEW m, NEW n, IsMap(m), IsMap(n), NEW o \in M!Objects, NEW f \in Nat, NEW t \in Things, Same(m, n, t)
  PROVE  Same(WithOwn(m, o, f), WithOwn(n, o, f), t)
BY OwnIsPut, ThingIsAPair, SMTT(30) DEF Same, SameLayer, SameFolder

(* for a layer that is dropped,                                             *)
LEMMA DroppedLayerIsCongruent ==
  ASSUME NEW m, NEW n, IsMap(m), IsMap(n), NEW l \in Nat, NEW t \in Things, Same(m, n, t)
  PROVE  Same(M!WithoutLayer(m, l), M!WithoutLayer(n, l), t)
BY LayerIsDropped, ThingIsAPair DEF Same, SameLayer, SameFolder

(* and for a folder that is dropped.                                        *)
LEMMA DroppedFolderIsCongruent ==
  ASSUME NEW m, NEW n, IsMap(m), IsMap(n), NEW f \in Nat, NEW t \in Things, Same(m, n, t)
  PROVE  Same(M!WithoutFolder(m, f), M!WithoutFolder(n, f), t)
<1>1. PICK w, v : w = M!WithoutFolder(m, f) /\ v = M!WithoutFolder(n, f)
  OBVIOUS
<1>2. CASE t[1] = "layer"
  <2>1. PICK l \in Nat : t = <<"layer", l>>
    BY <1>2, ThingIsAPair
  <2>2. SameLayer(m, n, l)
    BY <2>1 DEF Same
  <2>3. ASSUME l \in DOMAIN m.layers
        PROVE  l \in DOMAIN n.layers /\ w.layers[l] = v.layers[l]
    <3>1. l \in DOMAIN n.layers /\ m.layers[l] = n.layers[l]
      BY <2>2, <2>3 DEF SameLayer
    <3>2. CASE m.layers[l].folder = f
      <4>1. w.layers[l] = [on |-> m.layers[l].on, folder |-> M!None]
        BY <1>1, <2>3, <3>2, FolderIsDropped
      <4>2. v.layers[l] = [on |-> n.layers[l].on, folder |-> M!None]
        BY <1>1, <3>1, <3>2, FolderIsDropped
      <4>. QED BY <3>1, <4>1, <4>2
    <3>3. CASE m.layers[l].folder # f
      BY <1>1, <2>3, <3>1, <3>3, FolderIsDropped
    <3>. QED BY <3>1, <3>2, <3>3
  <2>4. ASSUME NEW o \in M!Objects, Home[o] = l, o \in DOMAIN m.own
        PROVE  o \in DOMAIN n.own /\ w.own[o] = v.own[o]
    BY <1>1, <2>2, <2>4, FolderIsDropped DEF SameLayer
  <2>5. SameLayer(w, v, l)
    <3>1. DOMAIN w.layers = DOMAIN m.layers /\ DOMAIN v.layers = DOMAIN n.layers
          /\ DOMAIN w.own = DOMAIN m.own /\ DOMAIN v.own = DOMAIN n.own
      BY <1>1, FolderIsDropped
    <3>. QED BY <2>2, <2>3, <2>4, <3>1 DEF SameLayer
  <2>. QED BY <1>1, <2>1, <2>5 DEF Same
<1>3. CASE t[1] # "layer"
  <2>1. SameFolder(m, n, t[2])
    BY <1>3 DEF Same
  <2>2. SameFolder(w, v, t[2])
    BY <1>1, <2>1, FolderIsDropped DEF SameFolder
  <2>. QED BY <1>1, <1>3, <2>2 DEF Same
<1>. QED BY <1>2, <1>3

-----------------------------------------------------------------------------
(* What a request does                                                      *)

(* The thing that it changes.                                               *)
Reach(r) ==
  IF r.do \in LayerDo \union {"addLayer", "intoFolder"} THEN <<"layer", r.layer>>
  ELSE IF r.do \in ObjectDo THEN <<"layer", Home[r.layer]>>
  ELSE <<"folder", r.folder>>

(* What it leaves is a map.                                                 *)
LEMMA EffectIsAMap ==
  ASSUME NEW m, IsMap(m), NEW r \in Asking, HasId(r)
  PROVE  IsMap(Effect(m, r))
<1>0. r.layer \in Nat /\ r.folder \in Nat /\ r.on \in BOOLEAN /\ r.do \in Dos /\ M!None = 0
      /\ [on |-> r.on, folder |-> r.folder] \in Row
      /\ \A l \in DOMAIN m.layers : l \in Nat \ {0} /\ m.layers[l].on \in BOOLEAN /\ m.layers[l].folder \in Nat
  BY DEF Asking, IsMap, Row, M!None
<1>1. CASE r.do \in {"showLayer", "patchLayer"}
  <2>1. Effect(m, r) = IF r.layer \in DOMAIN m.layers
                       THEN WithRow(m, r.layer, [on |-> r.on, folder |-> m.layers[r.layer].folder]) ELSE m
    BY <1>0, <1>1, SwitchIsARow DEF Effect
  <2>2. r.layer \in DOMAIN m.layers => [on |-> r.on, folder |-> m.layers[r.layer].folder] \in Row
    BY <1>0 DEF Row
  <2>. QED BY <1>0, <2>1, <2>2, RowIsPut
<1>2. CASE r.do \in {"putLayer", "detachLayer"}
  <2>1. r.layer \in DOMAIN m.layers => [on |-> m.layers[r.layer].on, folder |-> r.folder] \in Row
                                       /\ [on |-> m.layers[r.layer].on, folder |-> M!None] \in Row
    BY <1>0 DEF Row
  <2>. QED BY <1>0, <1>2, <2>1, RowIsPut DEF Effect
<1>3. CASE r.do \in {"keepObject", "putObject", "detachObject"}
  <2>1. r.layer \in DOMAIN m.own => r.layer \in M!Objects
    BY DEF IsMap
  <2>. QED BY <1>0, <1>3, <2>1, OwnIsPut DEF Effect
<1>4. CASE r.do = "dropLayer"
  BY <1>4, LayerIsDropped DEF Effect
<1>5. CASE r.do = "dropFolder"
  BY <1>5, FolderIsDropped DEF Effect
<1>6. CASE r.do = "showFolder"
  <2>1. r.folder \in DOMAIN m.folders => r.folder \in Nat \ {0}
    BY DEF IsMap
  <2>. QED BY <1>0, <1>6, <2>1, FolderIsPut DEF Effect
<1>7. CASE r.do = "addFolder"
  BY <1>0, <1>7, FolderIsPut DEF Effect, HasId
<1>8. CASE r.do \in {"addLayer", "intoFolder"}
  BY <1>0, <1>8, RowIsPut DEF Effect, HasId
<1>9. CASE r.do \in {"editLayer", "editFolder"}
  BY <1>9 DEF Effect
<1>. QED BY <1>0, <1>1, <1>2, <1>3, <1>4, <1>5, <1>6, <1>7, <1>8, <1>9
         DEF Dos, LayerDo, ObjectDo, FolderDo, AloneDo

(* By its form, one of five changes.                                        *)
LEMMA AnswerIsTyped ==
  ASSUME NEW m, IsMap(m), NEW r \in Asking
  PROVE  /\ r.layer \in Nat /\ r.folder \in Nat /\ r.on \in BOOLEAN /\ r.do \in Dos /\ M!None = 0
         /\ [on |-> r.on, folder |-> r.folder] \in Row
         /\ \A l \in DOMAIN m.layers : /\ l \in Nat \ {0} /\ m.layers[l].on \in BOOLEAN /\ m.layers[l].folder \in Nat
                                       /\ [on |-> r.on, folder |-> m.layers[l].folder] \in Row
                                       /\ [on |-> m.layers[l].on, folder |-> r.folder] \in Row
                                       /\ [on |-> m.layers[l].on, folder |-> M!None] \in Row
                                       /\ m.layers[l] \in Row
         /\ \A f \in DOMAIN m.folders : f \in Nat \ {0}
         /\ \A o \in DOMAIN m.own : o \in M!Objects /\ m.own[o] \in Nat
<1>1. \A l \in DOMAIN m.layers : l \in Nat \ {0} /\ m.layers[l] \in Row
  BY DEF IsMap
<1>. QED BY <1>1 DEF Asking, IsMap, Row, M!None

(* It changes what it reaches, and a folder that is dropped what was in it. *)
LEMMA EffectIsLocal ==
  ASSUME NEW m, IsMap(m), NEW r \in Asking, HasId(r), NEW t \in Things, t # Reach(r),
         r.do = "dropFolder" => \A l \in DOMAIN m.layers : m.layers[l].folder = r.folder => t # <<"layer", l>>,
         r.do = "dropFolder" => \A o \in DOMAIN m.own : m.own[o] = r.folder => t # <<"layer", Home[o]>>
  PROVE  Same(Effect(m, r), m, t)
<1>0. r.layer \in Nat /\ r.folder \in Nat /\ r.on \in BOOLEAN /\ r.do \in Dos /\ M!None = 0 /\ Same(m, m, t)
  BY AnswerIsTyped, SameIsSame
<1>1. CASE r.do \in {"showLayer", "patchLayer"}
  <2>1. Effect(m, r) = IF r.layer \in DOMAIN m.layers
                       THEN WithRow(m, r.layer, [on |-> r.on, folder |-> m.layers[r.layer].folder]) ELSE m
    BY <1>0, <1>1, SwitchIsARow DEF Effect
  <2>2. t # <<"layer", r.layer>>
    BY <1>1 DEF Reach, LayerDo
  <2>3. ASSUME r.layer \in DOMAIN m.layers
        PROVE  Same(WithRow(m, r.layer, [on |-> r.on, folder |-> m.layers[r.layer].folder]), m, t)
    <3>1. r.layer \in Nat \ {0} /\ [on |-> r.on, folder |-> m.layers[r.layer].folder] \in Row
      BY <2>3, AnswerIsTyped
    <3>. QED BY <2>2, <3>1, RowIsLocal
  <2>. QED BY <1>0, <2>1, <2>3
<1>2. CASE r.do \in {"putLayer", "detachLayer"}
  <2>1. t # <<"layer", r.layer>>
    BY <1>2 DEF Reach, LayerDo
  <2>. QED BY <1>0, <1>2, <2>1, AnswerIsTyped, RowIsLocal DEF Effect
<1>3. CASE r.do \in {"keepObject", "putObject", "detachObject"}
  <2>1. t # <<"layer", Home[r.layer]>>
    BY <1>3 DEF Reach, LayerDo, ObjectDo
  <2>. QED BY <1>0, <1>3, <2>1, AnswerIsTyped, OwnIsLocal DEF Effect
<1>4. CASE r.do = "dropLayer"
  BY <1>0, <1>4, DroppedLayerIsLocal DEF Effect, Reach, LayerDo
<1>5. CASE r.do = "dropFolder"
  <2>1. t # <<"folder", r.folder>>
    BY <1>5 DEF Reach, LayerDo, ObjectDo
  <2>. QED BY <1>0, <1>5, <2>1, DroppedFolderIsLocal DEF Effect
<1>6. CASE r.do \in {"showFolder", "addFolder"}
  <2>1. t # <<"folder", r.folder>>
    BY <1>6 DEF Reach, LayerDo, ObjectDo
  <2>2. r.do = "showFolder" => Effect(m, r) = IF r.folder \in DOMAIN m.folders THEN WithFolder(m, r.folder, r.on) ELSE m
    BY DEF Effect
  <2>3. r.do = "addFolder" => Effect(m, r) = WithFolder(m, r.folder, TRUE) /\ r.folder # 0
    BY <1>0 DEF Effect, HasId
  <2>. QED BY <1>0, <1>6, <2>1, <2>2, <2>3, AnswerIsTyped, FolderIsLocal
<1>8. CASE r.do \in {"addLayer", "intoFolder"}
  <2>1. t # <<"layer", r.layer>> /\ r.layer # 0
    BY <1>0, <1>8 DEF Reach, HasId
  <2>. QED BY <1>0, <1>8, <2>1, AnswerIsTyped, RowIsLocal DEF Effect
<1>9. CASE r.do \in {"editLayer", "editFolder"}
  BY <1>0, <1>9 DEF Effect
<1>. QED BY <1>0, <1>1, <1>2, <1>3, <1>4, <1>5, <1>6, <1>8, <1>9
         DEF Dos, LayerDo, ObjectDo, FolderDo, AloneDo

(* Two maps that are the same where it reaches are the same after it.       *)
LEMMA EffectIsCongruent ==
  ASSUME NEW m, NEW n, IsMap(m), IsMap(n), NEW r \in Asking, HasId(r), Reach(r) \in Things, Same(m, n, Reach(r)),
         NEW t \in Things, Same(m, n, t)
  PROVE  Same(Effect(m, r), Effect(n, r), t)
<1>0. r.layer \in Nat /\ r.folder \in Nat /\ r.on \in BOOLEAN /\ r.do \in Dos /\ M!None = 0
  BY AnswerIsTyped
<1>10. t = <<"layer", r.layer>> => \A o \in M!Objects : Home[o] = r.layer =>
            (o \in DOMAIN m.own <=> o \in DOMAIN n.own) /\ (o \in DOMAIN m.own => m.own[o] = n.own[o])
  BY DEF Same, SameLayer
<1>1. CASE r.do \in {"showLayer", "patchLayer", "putLayer", "detachLayer"}
  <2>1. SameLayer(m, n, r.layer)
    BY <1>1 DEF Reach, LayerDo, Same
  <2>2. r.layer \in DOMAIN m.layers <=> r.layer \in DOMAIN n.layers
    BY <2>1 DEF SameLayer
  <2>3. CASE r.layer \notin DOMAIN m.layers
    <3>1. Effect(m, r) = m /\ Effect(n, r) = n
      BY <1>0, <1>1, <2>2, <2>3, SwitchIsARow DEF Effect
    <3>. QED BY <3>1
  <2>4. CASE r.layer \in DOMAIN m.layers
    <3>1. m.layers[r.layer] = n.layers[r.layer] /\ m.layers[r.layer] \in Row /\ r.layer # 0
      BY <1>0, <2>1, <2>4, AnswerIsTyped DEF SameLayer
    <3>2. PICK row \in Row : Effect(m, r) = WithRow(m, r.layer, row) /\ Effect(n, r) = WithRow(n, r.layer, row)
      <4>1. CASE r.do \in {"showLayer", "patchLayer"}
        <5>1. PICK row \in Row : row = [on |-> r.on, folder |-> m.layers[r.layer].folder]
          BY <2>4, AnswerIsTyped
        <5>2. Effect(m, r) = WithRow(m, r.layer, row) /\ Effect(n, r) = WithRow(n, r.layer, row)
          BY <1>0, <2>2, <2>4, <3>1, <4>1, <5>1, SwitchIsARow DEF Effect
        <5>. QED BY <5>2
      <4>2. CASE r.do = "putLayer"
        <5>1. PICK row \in Row : row = [on |-> m.layers[r.layer].on, folder |-> r.folder]
          BY <2>4, AnswerIsTyped
        <5>2. Effect(m, r) = WithRow(m, r.layer, row) /\ Effect(n, r) = WithRow(n, r.layer, row)
          BY <2>2, <2>4, <3>1, <4>2, <5>1 DEF Effect
        <5>. QED BY <5>2
      <4>3. CASE r.do = "detachLayer"
        <5>1. PICK row \in Row : row = [on |-> m.layers[r.layer].on, folder |-> M!None]
          BY <2>4, AnswerIsTyped
        <5>2. Effect(m, r) = WithRow(m, r.layer, row) /\ Effect(n, r) = WithRow(n, r.layer, row)
          BY <2>2, <2>4, <3>1, <4>3, <5>1 DEF Effect
        <5>. QED BY <5>2
      <4>. QED BY <1>1, <4>1, <4>2, <4>3
    <3>3. Same(WithRow(m, r.layer, row), WithRow(n, r.layer, row), t)
      BY <1>0, <1>10, <3>1, RowIsCongruent
    <3>. QED BY <3>2, <3>3
  <2>. QED BY <2>3, <2>4
<1>3. CASE r.do \in {"keepObject", "putObject", "detachObject"}
  <2>1. SameLayer(m, n, Home[r.layer])
    BY <1>3 DEF Reach, LayerDo, ObjectDo, Same
  <2>2. r.layer \in DOMAIN m.own <=> r.layer \in DOMAIN n.own
    BY <2>1, AnswerIsTyped DEF SameLayer
  <2>3. PICK f \in Nat : f = IF r.do = "detachObject" THEN M!None ELSE r.folder
    BY <1>0
  <2>4. /\ Effect(m, r) = IF r.layer \in DOMAIN m.own THEN WithOwn(m, r.layer, f) ELSE m
        /\ Effect(n, r) = IF r.layer \in DOMAIN n.own THEN WithOwn(n, r.layer, f) ELSE n
    BY <1>3, <2>3 DEF Effect
  <2>. QED BY <2>2, <2>4, AnswerIsTyped, OwnIsCongruent, ZenonT(60)
<1>4. CASE r.do = "dropLayer"
  BY <1>0, <1>4, DroppedLayerIsCongruent DEF Effect
<1>5. CASE r.do = "dropFolder"
  BY <1>0, <1>5, DroppedFolderIsCongruent DEF Effect
<1>6. CASE r.do \in {"showFolder", "addFolder"}
  <2>1. SameFolder(m, n, r.folder)
    BY <1>6 DEF Reach, LayerDo, ObjectDo, Same
  <2>2. r.folder \in DOMAIN m.folders <=> r.folder \in DOMAIN n.folders
    BY <2>1 DEF SameFolder
  <2>3. r.do = "showFolder" => /\ Effect(m, r) = IF r.folder \in DOMAIN m.folders THEN WithFolder(m, r.folder, r.on) ELSE m
                               /\ Effect(n, r) = IF r.folder \in DOMAIN n.folders THEN WithFolder(n, r.folder, r.on) ELSE n
    BY DEF Effect
  <2>4. r.do = "addFolder" => /\ Effect(m, r) = WithFolder(m, r.folder, TRUE)
                              /\ Effect(n, r) = WithFolder(n, r.folder, TRUE) /\ r.folder # 0
    BY <1>0 DEF Effect, HasId
  <2>5. r.folder \in DOMAIN m.folders => r.folder # 0
    BY <1>0, AnswerIsTyped
  <2>. QED BY <1>0, <1>6, <2>2, <2>3, <2>4, <2>5, FolderIsCongruent
<1>8. CASE r.do \in {"addLayer", "intoFolder"}
  <2>1. r.layer # 0 /\ [on |-> r.on, folder |-> r.folder] \in Row
    BY <1>0, <1>8, AnswerIsTyped DEF HasId
  <2>. QED BY <1>0, <1>10, <1>8, <2>1, RowIsCongruent DEF Effect
<1>9. CASE r.do \in {"editLayer", "editFolder"}
  BY <1>9 DEF Effect
<1>. QED BY <1>0, <1>1, <1>3, <1>4, <1>5, <1>6, <1>8, <1>9
         DEF Dos, LayerDo, ObjectDo, FolderDo, AloneDo

(* Where things are after it.                                               *)
Moves(m, w, A) ==
  /\ \A l \in DOMAIN w.layers :
       \/ l \in DOMAIN m.layers /\ w.layers[l].folder = m.layers[l].folder
       \/ w.layers[l].folder = M!None \/ <<"folder", w.layers[l].folder>> \in A
  /\ \A o \in DOMAIN w.own :
       \/ o \in DOMAIN m.own /\ w.own[o] = m.own[o]
       \/ w.own[o] = M!None \/ <<"folder", w.own[o]>> \in A

(* Nothing has moved.                                                       *)
LEMMA NothingMoves ==
  ASSUME NEW m, NEW A
  PROVE  Moves(m, m, A)
BY DEF Moves

(* A row that is put moves one layer.                                       *)
LEMMA RowMoves ==
  ASSUME NEW m, IsMap(m), NEW l \in Nat \ {0}, NEW row \in Row, NEW A,
         \/ l \in DOMAIN m.layers /\ row.folder = m.layers[l].folder
         \/ row.folder = M!None \/ <<"folder", row.folder>> \in A
  PROVE  Moves(m, WithRow(m, l, row), A)
BY RowIsPut DEF Moves

(* A request moves things only into its folder.                             *)
LEMMA EffectMoves ==
  ASSUME NEW m, IsMap(m), NEW r \in Asking, HasId(r), NEW A,
         r.do \in {"putLayer", "keepObject", "putObject", "intoFolder"} => <<"folder", r.folder>> \in A,
         r.do = "addLayer" => r.folder = M!None
  PROVE  Moves(m, Effect(m, r), A)
<1>0. r.layer \in Nat /\ r.folder \in Nat /\ r.on \in BOOLEAN /\ r.do \in Dos /\ M!None = 0 /\ Moves(m, m, A)
  BY AnswerIsTyped, NothingMoves
<1>1. CASE r.do \in {"showLayer", "patchLayer"}
  <2>1. Effect(m, r) = IF r.layer \in DOMAIN m.layers
                       THEN WithRow(m, r.layer, [on |-> r.on, folder |-> m.layers[r.layer].folder]) ELSE m
    BY <1>0, <1>1, SwitchIsARow DEF Effect
  <2>3. ASSUME r.layer \in DOMAIN m.layers
        PROVE  Moves(m, WithRow(m, r.layer, [on |-> r.on, folder |-> m.layers[r.layer].folder]), A)
    <3>1. r.layer \in Nat \ {0} /\ [on |-> r.on, folder |-> m.layers[r.layer].folder] \in Row
      BY <2>3, AnswerIsTyped
    <3>. QED BY <2>3, <3>1, RowMoves
  <2>. QED BY <1>0, <2>1, <2>3
<1>2. CASE r.do \in {"putLayer", "detachLayer"}
  <2>1. r.do = "putLayer" => Effect(m, r) = IF r.layer \in DOMAIN m.layers
                               THEN WithRow(m, r.layer, [on |-> m.layers[r.layer].on, folder |-> r.folder]) ELSE m
    BY DEF Effect
  <2>2. r.do = "detachLayer" => Effect(m, r) = IF r.layer \in DOMAIN m.layers
                               THEN WithRow(m, r.layer, [on |-> m.layers[r.layer].on, folder |-> M!None]) ELSE m
    BY DEF Effect
  <2>3. ASSUME r.layer \in DOMAIN m.layers, r.do = "putLayer"
        PROVE  Moves(m, WithRow(m, r.layer, [on |-> m.layers[r.layer].on, folder |-> r.folder]), A)
    BY <2>3, AnswerIsTyped, RowMoves
  <2>4. ASSUME r.layer \in DOMAIN m.layers
        PROVE  Moves(m, WithRow(m, r.layer, [on |-> m.layers[r.layer].on, folder |-> M!None]), A)
    BY <2>4, AnswerIsTyped, RowMoves
  <2>. QED BY <1>0, <1>2, <2>1, <2>2, <2>3, <2>4
<1>3. CASE r.do \in {"keepObject", "putObject", "detachObject"}
  <2>1. PICK f \in Nat : f = IF r.do = "detachObject" THEN M!None ELSE r.folder
    BY <1>0
  <2>2. Effect(m, r) = IF r.layer \in DOMAIN m.own THEN WithOwn(m, r.layer, f) ELSE m
    BY <1>3, <2>1 DEF Effect
  <2>3. f = M!None \/ <<"folder", f>> \in A
    BY <1>3, <2>1
  <2>4. ASSUME r.layer \in DOMAIN m.own PROVE Moves(m, WithOwn(m, r.layer, f), A)
    <3>1. r.layer \in M!Objects /\ DOMAIN m.own \union {r.layer} = DOMAIN m.own
      BY <2>4, AnswerIsTyped
    <3>2. PICK w : w = WithOwn(m, r.layer, f)
      OBVIOUS
    <3>3. /\ w.layers = m.layers /\ DOMAIN w.own = DOMAIN m.own \union {r.layer}
          /\ \A k \in DOMAIN m.own \union {r.layer} : w.own[k] = IF k = r.layer THEN f ELSE m.own[k]
      BY <3>1, <3>2, OwnIsPut
    <3>4. Moves(m, w, A)
      BY <2>3, <3>1, <3>3 DEF Moves
    <3>. QED BY <3>2, <3>4
  <2>. QED BY <1>0, <2>2, <2>4
<1>4. CASE r.do = "dropLayer"
  BY <1>4, LayerIsDropped DEF Effect, Moves
<1>5. CASE r.do = "dropFolder"
  <2>1. PICK w : w = M!WithoutFolder(m, r.folder)
    OBVIOUS
  <2>2. ASSUME NEW l \in DOMAIN w.layers
        PROVE  l \in DOMAIN m.layers /\ (w.layers[l].folder = m.layers[l].folder \/ w.layers[l].folder = M!None)
    <3>1. l \in DOMAIN m.layers
      BY <2>1, <2>2, FolderIsDropped
    <3>2. m.layers[l].folder # r.folder => w.layers[l] = m.layers[l]
      BY <2>1, <3>1, FolderIsDropped
    <3>3. m.layers[l].folder = r.folder => w.layers[l] = [on |-> m.layers[l].on, folder |-> M!None]
      BY <2>1, <3>1, FolderIsDropped
    <3>. QED BY <3>1, <3>2, <3>3
  <2>3. \A o \in DOMAIN w.own : o \in DOMAIN m.own /\ (w.own[o] = m.own[o] \/ w.own[o] = M!None)
    BY <2>1, FolderIsDropped
  <2>. QED BY <1>5, <2>1, <2>2, <2>3 DEF Effect, Moves
<1>6. CASE r.do \in {"showFolder", "addFolder"}
  <2>3. r.do = "showFolder" => Effect(m, r) = IF r.folder \in DOMAIN m.folders THEN WithFolder(m, r.folder, r.on) ELSE m
    BY DEF Effect
  <2>4. r.do = "addFolder" => Effect(m, r) = WithFolder(m, r.folder, TRUE) /\ r.folder # 0
    BY <1>0 DEF Effect, HasId
  <2>5. \A on \in BOOLEAN : r.folder # 0 => Moves(m, WithFolder(m, r.folder, on), A)
    BY <1>0, FolderIsPut, SMTT(30) DEF Moves
  <2>6. r.folder \in DOMAIN m.folders => r.folder # 0
    BY <1>0, AnswerIsTyped
  <2>. QED BY <1>0, <1>6, <2>3, <2>4, <2>5, <2>6
<1>8. CASE r.do \in {"addLayer", "intoFolder"}
  <2>1. r.layer # 0 /\ [on |-> r.on, folder |-> r.folder] \in Row
    BY <1>0, <1>8, AnswerIsTyped DEF HasId
  <2>. QED BY <1>0, <1>8, <2>1, RowMoves DEF Effect
<1>9. CASE r.do \in {"editLayer", "editFolder"}
  BY <1>0, <1>9 DEF Effect
<1>. QED BY <1>0, <1>1, <1>2, <1>3, <1>4, <1>5, <1>6, <1>8, <1>9
         DEF Dos, LayerDo, ObjectDo, FolderDo, AloneDo

(* Only what is dropped goes.                                               *)
LEMMA EffectKeeps ==
  ASSUME NEW m, IsMap(m), NEW r \in Asking, HasId(r), NEW t \in Things, There(m, t),
         r.do \in {"dropLayer", "dropFolder"} => t # Reach(r)
  PROVE  There(Effect(m, r), t)
<1>0. r.layer \in Nat /\ r.folder \in Nat /\ r.on \in BOOLEAN /\ r.do \in Dos /\ M!None = 0
  BY AnswerIsTyped
<1>1. CASE t # Reach(r) /\ r.do # "dropFolder"
  <2>1. Same(Effect(m, r), m, t)
    BY <1>1, EffectIsLocal
  <2>. QED BY <2>1 DEF Same, SameLayer, SameFolder, There
<1>2. CASE r.do = "dropFolder"
  BY <1>0, <1>2, FolderIsDropped, ThingIsAPair DEF Effect, There, Reach, LayerDo, ObjectDo
<1>3. CASE r.do \in {"showLayer", "patchLayer", "putLayer", "detachLayer", "addLayer", "intoFolder"}
  <2>1. \A row \in Row, l \in Nat \ {0} : There(WithRow(m, l, row), t)
    BY RowIsPut DEF There
  <2>2. r.do \in {"addLayer", "intoFolder"} => r.layer # 0
    BY <1>0 DEF HasId
  <2>3. r.do \in {"showLayer", "patchLayer"} => Effect(m, r) = IF r.layer \in DOMAIN m.layers
                       THEN WithRow(m, r.layer, [on |-> r.on, folder |-> m.layers[r.layer].folder]) ELSE m
    BY <1>0, SwitchIsARow DEF Effect
  <2>4. r.layer \in DOMAIN m.layers => /\ r.layer \in Nat \ {0}
                                       /\ [on |-> r.on, folder |-> m.layers[r.layer].folder] \in Row
                                       /\ [on |-> m.layers[r.layer].on, folder |-> r.folder] \in Row
                                       /\ [on |-> m.layers[r.layer].on, folder |-> M!None] \in Row
    BY AnswerIsTyped
  <2>5. [on |-> r.on, folder |-> r.folder] \in Row
    BY AnswerIsTyped
  <2>. QED BY <1>0, <1>3, <2>1, <2>2, <2>3, <2>4, <2>5 DEF Effect
<1>4. CASE r.do \in {"keepObject", "putObject", "detachObject"}
  <2>1. \A o \in M!Objects, f \in Nat : There(WithOwn(m, o, f), t)
    BY OwnIsPut DEF There
  <2>. QED BY <1>0, <1>4, <2>1, AnswerIsTyped DEF Effect
<1>5. CASE r.do \in {"showFolder", "addFolder"}
  <2>1. \A f \in Nat \ {0}, on \in BOOLEAN : There(WithFolder(m, f, on), t)
    BY FolderIsPut DEF There
  <2>2. r.do = "addFolder" => r.folder # 0
    BY <1>0 DEF HasId
  <2>. QED BY <1>0, <1>5, <2>1, <2>2, AnswerIsTyped DEF Effect
<1>6. CASE r.do \in {"editLayer", "editFolder"}
  BY <1>6 DEF Effect
<1>7. CASE r.do = "dropLayer"
  BY <1>1, <1>7
<1>. QED BY <1>0, <1>1, <1>2, <1>3, <1>4, <1>5, <1>6, <1>7
         DEF Dos, LayerDo, ObjectDo, FolderDo, AloneDo

(* And only what is added comes.                                            *)
LEMMA EffectAdds ==
  ASSUME NEW m, IsMap(m), NEW r \in Asking, HasId(r), NEW t \in Things, There(Effect(m, r), t), ~There(m, t)
  PROVE  t = Reach(r) /\ r.do \in {"addLayer", "intoFolder", "addFolder"}
<1>0. r.layer \in Nat /\ r.folder \in Nat /\ r.on \in BOOLEAN /\ r.do \in Dos /\ M!None = 0
  BY AnswerIsTyped
<1>1. t = Reach(r) \/ r.do = "dropFolder"
  <2>1. ASSUME t # Reach(r), r.do # "dropFolder" PROVE FALSE
    <3>1. Same(Effect(m, r), m, t)
      BY <2>1, EffectIsLocal
    <3>. QED BY <3>1 DEF Same, SameLayer, SameFolder, There
  <2>. QED BY <2>1
<1>2. CASE r.do = "dropFolder"
  BY <1>0, <1>2, FolderIsDropped, ThingIsAPair DEF Effect, There, Reach, LayerDo, ObjectDo
<1>3. CASE r.do \in {"showLayer", "patchLayer", "putLayer", "detachLayer"}
  <2>1. ASSUME NEW row \in Row, NEW l \in DOMAIN m.layers PROVE ~ There(WithRow(m, l, row), t)
    <3>1. l \in Nat \ {0}
      BY AnswerIsTyped
    <3>2. DOMAIN WithRow(m, l, row).layers = DOMAIN m.layers \union {l} /\ WithRow(m, l, row).folders = m.folders
      BY <3>1, RowIsPut
    <3>. QED BY <3>2 DEF There
  <2>3. r.do \in {"showLayer", "patchLayer"} => Effect(m, r) = IF r.layer \in DOMAIN m.layers
                       THEN WithRow(m, r.layer, [on |-> r.on, folder |-> m.layers[r.layer].folder]) ELSE m
    BY <1>0, SwitchIsARow DEF Effect
  <2>4. r.layer \in DOMAIN m.layers => /\ [on |-> r.on, folder |-> m.layers[r.layer].folder] \in Row
                                       /\ [on |-> m.layers[r.layer].on, folder |-> r.folder] \in Row
                                       /\ [on |-> m.layers[r.layer].on, folder |-> M!None] \in Row
    BY AnswerIsTyped
  <2>. QED BY <1>0, <1>3, <2>1, <2>3, <2>4 DEF Effect
<1>4. CASE r.do \in {"keepObject", "putObject", "detachObject"}
  <2>1. \A o \in M!Objects, f \in Nat : ~ There(WithOwn(m, o, f), t)
    BY OwnIsPut DEF There
  <2>. QED BY <1>0, <1>4, <2>1, AnswerIsTyped DEF Effect
<1>5. CASE r.do = "showFolder"
  <2>1. ASSUME NEW f \in DOMAIN m.folders, NEW on \in BOOLEAN PROVE ~ There(WithFolder(m, f, on), t)
    <3>1. f \in Nat \ {0}
      BY AnswerIsTyped
    <3>2. DOMAIN WithFolder(m, f, on).folders = DOMAIN m.folders \union {f} /\ WithFolder(m, f, on).layers = m.layers
      BY <3>1, FolderIsPut
    <3>. QED BY <3>2 DEF There
  <2>. QED BY <1>0, <1>5, <2>1 DEF Effect
<1>6. CASE r.do \in {"editLayer", "editFolder"}
  BY <1>6 DEF Effect
<1>7. CASE r.do = "dropLayer"
  BY <1>0, <1>7, LayerIsDropped DEF Effect, There
<1>. QED BY <1>0, <1>1, <1>2, <1>3, <1>4, <1>5, <1>6, <1>7
         DEF Dos, LayerDo, ObjectDo, FolderDo, AloneDo

(* It leaves everything in a layer and a folder that are there.             *)
LEMMA EffectIsPlaced ==
  ASSUME NEW m, IsMap(m), Placed(m), NEW r \in Asking, HasId(r),
         r.do \in {"putLayer", "intoFolder"} => r.folder \in DOMAIN m.folders,
         r.do = "addLayer" => r.folder = M!None
  PROVE  Placed(Effect(m, r))
<1>0. r.layer \in Nat /\ r.folder \in Nat /\ r.on \in BOOLEAN /\ r.do \in Dos /\ M!None = 0
  BY AnswerIsTyped
<1>1. ASSUME NEW l \in Nat \ {0}, NEW row \in Row, row.folder \in DOMAIN m.folders \union {M!None}
      PROVE  Placed(WithRow(m, l, row))
  BY <1>1, RowIsPut DEF Placed
<1>2. CASE r.do \in {"showLayer", "patchLayer"}
  <2>1. Effect(m, r) = IF r.layer \in DOMAIN m.layers
                       THEN WithRow(m, r.layer, [on |-> r.on, folder |-> m.layers[r.layer].folder]) ELSE m
    BY <1>0, <1>2, SwitchIsARow DEF Effect
  <2>2. r.layer \in DOMAIN m.layers => /\ r.layer \in Nat \ {0}
                                       /\ [on |-> r.on, folder |-> m.layers[r.layer].folder] \in Row
                                       /\ m.layers[r.layer].folder \in DOMAIN m.folders \union {M!None}
    BY AnswerIsTyped DEF Placed
  <2>. QED BY <1>1, <2>1, <2>2
<1>3. CASE r.do \in {"putLayer", "detachLayer"}
  <2>1. r.layer \in DOMAIN m.layers => /\ r.layer \in Nat \ {0}
                                       /\ [on |-> m.layers[r.layer].on, folder |-> r.folder] \in Row
                                       /\ [on |-> m.layers[r.layer].on, folder |-> M!None] \in Row
    BY AnswerIsTyped
  <2>. QED BY <1>1, <1>3, <2>1 DEF Effect
<1>4. CASE r.do \in {"keepObject", "putObject", "detachObject"}
  <2>1. ASSUME NEW o \in DOMAIN m.own, NEW f \in Nat PROVE Placed(WithOwn(m, o, f))
    <3>1. o \in M!Objects
      BY AnswerIsTyped
    <3>2. PICK w : w = WithOwn(m, o, f)
      OBVIOUS
    <3>3. w.layers = m.layers /\ w.folders = m.folders /\ DOMAIN w.own = DOMAIN m.own \union {o}
      BY <3>1, <3>2, OwnIsPut
    <3>4. Placed(w)
      BY <3>3 DEF Placed
    <3>. QED BY <3>2, <3>4
  <2>. QED BY <1>0, <1>4, <2>1 DEF Effect
<1>5. CASE r.do = "dropLayer"
  <2>1. PICK w : w = M!WithoutLayer(m, r.layer)
    OBVIOUS
  <2>2. Placed(w)
    BY <2>1, LayerIsDropped DEF Placed
  <2>. QED BY <1>5, <2>1, <2>2 DEF Effect
<1>6. CASE r.do = "dropFolder"
  <2>1. PICK w : w = M!WithoutFolder(m, r.folder)
    OBVIOUS
  <2>2. DOMAIN w.own = DOMAIN m.own /\ DOMAIN w.layers = DOMAIN m.layers /\ DOMAIN w.folders = DOMAIN m.folders \ {r.folder}
    BY <2>1, FolderIsDropped
  <2>3. ASSUME NEW l \in DOMAIN m.layers PROVE w.layers[l].folder \in DOMAIN w.folders \union {M!None}
    <3>1. m.layers[l].folder # r.folder => w.layers[l] = m.layers[l]
      BY <2>1, FolderIsDropped
    <3>2. m.layers[l].folder = r.folder => w.layers[l] = [on |-> m.layers[l].on, folder |-> M!None]
      BY <2>1, FolderIsDropped
    <3>. QED BY <2>2, <3>1, <3>2 DEF Placed
  <2>4. Placed(w)
    BY <2>2, <2>3 DEF Placed
  <2>. QED BY <1>6, <2>1, <2>4 DEF Effect
<1>7. CASE r.do \in {"showFolder", "addFolder"}
  <2>1. ASSUME NEW f \in Nat \ {0}, NEW on \in BOOLEAN PROVE Placed(WithFolder(m, f, on))
    BY FolderIsPut DEF Placed
  <2>2. r.do = "addFolder" => r.folder # 0
    BY <1>0 DEF HasId
  <2>. QED BY <1>0, <1>7, <2>1, <2>2, AnswerIsTyped DEF Effect
<1>8. CASE r.do \in {"addLayer", "intoFolder"}
  BY <1>0, <1>1, <1>8, AnswerIsTyped DEF Effect, HasId
<1>9. CASE r.do \in {"editLayer", "editFolder"}
  BY <1>9 DEF Effect
<1>. QED BY <1>0, <1>2, <1>3, <1>4, <1>5, <1>6, <1>7, <1>8, <1>9
         DEF Dos, LayerDo, ObjectDo, FolderDo, AloneDo

(* The server does what the answer says.                                    *)
Accepted(n, r) ==
  /\ r.do \in {"showLayer", "editLayer", "patchLayer", "putLayer", "dropLayer", "detachLayer", "intoFolder"}
       => r.layer \in DOMAIN n.layers
  /\ r.do \in {"keepObject", "detachObject", "putObject"} => r.layer \in DOMAIN n.own
  /\ r.do \in {"editFolder", "showFolder", "dropFolder", "putLayer", "keepObject", "putObject", "intoFolder"}
       => r.folder \in DOMAIN n.folders

Answers(a, r) ==
  /\ a \in Asking /\ HasId(a) /\ a.do = r.do
  /\ r.do # "addLayer" => a.layer = r.layer
  /\ r.do \notin {"editLayer", "addFolder"} => a.folder = r.folder
  /\ r.do \notin {"editLayer", "editFolder", "intoFolder"} => a.on = r.on

(* The ids and the values that an answer gives.                             *)
Gives(n, r, new, a) ==
  /\ r.do = "addLayer" => a.layer = new
  /\ r.do = "addFolder" => a.folder = new
  /\ r.do = "editLayer" => [on |-> a.on, folder |-> a.folder] = n.layers[r.layer]
  /\ r.do = "editFolder" => a.on = n.folders[r.folder]

(* The server does what its answer says.                                    *)
LEMMA DoneIsTheEffect ==
  ASSUME NEW n, IsMap(n), NEW r \in Asking, Accepted(n, r), NEW new \in Nat \ {0},
         r.do = "addLayer" => r.on = TRUE /\ r.folder = M!None,
         NEW a, a = M!Answer(M!Done(n, r, new), r, new)
  PROVE  Answers(a, r) /\ M!Done(n, r, new) = Effect(n, a) /\ Gives(n, r, new, a)
<1>0. /\ r.layer \in Nat /\ r.folder \in Nat /\ r.on \in BOOLEAN /\ r.do \in Dos /\ M!None = 0
      /\ r = [do |-> r.do, layer |-> r.layer, folder |-> r.folder, on |-> r.on]
  BY AnswerIsTyped DEF Asking
<1>1. CASE r.do \in {"showLayer", "patchLayer"}
  <2>1. a = r
    BY <1>1 DEF M!Answer
  <2>2. M!Done(n, r, new) = M!Switched(n, r.layer, r.on) /\ Effect(n, r) = M!Switched(n, r.layer, r.on)
    BY <1>1 DEF M!Done, Effect
  <2>. QED BY <1>0, <1>1, <2>1, <2>2 DEF Gives, Answers, HasId
<1>2. CASE r.do \in {"putLayer", "detachLayer"}
  <2>1. a = r
    BY <1>2 DEF M!Answer
  <2>2. r.layer \in DOMAIN n.layers
    BY <1>2 DEF Accepted
  <2>3. M!Done(n, r, new) = Effect(n, r)
    <3>1. CASE r.do = "putLayer"
      <4>1. M!Done(n, r, new) = [n EXCEPT !.layers[r.layer].folder = r.folder]
        BY <3>1 DEF M!Done
      <4>. QED BY <2>2, <3>1, <4>1, MoveIsARow DEF Effect
    <3>2. CASE r.do = "detachLayer"
      <4>1. M!Done(n, r, new) = [n EXCEPT !.layers[r.layer].folder = M!None]
        BY <3>2 DEF M!Done
      <4>. QED BY <2>2, <3>2, <4>1, MoveIsARow DEF Effect
    <3>. QED BY <1>2, <3>1, <3>2
  <2>. QED BY <1>0, <1>2, <2>1, <2>3 DEF Gives, Answers, HasId
<1>3. CASE r.do \in {"keepObject", "putObject", "detachObject"}
  <2>1. a = r
    BY <1>3 DEF M!Answer
  <2>2. r.layer \in DOMAIN n.own
    BY <1>3 DEF Accepted
  <2>3. PICK f : f = IF r.do = "detachObject" THEN M!None ELSE r.folder
    OBVIOUS
  <2>4. M!Done(n, r, new) = [n EXCEPT !.own[r.layer] = f]
    BY <1>3, <2>3 DEF M!Done
  <2>5. M!Done(n, r, new) = Effect(n, r)
    <3>1. M!Done(n, r, new) = WithOwn(n, r.layer, f)
      BY <2>2, <2>4, OtherSetsArePut
    <3>. QED BY <1>3, <2>2, <2>3, <3>1 DEF Effect
  <2>. QED BY <1>0, <1>3, <2>1, <2>5 DEF Gives, Answers, HasId
<1>4. CASE r.do \in {"dropLayer", "dropFolder"}
  <2>1. a = r
    BY <1>4 DEF M!Answer
  <2>2. M!Done(n, r, new) = Effect(n, r)
    BY <1>4 DEF Effect, M!Done
  <2>. QED BY <1>0, <1>4, <2>1, <2>2 DEF Gives, Answers, HasId
<1>5. CASE r.do = "showFolder"
  <2>1. a = r
    BY <1>5 DEF M!Answer
  <2>2. r.folder \in DOMAIN n.folders
    BY <1>5 DEF Accepted
  <2>3. M!Done(n, r, new) = [n EXCEPT !.folders[r.folder] = r.on]
    BY <1>5 DEF M!Done
  <2>4. M!Done(n, r, new) = Effect(n, r)
    BY <1>5, <2>2, <2>3, OtherSetsArePut DEF Effect
  <2>. QED BY <1>0, <1>5, <2>1, <2>4 DEF Gives, Answers, HasId
<1>6. CASE r.do = "addFolder"
  <2>1. a = [r EXCEPT !.folder = new]
    BY <1>6 DEF M!Answer
  <2>2. M!Done(n, r, new) = [n EXCEPT !.folders = M!Put(@, new, TRUE)]
    BY <1>6 DEF M!Done
  <2>3. a.do = r.do /\ a.layer = r.layer /\ a.folder = new /\ a.on = r.on /\ a \in Asking
    BY <1>0, <2>1 DEF Asking
  <2>4. M!Done(n, r, new) = Effect(n, a)
    <3>1. M!Done(n, r, new) = WithFolder(n, new, TRUE)
      BY <2>2 DEF IsMap, WithFolder
    <3>. QED BY <1>6, <2>3, <3>1 DEF Effect
  <2>. QED BY <1>0, <1>6, <2>3, <2>4 DEF Gives, Answers, HasId
<1>7. CASE r.do = "addLayer"
  <2>1. a = [r EXCEPT !.layer = new]
    BY <1>7 DEF M!Answer
  <2>2. M!Done(n, r, new) = [n EXCEPT !.layers = M!Put(@, new, [on |-> TRUE, folder |-> M!None])]
    BY <1>7 DEF M!Done
  <2>3. a.do = r.do /\ a.layer = new /\ a.folder = r.folder /\ a.on = r.on /\ a \in Asking
    BY <1>0, <2>1 DEF Asking
  <2>4. M!Done(n, r, new) = Effect(n, a)
    <3>1. M!Done(n, r, new) = WithRow(n, new, [on |-> TRUE, folder |-> M!None])
      BY <2>2, OtherSetsArePut
    <3>. QED BY <1>7, <2>3, <3>1 DEF Effect
  <2>. QED BY <1>0, <1>7, <2>3, <2>4 DEF Gives, Answers, HasId
<1>8. CASE r.do = "intoFolder"
  <2>1. r.layer \in DOMAIN n.layers /\ r.layer # 0
    BY <1>0, <1>8, AnswerIsTyped DEF Accepted
  <2>2. M!Done(n, r, new) = WithRow(n, r.layer, [on |-> n.layers[r.layer].on, folder |-> r.folder])
    BY <1>8, <2>1, MoveIsARow DEF M!Done
  <2>3. PICK row \in Row : row = [on |-> n.layers[r.layer].on, folder |-> r.folder]
    BY <2>1, AnswerIsTyped
  <2>4. M!Done(n, r, new).layers[r.layer] = row
    BY <1>0, <2>1, <2>2, <2>3, RowIsPut
  <2>5. a = [r EXCEPT !.on = row.on, !.folder = row.folder]
    BY <1>8, <2>4 DEF M!Answer
  <2>6. a.do = r.do /\ a.layer = r.layer /\ a.folder = r.folder /\ a.on = row.on /\ a \in Asking
        /\ [on |-> a.on, folder |-> a.folder] = row
    BY <1>0, <2>3, <2>5 DEF Asking, Row
  <2>7. M!Done(n, r, new) = Effect(n, a)
    BY <1>8, <2>2, <2>3, <2>6 DEF Effect
  <2>. QED BY <1>0, <1>8, <2>1, <2>6, <2>7 DEF Gives, Answers, HasId
<1>9. CASE r.do = "editLayer"
  <2>1. r.layer \in DOMAIN n.layers /\ n.layers[r.layer] \in Row
    BY <1>9, AnswerIsTyped DEF Accepted
  <2>2. M!Done(n, r, new) = n
    BY <1>9 DEF M!Done
  <2>3. a = [r EXCEPT !.on = n.layers[r.layer].on, !.folder = n.layers[r.layer].folder]
    BY <1>9, <2>2 DEF M!Answer
  <2>4. a.do = r.do /\ a.layer = r.layer /\ a.folder = n.layers[r.layer].folder /\ a.on = n.layers[r.layer].on
        /\ a \in Asking /\ [on |-> a.on, folder |-> a.folder] = n.layers[r.layer]
    BY <1>0, <2>1, <2>3 DEF Asking, Row
  <2>5. Effect(n, a) = n
    BY <1>9, <2>4 DEF Effect
  <2>. QED BY <1>0, <1>9, <2>2, <2>4, <2>5 DEF Gives, Answers, HasId
<1>10. CASE r.do = "editFolder"
  <2>1. r.folder \in DOMAIN n.folders /\ n.folders[r.folder] \in BOOLEAN
    BY <1>10 DEF Accepted, IsMap
  <2>2. M!Done(n, r, new) = n
    BY <1>10 DEF M!Done
  <2>3. a = [r EXCEPT !.on = n.folders[r.folder]]
    BY <1>10, <2>2 DEF M!Answer
  <2>4. a.do = r.do /\ a.layer = r.layer /\ a.folder = r.folder /\ a.on = n.folders[r.folder] /\ a \in Asking
    BY <1>0, <2>1, <2>3 DEF Asking
  <2>5. Effect(n, a) = n
    BY <1>10, <2>4 DEF Effect
  <2>. QED BY <1>0, <1>10, <2>2, <2>4, <2>5 DEF Gives, Answers, HasId
<1>. QED BY <1>0, <1>1, <1>2, <1>3, <1>4, <1>5, <1>6, <1>7, <1>8, <1>9, <1>10
         DEF Dos, LayerDo, ObjectDo, FolderDo, AloneDo

(* What the request adds is not in the map.                                 *)
AddsNew(m, r) ==
  /\ r.do = "addFolder" => r.folder \notin DOMAIN m.folders
  /\ r.do \in {"addLayer", "intoFolder"} => r.layer \notin DOMAIN m.layers

(* The client learns it.                                                    *)
LEMMA LearntIsTheEffect ==
  ASSUME NEW m, IsMap(m), NEW r \in Asking, NEW last \in BOOLEAN, AddsNew(m, r),
         r.do \notin {"showLayer", "editLayer", "editFolder"}, r.do = "addLayer" => last
  PROVE  M!Learnt(m, r, last) = Effect(m, r)
<1>0. r.layer \in Nat /\ r.folder \in Nat /\ r.on \in BOOLEAN /\ r.do \in Dos /\ M!None = 0
  BY AnswerIsTyped
<1>1. CASE r.do = "patchLayer"
  BY <1>1 DEF M!Learnt, M!Creates, Effect
<1>2. CASE r.do \in {"putLayer", "detachLayer"}
  <2>1. CASE r.layer \notin DOMAIN m.layers
    BY <1>2, <2>1 DEF M!Learnt, M!Creates, Effect
  <2>2. CASE r.layer \in DOMAIN m.layers
    <3>1. PICK f : f = IF r.do = "putLayer" THEN r.folder ELSE M!None
      OBVIOUS
    <3>2. M!Learnt(m, r, last) = [m EXCEPT !.layers[r.layer].folder = f]
      BY <1>2, <2>2, <3>1 DEF M!Learnt, M!Creates
    <3>3. M!Learnt(m, r, last) = WithRow(m, r.layer, [on |-> m.layers[r.layer].on, folder |-> f])
      BY <2>2, <3>2, MoveIsARow
    <3>. QED BY <1>2, <2>2, <3>1, <3>3 DEF Effect
  <2>. QED BY <2>1, <2>2
<1>3. CASE r.do \in {"keepObject", "putObject", "detachObject"}
  <2>1. CASE r.layer \notin DOMAIN m.own
    BY <1>3, <2>1 DEF M!Learnt, M!Creates, Effect
  <2>2. CASE r.layer \in DOMAIN m.own
    <3>1. PICK f : f = IF r.do = "detachObject" THEN M!None ELSE r.folder
      OBVIOUS
    <3>2. M!Learnt(m, r, last) = [m EXCEPT !.own[r.layer] = f]
      BY <1>3, <2>2, <3>1 DEF M!Learnt, M!Creates
    <3>3. M!Learnt(m, r, last) = WithOwn(m, r.layer, f)
      BY <2>2, <3>2, OtherSetsArePut
    <3>. QED BY <1>3, <2>2, <3>1, <3>3 DEF Effect
  <2>. QED BY <2>1, <2>2
<1>4. CASE r.do \in {"dropLayer", "dropFolder"}
  BY <1>4 DEF M!Learnt, M!Creates, Effect
<1>5. CASE r.do = "showFolder"
  <2>1. CASE r.folder \notin DOMAIN m.folders
    BY <1>5, <2>1 DEF M!Learnt, M!Creates, Effect
  <2>2. CASE r.folder \in DOMAIN m.folders
    <3>2. M!Learnt(m, r, last) = [m EXCEPT !.folders[r.folder] = r.on]
      BY <1>5, <2>2 DEF M!Learnt, M!Creates
    <3>3. M!Learnt(m, r, last) = WithFolder(m, r.folder, r.on)
      BY <2>2, <3>2, OtherSetsArePut
    <3>. QED BY <1>5, <2>2, <3>3 DEF Effect
  <2>. QED BY <2>1, <2>2
<1>6. CASE r.do = "addFolder"
  <2>1. M!Learnt(m, r, last) = [m EXCEPT !.folders = M!Put(@, r.folder, TRUE)]
    BY <1>6 DEF M!Learnt, M!Creates, AddsNew
  <2>2. M!Learnt(m, r, last) = WithFolder(m, r.folder, TRUE)
    BY <2>1, OtherSetsArePut, ZenonT(60)
  <2>. QED BY <1>6, <2>2 DEF Effect
<1>7. CASE r.do \in {"addLayer", "intoFolder"}
  <2>1. M!Learnt(m, r, last) = [m EXCEPT !.layers = M!Put(@, r.layer, [on |-> r.on, folder |-> r.folder])]
    BY <1>7 DEF M!Learnt, M!Creates, AddsNew
  <2>2. M!Learnt(m, r, last) = WithRow(m, r.layer, [on |-> r.on, folder |-> r.folder])
    BY <2>1, OtherSetsArePut
  <2>. QED BY <1>7, <2>2 DEF Effect
<1>. QED BY <1>0, <1>1, <1>2, <1>3, <1>4, <1>5, <1>6, <1>7
         DEF Dos, LayerDo, ObjectDo, FolderDo, AloneDo

(* The answers from which the client learns something else, or nothing.     *)
LEMMA LearntOtherwise ==
  ASSUME NEW m, IsMap(m), NEW r \in Asking, NEW last \in BOOLEAN
  PROVE  /\ r.do = "showLayer" \/ (r.do = "addLayer" /\ ~last) \/ ~AddsNew(m, r) => M!Learnt(m, r, last) = m
         /\ r.do = "editLayer" /\ r.layer \notin DOMAIN m.layers => M!Learnt(m, r, last) = m
         /\ r.do = "editFolder" /\ r.folder \notin DOMAIN m.folders => M!Learnt(m, r, last) = m
         /\ r.do = "editLayer" /\ r.layer \in DOMAIN m.layers =>
              M!Learnt(m, r, last) = WithRow(m, r.layer, [on |-> r.on, folder |-> r.folder])
         /\ r.do = "editFolder" /\ r.folder \in DOMAIN m.folders =>
              M!Learnt(m, r, last) = WithFolder(m, r.folder, r.on)
<1>1. r.do = "showLayer" \/ (r.do = "addLayer" /\ ~last) => M!Learnt(m, r, last) = m
  BY DEF M!Learnt, M!Creates
<1>2. r.do = "editLayer" /\ r.layer \notin DOMAIN m.layers => M!Learnt(m, r, last) = m
  BY DEF M!Learnt, M!Creates
<1>3. r.do = "editFolder" /\ r.folder \notin DOMAIN m.folders => M!Learnt(m, r, last) = m
  BY DEF M!Learnt, M!Creates
<1>4. r.do = "editLayer" /\ r.layer \in DOMAIN m.layers =>
        M!Learnt(m, r, last) = [m EXCEPT !.layers[r.layer] = [on |-> r.on, folder |-> r.folder]]
  BY DEF M!Learnt, M!Creates
<1>5. r.do = "editFolder" /\ r.folder \in DOMAIN m.folders => M!Learnt(m, r, last) = [m EXCEPT !.folders[r.folder] = r.on]
  BY DEF M!Learnt, M!Creates
<1>6. ~AddsNew(m, r) => M!Learnt(m, r, last) = m
  BY DEF M!Learnt, M!Creates, AddsNew
<1>. QED BY <1>1, <1>2, <1>3, <1>4, <1>5, <1>6, OtherSetsArePut

(* The client's copy stays a map.                                           *)
LEMMA LearntIsAMap ==
  ASSUME NEW m, IsMap(m), NEW r \in Asking, HasId(r), NEW last \in BOOLEAN
  PROVE  IsMap(M!Learnt(m, r, last))
<1>1. CASE r.do \notin {"showLayer", "editLayer", "editFolder"} /\ (r.do = "addLayer" => last) /\ AddsNew(m, r)
  BY <1>1, LearntIsTheEffect, EffectIsAMap
<1>2. CASE r.do = "showLayer" \/ (r.do = "addLayer" /\ ~last) \/ ~AddsNew(m, r)
  BY <1>2, LearntOtherwise
<1>3. CASE r.do = "editLayer"
  <2>1. r.layer \in DOMAIN m.layers => r.layer \in Nat \ {0} /\ [on |-> r.on, folder |-> r.folder] \in Row
    BY AnswerIsTyped
  <2>2. r.layer \in DOMAIN m.layers => IsMap(WithRow(m, r.layer, [on |-> r.on, folder |-> r.folder]))
    BY <2>1, RowIsPut
  <2>. QED BY <1>3, <2>2, LearntOtherwise
<1>4. CASE r.do = "editFolder"
  <2>1. r.folder \in DOMAIN m.folders => r.folder \in Nat \ {0} /\ r.on \in BOOLEAN
    BY AnswerIsTyped
  <2>2. r.folder \in DOMAIN m.folders => IsMap(WithFolder(m, r.folder, r.on))
    BY <2>1, FolderIsPut
  <2>. QED BY <1>4, <2>2, LearntOtherwise
<1>. QED BY <1>1, <1>2, <1>3, <1>4

-----------------------------------------------------------------------------
(* What a command expects                                                   *)

(* The first request of a command.                                          *)
LEMMA FirstRequest ==
  ASSUME NEW c \in Going, c.requests # <<>>
  PROVE  /\ c.requests[1] \in Asking /\ 1 \in DOMAIN c.requests /\ Head(c.requests) = c.requests[1]
         /\ Len(c.requests) \in Nat /\ Len(c.requests) >= 1 /\ DOMAIN c.requests = 1..Len(c.requests)
         /\ c.requests \in Seq(Asking) /\ c.about \subseteq Things /\ c.served \in BOOLEAN
BY DEF Going

(* What it is about.                                                        *)
LEMMA FirstFits ==
  ASSUME NEW c \in Going, Fits(c), NEW r, r = c.requests[1]
  PROVE  /\ r \in Asking
         /\ r.do \in LayerDo => <<"layer", r.layer>> \in c.about
         /\ r.do \in ObjectDo => r.layer \in M!Objects /\ <<"layer", Home[r.layer]>> \in c.about
         /\ r.do \in FolderDo => <<"folder", r.folder>> \in c.about
         /\ r.do \in AloneDo => Len(c.requests) = 1
         /\ r.do = "intoFolder" => Len(c.requests) = 1
<1>1. r \in Asking /\ 1 \in DOMAIN c.requests
  BY FirstRequest DEF Fits
<1>. QED BY <1>1 DEF Fits

(* What the server has before that.                                         *)
LEMMA BegunIs ==
  ASSUME NEW m, IsMap(m), NEW r \in Asking
  PROVE  Begun(m, r) = IF r.do = "showLayer" THEN Effect(m, [r EXCEPT !.on = ~r.on])
                       ELSE IF r.do = "intoFolder" THEN WithRow(m, r.layer, [on |-> TRUE, folder |-> M!None])
                       ELSE m
<1>1. CASE r.do = "showLayer"
  <2>1. PICK a : a = [r EXCEPT !.on = ~r.on]
    OBVIOUS
  <2>2. a.do = "showLayer" /\ a.layer = r.layer /\ a.on = ~r.on
    BY <1>1, <2>1 DEF Asking
  <2>3. Effect(m, a) = M!Switched(m, r.layer, ~r.on)
    BY <2>2 DEF Effect
  <2>. QED BY <1>1, <2>1, <2>3 DEF Begun
<1>2. CASE r.do = "intoFolder"
  <2>1. [m EXCEPT !.layers = M!Put(@, r.layer, [on |-> TRUE, folder |-> M!None])]
          = WithRow(m, r.layer, [on |-> TRUE, folder |-> M!None])
    BY OtherSetsArePut
  <2>. QED BY <1>2, <2>1 DEF Begun
<1>3. CASE r.do \notin {"showLayer", "intoFolder"}
  BY <1>3 DEF Begun
<1>. QED BY <1>1, <1>2, <1>3

(* The ids that a command knows of.                                         *)
HasIds(c) == c.served \/ c.requests[1].do = "intoFolder" => HasId(c.requests[1])

(* A row that is added has an id.                                           *)
LEMMA KnownHasIds ==
  ASSUME NEW m, NEW c \in Going, Known(m, c), c.requests # <<>>
  PROVE  HasIds(c)
<1>1. c.requests[1].do = "intoFolder" \/ (c.requests[1].do = "addLayer" /\ c.served) => c.requests[1].layer # 0
  <2>1. ASSUME c.requests[1].do = "intoFolder" \/ (c.requests[1].do = "addLayer" /\ c.served)
        PROVE  c.requests[1].layer # 0
    <3>1. <<"layer", c.requests[1].layer>> \in Fresh(c)
      BY <2>1 DEF Fresh
    <3>. QED BY <3>1 DEF Known
  <2>. QED BY <2>1
<1>2. c.requests[1].do = "addFolder" /\ c.served => c.requests[1].folder # 0
  <2>1. ASSUME c.requests[1].do = "addFolder", c.served
        PROVE  c.requests[1].folder # 0
    <3>1. <<"folder", c.requests[1].folder>> \in Fresh(c)
      BY <2>1 DEF Fresh
    <3>. QED BY <3>1 DEF Known
  <2>. QED BY <2>1
<1>. QED BY <1>1, <1>2 DEF HasIds, HasId, M!None

(* A command touches layers and folders.                                    *)
LEMMA TouchedAreThings ==
  ASSUME NEW c \in Going, c.requests # <<>>
  PROVE  Touched(c) \subseteq Things
<1>1. c.requests[1].layer \in Nat /\ c.requests[1].folder \in Nat /\ c.about \subseteq Things
  BY FirstRequest DEF Asking
<1>. QED BY <1>1 DEF Touched, Fresh, Things

(* A request reaches what its command touches.                              *)
LEMMA ReachIsTouched ==
  ASSUME NEW c \in Going, Fits(c), c.served \/ c.requests[1].do \notin {"addLayer", "addFolder"}
  PROVE  Reach(c.requests[1]) \in Touched(c)
<1>1. PICK r : r = c.requests[1]
  OBVIOUS
<1>2. r.do \in Dos
  <2>1. r \in Asking
    BY <1>1, FirstFits
  <2>. QED BY <2>1 DEF Asking
<1>3. CASE r.do \in LayerDo
  BY <1>1, <1>3, FirstFits DEF Reach, Touched
<1>4. CASE r.do \in ObjectDo
  <2>1. r.do \notin LayerDo \union {"addLayer", "intoFolder"}
    BY <1>4 DEF ObjectDo, LayerDo
  <2>. QED BY <1>1, <1>4, <2>1, FirstFits DEF Reach, Touched
<1>5. CASE r.do \in {"addLayer", "intoFolder"}
  BY <1>1, <1>5 DEF Reach, Touched, Fresh
<1>6. CASE r.do = "addFolder"
  BY <1>1, <1>6 DEF Reach, Touched, Fresh, LayerDo, ObjectDo
<1>7. CASE r.do \in {"editFolder", "showFolder", "dropFolder"}
  BY <1>1, <1>7, FirstFits DEF Reach, Touched, FolderDo, LayerDo, ObjectDo
<1>. QED BY <1>2, <1>3, <1>4, <1>5, <1>6, <1>7 DEF Dos, LayerDo, ObjectDo, FolderDo, AloneDo

(* What a command expects is a map.                                         *)
LEMMA ExpectedIsAMap ==
  ASSUME NEW m, IsMap(m), NEW c \in Going, c.requests # <<>>, HasIds(c)
  PROVE  IsMap(Expected(m, c))
<1>1. PICK r \in Asking : r = c.requests[1]
  BY FirstRequest
<1>2. CASE c.served
  BY <1>1, <1>2, EffectIsAMap DEF Expected, Ended, HasIds
<1>3. CASE ~c.served
  <2>1. Expected(m, c) = Begun(m, r)
    BY <1>1, <1>3 DEF Expected
  <2>2. CASE r.do = "showLayer"
    <3>0. PICK a : a = [r EXCEPT !.on = ~r.on]
      OBVIOUS
    <3>1. a \in Asking /\ a.do = "showLayer" /\ a = [r EXCEPT !.on = ~r.on]
      BY <2>2, <3>0 DEF Asking
    <3>2. HasId(a)
      BY <3>1 DEF HasId
    <3>3. Begun(m, r) = Effect(m, a)
      BY <2>2, <3>1, BegunIs
    <3>. QED BY <2>1, <3>1, <3>2, <3>3, EffectIsAMap
  <2>3. CASE r.do = "intoFolder"
    <3>1. r.layer \in Nat \ {0}
      BY <1>1, <2>3 DEF HasIds, HasId, M!None, Asking
    <3>2. [on |-> TRUE, folder |-> M!None] \in Row
      BY DEF Row, M!None
    <3>3. Begun(m, r) = WithRow(m, r.layer, [on |-> TRUE, folder |-> M!None])
      BY <2>3, BegunIs
    <3>. QED BY <2>1, <3>1, <3>2, <3>3, RowIsPut
  <2>4. CASE r.do \notin {"showLayer", "intoFolder"}
    BY <2>1, <2>4, BegunIs
  <2>. QED BY <2>2, <2>3, <2>4
<1>. QED BY <1>2, <1>3

(* And the same, where the copy is the same.                                *)
LEMMA ExpectedIsCongruent ==
  ASSUME NEW m, NEW n, IsMap(m), IsMap(n), NEW c \in Going, Fits(c), HasIds(c),
         \A t \in Touched(c) : Same(m, n, t), NEW t \in Touched(c)
  PROVE  Same(Expected(m, c), Expected(n, c), t)
<1>0. PICK r \in Asking : r = c.requests[1]
  BY FirstFits
<1>1. t \in Things /\ Touched(c) \subseteq Things /\ c.requests # <<>> /\ Same(m, n, t)
  BY TouchedAreThings DEF Fits
<1>2. CASE c.served
  <2>1. Expected(m, c) = Ended(m, r) /\ Expected(n, c) = Ended(n, r)
    BY <1>0, <1>2 DEF Expected
  <2>2. Reach(r) \in Things /\ Same(m, n, Reach(r)) /\ HasId(r)
    BY <1>0, <1>1, <1>2, ReachIsTouched DEF HasIds
  <2>. QED BY <1>1, <2>1, <2>2, EffectIsCongruent DEF Ended
<1>3. CASE ~c.served
  <2>1. Expected(m, c) = Begun(m, r) /\ Expected(n, c) = Begun(n, r)
    BY <1>0, <1>3 DEF Expected
  <2>2. CASE r.do = "showLayer"
    <3>0. PICK a : a = [r EXCEPT !.on = ~r.on]
      OBVIOUS
    <3>1. a \in Asking /\ a.do = "showLayer" /\ a.layer = r.layer /\ a = [r EXCEPT !.on = ~r.on]
      BY <2>2, <3>0 DEF Asking
    <3>2. HasId(a) /\ Reach(a) = Reach(r)
      BY <2>2, <3>1 DEF HasId, Reach, LayerDo
    <3>3. Begun(m, r) = Effect(m, a) /\ Begun(n, r) = Effect(n, a)
      BY <2>2, <3>1, BegunIs
    <3>4. Reach(a) \in Things /\ Same(m, n, Reach(a))
      BY <1>0, <1>1, <2>2, <3>2, ReachIsTouched
    <3>. QED BY <1>1, <2>1, <3>1, <3>2, <3>3, <3>4, EffectIsCongruent
  <2>3. CASE r.do = "intoFolder"
    <3>1. r.layer \in Nat \ {0}
      BY <1>0, <2>3 DEF HasIds, HasId, M!None, Asking
    <3>2. [on |-> TRUE, folder |-> M!None] \in Row
      BY DEF Row, M!None
    <3>3. \A k \in {m, n} : Begun(k, r) = WithRow(k, r.layer, [on |-> TRUE, folder |-> M!None])
      BY <2>3, BegunIs
    <3>4. t = <<"layer", r.layer>> => \A o \in M!Objects : Home[o] = r.layer =>
            (o \in DOMAIN m.own <=> o \in DOMAIN n.own) /\ (o \in DOMAIN m.own => m.own[o] = n.own[o])
      BY <1>1 DEF Same, SameLayer
    <3>. QED BY <1>1, <2>1, <3>1, <3>2, <3>3, <3>4, RowIsCongruent
  <2>4. CASE r.do \notin {"showLayer", "intoFolder"}
    BY <1>1, <2>1, <2>4, BegunIs
  <2>. QED BY <2>2, <2>3, <2>4
<1>. QED BY <1>2, <1>3

-----------------------------------------------------------------------------
(* The steps of others                                                      *)

(* Only the things in S change from m to w.                                 *)
ChangesOnly(m, w, S) == \A t \in Things \ S : Same(w, m, t)

(* Nothing has changed.                                                     *)
LEMMA NothingChanges ==
  ASSUME NEW m, NEW S
  PROVE  ChangesOnly(m, m, S)
BY SameIsSame DEF ChangesOnly

(* What a command knows does not depend on what it does not touch.          *)
LEMMA StillKnown ==
  ASSUME NEW m, NEW w, NEW c \in Going, Fits(c), Known(m, c), \A t \in Touched(c) : Same(w, m, t)
  PROVE  Known(w, c)
<1>1. PICK r : r = c.requests[1]
  OBVIOUS
<1>2. \A t \in Touched(c) : There(w, t) <=> There(m, t)
  BY DEF There, Same, SameLayer, SameFolder
<1>3. c.about \subseteq Touched(c) /\ Fresh(c) \subseteq Touched(c)
  BY DEF Touched
<1>4. r.do \in LayerDo => r.layer \in DOMAIN m.layers /\ w.layers[r.layer] = m.layers[r.layer]
  <2>1. ASSUME r.do \in LayerDo PROVE r.layer \in DOMAIN m.layers /\ w.layers[r.layer] = m.layers[r.layer]
    <3>1. <<"layer", r.layer>> \in c.about
      BY <1>1, <2>1, FirstFits
    <3>2. There(m, <<"layer", r.layer>>) /\ Same(w, m, <<"layer", r.layer>>)
      BY <1>3, <3>1 DEF Known
    <3>. QED BY <3>2 DEF There, Same, SameLayer
  <2>. QED BY <2>1
<1>5. r.do = "editFolder" => w.folders[r.folder] = m.folders[r.folder]
  <2>1. ASSUME r.do = "editFolder" PROVE w.folders[r.folder] = m.folders[r.folder]
    <3>1. <<"folder", r.folder>> \in c.about
      BY <1>1, <2>1, FirstFits DEF FolderDo
    <3>2. There(m, <<"folder", r.folder>>) /\ Same(w, m, <<"folder", r.folder>>)
      BY <1>3, <3>1 DEF Known
    <3>. QED BY <3>2 DEF There, Same, SameFolder
  <2>. QED BY <2>1
<1>. QED BY <1>1, <1>2, <1>3, <1>4, <1>5 DEF Known, LayerDo

(* And an object that is being moved is still on its way.                   *)
LEMMA StillMovesOut ==
  ASSUME NEW m, NEW w, IsMap(m), NEW c \in Going, Known(m, c), MovesOut(m, c), \A t \in Touched(c) : Same(w, m, t)
  PROVE  MovesOut(w, c)
<1>1. SUFFICES ASSUME c.keeps # {}, c.folder # M!None PROVE MovesOut(w, c)
  BY DEF MovesOut
<1>2. PICK l \in Nat :
        /\ <<"layer", l>> \in c.about
        /\ \A p \in c.keeps : p \in DOMAIN m.own /\ Home[p] = l /\ m.own[p] \in {M!None, c.folder}
        /\ c.requests[Len(c.requests)].do \in {"putObject", "detachObject"} /\ c.requests[Len(c.requests)].layer \notin c.keeps
        /\ \A n \in DOMAIN c.requests : n = Len(c.requests) - 1 => c.requests[n].do = "detachLayer" /\ c.requests[n].layer = l
        /\ \A n \in DOMAIN c.requests : n < Len(c.requests) - 1 => c.requests[n].do = "keepObject" /\ c.requests[n].folder = c.folder
        /\ m.layers[l].folder = IF Len(c.requests) = 1 THEN M!None ELSE c.folder
        /\ \A p \in c.keeps : m.own[p] = M!None => \E n \in DOMAIN c.requests : n < Len(c.requests) - 1 /\ c.requests[n].layer = p
  BY <1>1 DEF MovesOut
<1>3. There(m, <<"layer", l>>) /\ Same(w, m, <<"layer", l>>)
  BY <1>2 DEF Known, Touched
<1>4. SameLayer(w, m, l) /\ l \in DOMAIN m.layers
  BY <1>3 DEF There, Same
<1>5. w.layers[l] = m.layers[l]
  BY <1>4 DEF SameLayer
<1>6. \A p \in c.keeps : p \in DOMAIN w.own /\ w.own[p] = m.own[p]
  BY <1>2, <1>4 DEF SameLayer, IsMap
<1>. QED BY <1>2, <1>5, <1>6 DEF MovesOut

(* Nor does what it claims, as long as nothing moves into its folder.       *)
LEMMA StillClaims ==
  ASSUME NEW m, NEW w, NEW c \in Going, Fits(c), Claims(m, c), NEW A, Moves(m, w, A), c.about \intersect A = {},
         c.requests[1].do \in {"showFolder", "dropFolder"} => c.requests[1].folder # M!None
  PROVE  Claims(w, c)
<1>1. PICK r : r = c.requests[1]
  OBVIOUS
<1>2. ASSUME r.do \in {"showFolder", "dropFolder"}, NEW l \in DOMAIN w.layers, w.layers[l].folder = r.folder
      PROVE  <<"layer", l>> \in c.about
  <2>1. <<"folder", r.folder>> \in c.about
    BY <1>1, <1>2, FirstFits DEF FolderDo
  <2>2. l \in DOMAIN m.layers /\ w.layers[l].folder = m.layers[l].folder
    BY <1>1, <1>2, <2>1 DEF Moves
  <2>. QED BY <1>1, <1>2, <2>2 DEF Claims
<1>3. ASSUME r.do = "dropFolder", NEW o \in DOMAIN w.own, w.own[o] = r.folder
      PROVE  <<"layer", Home[o]>> \in c.about
  <2>1. <<"folder", r.folder>> \in c.about
    BY <1>1, <1>3, FirstFits DEF FolderDo
  <2>2. o \in DOMAIN m.own /\ w.own[o] = m.own[o]
    BY <1>1, <1>3, <2>1 DEF Moves
  <2>. QED BY <1>1, <1>3, <2>2 DEF Claims
<1>. QED BY <1>1, <1>2, <1>3 DEF Claims

(* The layer and the folder of a request are there.                         *)
LEMMA KnownFolder ==
  ASSUME NEW m, IsMap(m), NEW c \in Going, Fits(c), Known(m, c), NEW r, r = c.requests[1]
  PROVE  /\ r.do \in FolderDo => r.folder \in DOMAIN m.folders /\ r.folder # M!None
         /\ r.do \in LayerDo => r.layer \in DOMAIN m.layers /\ r.layer # M!None
<1>1. ASSUME r.do \in FolderDo PROVE r.folder \in DOMAIN m.folders /\ r.folder # M!None
  <2>1. There(m, <<"folder", r.folder>>)
    BY <1>1, FirstFits DEF Known
  <2>. QED BY <2>1 DEF There, IsMap, M!None
<1>2. ASSUME r.do \in LayerDo PROVE r.layer \in DOMAIN m.layers /\ r.layer # M!None
  <2>1. There(m, <<"layer", r.layer>>)
    BY <1>2, FirstFits DEF Known
  <2>. QED BY <2>1 DEF There, IsMap, M!None
<1>. QED BY <1>1, <1>2

(* What other commands change leaves a command as it is.                    *)
LEMMA StillFits ==
  ASSUME NEW m, NEW n, NEW w, NEW v, IsMap(m), IsMap(w), NEW c \in Going, NEW now, CommandFits(m, n, c, now),
         NEW S, Touched(c) \intersect S = {}, ChangesOnly(m, w, S), ChangesOnly(n, v, S),
         NEW A, c.about \intersect A = {}, Moves(m, w, A), Moves(n, v, A)
  PROVE  CommandFits(w, v, c, now)
<1>1. Fits(c) /\ c.held = now /\ Known(m, c) /\ Claims(m, c) /\ Claims(n, c) /\ MovesOut(m, c)
      /\ \A t \in Touched(c) : Same(Expected(m, c), n, t)
  BY DEF CommandFits
<1>2. c.requests # <<>> /\ Touched(c) \subseteq Things
  BY <1>1, TouchedAreThings DEF Fits
<1>3. \A t \in Touched(c) : Same(w, m, t) /\ Same(v, n, t)
  BY <1>2 DEF ChangesOnly
<1>4. Known(w, c) /\ MovesOut(w, c)
  BY <1>1, <1>3, StillKnown, StillMovesOut
<1>5. c.requests[1].do \in {"showFolder", "dropFolder"} => c.requests[1].folder # M!None
  BY <1>1, KnownFolder DEF FolderDo
<1>6. Claims(w, c) /\ Claims(v, c)
  BY <1>1, <1>5, StillClaims
<1>7. ASSUME NEW t \in Touched(c) PROVE Same(Expected(w, c), v, t)
  <2>1. Same(Expected(w, c), Expected(m, c), t)
    <3>1. HasIds(c)
      BY <1>1, <1>2, KnownHasIds
    <3>. QED BY <1>1, <1>3, <3>1, ExpectedIsCongruent
  <2>2. Same(Expected(m, c), n, t) /\ Same(n, v, t)
    BY <1>1, <1>3, SameEitherWay
  <2>. QED BY <2>1, <2>2, SameAsTheSame
<1>. QED BY <1>1, <1>4, <1>6, <1>7 DEF CommandFits

(* A row that is added is there for the server, if not yet for the client.  *)
LEMMA FreshIsThere ==
  ASSUME NEW m, NEW n, IsMap(m), NEW c \in Going, NEW now, CommandFits(m, n, c, now), NEW t \in Fresh(c)
  PROVE  There(n, t)
<1>0. PICK r \in Asking : r = c.requests[1]
  BY FirstRequest DEF CommandFits, Fits
<1>1. c.requests # <<>> /\ HasIds(c) /\ t \in Touched(c)
  BY KnownHasIds DEF CommandFits, Fits, Touched
<1>2. HasId(r) /\ r.do \in {"intoFolder", "addLayer", "addFolder"} /\ (r.do # "intoFolder" => c.served) /\ t = Reach(r)
  BY <1>0, <1>1 DEF HasIds, Fresh, Reach, LayerDo, ObjectDo
<1>3. r.layer \in Nat /\ r.folder \in Nat /\ [on |-> r.on, folder |-> r.folder] \in Row /\ [on |-> TRUE, folder |-> M!None] \in Row
  BY DEF Asking, Row, M!None
<1>4. There(Expected(m, c), t)
  <2>1. CASE c.served
    <3>1. Expected(m, c) = Effect(m, r)
      BY <1>0, <1>2, <2>1 DEF Expected, Ended
    <3>2. CASE r.do \in {"intoFolder", "addLayer"}
      <4>1. Effect(m, r) = WithRow(m, r.layer, [on |-> r.on, folder |-> r.folder]) /\ r.layer # 0 /\ t = <<"layer", r.layer>>
        BY <1>2, <3>2 DEF Effect, HasId, M!None, Reach
      <4>2. PICK row \in Row : row = [on |-> r.on, folder |-> r.folder]
        BY <1>3
      <4>3. r.layer \in Nat \ {0} /\ Expected(m, c) = WithRow(m, r.layer, row)
        BY <1>3, <3>1, <4>1, <4>2
      <4>4. r.layer \in DOMAIN Expected(m, c).layers
        BY <4>3, RowIsPut
      <4>. QED BY <4>1, <4>4 DEF There
    <3>3. CASE r.do = "addFolder"
      <4>1. Effect(m, r) = WithFolder(m, r.folder, TRUE) /\ r.folder # 0 /\ t = <<"folder", r.folder>>
        BY <1>2, <3>3 DEF Effect, HasId, M!None, Reach, LayerDo, ObjectDo
      <4>2. r.folder \in DOMAIN Expected(m, c).folders
        <5>1. r.folder \in Nat \ {0} /\ TRUE \in BOOLEAN
          BY <1>3, <4>1
        <5>2. DOMAIN WithFolder(m, r.folder, TRUE).folders = DOMAIN m.folders \union {r.folder}
          BY <5>1, FolderIsPut
        <5>. QED BY <3>1, <4>1, <5>2
      <4>. QED BY <4>1, <4>2 DEF There
    <3>. QED BY <1>2, <3>2, <3>3
  <2>2. CASE ~c.served
    <3>1. Expected(m, c) = WithRow(m, r.layer, [on |-> TRUE, folder |-> M!None]) /\ r.layer # 0 /\ t = <<"layer", r.layer>>
      BY <1>0, <1>2, <2>2, BegunIs DEF Expected, HasId, M!None, Reach
    <3>2. r.layer \in DOMAIN Expected(m, c).layers
      <4>1. PICK row \in Row : row = [on |-> TRUE, folder |-> M!None]
        BY <1>3
      <4>2. r.layer \in Nat \ {0} /\ Expected(m, c) = WithRow(m, r.layer, row)
        BY <1>3, <3>1, <4>1
      <4>. QED BY <4>2, RowIsPut
    <3>. QED BY <3>1, <3>2 DEF There
  <2>. QED BY <2>1, <2>2
<1>5. Same(Expected(m, c), n, t)
  BY <1>1 DEF CommandFits
<1>. QED BY <1>4, <1>5 DEF There, Same, SameLayer, SameFolder

(* A command goes on.                                                       *)
LEMMA CalmGoesOn ==
  ASSUME NEW m, NEW n, NEW w, NEW v, IsMap(m), IsMap(w), NEW q \in Seq(Going), NEW now, Calm(m, n, q, now),
         NEW i \in DOMAIN q, NEW c \in Going, Placed(w), CommandFits(w, v, c, now), Touched(q[i]) \subseteq Touched(c),
         \A j \in DOMAIN q : j # i => Touched(q[j]) \intersect Touched(c) = {},
         ChangesOnly(m, w, Touched(c)), ChangesOnly(n, v, Touched(c)), Moves(m, w, c.about), Moves(n, v, c.about)
  PROVE  Calm(w, v, [q EXCEPT ![i] = c], now)
<1>1. PICK p : p = [q EXCEPT ![i] = c]
  OBVIOUS
<1>2. DOMAIN p = DOMAIN q /\ p[i] = c /\ \A j \in DOMAIN q : j # i => p[j] = q[j]
  BY <1>1
<1>3. ASSUME NEW j \in DOMAIN p PROVE CommandFits(w, v, p[j], now)
  <2>1. CASE j = i
    BY <1>2, <2>1
  <2>2. CASE j # i
    <3>1. p[j] = q[j] /\ q[j] \in Going /\ CommandFits(m, n, q[j], now) /\ Touched(q[j]) \intersect Touched(c) = {}
      BY <1>2, <2>2 DEF Calm
    <3>2. q[j].about \intersect c.about = {}
      BY <3>1 DEF Touched
    <3>. QED BY <3>1, <3>2, StillFits
  <2>. QED BY <2>1, <2>2
<1>4. ASSUME NEW j \in DOMAIN p, NEW k \in DOMAIN p, j # k PROVE Touched(p[j]) \intersect Touched(p[k]) = {}
  <2>1. CASE j # i /\ k # i
    BY <1>2, <1>4, <2>1 DEF Calm
  <2>2. CASE j = i
    BY <1>2, <1>4, <2>2
  <2>3. CASE k = i
    BY <1>2, <1>4, <2>3
  <2>. QED BY <2>1, <2>2, <2>3
<1>5. ASSUME NEW t \in Things, \A j \in DOMAIN p : t \notin Touched(p[j]) PROVE Same(w, v, t)
  <2>1. t \notin Touched(c)
    BY <1>2, <1>5
  <2>2. ASSUME NEW j \in DOMAIN q PROVE t \notin Touched(q[j])
    BY <1>2, <1>5, <2>1, <2>2
  <2>3. Same(m, n, t)
    BY <2>2 DEF Calm
  <2>4. Same(w, m, t) /\ Same(v, n, t)
    BY <2>1 DEF ChangesOnly
  <2>. QED BY <2>3, <2>4, SameEitherWay, SameAsTheSame
<1>. QED BY <1>1, <1>3, <1>4, <1>5 DEF Calm

(* A command ends.                                                          *)
LEMMA CalmEnds ==
  ASSUME NEW m, NEW n, NEW w, IsMap(m), IsMap(w), NEW q \in Seq(Going), NEW now, Calm(m, n, q, now),
         NEW i \in DOMAIN q, Placed(w), \A t \in Touched(q[i]) : Same(w, n, t),
         ChangesOnly(m, w, Touched(q[i])), Moves(m, w, q[i].about)
  PROVE  Calm(w, n, M!RemoveAt(q, i), now)
<1>1. PICK p : p = M!RemoveAt(q, i)
  OBVIOUS
<1>2. /\ \A j \in DOMAIN p : Behind(j, i) \in DOMAIN q /\ Behind(j, i) # i /\ p[j] = q[Behind(j, i)]
      /\ \A j \in DOMAIN q : j # i => \E k \in DOMAIN p : Behind(k, i) = j
      /\ \A j, k \in DOMAIN p : Behind(j, i) = Behind(k, i) => j = k
  BY <1>1, WithoutOne
<1>3. ASSUME NEW j \in DOMAIN p PROVE CommandFits(w, n, p[j], now)
  <2>1. PICK k \in DOMAIN q : k # i /\ p[j] = q[k]
    BY <1>2
  <2>2. q[k] \in Going /\ CommandFits(m, n, q[k], now) /\ Touched(q[k]) \intersect Touched(q[i]) = {}
    BY <2>1 DEF Calm
  <2>3. q[k].about \intersect q[i].about = {}
    BY <2>2 DEF Touched
  <2>4. ChangesOnly(n, n, Touched(q[i])) /\ Moves(n, n, q[i].about)
    BY NothingChanges, NothingMoves
  <2>. QED BY <2>1, <2>2, <2>3, <2>4, StillFits
<1>4. ASSUME NEW j \in DOMAIN p, NEW k \in DOMAIN p, j # k PROVE Touched(p[j]) \intersect Touched(p[k]) = {}
  BY <1>2, <1>4 DEF Calm
<1>5. ASSUME NEW t \in Things, \A j \in DOMAIN p : t \notin Touched(p[j]) PROVE Same(w, n, t)
  <2>1. CASE t \in Touched(q[i])
    BY <2>1
  <2>2. CASE t \notin Touched(q[i])
    <3>1. ASSUME NEW j \in DOMAIN q PROVE t \notin Touched(q[j])
      BY <1>2, <1>5, <2>2, <3>1
    <3>2. Same(m, n, t)
      BY <3>1 DEF Calm
    <3>3. Same(w, m, t)
      BY <2>2 DEF ChangesOnly
    <3>. QED BY <3>2, <3>3, SameAsTheSame
  <2>. QED BY <2>1, <2>2
<1>. QED BY <1>1, <1>3, <1>4, <1>5 DEF Calm

(* A command begins.                                                        *)
LEMMA CalmBegins ==
  ASSUME NEW m, NEW n, NEW w, IsMap(m), IsMap(w), NEW q \in Seq(Going), NEW now, Calm(m, n, q, now),
         NEW c \in Going, Placed(w), CommandFits(w, n, c, now),
         \A j \in DOMAIN q : Touched(q[j]) \intersect Touched(c) = {},
         ChangesOnly(m, w, Touched(c)), Moves(m, w, c.about)
  PROVE  Calm(w, n, Append(q, c), now)
<1>1. PICK p : p = Append(q, c)
  OBVIOUS
<1>2. /\ DOMAIN q = 1..Len(q) /\ Len(q) \in Nat /\ DOMAIN p = 1..(Len(q) + 1) /\ p[Len(q) + 1] = c
      /\ \A j \in DOMAIN q : p[j] = q[j]
  BY <1>1
<1>3. ASSUME NEW j \in DOMAIN p PROVE CommandFits(w, n, p[j], now)
  <2>1. CASE j = Len(q) + 1
    BY <1>2, <2>1
  <2>2. CASE j # Len(q) + 1
    <3>0. j \in DOMAIN q
      BY <1>2, <2>2
    <3>1. p[j] = q[j] /\ q[j] \in Going /\ CommandFits(m, n, q[j], now) /\ Touched(q[j]) \intersect Touched(c) = {}
      BY <1>2, <3>0 DEF Calm
    <3>2. q[j].about \intersect c.about = {}
      BY <3>1 DEF Touched
    <3>3. ChangesOnly(n, n, Touched(c)) /\ Moves(n, n, c.about)
      BY NothingChanges, NothingMoves
    <3>. QED BY <3>1, <3>2, <3>3, StillFits
  <2>. QED BY <2>1, <2>2
<1>4. ASSUME NEW j \in DOMAIN p, NEW k \in DOMAIN p, j # k PROVE Touched(p[j]) \intersect Touched(p[k]) = {}
  <2>0. (j \in DOMAIN q \/ p[j] = c) /\ (k \in DOMAIN q \/ p[k] = c) /\ (j \in DOMAIN q \/ k \in DOMAIN q)
    BY <1>2, <1>4
  <2>1. CASE j \in DOMAIN q /\ k \in DOMAIN q
    BY <1>2, <1>4, <2>1 DEF Calm
  <2>2. CASE j \notin DOMAIN q
    BY <1>2, <1>4, <2>0, <2>2
  <2>3. CASE k \notin DOMAIN q
    BY <1>2, <1>4, <2>0, <2>3
  <2>. QED BY <2>1, <2>2, <2>3
<1>5. ASSUME NEW t \in Things, \A j \in DOMAIN p : t \notin Touched(p[j]) PROVE Same(w, n, t)
  <2>1. t \notin Touched(c)
    BY <1>2, <1>5
  <2>2. ASSUME NEW j \in DOMAIN q PROVE t \notin Touched(q[j])
    <3>1. j \in DOMAIN p
      BY <1>2
    <3>. QED BY <1>2, <1>5, <3>1
  <2>3. Same(m, n, t)
    BY <2>2 DEF Calm
  <2>4. Same(w, m, t)
    BY <2>1 DEF ChangesOnly
  <2>. QED BY <2>3, <2>4, SameAsTheSame
<1>. QED BY <1>1, <1>3, <1>4, <1>5 DEF Calm

-----------------------------------------------------------------------------
(* A request is served                                                      *)

(* Of two rows that are put for a layer, the last one counts.               *)
LEMMA LastRowCounts ==
  ASSUME NEW m, IsMap(m), NEW l \in Nat \ {0}, NEW x \in Row, NEW y \in Row, NEW t
  PROVE  Same(WithRow(WithRow(m, l, x), l, y), WithRow(m, l, y), t)
<1>1. PICK b : b = WithRow(m, l, x)
  OBVIOUS
<1>2. IsMap(b) /\ DOMAIN b.layers = DOMAIN m.layers \union {l} /\ b.folders = m.folders /\ b.own = m.own
      /\ \A k \in DOMAIN m.layers \union {l} : b.layers[k] = IF k = l THEN x ELSE m.layers[k]
  BY <1>1, RowIsPut
<1>3. PICK u, v : u = WithRow(b, l, y) /\ v = WithRow(m, l, y)
  OBVIOUS
<1>4. DOMAIN u.layers = DOMAIN b.layers \union {l} /\ u.folders = b.folders /\ u.own = b.own
      /\ \A k \in DOMAIN b.layers \union {l} : u.layers[k] = IF k = l THEN y ELSE b.layers[k]
  BY <1>2, <1>3, RowIsPut
<1>5. DOMAIN v.layers = DOMAIN m.layers \union {l} /\ v.folders = m.folders /\ v.own = m.own
      /\ \A k \in DOMAIN m.layers \union {l} : v.layers[k] = IF k = l THEN y ELSE m.layers[k]
  BY <1>3, RowIsPut
<1>6. Same(u, v, t)
  BY <1>2, <1>4, <1>5 DEF Same, SameLayer, SameFolder
<1>. QED BY <1>1, <1>3, <1>6

(* A row that is put again changes nothing.                                 *)
LEMMA SameRowCounts ==
  ASSUME NEW m, IsMap(m), NEW l \in DOMAIN m.layers, NEW t
  PROVE  Same(WithRow(m, l, m.layers[l]), m, t)
<1>1. l \in Nat \ {0} /\ m.layers[l] \in Row
  BY DEF IsMap
<1>2. PICK v : v = WithRow(m, l, m.layers[l])
  OBVIOUS
<1>3. DOMAIN v.layers = DOMAIN m.layers \union {l} /\ v.folders = m.folders /\ v.own = m.own
      /\ \A k \in DOMAIN m.layers \union {l} : v.layers[k] = IF k = l THEN m.layers[l] ELSE m.layers[k]
  BY <1>1, <1>2, RowIsPut
<1>4. Same(v, m, t)
  BY <1>3 DEF Same, SameLayer, SameFolder
<1>. QED BY <1>2, <1>4

(* What the client is to have is what the request makes of what there was.  *)
LEMMA CatchesUp ==
  ASSUME NEW m, IsMap(m), NEW r \in Asking, NEW a, Answers(a, r), NEW t,
         r.do = "showLayer" => r.layer \in DOMAIN m.layers /\ m.layers[r.layer].on = r.on
  PROVE  Same(Ended(m, a), Effect(Begun(m, r), a), t)
<1>0. /\ a \in Asking /\ HasId(a) /\ a.do = r.do /\ (r.do # "addLayer" => a.layer = r.layer)
      /\ (r.do = "showLayer" => a.on = r.on)
      /\ r.layer \in Nat /\ r.on \in BOOLEAN
  BY DEF Answers, Asking
<1>1. CASE r.do = "showLayer"
  <2>1. PICK l : l = r.layer
    OBVIOUS
  <2>2. l \in Nat \ {0} /\ l \in DOMAIN m.layers /\ m.layers[l] \in Row /\ m.layers[l].on = r.on /\ m.layers[l].folder \in Nat
    BY <1>1, <2>1, AnswerIsTyped
  <2>3. PICK x \in Row : x = [on |-> ~r.on, folder |-> m.layers[l].folder]
    BY <1>0, <2>2 DEF Row
  <2>4. PICK b : b = WithRow(m, l, x)
    OBVIOUS
  <2>5. Begun(m, r) = b
    BY <1>0, <1>1, <2>1, <2>2, <2>3, <2>4, SwitchIsARow DEF Begun
  <2>6. IsMap(b) /\ l \in DOMAIN b.layers /\ b.layers[l] = x
    BY <2>2, <2>4, RowIsPut
  <2>7. [on |-> a.on, folder |-> b.layers[l].folder] = m.layers[l]
    BY <1>0, <1>1, <2>2, <2>3, <2>6 DEF Row
  <2>8. Effect(b, a) = WithRow(b, l, m.layers[l])
    <3>1. Effect(b, a) = M!Switched(b, l, a.on)
      BY <1>0, <1>1, <2>1 DEF Effect
    <3>2. a.on \in BOOLEAN
      BY <1>0, <1>1
    <3>. QED BY <2>2, <2>6, <2>7, <3>1, <3>2, SwitchIsARow
  <2>9. Same(WithRow(b, l, m.layers[l]), WithRow(m, l, m.layers[l]), t)
    BY <2>2, <2>4, LastRowCounts
  <2>10. Same(WithRow(m, l, m.layers[l]), m, t)
    BY <2>2, SameRowCounts
  <2>11. Same(m, Effect(b, a), t)
    BY <2>8, <2>9, <2>10, SameAsTheSame, SameEitherWay
  <2>12. Ended(m, a) = m
    BY <1>0, <1>1 DEF Ended
  <2>. QED BY <2>5, <2>11, <2>12
<1>2. CASE r.do = "intoFolder"
  <2>1. PICK x \in Row, y \in Row : x = [on |-> TRUE, folder |-> M!None] /\ y = [on |-> a.on, folder |-> a.folder]
    BY <1>0 DEF Row, Asking, M!None
  <2>2. r.layer \in Nat \ {0}
    BY <1>0, <1>2 DEF HasId, M!None
  <2>3. Begun(m, r) = WithRow(m, r.layer, x)
    BY <1>2, <2>1, BegunIs
  <2>4. Effect(Begun(m, r), a) = WithRow(WithRow(m, r.layer, x), r.layer, y)
    BY <1>0, <1>2, <2>1, <2>3 DEF Effect
  <2>5. Ended(m, a) = WithRow(m, r.layer, y)
    BY <1>0, <1>2, <2>1 DEF Effect, Ended
  <2>. QED BY <2>2, <2>4, <2>5, LastRowCounts, SameEitherWay
<1>3. CASE r.do \notin {"showLayer", "intoFolder"}
  BY <1>0, <1>3, BegunIs, SameIsSame DEF Ended
<1>. QED BY <1>1, <1>2, <1>3

Serving(c, a) == [c EXCEPT !.served = TRUE, !.requests[1] = a]

IsServing(c, a, d) ==
  /\ d \in Going /\ d.served = TRUE /\ d.held = c.held /\ d.about = c.about /\ d.keeps = c.keeps /\ d.folder = c.folder
  /\ Len(d.requests) = Len(c.requests) /\ DOMAIN d.requests = DOMAIN c.requests /\ d.requests # <<>>
  /\ d.requests[1] = a /\ \A n \in DOMAIN c.requests : n # 1 => d.requests[n] = c.requests[n]

(* A command whose request is served.                                       *)
LEMMA ServingIs ==
  ASSUME NEW c \in Going, c.requests # <<>>, NEW a \in Asking
  PROVE  IsServing(c, a, Serving(c, a))
<1>0. PICK d : d = Serving(c, a)
  OBVIOUS
<1>1. PICK q : q = [c.requests EXCEPT ![1] = a]
  OBVIOUS
<1>2. 1 \in DOMAIN c.requests /\ c.requests \in Seq(Asking)
  BY FirstRequest
<1>3. /\ q \in Seq(Asking) /\ Len(q) = Len(c.requests) /\ DOMAIN q = DOMAIN c.requests /\ q # <<>>
      /\ q[1] = a /\ \A n \in DOMAIN c.requests : n # 1 => q[n] = c.requests[n]
  BY <1>1, <1>2
<1>4. d = [c EXCEPT !.served = TRUE, !.requests = q]
  BY <1>0, <1>1 DEF Serving
<1>5. d \in Going /\ d.served = TRUE /\ d.held = c.held /\ d.about = c.about /\ d.keeps = c.keeps /\ d.folder = c.folder
      /\ d.requests = q
  BY <1>3, <1>4 DEF Going
<1>. QED BY <1>0, <1>3, <1>5 DEF IsServing

(* A new row has an id that nobody has.                                     *)
IsNew(m, n, r, new) ==
  /\ new \in Nat \ {0}
  /\ r.do = "addLayer" => new \notin DOMAIN m.layers /\ new \notin DOMAIN n.layers /\ \A o \in M!Objects : Home[o] # new
  /\ r.do = "addFolder" => new \notin DOMAIN m.folders /\ new \notin DOMAIN n.folders

(* The answer a to the first request of c, when the database n becomes v.   *)
Serves(m, n, c, a, v) ==
  /\ Answers(a, c.requests[1]) /\ v = Effect(n, a)
  /\ Accepted(n, c.requests[1])
  /\ c.requests[1].do = "addLayer" => IsNew(m, n, a, a.layer) /\ a.folder = M!None
  /\ c.requests[1].do = "addFolder" => IsNew(m, n, a, a.folder)
  /\ c.requests[1].do = "editLayer" => [on |-> a.on, folder |-> a.folder] = n.layers[a.layer]
  /\ c.requests[1].do = "editFolder" => a.on = n.folders[a.folder]

(* It still fits, with what the server has then.                            *)
LEMMA ServingFits ==
  ASSUME NEW m, NEW n, IsMap(m), IsMap(n), NEW c \in Going, NEW now, CommandFits(m, n, c, now), ~c.served,
         NEW a, NEW v, Serves(m, n, c, a, v), NEW d, d = Serving(c, a)
  PROVE  /\ CommandFits(m, v, d, now) /\ Touched(c) \subseteq Touched(d)
         /\ ChangesOnly(n, v, Touched(d)) /\ Moves(n, v, d.about)
<1>0. PICK r \in Asking : r = c.requests[1]
  BY FirstRequest DEF CommandFits, Fits
<1>1. /\ a \in Asking /\ HasId(a) /\ a.do = r.do /\ v = Effect(n, a)
      /\ (r.do # "addLayer" => a.layer = r.layer)
      /\ (r.do \notin {"editLayer", "addFolder"} => a.folder = r.folder)
      /\ (r.do \notin {"editLayer", "editFolder", "intoFolder"} => a.on = r.on)
  BY <1>0 DEF Serves, Answers
<1>2. /\ Fits(c) /\ c.held = now /\ Known(m, c) /\ Claims(m, c) /\ Claims(n, c) /\ MovesOut(m, c)
      /\ (\A t \in Touched(c) : Same(Expected(m, c), n, t)) /\ c.requests # <<>>
  BY DEF CommandFits, Fits
<1>3. /\ d \in Going /\ d.served = TRUE /\ d.held = c.held /\ d.about = c.about /\ d.keeps = c.keeps /\ d.folder = c.folder
      /\ Len(d.requests) = Len(c.requests) /\ DOMAIN d.requests = DOMAIN c.requests /\ d.requests # <<>>
      /\ d.requests[1] = a /\ \A k \in DOMAIN c.requests : k # 1 => d.requests[k] = c.requests[k]
  <2>1. IsServing(c, a, Serving(c, a))
    BY <1>1, <1>2, ServingIs
  <2>. QED BY <2>1 DEF IsServing
<1>4. Fits(d)
  <2>1. ASSUME NEW k \in DOMAIN d.requests
        PROVE  /\ d.requests[k].do = c.requests[k].do
               /\ d.requests[k].do \in LayerDo \union ObjectDo => d.requests[k].layer = c.requests[k].layer
               /\ d.requests[k].do \in FolderDo => d.requests[k].folder = c.requests[k].folder
    BY <1>0, <1>1, <1>3 DEF LayerDo, ObjectDo, FolderDo
  <2>2. 1 \in DOMAIN c.requests /\ (Len(c.requests) = 2 => 2 \in DOMAIN c.requests)
    BY FirstRequest, <1>2
  <2>3. ASSUME NEW k \in DOMAIN d.requests, NEW x, x = d.requests[k], NEW y, y = c.requests[k]
        PROVE  /\ x.do \in LayerDo => <<"layer", x.layer>> \in d.about
               /\ x.do \in ObjectDo => x.layer \in M!Objects /\ <<"layer", Home[x.layer]>> \in d.about
               /\ x.do \in FolderDo => <<"folder", x.folder>> \in d.about
               /\ x.do \in AloneDo => Len(d.requests) = 1
               /\ x.do = "addLayer" =>
                    k = 1 /\ (Len(d.requests) = 1 \/ (Len(d.requests) = 2 /\ d.requests[2].do = "intoFolder"))
               /\ x.do = "intoFolder" => k = Len(d.requests) /\ (k = 1 \/ d.requests[1].do = "addLayer")
    <3>1. /\ y.do \in LayerDo => <<"layer", y.layer>> \in c.about
          /\ y.do \in ObjectDo => y.layer \in M!Objects /\ <<"layer", Home[y.layer]>> \in c.about
          /\ y.do \in FolderDo => <<"folder", y.folder>> \in c.about
          /\ y.do \in AloneDo => Len(c.requests) = 1
          /\ y.do = "addLayer" =>
               k = 1 /\ (Len(c.requests) = 1 \/ (Len(c.requests) = 2 /\ c.requests[2].do = "intoFolder"))
          /\ y.do = "intoFolder" => k = Len(c.requests) /\ (k = 1 \/ c.requests[1].do = "addLayer")
      BY <1>2, <1>3, <2>3 DEF Fits
    <3>2. x.do = y.do /\ (x.do \in LayerDo \union ObjectDo => x.layer = y.layer) /\ (x.do \in FolderDo => x.folder = y.folder)
      BY <2>1, <2>3
    <3>3. (Len(c.requests) = 2 => d.requests[2].do = c.requests[2].do) /\ d.requests[1].do = c.requests[1].do
      BY <1>3, <2>1, <2>2
    <3>. QED BY <1>3, <3>1, <3>2, <3>3
  <2>. QED BY <1>3, <2>3 DEF Fits
<1>5. Fresh(d) = IF r.do \in {"intoFolder", "addLayer"} THEN {<<"layer", a.layer>>}
                 ELSE IF r.do = "addFolder" THEN {<<"folder", a.folder>>} ELSE {}
  BY <1>1, <1>3 DEF Fresh
<1>6. Touched(c) \subseteq Touched(d)
  <2>1. Fresh(c) = IF r.do = "intoFolder" THEN {<<"layer", a.layer>>} ELSE {}
    BY <1>0, <1>1 DEF Fresh
  <2>. QED BY <1>3, <1>5, <2>1 DEF Touched
<1>7. Reach(a) \in Touched(d) /\ Touched(d) \subseteq Things
  BY <1>3, <1>4, ReachIsTouched, TouchedAreThings
<1>8. Expected(m, c) = Begun(m, r) /\ Expected(m, d) = Ended(m, a)
  BY <1>0, <1>3 DEF Expected
<1>9. r.do \in LayerDo => r.layer \in DOMAIN m.layers
  BY <1>0, <1>2, KnownFolder
<1>10. r.do = "showLayer" => m.layers[r.layer].on = r.on
  BY <1>0, <1>2 DEF Known
<1>11. ASSUME NEW t \in Touched(d) PROVE Same(Begun(m, r), n, t)
  <2>1. CASE t \in Touched(c)
    BY <1>2, <1>8, <2>1
  <2>2. CASE t \notin Touched(c)
    <3>1. t \in Fresh(d) /\ r.do \in {"addLayer", "addFolder"}
      BY <1>0, <1>1, <1>3, <1>5, <2>2 DEF Touched, Fresh
    <3>2. Begun(m, r) = m
      BY <3>1, BegunIs
    <3>3. CASE r.do = "addLayer"
      <4>1. t = <<"layer", a.layer>> /\ IsNew(m, n, a, a.layer)
        BY <1>0, <1>5, <3>1, <3>3 DEF Serves
      <4>2. SameLayer(m, n, a.layer)
        BY <1>1, <3>3, <4>1 DEF IsNew, SameLayer
      <4>. QED BY <3>2, <4>1, <4>2 DEF Same
    <3>4. CASE r.do = "addFolder"
      <4>1. t = <<"folder", a.folder>> /\ IsNew(m, n, a, a.folder)
        BY <1>0, <1>5, <3>1, <3>4 DEF Serves
      <4>2. SameFolder(m, n, a.folder)
        BY <1>1, <3>4, <4>1 DEF IsNew, SameFolder
      <4>. QED BY <3>2, <4>1, <4>2 DEF Same
    <3>. QED BY <3>1, <3>3, <3>4
  <2>. QED BY <2>1, <2>2
<1>12. \A t \in Touched(d) : Same(Expected(m, d), v, t)
  <2>1. IsMap(Begun(m, r))
    <3>1. HasIds(c)
      BY <1>2, KnownHasIds
    <3>. QED BY <1>2, <1>8, <3>1, ExpectedIsAMap
  <2>2. ASSUME NEW t \in Touched(d) PROVE Same(Expected(m, d), v, t)
    <3>1. Same(Effect(Begun(m, r), a), Effect(n, a), t)
      BY <1>1, <1>7, <1>11, <2>1, EffectIsCongruent
    <3>2. Same(Ended(m, a), Effect(Begun(m, r), a), t)
      <4>1. Answers(a, r)
        BY <1>0 DEF Serves
      <4>. QED BY <1>9, <1>10, <4>1, CatchesUp DEF LayerDo
    <3>. QED BY <1>1, <1>8, <3>1, <3>2, SameAsTheSame
  <2>. QED BY <2>2
<1>13. Known(m, d)
  <2>1. ASSUME NEW t \in Fresh(d)
        PROVE  ~There(m, t) /\ t[2] # 0 /\ (t[1] = "layer" => \A o \in M!Objects : Home[o] # t[2])
    <3>1. CASE r.do = "intoFolder"
      <4>1. t = <<"layer", r.layer>> /\ t \in Fresh(c)
        BY <1>0, <1>1, <1>5, <3>1 DEF Fresh
      <4>. QED BY <1>2, <4>1 DEF Known
    <3>2. CASE r.do = "addLayer"
      <4>1. t = <<"layer", a.layer>> /\ IsNew(m, n, a, a.layer)
        BY <1>0, <1>5, <3>2 DEF Serves
      <4>. QED BY <1>1, <3>2, <4>1 DEF IsNew, There
    <3>3. CASE r.do = "addFolder"
      <4>1. t = <<"folder", a.folder>> /\ IsNew(m, n, a, a.folder)
        BY <1>0, <1>5, <3>3 DEF Serves
      <4>. QED BY <1>1, <3>3, <4>1 DEF IsNew, There
    <3>. QED BY <1>5, <3>1, <3>2, <3>3
  <2>2. r.do = "editLayer" => m.layers[a.layer] = [on |-> a.on, folder |-> a.folder]
    <3>1. ASSUME r.do = "editLayer" PROVE m.layers[a.layer] = [on |-> a.on, folder |-> a.folder]
      <4>1. <<"layer", r.layer>> \in Touched(c) /\ Begun(m, r) = m /\ a.layer = r.layer /\ r.layer \in DOMAIN m.layers
        BY <1>0, <1>1, <1>2, <1>9, <3>1, FirstFits, BegunIs DEF LayerDo, Touched
      <4>2. Same(m, n, <<"layer", r.layer>>)
        BY <1>6, <1>11, <4>1
      <4>3. m.layers[r.layer] = n.layers[r.layer]
        BY <4>1, <4>2 DEF Same, SameLayer
      <4>. QED BY <1>0, <3>1, <4>1, <4>3 DEF Serves
    <3>. QED BY <3>1
  <2>3. r.do = "editFolder" => m.folders[a.folder] = a.on
    <3>1. ASSUME r.do = "editFolder" PROVE m.folders[a.folder] = a.on
      <4>1. <<"folder", r.folder>> \in Touched(c) /\ Begun(m, r) = m /\ a.folder = r.folder
        BY <1>0, <1>1, <1>2, <3>1, FirstFits, BegunIs DEF FolderDo, Touched
      <4>2. Same(m, n, <<"folder", r.folder>>) /\ r.folder \in DOMAIN m.folders
        BY <1>0, <1>2, <1>6, <1>11, <3>1, <4>1, KnownFolder DEF FolderDo
      <4>3. m.folders[r.folder] = n.folders[r.folder]
        BY <4>1, <4>2 DEF Same, SameFolder
      <4>. QED BY <1>0, <3>1, <4>1, <4>3 DEF Serves
    <3>. QED BY <3>1
  <2>4. r.do = "showLayer" => m.layers[a.layer].on = a.on
    BY <1>1, <1>10
  <2>5. \A t \in d.about : There(m, t)
    BY <1>2, <1>3 DEF Known
  <2>. QED BY <1>1, <1>3, <2>1, <2>2, <2>3, <2>4, <2>5 DEF Known
<1>14. Claims(m, d) /\ Claims(v, d)
  <2>1. Claims(m, d)
    BY <1>0, <1>1, <1>2, <1>3 DEF Claims
  <2>2. CASE r.do = "showFolder"
    <3>1. v.layers = n.layers
      <4>1. r.folder \in DOMAIN n.folders /\ r.folder \in Nat \ {0} /\ a.on \in BOOLEAN /\ a.folder = r.folder
        BY <1>0, <1>1, <2>2, AnswerIsTyped DEF Serves, Accepted, Asking
      <4>2. v = WithFolder(n, r.folder, a.on)
        BY <1>1, <2>2, <4>1 DEF Effect
      <4>. QED BY <4>1, <4>2, FolderIsPut
    <3>. QED BY <1>0, <1>1, <1>2, <1>3, <2>2, <3>1 DEF Claims
  <2>3. CASE r.do = "dropFolder"
    <3>1. v = M!WithoutFolder(n, r.folder) /\ r.folder # M!None
      BY <1>0, <1>1, <1>2, <2>3, KnownFolder DEF Effect, FolderDo
    <3>2. \A l \in DOMAIN v.layers : v.layers[l].folder # r.folder
      <4>1. ASSUME NEW l \in DOMAIN v.layers, v.layers[l].folder = r.folder PROVE FALSE
        <5>1. l \in DOMAIN n.layers
          BY <3>1, <4>1, FolderIsDropped
        <5>2. n.layers[l].folder # r.folder => v.layers[l] = n.layers[l]
          BY <3>1, <5>1, FolderIsDropped
        <5>3. n.layers[l].folder = r.folder => v.layers[l] = [on |-> n.layers[l].on, folder |-> M!None]
          BY <3>1, <5>1, FolderIsDropped
        <5>. QED BY <3>1, <4>1, <5>2, <5>3
      <4>. QED BY <4>1
    <3>3. \A o \in DOMAIN v.own : v.own[o] # r.folder
      <4>1. ASSUME NEW o \in DOMAIN v.own, v.own[o] = r.folder PROVE FALSE
        <5>1. o \in DOMAIN n.own
          BY <3>1, <4>1, FolderIsDropped
        <5>2. n.own[o] # r.folder => v.own[o] = n.own[o]
          BY <3>1, <5>1, FolderIsDropped
        <5>3. n.own[o] = r.folder => v.own[o] = M!None
          BY <3>1, <5>1, FolderIsDropped
        <5>. QED BY <3>1, <4>1, <5>2, <5>3
      <4>. QED BY <4>1
    <3>4. d.requests[1].do = "dropFolder" /\ d.requests[1].folder = r.folder
      BY <1>1, <1>3, <2>3
    <3>5. Claims(v, d)
      BY <3>2, <3>3, <3>4 DEF Claims
    <3>. QED BY <2>1, <3>5
  <2>4. CASE r.do \notin {"showFolder", "dropFolder"}
    BY <1>1, <1>3, <2>1, <2>4 DEF Claims
  <2>. QED BY <2>1, <2>2, <2>3, <2>4
<1>15. MovesOut(m, d)
  <2>1. ASSUME NEW k \in DOMAIN d.requests
        PROVE  /\ d.requests[k].do = c.requests[k].do
               /\ d.requests[k].do \in LayerDo \union ObjectDo => d.requests[k].layer = c.requests[k].layer
               /\ d.requests[k].do = "keepObject" => d.requests[k].folder = c.requests[k].folder
    BY <1>0, <1>1, <1>3 DEF LayerDo, ObjectDo
  <2>2. Len(c.requests) \in DOMAIN c.requests
    BY <1>2, FirstRequest
  <2>3. SUFFICES ASSUME c.keeps # {}, c.folder # M!None PROVE MovesOut(m, d)
    BY <1>3 DEF MovesOut
  <2>4. PICK l \in Nat :
          /\ <<"layer", l>> \in c.about
          /\ \A p \in c.keeps : p \in DOMAIN m.own /\ Home[p] = l /\ m.own[p] \in {M!None, c.folder}
          /\ c.requests[Len(c.requests)].do \in {"putObject", "detachObject"} /\ c.requests[Len(c.requests)].layer \notin c.keeps
          /\ \A k \in DOMAIN c.requests : k = Len(c.requests) - 1 => c.requests[k].do = "detachLayer" /\ c.requests[k].layer = l
          /\ \A k \in DOMAIN c.requests : k < Len(c.requests) - 1 => c.requests[k].do = "keepObject" /\ c.requests[k].folder = c.folder
          /\ m.layers[l].folder = IF Len(c.requests) = 1 THEN M!None ELSE c.folder
          /\ \A p \in c.keeps : m.own[p] = M!None => \E k \in DOMAIN c.requests : k < Len(c.requests) - 1 /\ c.requests[k].layer = p
    BY <1>2, <2>3 DEF MovesOut
  <2>5. d.requests[Len(d.requests)].do \in {"putObject", "detachObject"} /\ d.requests[Len(d.requests)].layer \notin d.keeps
    BY <1>3, <2>1, <2>2, <2>4 DEF ObjectDo
  <2>6. \A k \in DOMAIN d.requests : k = Len(d.requests) - 1 => d.requests[k].do = "detachLayer" /\ d.requests[k].layer = l
    BY <1>3, <2>1, <2>4 DEF LayerDo
  <2>7. \A k \in DOMAIN d.requests : k < Len(d.requests) - 1 =>
          d.requests[k].do = "keepObject" /\ d.requests[k].folder = d.folder /\ d.requests[k].layer = c.requests[k].layer
    BY <1>3, <2>1, <2>4 DEF ObjectDo
  <2>8. \A p \in d.keeps : m.own[p] = M!None => \E k \in DOMAIN d.requests : k < Len(d.requests) - 1 /\ d.requests[k].layer = p
    BY <1>3, <2>4, <2>7
  <2>. QED BY <1>3, <2>4, <2>5, <2>6, <2>7, <2>8 DEF MovesOut
<1>16. ChangesOnly(n, v, Touched(d))
  <2>1. ASSUME NEW t \in Things \ Touched(d) PROVE Same(v, n, t)
    <3>1. t # Reach(a) /\ t \notin c.about
      BY <1>3, <1>7 DEF Touched
    <3>2. r.do = "dropFolder" => /\ \A l \in DOMAIN n.layers : n.layers[l].folder = a.folder => t # <<"layer", l>>
                                 /\ \A o \in DOMAIN n.own : n.own[o] = a.folder => t # <<"layer", Home[o]>>
      BY <1>0, <1>1, <1>2, <3>1 DEF Claims
    <3>. QED BY <1>1, <3>1, <3>2, EffectIsLocal
  <2>. QED BY <2>1 DEF ChangesOnly
<1>17. Moves(n, v, d.about)
  <2>1. r.do \in {"putLayer", "keepObject", "putObject", "intoFolder"} => <<"folder", a.folder>> \in d.about
    BY <1>0, <1>1, <1>2, <1>3, FirstFits DEF FolderDo
  <2>2. r.do = "addLayer" => a.folder = M!None
    BY <1>0 DEF Serves
  <2>. QED BY <1>1, <2>1, <2>2, EffectMoves
<1>. QED BY <1>2, <1>3, <1>4, <1>6, <1>12, <1>13, <1>14, <1>15, <1>16, <1>17 DEF CommandFits

-----------------------------------------------------------------------------
(* What is left of a command                                                *)

(* A finite set of numbers has a least and a greatest element.              *)
LEMMA LeastAndGreatest ==
  ASSUME NEW P \in SUBSET Nat, IsFiniteSet(P), P # {}
  PROVE  /\ M!Min(P) \in P /\ \A i \in P : M!Min(P) <= i
         /\ M!Max(P) \in P /\ \A i \in P : i <= M!Max(P)
<1>1. PICK n \in Nat : n = Cardinality(P) /\ n # 0
  BY FS_CardinalityType, FS_EmptySet
<1>2. PICK f \in [1..n -> P] : Rises(f)
  BY <1>1, Ordered
<1>3. \A i \in P : \E k \in 1..n : f[k] = i
  BY <1>1, <1>2, RisesOnce
<1>4. ASSUME NEW i \in P PROVE f[1] <= i /\ i <= f[n]
  <2>1. PICK k \in 1..n : f[k] = i
    BY <1>3
  <2>2. f[1] \in Nat /\ f[n] \in Nat /\ f[k] \in Nat /\ 1 \in DOMAIN f /\ n \in DOMAIN f /\ k \in DOMAIN f
    <3>1. 1 \in 1..n /\ n \in 1..n /\ DOMAIN f = 1..n
      BY <1>1
    <3>2. \A x \in 1..n : f[x] \in P
      OBVIOUS
    <3>. QED BY <3>1, <3>2
  <2>3. (1 < k => f[1] < f[k]) /\ (k < n => f[k] < f[n])
    BY <1>2, <2>2 DEF Rises
  <2>. QED BY <1>1, <2>1, <2>2, <2>3
<1>5. f[1] \in P /\ f[n] \in P
  BY <1>1
<1>6. M!Min(P) = CHOOSE x \in P : \A y \in P : x <= y
  BY DEF M!Min
<1>7. M!Max(P) = CHOOSE x \in P : \A y \in P : x >= y
  BY DEF M!Max
<1>8. M!Min(P) \in P /\ \A i \in P : M!Min(P) <= i
  BY <1>4, <1>5, <1>6
<1>9. M!Max(P) \in P /\ \A i \in P : M!Max(P) >= i
  <2>1. \A y \in P : f[n] >= y
    BY <1>1, <1>4
  <2>. QED BY <1>5, <1>7, <2>1
<1>10. \A i \in P : i <= M!Max(P)
  <2>1. \A i \in P : i \in Nat
    OBVIOUS
  <2>. QED BY <1>9, <2>1
<1>. QED BY <1>8, <1>9, <1>10

(* L is q from s.                                                           *)
IsRest(q, L, s) ==
  /\ s \in DOMAIN q /\ L \in Seq(Asking) /\ Len(L) = Len(q) - s + 1 /\ DOMAIN L = 1..(Len(q) - s + 1)
  /\ \A k \in DOMAIN L : s + k - 1 \in DOMAIN q /\ L[k] = q[s + k - 1]

(* The rest of a sequence.                                                  *)
LEMMA RestFromS ==
  ASSUME NEW q \in Seq(Asking), NEW s \in DOMAIN q
  PROVE  IsRest(q, SubSeq(q, s, Len(q)), s)
<1>1. s \in 1..Len(q) /\ Len(q) \in Nat
  OBVIOUS
<1>2. PICK L : L = SubSeq(q, s, Len(q))
  OBVIOUS
<1>3. L \in Seq(Asking) /\ Len(L) = Len(q) - s + 1 /\ \A k \in 1..(Len(q) - s + 1) : L[k] = q[s + k - 1]
  BY <1>1, <1>2, SubSeqProperties
<1>4. DOMAIN L = 1..(Len(q) - s + 1)
  BY <1>3
<1>. QED BY <1>1, <1>2, <1>3, <1>4 DEF IsRest

Leaves(m, q, L) ==
  \/ L = <<>> /\ \A k \in DOMAIN q : ~M!Needed(m, q[k])
  \/ \E s \in DOMAIN q : /\ IsRest(q, L, s) /\ M!Needed(m, q[s])
                         /\ \A k \in DOMAIN q : k < s => ~M!Needed(m, q[k])

(* What is left begins with the first request that is needed.               *)
LEMMA RemainingIs ==
  ASSUME NEW m, NEW q \in Seq(Asking)
  PROVE  Leaves(m, q, M!Remaining(m, q))
<1>1. PICK due : due = {i \in DOMAIN q : M!Needed(m, q[i])}
  OBVIOUS
<1>2. M!Remaining(m, q) = IF due = {} THEN <<>> ELSE SubSeq(q, M!Min(due), Len(q))
  BY <1>1 DEF M!Remaining
<1>3. CASE due = {}
  BY <1>1, <1>2, <1>3 DEF Leaves
<1>4. CASE due # {}
  <2>1. due \in SUBSET Nat /\ IsFiniteSet(due)
    <3>1. IsFiniteSet(1..Len(q)) /\ DOMAIN q = 1..Len(q)
      BY FS_Interval
    <3>2. due \subseteq 1..Len(q)
      BY <1>1
    <3>3. IsFiniteSet(due)
      BY <3>1, <3>2, FS_Subset
    <3>4. \A x \in 1..Len(q) : x \in Nat
      OBVIOUS
    <3>. QED BY <3>2, <3>3, <3>4
  <2>2. PICK s : s = M!Min(due)
    OBVIOUS
  <2>3. s \in due /\ \A i \in due : s <= i
    BY <1>4, <2>1, <2>2, LeastAndGreatest
  <2>4. s \in DOMAIN q /\ M!Needed(m, q[s]) /\ \A k \in DOMAIN q : k < s => ~M!Needed(m, q[k])
    <3>1. s \in DOMAIN q /\ M!Needed(m, q[s]) /\ \A k \in DOMAIN q : M!Needed(m, q[k]) => s <= k
      BY <1>1, <2>3
    <3>2. s \in Nat /\ \A k \in DOMAIN q : k \in Nat
      BY <3>1
    <3>. QED BY <3>1, <3>2
  <2>5. IsRest(q, M!Remaining(m, q), s)
    BY <1>2, <1>4, <2>2, <2>4, RestFromS
  <2>. QED BY <2>4, <2>5 DEF Leaves
<1>. QED BY <1>3, <1>4

(* Only these can be done already.                                          *)
LEMMA AlwaysNeeded ==
  ASSUME NEW m, NEW r, ~M!Needed(m, r)
  PROVE  r.do \in {"patchLayer", "keepObject", "detachObject"}
BY DEF M!Needed

(* What is left of a command that fits, fits.                               *)
Follows(c, d) ==
  /\ d \in Going /\ d.about = c.about /\ d.held = c.held /\ d.keeps = c.keeps /\ d.folder = c.folder
  /\ d.served = FALSE

(* The rest of a command that fits, fits.                                   *)
LEMMA RestFits ==
  ASSUME NEW c \in Going, Fits(c), NEW d, Follows(c, d), NEW s, IsRest(c.requests, d.requests, s),
         s = 1 \/ c.requests[1].do # "addLayer"
  PROVE  Fits(d)
<1>1. c.requests \in Seq(Asking) /\ DOMAIN c.requests = 1..Len(c.requests) /\ Len(c.requests) \in Nat
  BY FirstRequest DEF Fits
<1>2. /\ s \in 1..Len(c.requests) /\ Len(d.requests) = Len(c.requests) - s + 1 /\ DOMAIN d.requests = 1..(Len(c.requests) - s + 1)
      /\ \A k \in DOMAIN d.requests : s + k - 1 \in DOMAIN c.requests /\ d.requests[k] = c.requests[s + k - 1]
  BY <1>1 DEF IsRest
<1>3. d.requests # <<>>
  <2>1. Len(d.requests) # 0
    BY <1>1, <1>2
  <2>. QED BY <2>1
<1>4. ASSUME NEW k \in DOMAIN d.requests, NEW x, x = d.requests[k]
      PROVE  /\ x.do \in LayerDo => <<"layer", x.layer>> \in d.about
             /\ x.do \in ObjectDo => x.layer \in M!Objects /\ <<"layer", Home[x.layer]>> \in d.about
             /\ x.do \in FolderDo => <<"folder", x.folder>> \in d.about
             /\ x.do \in AloneDo => Len(d.requests) = 1
             /\ x.do = "addLayer" =>
                  k = 1 /\ (Len(d.requests) = 1 \/ (Len(d.requests) = 2 /\ d.requests[2].do = "intoFolder"))
             /\ x.do = "intoFolder" => k = Len(d.requests) /\ (k = 1 \/ d.requests[1].do = "addLayer")
  <2>1. PICK j \in DOMAIN c.requests : j = s + k - 1 /\ x = c.requests[j]
    BY <1>2, <1>4
  <2>2. /\ x.do \in LayerDo => <<"layer", x.layer>> \in c.about
        /\ x.do \in ObjectDo => x.layer \in M!Objects /\ <<"layer", Home[x.layer]>> \in c.about
        /\ x.do \in FolderDo => <<"folder", x.folder>> \in c.about
        /\ x.do \in AloneDo => Len(c.requests) = 1
        /\ x.do = "addLayer" =>
             j = 1 /\ (Len(c.requests) = 1 \/ (Len(c.requests) = 2 /\ c.requests[2].do = "intoFolder"))
        /\ x.do = "intoFolder" => j = Len(c.requests) /\ (j = 1 \/ c.requests[1].do = "addLayer")
    BY <2>1 DEF Fits
  <2>3. j \in Nat /\ k \in Nat /\ k >= 1 /\ s >= 1 /\ s \in Nat
    <3>1. k \in 1..(Len(c.requests) - s + 1) /\ s \in 1..Len(c.requests) /\ j \in 1..Len(c.requests)
      BY <1>1, <1>2, <1>4, <2>1
    <3>. QED BY <1>1, <3>1
  <2>4. x.do \in AloneDo => Len(d.requests) = 1
    <3>1. ASSUME Len(c.requests) = 1 PROVE Len(d.requests) = 1
      <4>1. s = 1
        BY <1>2, <3>1
      <4>. QED BY <1>2, <3>1, <4>1
    <3>. QED BY <2>2, <3>1
  <2>5. x.do = "addLayer" => k = 1 /\ (Len(d.requests) = 1 \/ (Len(d.requests) = 2 /\ d.requests[2].do = "intoFolder"))
    <3>1. ASSUME x.do = "addLayer" PROVE k = 1 /\ (Len(d.requests) = 1 \/ (Len(d.requests) = 2 /\ d.requests[2].do = "intoFolder"))
      <4>1. s = 1 /\ k = 1 /\ Len(d.requests) = Len(c.requests)
        BY <1>1, <1>2, <2>1, <2>2, <2>3, <3>1
      <4>2. Len(c.requests) = 2 => d.requests[2] = c.requests[2]
        BY <1>2, <4>1
      <4>. QED BY <2>2, <3>1, <4>1, <4>2
    <3>. QED BY <3>1
  <2>6. x.do = "intoFolder" => k = Len(d.requests) /\ (k = 1 \/ d.requests[1].do = "addLayer")
    <3>1. ASSUME x.do = "intoFolder" PROVE k = Len(d.requests) /\ (k = 1 \/ d.requests[1].do = "addLayer")
      <4>1. k = Len(d.requests)
        BY <1>1, <1>2, <2>1, <2>2, <2>3, <3>1
      <4>2. s = 1 => d.requests[1] = c.requests[1]
        BY <1>1, <1>2
      <4>3. j = 1 => k = 1
        BY <2>1, <2>3
      <4>. QED BY <2>2, <3>1, <4>1, <4>2, <4>3
    <3>. QED BY <3>1
  <2>. QED BY <2>2, <2>4, <2>5, <2>6 DEF Follows
<1>. QED BY <1>3, <1>4 DEF Fits

-----------------------------------------------------------------------------
(* An answer arrives                                                        *)

(* A folder that is put again changes nothing.                              *)
LEMMA SameFolderCounts ==
  ASSUME NEW m, IsMap(m), NEW f \in DOMAIN m.folders, NEW t
  PROVE  Same(WithFolder(m, f, m.folders[f]), m, t)
<1>1. f \in Nat \ {0} /\ m.folders[f] \in BOOLEAN
  BY DEF IsMap
<1>2. PICK v : v = WithFolder(m, f, m.folders[f])
  OBVIOUS
<1>3. DOMAIN v.folders = DOMAIN m.folders \union {f} /\ v.layers = m.layers /\ v.own = m.own
      /\ \A k \in DOMAIN m.folders \union {f} : v.folders[k] = IF k = f THEN m.folders[f] ELSE m.folders[k]
  BY <1>1, <1>2, FolderIsPut
<1>4. Same(v, m, t)
  BY <1>3 DEF Same, SameLayer, SameFolder
<1>. QED BY <1>2, <1>4

(* Two maps that are the same everywhere are equal.                         *)
LEMMA SameEverywhere ==
  ASSUME NEW m, NEW n, IsMap(m), IsMap(n), \A t \in Things : Same(m, n, t),
         \A o \in M!Objects : Home[o] \in Nat
  PROVE  m = n
<1>1. \A l \in Nat : SameLayer(m, n, l)
  <2>1. ASSUME NEW l \in Nat PROVE SameLayer(m, n, l)
    <3>1. <<"layer", l>> \in Things
      BY DEF Things
    <3>2. Same(m, n, <<"layer", l>>)
      BY <3>1
    <3>. QED BY <3>2 DEF Same
  <2>. QED BY <2>1
<1>2. \A f \in Nat : SameFolder(m, n, f)
  <2>1. ASSUME NEW f \in Nat PROVE SameFolder(m, n, f)
    <3>1. <<"folder", f>> \in Things
      BY DEF Things
    <3>2. Same(m, n, <<"folder", f>>)
      BY <3>1
    <3>. QED BY <3>2 DEF Same
  <2>. QED BY <2>1
<1>3. m.layers = n.layers
  <2>1. \A l : l \in DOMAIN m.layers <=> l \in DOMAIN n.layers
    BY <1>1 DEF SameLayer, IsMap
  <2>2. \A l \in DOMAIN m.layers : m.layers[l] = n.layers[l]
    BY <1>1 DEF SameLayer, IsMap
  <2>. QED BY <2>1, <2>2 DEF IsMap
<1>4. m.folders = n.folders
  <2>1. \A f : f \in DOMAIN m.folders <=> f \in DOMAIN n.folders
    BY <1>2 DEF SameFolder, IsMap
  <2>2. \A f \in DOMAIN m.folders : m.folders[f] = n.folders[f]
    BY <1>2 DEF SameFolder, IsMap
  <2>. QED BY <2>1, <2>2 DEF IsMap
<1>5. m.own = n.own
  <2>1. \A o : o \in DOMAIN m.own <=> o \in DOMAIN n.own
    BY <1>1 DEF SameLayer, IsMap
  <2>2. \A o \in DOMAIN m.own : m.own[o] = n.own[o]
    BY <1>1 DEF SameLayer, IsMap
  <2>. QED BY <2>1, <2>2 DEF IsMap
<1>. QED BY <1>3, <1>4, <1>5 DEF IsMap

(* What the client makes of the answer to the first request of a command.   *)
LearntFrom(m, c) == M!Learnt(m, c.requests[1], Len(c.requests) = 1)

Learns(m, n, c, w) ==
  LET r == c.requests[1]
      more == r.do = "addLayer" /\ Len(c.requests) # 1
  IN  /\ IsMap(w) /\ Placed(w) /\ ChangesOnly(m, w, Touched(c)) /\ Moves(m, w, c.about)
      /\ more => w = m
      /\ ~more => \A t \in Touched(c) : Same(w, n, t)
      /\ r.do \notin {"showLayer", "editLayer", "editFolder"} /\ ~more => w = Effect(m, r)

(* The copy has what the server has, of what the command touches.           *)
LEMMA LearntIs ==
  ASSUME NEW m, NEW n, IsMap(m), Placed(m), NEW c \in Going, NEW now, CommandFits(m, n, c, now), Formed(c), c.served,
         NEW w, w = LearntFrom(m, c)
  PROVE  Learns(m, n, c, w)
<1>. SUFFICES ASSUME NEW r, r = c.requests[1]
              PROVE  /\ IsMap(w) /\ Placed(w) /\ ChangesOnly(m, w, Touched(c)) /\ Moves(m, w, c.about)
                     /\ r.do = "addLayer" /\ Len(c.requests) # 1 => w = m
                     /\ ~(r.do = "addLayer" /\ Len(c.requests) # 1) => \A t \in Touched(c) : Same(w, n, t)
                     /\ r.do \notin {"showLayer", "editLayer", "editFolder"} /\ ~(r.do = "addLayer" /\ Len(c.requests) # 1)
                          => w = Effect(m, r)
  BY DEF Learns
<1>0. r \in Asking /\ c.requests # <<>> /\ Fits(c) /\ Known(m, c) /\ Claims(m, c) /\ HasId(r)
  BY FirstRequest DEF CommandFits, Fits, Formed
<1>1. PICK last \in BOOLEAN : (last <=> Len(c.requests) = 1) /\ w = M!Learnt(m, r, last)
  BY DEF LearntFrom
<1>8. /\ r.do = "showLayer" \/ (r.do = "addLayer" /\ ~last) => w = m
      /\ r.do = "editLayer" /\ r.layer \in DOMAIN m.layers => w = WithRow(m, r.layer, [on |-> r.on, folder |-> r.folder])
      /\ r.do = "editFolder" /\ r.folder \in DOMAIN m.folders => w = WithFolder(m, r.folder, r.on)
  BY <1>0, <1>1, LearntOtherwise
<1>10. AddsNew(m, r)
  <2>1. /\ r.do \in {"addLayer", "intoFolder"} => <<"layer", r.layer>> \in Fresh(c)
        /\ r.do = "addFolder" => <<"folder", r.folder>> \in Fresh(c)
    BY DEF Fresh
  <2>. QED BY <1>0, <2>1 DEF Known, There, AddsNew
<1>9. r.do \notin {"showLayer", "editLayer", "editFolder"} /\ (r.do = "addLayer" => last) => w = Effect(m, r)
  BY <1>0, <1>1, <1>10, LearntIsTheEffect
<1>2. IsMap(w)
  BY <1>0, <1>1, LearntIsAMap
<1>3. /\ r.do \in LayerDo => r.layer \in DOMAIN m.layers
      /\ r.do \in FolderDo => r.folder \in DOMAIN m.folders /\ <<"folder", r.folder>> \in c.about
      /\ r.do = "addLayer" => r.folder = M!None
      /\ r.do = "editLayer" => m.layers[r.layer] = [on |-> r.on, folder |-> r.folder]
      /\ r.do = "editFolder" => m.folders[r.folder] = r.on
  <2>1. r.do = "addLayer" => r.folder = M!None
    BY <1>0, FirstRequest DEF Formed
  <2>. QED BY <1>0, <2>1, KnownFolder, FirstFits DEF Known
<1>4. \A t \in Touched(c) : Same(Ended(m, r), n, t)
  BY DEF CommandFits, Expected
<1>5. CASE r.do = "addLayer" /\ ~last
  <2>1. w = m
    BY <1>5, <1>8
  <2>. QED BY <1>1, <1>2, <1>5, <2>1, NothingChanges, NothingMoves
<1>6. CASE r.do \in {"showLayer", "editLayer", "editFolder"}
  <2>1. \A t : Same(w, m, t)
    <3>1. CASE r.do = "showLayer"
      BY <1>8, <3>1, SameIsSame
    <3>2. CASE r.do = "editLayer"
      BY <1>3, <1>8, <3>2, SameRowCounts DEF LayerDo
    <3>3. CASE r.do = "editFolder"
      BY <1>3, <1>8, <3>3, SameFolderCounts DEF FolderDo
    <3>. QED BY <1>6, <3>1, <3>2, <3>3
  <2>2. w.own = m.own /\ Moves(m, w, c.about) /\ Placed(w)
    <3>1. CASE r.do = "showLayer"
      <4>1. w = m
        BY <1>8, <3>1
      <4>. QED BY <4>1, NothingMoves
    <3>2. CASE r.do = "editLayer"
      <4>1. PICK l \in DOMAIN m.layers : l = r.layer /\ w = WithRow(m, l, m.layers[l])
        BY <1>3, <1>8, <3>2 DEF LayerDo
      <4>2. l \in Nat \ {0} /\ m.layers[l] \in Row
        BY <4>1 DEF IsMap
      <4>3. PICK row \in Row : row = m.layers[l]
        BY <4>2
      <4>4. w = WithRow(m, l, row)
        BY <4>1, <4>3
      <4>5. DOMAIN w.layers = DOMAIN m.layers \union {l} /\ w.folders = m.folders /\ w.own = m.own
            /\ \A k \in DOMAIN m.layers \union {l} : w.layers[k] = IF k = l THEN row ELSE m.layers[k]
        BY <1>0, <4>2, <4>4, RowIsPut
      <4>. QED BY <1>0, <4>1, <4>3, <4>5 DEF Moves, Placed
    <3>3. CASE r.do = "editFolder"
      <4>1. PICK f \in DOMAIN m.folders : f = r.folder /\ w = WithFolder(m, f, m.folders[f])
        BY <1>3, <1>8, <3>3 DEF FolderDo
      <4>2. f \in Nat \ {0} /\ m.folders[f] \in BOOLEAN
        BY <4>1 DEF IsMap
      <4>4. PICK on \in BOOLEAN : on = m.folders[f]
        BY <4>2
      <4>5. w = WithFolder(m, f, on)
        BY <4>1, <4>4
      <4>3. DOMAIN w.folders = DOMAIN m.folders \union {f} /\ w.layers = m.layers /\ w.own = m.own
        BY <4>2, <4>5, FolderIsPut
      <4>. QED BY <4>1, <4>3 DEF Moves, Placed
    <3>. QED BY <1>6, <3>1, <3>2, <3>3
  <2>3. Ended(m, r) = m
    BY <1>6 DEF Ended, Effect
  <2>4. \A t \in Touched(c) : Same(w, n, t)
    BY <1>4, <2>1, <2>3, SameAsTheSame
  <2>. QED BY <1>1, <1>2, <1>6, <2>1, <2>2, <2>4 DEF ChangesOnly
<1>7. CASE r.do \notin {"showLayer", "editLayer", "editFolder"} /\ (r.do = "addLayer" => last)
  <2>1. w = Effect(m, r) /\ Ended(m, r) = Effect(m, r)
    BY <1>7, <1>9, <1>10 DEF Ended
  <2>2. Placed(w)
    <3>1. r.do \in {"putLayer", "intoFolder"} => r.folder \in DOMAIN m.folders
      BY <1>3 DEF FolderDo
    <3>. QED BY <1>0, <1>3, <2>1, <3>1, EffectIsPlaced
  <2>3. ChangesOnly(m, w, Touched(c))
    <3>1. ASSUME NEW t \in Things \ Touched(c) PROVE Same(w, m, t)
      <4>1. t # Reach(r) /\ t \notin c.about
        BY <1>0, ReachIsTouched DEF Touched
      <4>2. r.do = "dropFolder" => /\ \A l \in DOMAIN m.layers : m.layers[l].folder = r.folder => t # <<"layer", l>>
                                   /\ \A o \in DOMAIN m.own : m.own[o] = r.folder => t # <<"layer", Home[o]>>
        BY <1>0, <4>1 DEF Claims
      <4>. QED BY <1>0, <2>1, <4>1, <4>2, EffectIsLocal
    <3>. QED BY <3>1 DEF ChangesOnly
  <2>4. Moves(m, w, c.about)
    <3>1. r.do \in {"putLayer", "keepObject", "putObject", "intoFolder"} => <<"folder", r.folder>> \in c.about
      BY <1>3 DEF FolderDo
    <3>. QED BY <1>0, <1>3, <2>1, <3>1, EffectMoves
  <2>. QED BY <1>1, <1>2, <1>4, <1>7, <2>1, <2>2, <2>3, <2>4
<1>. QED BY <1>1, <1>5, <1>6, <1>7

(* An object that moves out of the folder of its layer still does so when   *)
(* the first request of the command is done.                                *)
LEMMA MovesOnOut ==
  ASSUME NEW m, IsMap(m), NEW c \in Going, Known(m, c), MovesOut(m, c), NEW w, w = Effect(m, c.requests[1]),
         NEW d, Follows(c, d), NEW s, IsRest(c.requests, d.requests, s), s # 1,
         \A k \in DOMAIN c.requests : k # 1 /\ k < s => ~M!Needed(w, c.requests[k])
  PROVE  MovesOut(w, d)
<1>1. SUFFICES ASSUME c.keeps # {}, c.folder # M!None PROVE MovesOut(w, d)
  BY DEF MovesOut, Follows
<1>2. PICK q, N, L : q = c.requests /\ N = Len(q) /\ L = d.requests
  OBVIOUS
<1>3. /\ q \in Seq(Asking) /\ N \in Nat /\ DOMAIN q = 1..N /\ s \in 2..N /\ Len(L) = N - s + 1 /\ DOMAIN L = 1..(N - s + 1)
      /\ \A k \in DOMAIN L : s + k - 1 \in DOMAIN q /\ L[k] = q[s + k - 1]
  <2>1. q \in Seq(Asking) /\ N \in Nat /\ DOMAIN q = 1..N
    BY <1>2 DEF Going
  <2>2. IsRest(q, L, s)
    BY <1>2
  <2>3. s \in 2..N
    BY <2>1, <2>2 DEF IsRest
  <2>. QED BY <1>2, <2>1, <2>2, <2>3 DEF IsRest
<1>4. PICK l \in Nat :
        /\ <<"layer", l>> \in c.about
        /\ \A p \in c.keeps : p \in DOMAIN m.own /\ Home[p] = l /\ m.own[p] \in {M!None, c.folder}
        /\ q[N].do \in {"putObject", "detachObject"} /\ q[N].layer \notin c.keeps
        /\ \A n \in DOMAIN q : n = N - 1 => q[n].do = "detachLayer" /\ q[n].layer = l
        /\ \A n \in DOMAIN q : n < N - 1 => q[n].do = "keepObject" /\ q[n].folder = c.folder
        /\ m.layers[l].folder = IF N = 1 THEN M!None ELSE c.folder
        /\ \A p \in c.keeps : m.own[p] = M!None => \E n \in DOMAIN q : n < N - 1 /\ q[n].layer = p
  BY <1>1, <1>2 DEF MovesOut
<1>5. l \in DOMAIN m.layers /\ l \in Nat \ {0} /\ m.layers[l] \in Row /\ m.layers[l].folder = c.folder
  <2>1. There(m, <<"layer", l>>)
    BY <1>4 DEF Known
  <2>. QED BY <1>3, <1>4, <2>1 DEF There, IsMap
<1>6. /\ L[Len(L)] = q[N]
      /\ \A k \in DOMAIN L : (k = Len(L) - 1 <=> s + k - 1 = N - 1) /\ (k < Len(L) - 1 <=> s + k - 1 < N - 1)
  <2>1. Len(L) \in DOMAIN L /\ s + Len(L) - 1 = N
    BY <1>3
  <2>2. L[Len(L)] = q[s + Len(L) - 1]
    BY <1>3, <2>1
  <2>3. ASSUME NEW k \in DOMAIN L
        PROVE  (k = Len(L) - 1 <=> s + k - 1 = N - 1) /\ (k < Len(L) - 1 <=> s + k - 1 < N - 1)
    BY <1>3, SMTT(30)
  <2>. QED BY <2>1, <2>2, <2>3
<1>7. /\ L[Len(L)].do \in {"putObject", "detachObject"} /\ L[Len(L)].layer \notin c.keeps
      /\ \A n \in DOMAIN L : n = Len(L) - 1 => L[n].do = "detachLayer" /\ L[n].layer = l
      /\ \A n \in DOMAIN L : n < Len(L) - 1 => L[n].do = "keepObject" /\ L[n].folder = c.folder
  BY <1>3, <1>4, <1>6
<1>8. /\ \A p \in c.keeps : p \in DOMAIN w.own /\ w.own[p] \in {M!None, c.folder}
      /\ w.layers[l].folder = IF Len(L) = 1 THEN M!None ELSE c.folder
      /\ \A p \in c.keeps : w.own[p] = M!None => \E n \in DOMAIN L : n < Len(L) - 1 /\ L[n].layer = p
  <2>1. CASE N = 2
    <3>1. q[1].do = "detachLayer" /\ q[1].layer = l /\ Len(L) = 1
      BY <1>3, <1>4, <2>1
    <3>2. PICK x \in Row : x = [on |-> m.layers[l].on, folder |-> M!None]
      BY <1>5 DEF Row, M!None
    <3>3. w = WithRow(m, l, x)
      BY <1>2, <1>5, <3>1, <3>2 DEF Effect
    <3>4. w.own = m.own /\ w.layers[l] = x
      BY <1>5, <3>3, RowIsPut
    <3>5. ASSUME NEW p \in c.keeps PROVE m.own[p] # M!None
      <4>1. ASSUME m.own[p] = M!None PROVE FALSE
        <5>1. PICK n \in 1..2 : n < 2 - 1
          BY <1>3, <1>4, <2>1, <4>1
        <5>. QED BY <5>1
      <4>. QED BY <4>1
    <3>. QED BY <1>4, <3>1, <3>2, <3>4, <3>5
  <2>2. CASE N # 2
    <3>1. N > 2 /\ 1 \in DOMAIN q /\ N - 1 \in DOMAIN q /\ N - 1 # 1
      BY <1>3, <2>2
    <3>2. q[1].do = "keepObject" /\ q[1].folder = c.folder
      BY <1>3, <1>4, <3>1
    <3>3. s < N
      <4>1. ASSUME s = N PROVE FALSE
        <5>1. ~M!Needed(w, q[N - 1])
          <6>1. N - 1 < s
            BY <1>3, <4>1
          <6>. QED BY <1>2, <3>1, <6>1
        <5>2. q[N - 1].do = "detachLayer"
          BY <1>4, <3>1
        <5>. QED BY <5>1, <5>2, AlwaysNeeded
      <4>. QED BY <1>3, <4>1
    <3>4. Len(L) # 1
      BY <1>3, <3>3
    <3>5. PICK o : o = q[1].layer
      OBVIOUS
    <3>6. w = IF o \in DOMAIN m.own THEN WithOwn(m, o, c.folder) ELSE m
      BY <1>2, <3>2, <3>5 DEF Effect
    <3>7. /\ w.layers = m.layers /\ DOMAIN m.own \subseteq DOMAIN w.own
          /\ \A k \in DOMAIN m.own : w.own[k] = IF k = o THEN c.folder ELSE m.own[k]
      <4>1. CASE o \notin DOMAIN m.own
        BY <3>6, <4>1
      <4>2. CASE o \in DOMAIN m.own
        <5>1. o \in M!Objects /\ c.folder \in Nat
          BY <4>2 DEF IsMap, Going
        <5>. QED BY <3>6, <4>2, <5>1, OwnIsPut
      <4>. QED BY <4>1, <4>2
    <3>8. ASSUME NEW p \in c.keeps, w.own[p] = M!None PROVE \E n \in DOMAIN L : n < Len(L) - 1 /\ L[n].layer = p
      <4>1. p # o /\ m.own[p] = M!None /\ p \in DOMAIN w.own
        BY <1>1, <1>4, <3>7, <3>8
      <4>2. PICK n \in DOMAIN q : n < N - 1 /\ q[n].layer = p
        BY <1>4, <4>1
      <4>3. n # 1 /\ q[n].do = "keepObject"
        BY <1>4, <3>5, <4>1, <4>2
      <4>4. M!Needed(w, q[n])
        BY <3>8, <4>1, <4>2, <4>3 DEF M!Needed
      <4>5. ~(n < s)
        BY <1>2, <4>3, <4>4
      <4>6. PICK k \in DOMAIN L : s + k - 1 = n
        <5>1. n - s + 1 \in DOMAIN L /\ s + (n - s + 1) - 1 = n
          BY <1>3, <4>2, <4>5
        <5>. QED BY <5>1
      <4>. QED BY <1>3, <1>6, <4>2, <4>6
    <3>. QED BY <1>4, <1>5, <3>4, <3>7, <3>8
  <2>. QED BY <2>1, <2>2
<1>. QED BY <1>2, <1>4, <1>7, <1>8 DEF MovesOut, Follows

(* The command c goes on as d.                                              *)
GoesOn(w, n, c, d, now) == CommandFits(w, n, d, now) /\ Touched(d) = Touched(c)

(* The next request of a command is sent.                                   *)
LEMMA RestArrives ==
  ASSUME NEW m, NEW n, IsMap(m), Placed(m), NEW c \in Going, NEW now, CommandFits(m, n, c, now), Formed(c), c.served,
         NEW w, w = LearntFrom(m, c), c.requests[1].do # "addLayer",
         NEW d, Follows(c, d), NEW s, IsRest(c.requests, d.requests, s), s # 1,
         \A k \in DOMAIN c.requests : k # 1 /\ k < s => ~M!Needed(w, c.requests[k])
  PROVE  GoesOn(w, n, c, d, now)
<1>0. PICK r \in Asking : r = c.requests[1]
  BY FirstRequest DEF CommandFits, Fits
<1>1. Fits(c) /\ Known(m, c) /\ MovesOut(m, c) /\ c.held = now
  BY DEF CommandFits
<1>2. /\ c.requests \in Seq(Asking) /\ DOMAIN c.requests = 1..Len(c.requests) /\ Len(c.requests) \in Nat
      /\ s \in 2..Len(c.requests) /\ DOMAIN d.requests = 1..(Len(c.requests) - s + 1)
      /\ 1 \in DOMAIN d.requests /\ d.requests[1] = c.requests[s] /\ d.requests # <<>>
  <2>1. c.requests \in Seq(Asking) /\ DOMAIN c.requests = 1..Len(c.requests) /\ Len(c.requests) \in Nat
    BY <1>1, FirstRequest DEF Fits
  <2>2. s \in 2..Len(c.requests)
    BY <2>1 DEF IsRest
  <2>3. DOMAIN d.requests = 1..(Len(c.requests) - s + 1) /\ \A k \in DOMAIN d.requests : d.requests[k] = c.requests[s + k - 1]
    BY DEF IsRest
  <2>4. 1 \in DOMAIN d.requests /\ s + 1 - 1 = s
    BY <2>1, <2>2, <2>3
  <2>. QED BY <2>1, <2>2, <2>3, <2>4
<1>3. Len(c.requests) # 1
  BY <1>2
<1>4. r.do \notin AloneDo /\ r.do # "intoFolder"
  BY <1>0, <1>1, <1>3, FirstFits
<1>5. w = Effect(m, r) /\ \A t \in Touched(c) : Same(w, n, t)
  <2>1. Learns(m, n, c, w)
    BY LearntIs
  <2>. QED BY <1>0, <1>3, <1>4, <2>1 DEF AloneDo, Learns
<1>6. Fits(d)
  BY <1>0, <1>1, RestFits
<1>7. PICK x \in Asking : x = d.requests[1]
  BY <1>2 DEF Follows
<1>8. x.do \notin AloneDo /\ x.do # "intoFolder" /\ x.do # "addLayer"
  <2>1. s \in DOMAIN c.requests /\ x = c.requests[s]
    BY <1>2, <1>7
  <2>2. x.do \in AloneDo => Len(c.requests) = 1
    BY <1>1, <2>1 DEF Fits
  <2>3. x.do = "intoFolder" => s = 1 \/ c.requests[1].do = "addLayer"
    BY <1>1, <2>1 DEF Fits
  <2>4. x.do = "addLayer" => s = 1
    BY <1>1, <2>1 DEF Fits
  <2>. QED BY <1>0, <1>2, <1>3, <2>2, <2>3, <2>4
<1>9. d.about = c.about /\ d.held = c.held /\ ~d.served
  BY DEF Follows
<1>10. Fresh(c) = {} /\ Fresh(d) = {}
  BY <1>0, <1>4, <1>7, <1>8, <1>9 DEF Fresh, AloneDo
<1>11. Touched(d) = Touched(c)
  BY <1>9, <1>10 DEF Touched
<1>12. Known(w, d)
  <2>1. ASSUME NEW t \in d.about PROVE There(w, t)
    <3>1. There(m, t) /\ t \in Things
      BY <1>1, <1>9, FirstRequest DEF Known, Fits
    <3>2. HasId(r)
      BY <1>0 DEF Formed
    <3>. QED BY <1>4, <1>5, <3>1, <3>2, EffectKeeps DEF AloneDo
  <2>2. x.do # "showLayer"
    BY <1>8 DEF AloneDo
  <2>. QED BY <1>7, <1>9, <1>10, <2>1, <2>2 DEF Known
<1>13. Claims(w, d) /\ Claims(n, d)
  BY <1>7, <1>8 DEF Claims, AloneDo
<1>14. MovesOut(w, d)
  BY <1>0, <1>1, <1>5, MovesOnOut
<1>15. ASSUME NEW t \in Touched(d) PROVE Same(Expected(w, d), n, t)
  <2>1. Expected(w, d) = w
    BY <1>7, <1>8, <1>9 DEF Expected, Begun, AloneDo
  <2>. QED BY <1>5, <1>11, <2>1
<1>. QED BY <1>1, <1>6, <1>9, <1>11, <1>12, <1>13, <1>14, <1>15 DEF CommandFits, GoesOn

(* A folder is switched, and now the layers that are in it.                 *)
Switches(w, f, on, q) ==
  \A k \in DOMAIN q : /\ q[k].do = "patchLayer" /\ q[k].on = on
                      /\ q[k].layer \in DOMAIN w.layers /\ w.layers[q[k].layer].folder = f

(* The layers of the folder are still to be switched.                       *)
LEMMA SwitchArrives ==
  ASSUME NEW m, NEW n, IsMap(m), Placed(m), NEW c \in Going, NEW now, CommandFits(m, n, c, now), Formed(c), c.served,
         NEW w, w = LearntFrom(m, c), c.requests[1].do = "showFolder",
         NEW d, Follows(c, d), d.requests # <<>>, NEW on, Switches(w, c.requests[1].folder, on, d.requests)
  PROVE  GoesOn(w, n, c, d, now)
<1>0. PICK r \in Asking : r = c.requests[1]
  BY FirstRequest DEF CommandFits, Fits
<1>1. Fits(c) /\ Known(m, c) /\ Claims(m, c) /\ MovesOut(m, c) /\ c.held = now /\ HasId(r)
  BY <1>0 DEF CommandFits, Formed
<1>2. w = Effect(m, r) /\ \A t \in Touched(c) : Same(w, n, t)
  <2>1. Learns(m, n, c, w)
    BY LearntIs
  <2>. QED BY <1>0, <2>1 DEF Learns
<1>3. d.about = c.about /\ d.held = c.held /\ ~d.served /\ d.keeps = c.keeps /\ d.folder = c.folder /\ d \in Going
      /\ d.requests[1] \in Asking /\ 1 \in DOMAIN d.requests
  BY FirstRequest DEF Follows
<1>4. w.layers = m.layers
  <2>1. r.folder \in DOMAIN m.folders /\ r.folder \in Nat \ {0} /\ r.on \in BOOLEAN
    BY <1>0, <1>1, KnownFolder DEF FolderDo, IsMap, Asking
  <2>2. w = WithFolder(m, r.folder, r.on)
    BY <1>0, <1>2, <2>1 DEF Effect
  <2>. QED BY <2>1, <2>2, FolderIsPut
<1>5. \A k \in DOMAIN d.requests : d.requests[k].do = "patchLayer" /\ <<"layer", d.requests[k].layer>> \in d.about
  BY <1>0, <1>1, <1>3, <1>4 DEF Switches, Claims
<1>6. Fits(d)
  BY <1>5 DEF Fits, LayerDo, ObjectDo, FolderDo, AloneDo
<1>7. d.requests[1].do = "patchLayer"
  BY <1>3, <1>5
<1>8. Fresh(c) = {} /\ Fresh(d) = {}
  BY <1>0, <1>7 DEF Fresh
<1>9. Touched(d) = Touched(c)
  BY <1>3, <1>8 DEF Touched
<1>10. Known(w, d)
  <2>1. ASSUME NEW t \in d.about PROVE There(w, t)
    <3>1. There(m, t) /\ t \in Things
      BY <1>1, <1>3, FirstRequest DEF Known, Fits
    <3>. QED BY <1>0, <1>1, <1>2, <3>1, EffectKeeps
  <2>. QED BY <1>3, <1>7, <1>8, <2>1 DEF Known
<1>11. Claims(w, d) /\ Claims(n, d)
  BY <1>7 DEF Claims
<1>12. MovesOut(w, d)
  <2>1. Len(c.requests) = 1
    BY <1>0, <1>1, FirstFits DEF AloneDo
  <2>. QED BY <1>1, <1>3, <2>1 DEF MovesOut
<1>13. \A t \in Touched(d) : Same(Expected(w, d), n, t)
  <2>1. Expected(w, d) = w
    BY <1>3, <1>7 DEF Expected, Begun
  <2>. QED BY <1>2, <1>9, <2>1
<1>. QED BY <1>1, <1>3, <1>6, <1>9, <1>10, <1>11, <1>12, <1>13 DEF CommandFits, GoesOn

(* A layer is added, and now put into its folder.                           *)
LEMMA AddedArrives ==
  ASSUME NEW m, NEW n, IsMap(m), Placed(m), NEW c \in Going, NEW now, CommandFits(m, n, c, now), Formed(c), c.served,
         c.requests[1].do = "addLayer", Len(c.requests) # 1,
         NEW d, Follows(c, d), d.requests = <<[c.requests[2] EXCEPT !.layer = c.requests[1].layer]>>
  PROVE  GoesOn(m, n, c, d, now)
<1>0. PICK r \in Asking : r = c.requests[1]
  BY FirstRequest DEF CommandFits, Fits
<1>1. Fits(c) /\ Known(m, c) /\ Claims(m, c) /\ MovesOut(m, c) /\ c.held = now /\ HasId(r)
      /\ \A t \in Touched(c) : Same(Expected(m, c), n, t)
  BY <1>0 DEF CommandFits, Formed
<1>2. Len(c.requests) = 2 /\ c.requests[2].do = "intoFolder" /\ 2 \in DOMAIN c.requests /\ 1 \in DOMAIN c.requests
      /\ c.requests[2] \in Asking /\ r.on = TRUE /\ r.folder = M!None
  <2>1. 1 \in DOMAIN c.requests /\ c.requests \in Seq(Asking)
    BY <1>1, FirstRequest DEF Fits
  <2>2. Len(c.requests) = 2 /\ c.requests[2].do = "intoFolder"
    BY <1>1, <2>1 DEF Fits
  <2>. QED BY <1>0, <2>1, <2>2 DEF Formed
<1>3. PICK x : x = [c.requests[2] EXCEPT !.layer = r.layer]
  OBVIOUS
<1>4. x \in Asking /\ x.do = "intoFolder" /\ x.layer = r.layer /\ x.folder = c.requests[2].folder
  BY <1>2, <1>3 DEF Asking
<1>5. d.requests = <<x>> /\ DOMAIN d.requests = {1} /\ Len(d.requests) = 1 /\ d.requests[1] = x /\ d.requests # <<>>
  BY <1>0, <1>3
<1>6. d.about = c.about /\ d.held = c.held /\ ~d.served /\ d.keeps = c.keeps /\ d.folder = c.folder
  BY DEF Follows
<1>7. <<"folder", x.folder>> \in d.about
  BY <1>1, <1>2, <1>4, <1>6 DEF Fits, FolderDo
<1>8. Fits(d)
  BY <1>4, <1>5, <1>7 DEF Fits, LayerDo, ObjectDo, FolderDo, AloneDo
<1>9. Fresh(d) = {<<"layer", r.layer>>} /\ Fresh(c) = {<<"layer", r.layer>>}
  BY <1>0, <1>4, <1>5 DEF Fresh
<1>10. Touched(d) = Touched(c)
  BY <1>6, <1>9 DEF Touched
<1>11. Known(m, d)
  <2>1. \A t \in d.about : There(m, t)
    BY <1>1, <1>6 DEF Known
  <2>2. \A t \in Fresh(d) : ~There(m, t) /\ t[2] # 0 /\ (t[1] = "layer" => \A o \in M!Objects : Home[o] # t[2])
    BY <1>1, <1>9 DEF Known
  <2>. QED BY <1>4, <1>5, <1>6, <2>1, <2>2 DEF Known
<1>12. Claims(m, d) /\ Claims(n, d)
  BY <1>4, <1>5 DEF Claims
<1>13. MovesOut(m, d)
  BY <1>1, <1>2, <1>6 DEF MovesOut
<1>14. Expected(m, d) = Expected(m, c)
  <2>1. Expected(m, d) = WithRow(m, r.layer, [on |-> TRUE, folder |-> M!None])
    <3>1. Expected(m, d) = Begun(m, x)
      BY <1>5, <1>6 DEF Expected
    <3>. QED BY <1>4, <3>1, BegunIs
  <2>2. Expected(m, c) = Effect(m, r)
    <3>1. Expected(m, c) = Ended(m, r)
      BY <1>0 DEF Expected
    <3>. QED BY <1>0, <3>1 DEF Ended
  <2>3. Effect(m, r) = WithRow(m, r.layer, [on |-> TRUE, folder |-> M!None])
    BY <1>0, <1>2 DEF Effect
  <2>. QED BY <2>1, <2>2, <2>3
<1>. QED BY <1>1, <1>6, <1>8, <1>10, <1>11, <1>12, <1>13, <1>14 DEF CommandFits, GoesOn

-----------------------------------------------------------------------------
(* The steps of the model of the map                                        *)

(* What a request is about stays with its command when it is served.        *)
LEMMA CalmServes ==
  ASSUME NEW m, NEW n, IsMap(m), IsMap(n), NEW q \in Seq(Going), NEW now, Calm(m, n, q, now),
         NEW i \in DOMAIN q, NEW c, c = q[i], ~c.served,
         NEW a, NEW v, Serves(m, n, c, a, v), NEW d, d = Serving(c, a)
  PROVE  Calm(m, v, [q EXCEPT ![i] = d], now)
<1>1. c \in Going /\ CommandFits(m, n, c, now) /\ Placed(m) /\ c.requests # <<>>
  <2>1. c \in Going /\ CommandFits(m, n, c, now) /\ Placed(m)
    BY DEF Calm
  <2>. QED BY <2>1 DEF CommandFits, Fits
<1>2. /\ CommandFits(m, v, d, now) /\ Touched(c) \subseteq Touched(d)
      /\ ChangesOnly(n, v, Touched(d)) /\ Moves(n, v, d.about)
  BY <1>1, ServingFits
<1>3. a \in Asking /\ a.do = c.requests[1].do /\ (c.requests[1].do # "addLayer" => a.layer = c.requests[1].layer)
  BY DEF Serves, Answers
<1>4. d \in Going /\ d.served = TRUE /\ d.about = c.about /\ d.requests[1] = a
  <2>1. IsServing(c, a, d)
    BY <1>1, <1>3, ServingIs
  <2>. QED BY <2>1 DEF IsServing
<1>5. ASSUME NEW t \in Fresh(d), t \notin Fresh(c) PROVE ~There(m, t) /\ ~There(n, t)
  <2>1. a.do # "intoFolder"
    BY <1>3, <1>4, <1>5 DEF Fresh
  <2>2. CASE a.do = "addLayer"
    <3>1. t = <<"layer", a.layer>>
      BY <1>4, <1>5, <2>2 DEF Fresh
    <3>2. a.layer \notin DOMAIN m.layers /\ a.layer \notin DOMAIN n.layers
      BY <1>3, <2>2 DEF Serves, IsNew
    <3>. QED BY <3>1, <3>2 DEF There
  <2>3. CASE a.do = "addFolder"
    <3>1. t = <<"folder", a.folder>>
      BY <1>4, <1>5, <2>3 DEF Fresh
    <3>2. a.folder \notin DOMAIN m.folders /\ a.folder \notin DOMAIN n.folders
      BY <1>3, <2>3 DEF Serves, IsNew
    <3>. QED BY <3>1, <3>2 DEF There
  <2>. QED BY <1>4, <1>5, <2>1, <2>2, <2>3 DEF Fresh
<1>6. ASSUME NEW j \in DOMAIN q, j # i PROVE Touched(q[j]) \intersect Touched(d) = {}
  <2>1. Touched(q[j]) \intersect Touched(c) = {} /\ CommandFits(m, n, q[j], now) /\ q[j] \in Going
    BY <1>6 DEF Calm
  <2>2. ASSUME NEW t \in Touched(q[j]), t \in Touched(d) PROVE FALSE
    <3>1. t \in Fresh(d) /\ t \notin Fresh(c)
      BY <1>4, <2>1, <2>2 DEF Touched
    <3>2. ~There(m, t) /\ ~There(n, t)
      BY <1>5, <3>1
    <3>3. t \in q[j].about => There(m, t)
      BY <2>1 DEF CommandFits, Known
    <3>4. t \in Fresh(q[j]) => There(n, t)
      BY <2>1, FreshIsThere
    <3>. QED BY <2>2, <3>2, <3>3, <3>4 DEF Touched
  <2>. QED BY <2>2
<1>7. ChangesOnly(m, m, Touched(d)) /\ Moves(m, m, d.about)
  BY NothingChanges, NothingMoves
<1>. QED BY <1>1, <1>2, <1>4, <1>6, <1>7, CalmGoesOn

(* The ids that the server gives out are new.                               *)
LEMMA NewIdIsNew ==
  ASSUME M!MapModelAssumption, IsMap(model), IsMap(copied), NEW r \in Asking
  PROVE  IsNew(model, copied, r, M!NewId(r))
<1>1. /\ IsFiniteSet(M!ToSet(Home)) /\ M!ToSet(Home) \subseteq Nat
      /\ \A o \in M!Objects : Home[o] \in M!ToSet(Home)
  <2>1. \A o \in M!Objects : Home[o] \in 1..MaxLayers
    BY DEF M!MapModelAssumption
  <2>2. MaxLayers \in Nat
    BY DEF M!MapModelAssumption
  <2>3. IsFiniteSet(1..MaxLayers)
    BY <2>2, FS_Interval
  <2>4. M!ToSet(Home) \in SUBSET (1..MaxLayers)
    BY <2>1 DEF M!ToSet, M!Objects
  <2>5. IsFiniteSet(M!ToSet(Home))
    BY <2>3, <2>4, FS_Subset
  <2>. QED BY <2>2, <2>4, <2>5 DEF M!ToSet, M!Objects
<1>2. PICK D : D = IF r.do = "addLayer" THEN DOMAIN copied.layers \union DOMAIN model.layers \union M!ToSet(Home)
                   ELSE DOMAIN copied.folders \union DOMAIN model.folders
  OBVIOUS
<1>3. IsFiniteSet(D) /\ D \subseteq Nat
  <2>1. IsFiniteSet(DOMAIN copied.layers \union DOMAIN model.layers) /\ IsFiniteSet(DOMAIN copied.folders \union DOMAIN model.folders)
    BY FS_Union DEF IsMap
  <2>2. IsFiniteSet(DOMAIN copied.layers \union DOMAIN model.layers \union M!ToSet(Home))
    BY <1>1, <2>1, FS_Union
  <2>3. IsFiniteSet(D)
    BY <1>2, <2>1, <2>2
  <2>. QED BY <1>1, <1>2, <2>3 DEF IsMap
<1>4. PICK P : P = {0} \union D
  OBVIOUS
<1>5. P \in SUBSET Nat /\ IsFiniteSet(P) /\ P # {}
  <2>1. IsFiniteSet(D \union {0})
    BY <1>3, FS_AddElement
  <2>2. P = D \union {0} /\ 0 \in P
    BY <1>4
  <2>. QED BY <1>3, <2>1, <2>2
<1>6. M!Max(P) \in Nat /\ \A i \in P : i <= M!Max(P)
  BY <1>5, LeastAndGreatest
<1>7. M!NewId(r) = M!Max(P) + 1
  BY <1>2, <1>4 DEF M!NewId
<1>8. M!NewId(r) \in Nat \ {0} /\ \A i \in P : i # M!NewId(r)
  BY <1>5, <1>6, <1>7
<1>. QED BY <1>1, <1>2, <1>4, <1>8 DEF IsNew

(* The server does a request.                                               *)
LEMMA MapServed ==
  ASSUME M!MapModelAssumption, ModelInv, NEW i \in DOMAIN commands, M!Serve(i),
         NEW c, c = commands[i]
  PROVE  /\ c \in Going /\ c.requests # <<>> /\ ~c.served /\ Head(c.requests) = c.requests[1]
         /\ \E a : /\ Serves(model, copied, c, a, copied')
                   /\ a \in Asking /\ HasId(a) /\ IsMap(copied') /\ Placed(copied')
                   /\ commands' = [commands EXCEPT ![i] = Serving(c, a)]
<1>1. c \in Going /\ c.requests # <<>> /\ Formed(c) /\ IsMap(model) /\ IsMap(copied) /\ Placed(copied)
  BY DEF ModelInv, ModelTyped, Formed
<1>2. PICK r \in Asking : r = c.requests[1] /\ r = Head(c.requests) /\ 1 \in DOMAIN c.requests
  BY <1>1, FirstRequest
<1>3. PICK new : new = M!NewId(r)
  OBVIOUS
<1>4. IsNew(model, copied, r, new)
  BY <1>1, <1>3, NewIdIsNew
<1>5. /\ ~c.served /\ Accepted(copied, r) /\ copied' = M!Done(copied, r, new)
      /\ commands' = [commands EXCEPT ![i].served = TRUE, ![i].requests[1] = M!Answer(copied', r, new)]
  BY <1>2, <1>3 DEF M!Serve, M!Accepts, Accepted
<1>6. PICK a : a = M!Answer(copied', r, new)
  OBVIOUS
<1>7. r.do = "addLayer" => r.on = TRUE /\ r.folder = M!None
  BY <1>1, <1>2 DEF Formed
<1>8. /\ Answers(a, r) /\ copied' = Effect(copied, a)
      /\ r.do = "addLayer" => a.layer = new
      /\ r.do = "addFolder" => a.folder = new
      /\ r.do = "editLayer" => [on |-> a.on, folder |-> a.folder] = copied.layers[r.layer]
      /\ r.do = "editFolder" => a.on = copied.folders[r.folder]
  <2>1. PICK n, v : n = copied /\ v = M!Done(n, r, new)
    OBVIOUS
  <2>2. new \in Nat \ {0} /\ IsMap(n) /\ Accepted(n, r) /\ a = M!Answer(M!Done(n, r, new), r, new)
    BY <1>1, <1>4, <1>5, <1>6, <2>1 DEF IsNew
  <2>3. Answers(a, r) /\ M!Done(n, r, new) = Effect(n, a) /\ Gives(n, r, new, a)
    BY <1>7, <2>2, DoneIsTheEffect
  <2>. QED BY <1>5, <2>1, <2>3 DEF Gives
<1>9. a \in Asking /\ HasId(a) /\ a.do = r.do
  BY <1>8 DEF Answers
<1>10. Serves(model, copied, c, a, copied')
  <2>1. r.do = "addLayer" => IsNew(model, copied, a, a.layer) /\ a.folder = M!None
    BY <1>4, <1>7, <1>8 DEF IsNew, Answers
  <2>2. r.do = "addFolder" => IsNew(model, copied, a, a.folder)
    BY <1>4, <1>8 DEF IsNew, Answers
  <2>3. r.do # "addLayer" => a.layer = r.layer
    BY <1>8 DEF Answers
  <2>4. r.do = "editFolder" => a.folder = r.folder
    BY <1>8 DEF Answers
  <2>. QED BY <1>2, <1>5, <1>8, <2>1, <2>2, <2>3, <2>4 DEF Serves
<1>11. IsMap(copied')
  BY <1>1, <1>8, <1>9, EffectIsAMap
<1>12. Placed(copied')
  <2>1. a.do \in {"putLayer", "intoFolder"} => a.folder \in DOMAIN copied.folders
    BY <1>5, <1>8, <1>9 DEF Answers, Accepted
  <2>2. a.do = "addLayer" => a.folder = M!None
    BY <1>7, <1>8, <1>9 DEF Answers
  <2>. QED BY <1>1, <1>8, <1>9, <2>1, <2>2, EffectIsPlaced
<1>13. commands' = [commands EXCEPT ![i] = Serving(c, a)]
  BY <1>5, <1>6, <1>1 DEF Serving
<1>. QED BY <1>1, <1>2, <1>5, <1>9, <1>10, <1>11, <1>12, <1>13

(* A load that has been overtaken still has the form of a load.             *)
LEMMA OvertakenFits ==
  ASSUME NEW load, NEW n, LoadFits(load, n), NEW v, NEW l, l = [load EXCEPT !.dirty = TRUE]
  PROVE  LoadFits(l, v)
<1>1. /\ l.layers = load.layers /\ l.folders = load.folders /\ l.own = load.own
      /\ l.todo = load.todo /\ l.dirty = TRUE /\ l.seq = load.seq
      /\ l = [seq |-> l.seq, layers |-> l.layers, folders |-> l.folders, own |-> l.own,
                  todo |-> l.todo, dirty |-> l.dirty]
  BY DEF LoadFits
<1>2. Layered(l) <=> Layered(load)
  BY <1>1 DEF Layered
<1>. QED BY <1>1, <1>2 DEF LoadFits

(* A function on 1..n is a sequence of its values.                          *)
LEMMA IsASequence ==
  ASSUME NEW n \in Nat, NEW q, q = [k \in 1..n |-> q[k]]
  PROVE  q \in Seq({q[k] : k \in DOMAIN q})
<1>1. PICK V : V = {q[k] : k \in DOMAIN q}
  OBVIOUS
<1>2. DOMAIN q = 1..n
  OBVIOUS
<1>3. \A k \in 1..n : q[k] \in V
  BY <1>1, <1>2
<1>4. q \in [1..n -> V]
  BY <1>2, <1>3
<1>5. q \in Seq(V)
  BY <1>4
<1>. QED BY <1>1, <1>5

(* A step of the server.                                                    *)
LEMMA MapServeKeeps ==
  ASSUME M!MapModelAssumption, ModelInv, NEW i \in DOMAIN commands, M!Serve(i)
  PROVE  ModelInv'
<1>1. PICK c : c = commands[i]
  OBVIOUS
<1>2. c \in Going /\ c.requests # <<>> /\ ~c.served /\ Head(c.requests) = c.requests[1]
  BY <1>1, MapServed
<1>3. PICK a : /\ Serves(model, copied, c, a, copied')
               /\ a \in Asking /\ HasId(a) /\ IsMap(copied') /\ Placed(copied')
               /\ commands' = [commands EXCEPT ![i] = Serving(c, a)]
  BY <1>1, MapServed
<1>4. PICK d : d = Serving(c, a)
  OBVIOUS
<1>5. IsServing(c, a, d)
  BY <1>2, <1>3, <1>4, ServingIs
<1>6. /\ UNCHANGED <<model, listed, shown, epoch, given, calls, unseen>>
      /\ loads' = [k \in DOMAIN loads |-> [loads[k] EXCEPT !.dirty = TRUE]]
      /\ excused' = (excused \/ c.held # epoch)
  BY <1>1 DEF M!Serve, M!client
<1>7. a.do = c.requests[1].do /\ Formed(c)
  BY <1>1, <1>3 DEF ModelInv, ModelTyped, Serves, Answers
<1>8. Formed(d)
  <2>1. 1 \in DOMAIN c.requests
    BY <1>2, FirstRequest
  <2>2. a.do = "addLayer" => a.on = TRUE /\ a.folder = M!None
    BY <1>3, <1>7, <2>1 DEF Serves, Answers, Formed
  <2>4. \A n \in DOMAIN d.requests : d.requests[n].do = "addLayer" => d.requests[n].on = TRUE /\ d.requests[n].folder = M!None
    BY <1>5, <1>7, <2>2 DEF IsServing, Formed
  <2>5. HasId(d.requests[1]) /\ d.requests # <<>>
    BY <1>3, <1>5 DEF IsServing
  <2>. QED BY <2>4, <2>5 DEF Formed
<1>9. /\ commands \in Seq(Going) /\ commands' = [commands EXCEPT ![i] = d] /\ DOMAIN commands' = DOMAIN commands
      /\ commands'[i] = d /\ \A j \in DOMAIN commands : j # i => commands'[j] = commands[j]
  BY <1>3, <1>4 DEF ModelInv, ModelTyped
<1>10. ModelTyped'
  <2>1. commands' \in Seq(Going)
    BY <1>5, <1>9 DEF IsServing
  <2>2. \A j \in DOMAIN commands' : Formed(commands'[j])
    BY <1>8, <1>9 DEF ModelInv, ModelTyped
  <2>3. excused' \in BOOLEAN
    BY <1>6 DEF ModelInv, ModelTyped
  <2>. QED BY <1>3, <1>6, <2>1, <2>2, <2>3 DEF ModelInv, ModelTyped
<1>11. LoadsFit'
  <2>1. DOMAIN loads = 1..Len(loads) /\ Len(loads) \in Nat
    BY DEF ModelInv, LoadsFit
  <2>2. DOMAIN loads' = DOMAIN loads /\ \A k \in DOMAIN loads : loads'[k] = [loads[k] EXCEPT !.dirty = TRUE]
    BY <1>6
  <2>3. \A k \in DOMAIN loads' : LoadFits(loads'[k], copied')
    BY <2>2, OvertakenFits DEF ModelInv, LoadsFit
  <2>4. loads' = [k \in 1..Len(loads) |-> loads'[k]]
    BY <1>6, <2>1
  <2>5. loads' \in Seq({loads'[k] : k \in DOMAIN loads'})
    BY <2>1, <2>2, <2>4, IsASequence
  <2>. QED BY <2>3, <2>5 DEF LoadsFit
<1>12. M!ShownAgrees'
  BY <1>6 DEF ModelInv, M!ShownAgrees, M!Visible, M!HomeFolder
<1>13. ASSUME ~excused' PROVE Calm(model', copied', commands', epoch') /\ ListFits(listed', model')
  <2>1. ~excused /\ Calm(model, copied, commands, epoch) /\ ListFits(listed, model)
    BY <1>6, <1>13 DEF ModelInv
  <2>2. PICK m, n, v, q, now : m = model /\ n = copied /\ v = copied' /\ q = commands /\ now = epoch
    OBVIOUS
  <2>3. IsMap(m) /\ IsMap(n) /\ q \in Seq(Going) /\ Calm(m, n, q, now) /\ i \in DOMAIN q /\ c = q[i]
    BY <1>1, <1>9, <2>1, <2>2 DEF ModelInv, ModelTyped
  <2>4. Calm(m, v, [q EXCEPT ![i] = d], now)
    BY <1>2, <1>3, <1>4, <2>2, <2>3, CalmServes
  <2>. QED BY <1>6, <1>9, <2>1, <2>2, <2>4
<1>. QED BY <1>10, <1>11, <1>12, <1>13 DEF ModelInv

(* When the map is redrawn, what is shown is what the copy says.            *)
LEMMA RedrawnIsShown ==
  ASSUME IsMap(model'), shown' = M!Visible(model')
  PROVE  M!ShownAgrees'
<1>1. M!Visible(model') \subseteq DOMAIN model'.own
  BY DEF M!Visible
<1>2. M!Visible(model)' = M!Visible(model')
  BY DEF M!Visible, M!HomeFolder
<1>. QED BY <1>1, <1>2 DEF M!ShownAgrees

(* A switch leaves the rows where they are.                                 *)
LEMMA SwitchLeaves ==
  ASSUME NEW m, IsMap(m), NEW l \in Nat, NEW on \in BOOLEAN, NEW w, w = M!Switched(m, l, on)
  PROVE  IsMap(w) /\ DOMAIN w.layers = DOMAIN m.layers /\ w.own = m.own /\ w.folders = m.folders
<1>1. CASE l \in DOMAIN m.layers
  <2>1. l \in Nat \ {0} /\ m.layers[l] \in Row
    BY <1>1 DEF IsMap
  <2>2. PICK row \in Row : row = [on |-> on, folder |-> m.layers[l].folder]
    BY <2>1 DEF Row
  <2>3. w = WithRow(m, l, row)
    BY <1>1, <2>2, SwitchIsARow
  <2>4. /\ IsMap(w) /\ w.own = m.own /\ w.folders = m.folders
        /\ DOMAIN w.layers = DOMAIN m.layers \union {l}
    BY <2>1, <2>3, RowIsPut
  <2>5. DOMAIN m.layers \union {l} = DOMAIN m.layers
    BY <1>1
  <2>. QED BY <2>4, <2>5
<1>2. CASE l \notin DOMAIN m.layers
  BY <1>2 DEF M!Switched
<1>. QED BY <1>1, <1>2

(* A command whose request is not done ends.                                *)
LEMMA CalmFails ==
  ASSUME NEW m, NEW n, IsMap(m), NEW q \in Seq(Going), NEW now, Calm(m, n, q, now),
         NEW i \in DOMAIN q, NEW c, c = q[i], ~c.served, NEW r, r = c.requests[1], r.do # "intoFolder",
         NEW w, w = IF r.do = "showLayer" THEN M!Switched(m, r.layer, ~r.on) ELSE m
  PROVE  Calm(w, n, M!RemoveAt(q, i), now)
<1>1. c \in Going /\ CommandFits(m, n, c, now) /\ Placed(m)
  BY DEF Calm
<1>2. r \in Asking /\ c.requests # <<>> /\ Fits(c)
  BY <1>1, FirstRequest DEF CommandFits, Fits
<1>3. w = Expected(m, c)
  BY DEF Expected, Begun
<1>4. \A t \in Touched(c) : Same(w, n, t)
  BY <1>1, <1>3 DEF CommandFits
<1>5. IsMap(w) /\ Placed(w) /\ ChangesOnly(m, w, Touched(c)) /\ Moves(m, w, c.about)
  <2>1. CASE r.do # "showLayer"
    BY <1>1, <2>1, NothingChanges, NothingMoves
  <2>2. CASE r.do = "showLayer"
    <3>1. PICK x : x = [r EXCEPT !.on = ~r.on]
      OBVIOUS
    <3>2. x \in Asking /\ x.do = "showLayer" /\ x.layer = r.layer /\ HasId(x)
      BY <1>2, <2>2, <3>1 DEF Asking, HasId
    <3>3. w = Effect(m, x)
      <4>1. w = Begun(m, r)
        BY <2>2 DEF Begun
      <4>. QED BY <1>2, <2>2, <3>1, <4>1, BegunIs
    <3>4. Reach(x) \in Touched(c)
      <4>1. <<"layer", r.layer>> \in c.about
        BY <1>1, <1>2, <2>2, FirstFits DEF LayerDo
      <4>2. Reach(x) = <<"layer", r.layer>>
        BY <3>2 DEF Reach, LayerDo
      <4>. QED BY <4>1, <4>2 DEF Touched
    <3>5. IsMap(w) /\ Placed(w)
      BY <1>1, <3>2, <3>3, EffectIsAMap, EffectIsPlaced
    <3>6. ChangesOnly(m, w, Touched(c))
      <4>1. ASSUME NEW t \in Things \ Touched(c) PROVE Same(w, m, t)
        <5>1. t # Reach(x)
          BY <3>4
        <5>. QED BY <3>2, <3>3, <5>1, EffectIsLocal
      <4>. QED BY <4>1 DEF ChangesOnly
    <3>7. Moves(m, w, c.about)
      BY <3>2, <3>3, EffectMoves
    <3>. QED BY <3>5, <3>6, <3>7
  <2>. QED BY <2>1, <2>2
<1>. QED BY <1>4, <1>5, CalmEnds

(* A request fails.                                                         *)
LEMMA MapFailKeeps ==
  ASSUME ModelInv, NEW i \in DOMAIN commands, M!Fail(i)
  PROVE  ModelInv'
<1>1. PICK c : c = commands[i]
  OBVIOUS
<1>2. c \in Going /\ Formed(c) /\ c.requests # <<>> /\ IsMap(model) /\ commands \in Seq(Going)
  BY <1>1 DEF ModelInv, ModelTyped, Formed
<1>3. PICK r \in Asking : r = c.requests[1] /\ r = Head(c.requests)
  BY <1>2, FirstRequest
<1>4. /\ commands' = M!RemoveAt(commands, i)
      /\ excused' = (excused \/ c.served \/ r.do = "intoFolder")
      /\ r.do = "showLayer" => M!Becomes(M!RolledBack(c, r))
      /\ r.do # "showLayer" => UNCHANGED <<model, shown, epoch, unseen>>
      /\ UNCHANGED <<copied, listed, loads, given, calls>>
  BY <1>1, <1>3 DEF M!Fail
<1>5. epoch' = epoch /\ excused' \in BOOLEAN
  BY <1>2, <1>4 DEF M!Becomes, ModelInv, ModelTyped, Going
<1>6. r.layer \in Nat /\ (~r.on) \in BOOLEAN
  <2>1. r.layer \in Nat /\ r.on \in BOOLEAN
    BY <1>3 DEF Asking
  <2>2. \A b \in BOOLEAN : (~b) \in BOOLEAN
    OBVIOUS
  <2>. QED BY <2>1, <2>2
<1>7. /\ model' = IF r.do = "showLayer" /\ c.held = epoch THEN M!Switched(model, r.layer, ~r.on) ELSE model
  BY <1>4 DEF M!Becomes, M!RolledBack
<1>8. IsMap(model') /\ Housed(model') /\ DOMAIN model'.layers = DOMAIN model.layers
  <2>1. CASE r.do = "showLayer" /\ c.held = epoch
    <3>1. PICK m, w : m = model /\ w = M!Switched(m, r.layer, ~r.on)
      OBVIOUS
    <3>2. IsMap(w) /\ DOMAIN w.layers = DOMAIN m.layers /\ w.own = m.own
      <4>1. PICK on \in BOOLEAN : on = ~r.on
        BY <1>6
      <4>2. IsMap(m) /\ w = M!Switched(m, r.layer, on)
        BY <1>2, <3>1, <4>1
      <4>. QED BY <1>6, <4>2, SwitchLeaves
    <3>3. model' = w
      BY <1>7, <2>1, <3>1
    <3>. QED BY <3>1, <3>2, <3>3 DEF ModelInv, ModelTyped, Housed
  <2>2. CASE ~(r.do = "showLayer" /\ c.held = epoch)
    <3>1. model' = model
      BY <1>7, <2>2
    <3>. QED BY <3>1 DEF ModelInv, ModelTyped, Housed
  <2>. QED BY <2>1, <2>2
<1>9. /\ commands' \in Seq(Going)
      /\ \A j \in DOMAIN commands' : Behind(j, i) \in DOMAIN commands /\ commands'[j] = commands[Behind(j, i)]
      /\ \A j \in DOMAIN commands : j # i => \E k \in DOMAIN commands' : Behind(k, i) = j
  BY <1>2, <1>4, WithoutOne
<1>10. ModelTyped'
  <2>1. \A j \in DOMAIN commands' : Formed(commands'[j])
    BY <1>9 DEF ModelInv, ModelTyped
  <2>. QED BY <1>4, <1>5, <1>8, <1>9, <2>1 DEF ModelInv, ModelTyped
<1>11. LoadsFit'
  BY <1>4 DEF ModelInv, LoadsFit
<1>12. M!ShownAgrees'
  <2>1. CASE r.do = "showLayer"
    BY <1>4, <1>8, <2>1, RedrawnIsShown DEF M!Becomes
  <2>2. CASE r.do # "showLayer"
    BY <1>4, <2>2 DEF ModelInv, M!ShownAgrees, M!Visible, M!HomeFolder
  <2>. QED BY <2>1, <2>2
<1>13. ASSUME ~excused' PROVE Calm(model', copied', commands', epoch') /\ ListFits(listed', model')
  <2>1. ~c.served /\ r.do # "intoFolder" /\ Calm(model, copied, commands, epoch) /\ ListFits(listed, model)
    BY <1>4, <1>13 DEF ModelInv
  <2>2. PICK m, n, q, now : m = model /\ n = copied /\ q = commands /\ now = epoch
    OBVIOUS
  <2>3. c.held = now
    BY <1>1, <2>1, <2>2 DEF Calm, CommandFits
  <2>4. PICK w : w = IF r.do = "showLayer" THEN M!Switched(m, r.layer, ~r.on) ELSE m
    OBVIOUS
  <2>5. model' = w
    BY <1>7, <2>2, <2>3, <2>4
  <2>6. Calm(w, n, M!RemoveAt(q, i), now)
    BY <1>1, <1>2, <1>3, <2>1, <2>2, <2>4, CalmFails
  <2>7. ListFits(listed', model')
    BY <1>4, <1>8, <2>1 DEF ListFits
  <2>. QED BY <1>4, <1>5, <2>2, <2>5, <2>6, <2>7
<1>. QED BY <1>10, <1>11, <1>12, <1>13 DEF ModelInv

(* A request for each element of S.                                         *)
AreRequests(q, do, S, folder, on) ==
  /\ q \in Seq(Asking) /\ (S # {} => q # <<>>)
  /\ \A k \in DOMAIN q : q[k].do = do /\ q[k].layer \in S /\ q[k].folder = folder /\ q[k].on = on
  /\ \A s \in S : \E k \in DOMAIN q : q[k].layer = s

(* There is one for each.                                                   *)
LEMMA RequestsAre ==
  ASSUME NEW do \in Dos, NEW S \in SUBSET Nat, IsFiniteSet(S), NEW folder \in Nat, NEW on \in BOOLEAN
  PROVE  AreRequests(M!Requests(do, S, folder, on), do, S, folder, on)
<1>0. PICK n \in Nat : n = Cardinality(S)
  BY SetInSequence
<1>1. PICK s : n = Cardinality(S) /\ s = M!SetToSeq(S) /\ s \in [1..n -> S] /\ M!ToSet(s) = S
  BY <1>0, SetInSequence
<1>2. PICK q : q = M!Requests(do, S, folder, on)
  OBVIOUS
<1>3. q = [i \in 1..n |-> [do |-> do, layer |-> s[i], folder |-> folder, on |-> on]]
  BY <1>1, <1>2, MSameCardinality DEF M!Requests, M!Request
<1>4. \A i \in 1..n : q[i] = [do |-> do, layer |-> s[i], folder |-> folder, on |-> on] /\ s[i] \in S /\ s[i] \in Nat
  BY <1>1, <1>3
<1>5. ASSUME NEW i \in 1..n PROVE q[i] \in Asking
  <2>1. q[i] = [do |-> do, layer |-> s[i], folder |-> folder, on |-> on] /\ s[i] \in Nat
    BY <1>4
  <2>. QED BY <2>1 DEF Asking
<1>6. q \in Seq(Asking) /\ DOMAIN q = 1..n
  BY <1>1, <1>3, <1>5
<1>7. ASSUME NEW e \in S PROVE \E k \in DOMAIN q : q[k].layer = e
  <2>1. PICK k \in DOMAIN s : s[k] = e
    BY <1>1 DEF M!ToSet
  <2>2. k \in 1..n
    BY <1>1
  <2>. QED BY <1>4, <1>6, <2>1, <2>2
<1>8. S # {} => q # <<>>
  <2>1. ASSUME NEW e \in S, q = <<>> PROVE FALSE
    <3>1. DOMAIN q = {}
      BY <2>1
    <3>. QED BY <1>7, <2>1, <3>1
  <2>. QED BY <2>1
<1>9. \A k \in DOMAIN q : q[k].do = do /\ q[k].layer \in S /\ q[k].folder = folder /\ q[k].on = on
  BY <1>4, <1>6
<1>. QED BY <1>2, <1>6, <1>7, <1>8, <1>9 DEF AreRequests

(* A folder has finitely many layers.                                       *)
LEMMA InsideIsFinite ==
  ASSUME NEW m, IsMap(m), NEW f
  PROVE  M!Inside(m, f) \in SUBSET Nat /\ IsFiniteSet(M!Inside(m, f))
<1>1. M!Inside(m, f) \in SUBSET DOMAIN m.layers
  BY DEF M!Inside
<1>. QED BY <1>1, FS_Subset DEF IsMap

(* What follows an answer.                                                  *)
IsFollowing(w, c, r, now, x) ==
  /\ x \in Going /\ x.about = c.about /\ x.keeps = c.keeps /\ x.folder = c.folder
  /\ x.held = IF r.do = "showFolder" THEN now ELSE c.held
  /\ r.do = "showFolder" => AreRequests(x.requests, "patchLayer", M!Inside(w, r.folder), M!None, r.on)
  /\ r.do # "showFolder" =>
       /\ DOMAIN x.requests = 1..(Len(c.requests) - 1) /\ Len(x.requests) = Len(c.requests) - 1
       /\ \A k \in 1..(Len(c.requests) - 1) :
            /\ k + 1 \in DOMAIN c.requests
            /\ r.do # "addLayer" => x.requests[k] = c.requests[k + 1]
            /\ r.do = "addLayer" => x.requests[k] = [c.requests[k + 1] EXCEPT !.layer = r.layer]

(* It is what the code makes of the answer.                                 *)
LEMMA FollowingIs ==
  ASSUME epoch \in Nat, NEW w, IsMap(w), NEW c \in Going, c.requests # <<>>, NEW r, r = c.requests[1],
         NEW x, x = M!Following(w, c, r)
  PROVE  IsFollowing(w, c, r, epoch, x)
<1>1. /\ r \in Asking /\ c.requests \in Seq(Asking) /\ Len(c.requests) \in Nat /\ Len(c.requests) >= 1
      /\ DOMAIN c.requests = 1..Len(c.requests)
  BY FirstRequest
<1>2. CASE r.do = "showFolder"
  <2>1. PICK q : q = M!Requests("patchLayer", M!Inside(w, r.folder), M!None, r.on)
    OBVIOUS
  <2>2. AreRequests(q, "patchLayer", M!Inside(w, r.folder), M!None, r.on)
    <3>1. "patchLayer" \in Dos /\ M!None \in Nat /\ r.on \in BOOLEAN
      BY <1>1 DEF Dos, LayerDo, M!None, Asking
    <3>. QED BY <2>1, <3>1, InsideIsFinite, RequestsAre
  <2>3. x = [c EXCEPT !.requests = q, !.held = epoch]
    BY <1>2, <2>1 DEF M!Following
  <2>4. q \in Seq(Asking)
    BY <2>2 DEF AreRequests
  <2>5. x \in Going /\ x.requests = q /\ x.held = epoch /\ x.about = c.about /\ x.keeps = c.keeps /\ x.folder = c.folder
    BY <2>3, <2>4 DEF Going
  <2>. QED BY <1>2, <2>2, <2>5 DEF IsFollowing
<1>3. CASE r.do # "showFolder"
  <2>1. PICK p : p = c.requests
    OBVIOUS
  <2>2. PICK q : q = [k \in 1..(Len(p) - 1) |-> IF r.do = "addLayer" THEN [p[k + 1] EXCEPT !.layer = r.layer] ELSE p[k + 1]]
    OBVIOUS
  <2>3. x = [c EXCEPT !.requests = q]
    BY <1>3, <2>1, <2>2 DEF M!Following
  <2>4. ASSUME NEW k \in 1..(Len(p) - 1)
        PROVE  /\ k + 1 \in DOMAIN p /\ q[k] \in Asking
               /\ r.do # "addLayer" => q[k] = p[k + 1]
               /\ r.do = "addLayer" => q[k] = [p[k + 1] EXCEPT !.layer = r.layer]
    <3>1. k + 1 \in 1..Len(p)
      BY <1>1, <2>1
    <3>2. k + 1 \in DOMAIN p /\ p[k + 1] \in Asking
      BY <1>1, <2>1, <3>1
    <3>3. [p[k + 1] EXCEPT !.layer = r.layer] \in Asking
      BY <1>1, <3>2 DEF Asking
    <3>. QED BY <2>2, <3>2, <3>3
  <2>5. q \in Seq(Asking) /\ DOMAIN q = 1..(Len(p) - 1) /\ Len(q) = Len(p) - 1
    <3>1. Len(p) - 1 \in Nat
      BY <1>1, <2>1
    <3>. QED BY <2>2, <2>4, <3>1
  <2>6. x \in Going /\ x.requests = q /\ x.held = c.held /\ x.about = c.about /\ x.keeps = c.keeps /\ x.folder = c.folder
    BY <2>3, <2>5 DEF Going
  <2>. QED BY <1>3, <2>1, <2>4, <2>5, <2>6 DEF IsFollowing
<1>. QED BY <1>2, <1>3

(* The last request of a command is done.                                   *)
LEMMA ArrivesLast ==
  ASSUME NEW m, NEW n, IsMap(m), NEW q \in Seq(Going), NEW now, Calm(m, n, q, now),
         NEW i \in DOMAIN q, NEW c, c = q[i], Formed(c), c.served,
         NEW w, w = LearntFrom(m, c),
         NEW x, IsFollowing(w, c, c.requests[1], now, x), \A k \in DOMAIN x.requests : ~M!Needed(w, x.requests[k])
  PROVE  Calm(w, n, M!RemoveAt(q, i), now)
<1>1. c \in Going /\ CommandFits(m, n, c, now) /\ Placed(m)
  BY DEF Calm
<1>2. PICK r \in Asking : r = c.requests[1] /\ Len(c.requests) \in Nat /\ Len(c.requests) >= 1 /\ 1 \in DOMAIN c.requests
  BY <1>1, FirstRequest DEF CommandFits, Fits
<1>3. ~(r.do = "addLayer" /\ Len(c.requests) # 1)
  <2>1. ASSUME r.do = "addLayer", Len(c.requests) # 1 PROVE FALSE
    <3>1. c.requests[2].do = "intoFolder" /\ c.requests[2] \in Asking /\ Len(c.requests) = 2
      <4>1. Len(c.requests) = 2 /\ c.requests[2].do = "intoFolder"
        BY <1>1, <1>2, <2>1 DEF CommandFits, Fits
      <4>. QED BY <1>1, <4>1 DEF Going
    <3>2. 1 \in DOMAIN x.requests /\ x.requests[1] = [c.requests[2] EXCEPT !.layer = r.layer]
      <4>1. r.do # "showFolder" /\ 1 \in 1..(Len(c.requests) - 1) /\ 1 + 1 = 2
        BY <2>1, <3>1
      <4>. QED BY <1>2, <2>1, <4>1 DEF IsFollowing
    <3>3. x.requests[1].do = "intoFolder"
      BY <3>1, <3>2 DEF Asking
    <3>4. ~M!Needed(w, x.requests[1])
      BY <3>2
    <3>. QED BY <3>3, <3>4, AlwaysNeeded
  <2>. QED BY <2>1
<1>4. Learns(m, n, c, w)
  BY <1>1, LearntIs
<1>5. /\ IsMap(w) /\ Placed(w) /\ ChangesOnly(m, w, Touched(c)) /\ Moves(m, w, c.about)
      /\ \A t \in Touched(c) : Same(w, n, t)
  BY <1>2, <1>3, <1>4 DEF Learns
<1>. QED BY <1>5, CalmEnds

(* A command goes on with its next request.                                 *)
LEMMA ArrivesNext ==
  ASSUME NEW m, NEW n, IsMap(m), NEW q \in Seq(Going), NEW now, Calm(m, n, q, now),
         NEW i \in DOMAIN q, NEW c, c = q[i], Formed(c), c.served,
         NEW w, w = LearntFrom(m, c),
         NEW x, IsFollowing(w, c, c.requests[1], now, x),
         NEW s, NEW d, IsRest(x.requests, d.requests, s),
         \A k \in DOMAIN x.requests : k < s => ~M!Needed(w, x.requests[k]), M!Needed(w, x.requests[s]),
         d \in Going, d.about = x.about, d.held = x.held, d.keeps = x.keeps, d.folder = x.folder, d.served = FALSE
  PROVE  Calm(w, n, [q EXCEPT ![i] = d], now)
<1>1. c \in Going /\ CommandFits(m, n, c, now) /\ Placed(m) /\ c.held = now /\ Fits(c)
  BY DEF Calm, CommandFits
<1>2. PICK r \in Asking : r = c.requests[1] /\ Len(c.requests) \in Nat /\ Len(c.requests) >= 1 /\ 1 \in DOMAIN c.requests
                          /\ DOMAIN c.requests = 1..Len(c.requests) /\ c.requests \in Seq(Asking)
  BY <1>1, FirstRequest DEF Fits
<1>3. Follows(c, d)
  BY <1>1 DEF Follows, IsFollowing
<1>4. /\ s \in DOMAIN x.requests /\ d.requests \in Seq(Asking) /\ DOMAIN d.requests = 1..(Len(x.requests) - s + 1)
      /\ \A k \in DOMAIN d.requests : s + k - 1 \in DOMAIN x.requests /\ d.requests[k] = x.requests[s + k - 1]
      /\ Len(d.requests) = Len(x.requests) - s + 1
      /\ x.requests \in Seq(Asking) /\ d.requests # <<>>
  <2>1. x.requests \in Seq(Asking)
    BY DEF IsFollowing, Going
  <2>2. s \in 1..Len(x.requests) /\ Len(x.requests) \in Nat
    BY <2>1 DEF IsRest
  <2>3. Len(d.requests) = Len(x.requests) - s + 1
    BY DEF IsRest
  <2>4. d.requests # <<>>
    BY <2>2, <2>3
  <2>. QED BY <2>1, <2>4 DEF IsRest
<1>5. GoesOn(w, n, c, d, now)
  <2>1. CASE r.do = "showFolder"
    <3>1. AreRequests(x.requests, "patchLayer", M!Inside(w, r.folder), M!None, r.on)
      BY <1>2, <2>1 DEF IsFollowing
    <3>2. Switches(w, r.folder, r.on, d.requests)
      <4>1. ASSUME NEW k \in DOMAIN d.requests
            PROVE  /\ d.requests[k].do = "patchLayer" /\ d.requests[k].on = r.on
                   /\ d.requests[k].layer \in M!Inside(w, r.folder)
        <5>1. PICK j \in DOMAIN x.requests : d.requests[k] = x.requests[j]
          BY <1>4
        <5>. QED BY <3>1, <5>1 DEF AreRequests
      <4>2. \A l \in M!Inside(w, r.folder) : l \in DOMAIN w.layers /\ w.layers[l].folder = r.folder
        BY DEF M!Inside
      <4>. QED BY <4>1, <4>2 DEF Switches
    <3>3. d.requests # <<>> /\ c.requests[1].do = "showFolder" /\ Switches(w, c.requests[1].folder, r.on, d.requests)
      BY <1>2, <1>4, <2>1, <3>2
    <3>. QED BY <1>1, <1>3, <3>3, SwitchArrives
  <2>2. CASE r.do # "showFolder"
    <3>1. /\ DOMAIN x.requests = 1..(Len(c.requests) - 1) /\ Len(x.requests) = Len(c.requests) - 1
          /\ \A k \in 1..(Len(c.requests) - 1) :
            /\ k + 1 \in DOMAIN c.requests
            /\ r.do # "addLayer" => x.requests[k] = c.requests[k + 1]
            /\ r.do = "addLayer" => x.requests[k] = [c.requests[k + 1] EXCEPT !.layer = r.layer]
      BY <1>2, <2>2 DEF IsFollowing
    <3>2. Len(x.requests) = Len(c.requests) - 1 /\ s \in Nat /\ 1 <= s /\ s <= Len(c.requests) - 1 /\ Len(c.requests) # 1
      <4>1. PICK N \in Nat : N = Len(c.requests)
        BY <1>2
      <4>2. s \in 1..(N - 1)
        BY <1>4, <3>1, <4>1
      <4>3. s \in Nat /\ 1 <= s /\ s <= N - 1 /\ N # 1
        BY <4>2
      <4>. QED BY <3>1, <4>1, <4>3
    <3>3. CASE r.do = "addLayer"
      <4>1. Len(c.requests) = 2
        BY <1>1, <1>2, <3>2, <3>3 DEF Fits
      <4>2. s = 1 /\ DOMAIN d.requests = 1..1 /\ 1 \in DOMAIN d.requests /\ s + 1 - 1 = 1
        BY <1>4, <3>2, <4>1
      <4>3. d.requests[1] = [c.requests[2] EXCEPT !.layer = r.layer]
        BY <1>4, <3>1, <3>3, <4>1, <4>2
      <4>4. d.requests = <<[c.requests[2] EXCEPT !.layer = c.requests[1].layer]>>
        BY <1>2, <1>4, <4>2, <4>3
      <4>5. GoesOn(m, n, c, d, now)
        <5>1. c.requests[1].do = "addLayer" /\ Len(c.requests) # 1
          BY <1>2, <3>2, <3>3
        <5>. QED BY <1>1, <1>3, <4>4, <5>1, AddedArrives
      <4>6. w = m
        <5>1. Learns(m, n, c, w)
          BY <1>1, LearntIs
        <5>. QED BY <1>2, <3>2, <3>3, <5>1 DEF Learns
      <4>. QED BY <4>5, <4>6
    <3>4. CASE r.do # "addLayer"
      <4>1. IsRest(c.requests, d.requests, s + 1)
        <5>0. PICK N \in Nat : N = Len(c.requests)
          BY <1>2
        <5>1. s + 1 \in DOMAIN c.requests /\ Len(d.requests) = Len(c.requests) - (s + 1) + 1
          <6>1. s + 1 \in 1..N
            BY <3>2, <5>0
          <6>2. Len(d.requests) = (N - 1) - s + 1 /\ (N - 1) - s + 1 = N - (s + 1) + 1
            BY <1>4, <3>2, <5>0
          <6>. QED BY <1>2, <5>0, <6>1, <6>2
        <5>2. DOMAIN d.requests = 1..(Len(c.requests) - (s + 1) + 1)
          BY <1>4, <3>2, <5>1
        <5>3. ASSUME NEW k \in DOMAIN d.requests
              PROVE  (s + 1) + k - 1 \in DOMAIN c.requests /\ d.requests[k] = c.requests[(s + 1) + k - 1]
          <6>1. s + k - 1 \in 1..(Len(c.requests) - 1) /\ d.requests[k] = x.requests[s + k - 1]
            BY <1>4, <3>1
          <6>2. k \in Nat
            BY <5>2
          <6>3. (s + 1) + k - 1 = (s + k - 1) + 1
            BY <3>2, <6>2
          <6>. QED BY <3>1, <3>4, <6>1, <6>3
        <5>. QED BY <1>4, <5>1, <5>2, <5>3 DEF IsRest
      <4>2. ASSUME NEW k \in DOMAIN c.requests, k # 1, k < s + 1 PROVE ~M!Needed(w, c.requests[k])
        <5>1. k - 1 \in 1..(Len(c.requests) - 1) /\ k - 1 < s /\ (k - 1) + 1 = k
          BY <1>2, <3>2, <4>2
        <5>2. x.requests[k - 1] = c.requests[k] /\ k - 1 \in DOMAIN x.requests
          BY <3>1, <3>4, <5>1
        <5>3. ~M!Needed(w, x.requests[k - 1])
          BY <5>1, <5>2
        <5>. QED BY <5>2, <5>3
      <4>3. s + 1 # 1
        BY <3>2
      <4>4. c.requests[1].do # "addLayer"
        BY <1>2, <3>4
      <4>. QED BY <1>1, <1>3, <4>1, <4>2, <4>3, <4>4, RestArrives
    <3>. QED BY <3>3, <3>4
  <2>. QED BY <2>1, <2>2
<1>6. Learns(m, n, c, w)
  BY <1>1, LearntIs
<1>7. CommandFits(w, n, d, now) /\ Touched(d) = Touched(c)
  BY <1>5 DEF GoesOn
<1>8. IsMap(w) /\ Placed(w) /\ ChangesOnly(m, w, Touched(d)) /\ Moves(m, w, c.about)
  BY <1>6, <1>7 DEF Learns
<1>9. ChangesOnly(n, n, Touched(d)) /\ Moves(n, n, d.about)
  BY NothingChanges, NothingMoves
<1>10. d.about = c.about
  BY <1>3 DEF Follows
<1>11. \A j \in DOMAIN q : j # i => Touched(q[j]) \intersect Touched(d) = {}
  BY <1>7 DEF Calm
<1>. QED BY <1>7, <1>8, <1>9, <1>10, <1>11, CalmGoesOn

(* The layers of the objects stay in the copy.                              *)
LEMMA EffectIsHoused ==
  ASSUME NEW m, IsMap(m), Housed(m), NEW r \in Asking, HasId(r)
  PROVE  Housed(Effect(m, r))
<1>0. r.layer \in Nat /\ r.folder \in Nat /\ r.on \in BOOLEAN /\ r.do \in Dos /\ M!None = 0
  BY AnswerIsTyped
<1>1. PICK w : w = Effect(m, r)
  OBVIOUS
<1>2. ASSUME NEW o \in DOMAIN w.own PROVE o \in DOMAIN m.own
  <2>1. CASE r.do \in {"keepObject", "putObject", "detachObject"}
    <3>1. ASSUME r.layer \in DOMAIN m.own, NEW f \in Nat, w = WithOwn(m, r.layer, f) PROVE o \in DOMAIN m.own
      <4>1. r.layer \in M!Objects
        BY <3>1 DEF IsMap
      <4>2. DOMAIN w.own = DOMAIN m.own \union {r.layer}
        BY <3>1, <4>1, OwnIsPut
      <4>. QED BY <3>1, <4>2
    <3>2. r.layer \notin DOMAIN m.own => w = m
      BY <1>1, <2>1 DEF Effect
    <3>3. r.layer \in DOMAIN m.own => \E f \in Nat : w = WithOwn(m, r.layer, f)
      BY <1>0, <1>1, <2>1 DEF Effect
    <3>. QED BY <3>1, <3>2, <3>3
  <2>2. CASE r.do = "dropLayer"
    <3>1. DOMAIN w.own = {p \in DOMAIN m.own : Home[p] # r.layer}
      BY <1>1, <2>2, LayerIsDropped DEF Effect
    <3>. QED BY <3>1
  <2>3. CASE r.do = "dropFolder"
    BY <1>1, <2>3, FolderIsDropped DEF Effect
  <2>4. CASE r.do \in {"showLayer", "patchLayer"}
    <3>1. w = M!Switched(m, r.layer, r.on)
      BY <1>1, <2>4 DEF Effect
    <3>. QED BY <1>0, <3>1, SwitchLeaves
  <2>5. CASE r.do \notin {"keepObject", "putObject", "detachObject", "dropLayer", "dropFolder", "showLayer", "patchLayer"}
    BY <1>1, <2>5 DEF Effect, WithRow, WithFolder
  <2>. QED BY <2>1, <2>2, <2>3, <2>4, <2>5
<1>3. ASSUME NEW o \in DOMAIN w.own PROVE Home[o] \in DOMAIN w.layers
  <2>1. PICK l : l = Home[o]
    OBVIOUS
  <2>2. o \in DOMAIN m.own /\ l \in DOMAIN m.layers
    BY <1>2, <1>3, <2>1 DEF Housed
  <2>3. <<"layer", l>> \in Things /\ There(m, <<"layer", l>>)
    BY <2>2 DEF IsMap, Things, There
  <2>4. CASE r.do # "dropLayer"
    <3>1. r.do = "dropFolder" => <<"layer", l>> # Reach(r)
      BY DEF Reach, LayerDo, ObjectDo
    <3>2. There(w, <<"layer", l>>)
      BY <1>1, <2>3, <2>4, <3>1, EffectKeeps
    <3>. QED BY <2>1, <3>2 DEF There
  <2>5. CASE r.do = "dropLayer"
    <3>1. w = M!WithoutLayer(m, r.layer)
      BY <1>1, <2>5 DEF Effect
    <3>2. DOMAIN w.own = {p \in DOMAIN m.own : Home[p] # r.layer} /\ DOMAIN w.layers = DOMAIN m.layers \ {r.layer}
      BY <3>1, LayerIsDropped
    <3>. QED BY <2>1, <2>2, <3>2
  <2>. QED BY <2>4, <2>5
<1>. QED BY <1>1, <1>3 DEF Housed

(* A layer that is new to the copy is the one that was added.               *)
LEMMA LearntIsHoused ==
  ASSUME NEW m, IsMap(m), Housed(m), NEW r \in Asking, HasId(r), NEW last \in BOOLEAN,
         NEW w, w = M!Learnt(m, r, last)
  PROVE  /\ IsMap(w) /\ Housed(w)
         /\ \A l \in DOMAIN w.layers \ DOMAIN m.layers : l = r.layer /\ r.do \in {"addLayer", "intoFolder"}
<1>1. CASE r.do \notin {"showLayer", "editLayer", "editFolder"} /\ (r.do = "addLayer" => last) /\ AddsNew(m, r)
  <2>1. w = Effect(m, r)
    BY <1>1, LearntIsTheEffect
  <2>2. IsMap(w) /\ Housed(w)
    BY <2>1, EffectIsAMap, EffectIsHoused
  <2>3. ASSUME NEW l \in DOMAIN w.layers \ DOMAIN m.layers PROVE l = r.layer /\ r.do \in {"addLayer", "intoFolder"}
    <3>1. <<"layer", l>> \in Things /\ There(w, <<"layer", l>>) /\ ~There(m, <<"layer", l>>)
      BY <2>2 DEF IsMap, Things, There
    <3>2. <<"layer", l>> = Reach(r) /\ r.do \in {"addLayer", "intoFolder", "addFolder"}
      BY <2>1, <3>1, EffectAdds
    <3>. QED BY <3>2 DEF Reach, LayerDo, ObjectDo
  <2>. QED BY <2>2, <2>3
<1>2. CASE r.do = "showLayer" \/ (r.do = "addLayer" /\ ~last) \/ ~AddsNew(m, r)
  BY <1>2, LearntOtherwise
<1>3. CASE r.do = "editLayer"
  <2>1. CASE r.layer \in DOMAIN m.layers
    <3>1. PICK row \in Row : row = [on |-> r.on, folder |-> r.folder]
      BY AnswerIsTyped
    <3>2. r.layer \in Nat \ {0} /\ w = WithRow(m, r.layer, row)
      BY <1>3, <2>1, <3>1, LearntOtherwise, AnswerIsTyped
    <3>3. IsMap(w) /\ DOMAIN w.layers = DOMAIN m.layers \union {r.layer} /\ w.own = m.own
      BY <3>2, RowIsPut
    <3>. QED BY <2>1, <3>3 DEF Housed
  <2>2. CASE r.layer \notin DOMAIN m.layers
    BY <1>3, <2>2, LearntOtherwise
  <2>. QED BY <2>1, <2>2
<1>4. CASE r.do = "editFolder"
  <2>1. CASE r.folder \in DOMAIN m.folders
    <3>1. r.folder \in Nat \ {0} /\ r.on \in BOOLEAN
      BY <2>1, AnswerIsTyped
    <3>2. w = WithFolder(m, r.folder, r.on)
      BY <1>4, <2>1, LearntOtherwise
    <3>3. IsMap(w) /\ w.layers = m.layers /\ w.own = m.own
      BY <3>1, <3>2, FolderIsPut
    <3>. QED BY <3>3 DEF Housed
  <2>2. CASE r.folder \notin DOMAIN m.folders
    BY <1>4, <2>2, LearntOtherwise
  <2>. QED BY <2>1, <2>2
<1>. QED BY <1>1, <1>2, <1>3, <1>4

(* An answer that adds a layer adds it to the list, any other drops from it *)
(* what is gone.                                                            *)
Relisted(q, w, c) ==
  IF M!Creates(c.requests[1], Len(c.requests) = 1) THEN Append(q, c.requests[1].layer)
  ELSE M!Only(q, DOMAIN w.layers)

(* The list has the layers of the copy again.                               *)
LEMMA ListArrives ==
  ASSUME NEW m, NEW n, IsMap(m), Placed(m), NEW c \in Going, NEW now, CommandFits(m, n, c, now), Formed(c), c.served,
         NEW w, w = LearntFrom(m, c), NEW q \in Seq(Nat), ListFits(q, m)
  PROVE  ListFits(Relisted(q, w, c), w)
<1>. SUFFICES ASSUME NEW r, r = c.requests[1], NEW p, p = Relisted(q, w, c)
              PROVE  ListFits(p, w)
  OBVIOUS
<1>1. r \in Asking /\ HasId(r) /\ c.requests # <<>> /\ Known(m, c)
  BY FirstRequest DEF CommandFits, Fits, Formed
<1>2. Learns(m, n, c, w)
  BY LearntIs
<1>3. \A l \in DOMAIN w.layers \ DOMAIN m.layers : l = r.layer /\ r.do \in {"addLayer", "intoFolder"}
  <2>1. PICK last \in BOOLEAN : w = M!Learnt(m, r, last)
    <3>1. PICK last \in BOOLEAN : last <=> Len(c.requests) = 1
      OBVIOUS
    <3>2. w = M!Learnt(m, r, last)
      BY <3>1 DEF LearntFrom
    <3>. QED BY <3>2
  <2>. QED BY <1>1, <2>1, LearntIsHoused DEF Placed, Housed
<1>4. r.do \in {"addLayer", "intoFolder"} => r.layer \notin DOMAIN m.layers
  <2>1. r.do \in {"addLayer", "intoFolder"} => <<"layer", r.layer>> \in Fresh(c)
    BY DEF Fresh
  <2>. QED BY <1>1, <2>1 DEF Known, There
<1>5. M!ToSet(q) = DOMAIN m.layers /\ Distinct(q)
  BY DEF ListFits
<1>6. CASE M!Creates(r, Len(c.requests) = 1)
  <2>1. r.do \in {"addLayer", "intoFolder"} /\ ~(r.do = "addLayer" /\ Len(c.requests) # 1)
    BY <1>6 DEF M!Creates
  <2>2. w = WithRow(m, r.layer, [on |-> r.on, folder |-> r.folder])
    <3>1. w = Effect(m, r)
      BY <1>2, <2>1 DEF Learns
    <3>. QED BY <2>1, <3>1 DEF Effect
  <2>3. DOMAIN w.layers = DOMAIN m.layers \union {r.layer}
    BY <2>2 DEF WithRow, M!Put
  <2>4. p = Append(q, r.layer)
    BY <1>6 DEF Relisted
  <2>5. DOMAIN q = 1..Len(q) /\ Len(q) \in Nat /\ DOMAIN p = 1..(Len(q) + 1) /\ p[Len(q) + 1] = r.layer
        /\ \A k \in DOMAIN q : p[k] = q[k]
    BY <2>4
  <2>6. M!ToSet(p) = M!ToSet(q) \union {r.layer}
    <3>1. \A k \in DOMAIN p : k \in DOMAIN q \/ k = Len(q) + 1
      BY <2>5
    <3>2. DOMAIN q \subseteq DOMAIN p /\ Len(q) + 1 \in DOMAIN p
      BY <2>5
    <3>. QED BY <2>5, <3>1, <3>2 DEF M!ToSet
  <2>7. Distinct(p)
    <3>1. ASSUME NEW k \in DOMAIN q PROVE q[k] # r.layer
      BY <1>4, <1>5, <2>1 DEF M!ToSet
    <3>. QED BY <1>5, <2>5, <3>1 DEF Distinct
  <2>. QED BY <1>5, <2>3, <2>6, <2>7 DEF ListFits
<1>7. CASE ~M!Creates(r, Len(c.requests) = 1)
  <2>1. p = M!Only(q, DOMAIN w.layers)
    BY <1>7 DEF Relisted
  <2>2. DOMAIN w.layers \subseteq DOMAIN m.layers
    <3>1. r.do = "addLayer" => w = m
      BY <1>2, <1>7 DEF Learns, M!Creates
    <3>2. r.do # "intoFolder"
      BY <1>7 DEF M!Creates
    <3>. QED BY <1>3, <3>1, <3>2
  <2>3. M!ToSet(p) = M!ToSet(q) \intersect DOMAIN w.layers /\ (Distinct(q) => Distinct(p))
    BY <2>1, OnlyThose
  <2>. QED BY <1>5, <2>2, <2>3 DEF ListFits
<1>. QED BY <1>6, <1>7

(* What follows an answer is well formed.                                   *)
IsNext(x, L, d) ==
  /\ d \in Going /\ Formed(d) /\ d.requests = L
  /\ d.about = x.about /\ d.held = x.held /\ d.keeps = x.keeps /\ d.folder = x.folder /\ d.served = FALSE

(* The command that goes on is one.                                         *)
LEMMA FollowingIsFormed ==
  ASSUME NEW w, NEW c \in Going, Formed(c), NEW r, r = c.requests[1], NEW now, NEW x, IsFollowing(w, c, r, now, x),
         NEW L, Leaves(w, x.requests, L), L # <<>>,
         NEW d, d = [[x EXCEPT !.requests = L] EXCEPT !.served = FALSE]
  PROVE  IsNext(x, L, d)
<1>1. PICK s : IsRest(x.requests, L, s)
  BY DEF Leaves
<1>2. L \in Seq(Asking) /\ \A k \in DOMAIN L : s + k - 1 \in DOMAIN x.requests /\ L[k] = x.requests[s + k - 1]
  BY <1>1 DEF IsRest
<1>3. /\ d \in Going /\ d.requests = L
      /\ d.about = x.about /\ d.held = x.held /\ d.keeps = x.keeps /\ d.folder = x.folder /\ d.served = FALSE
  BY <1>2 DEF IsFollowing, Going
<1>5. CASE r.do = "showFolder"
  <2>1. \A k \in DOMAIN x.requests : x.requests[k].do = "patchLayer"
    BY <1>5 DEF IsFollowing, AreRequests
  <2>2. \A k \in DOMAIN L : L[k].do = "patchLayer"
    BY <1>2, <2>1
  <2>. QED BY <1>3, <1>5, <2>2 DEF Formed, IsNext
<1>6. CASE r.do # "showFolder"
  <2>0. c.requests \in Seq(Asking) /\ 1 \in DOMAIN c.requests
    BY FirstRequest DEF Formed
  <2>1. ASSUME NEW k \in DOMAIN L
        PROVE  \E j \in DOMAIN c.requests : /\ L[k].do = c.requests[j].do /\ L[k].on = c.requests[j].on
                                            /\ L[k].folder = c.requests[j].folder
    <3>1. PICK i \in DOMAIN x.requests : L[k] = x.requests[i]
      BY <1>2
    <3>2. /\ i + 1 \in DOMAIN c.requests
          /\ r.do # "addLayer" => x.requests[i] = c.requests[i + 1]
          /\ r.do = "addLayer" => x.requests[i] = [c.requests[i + 1] EXCEPT !.layer = r.layer]
      BY <1>6 DEF IsFollowing
    <3>3. PICK e \in Asking : e = c.requests[i + 1]
      BY <2>0, <3>2
    <3>4. r.do = "addLayer" => L[k] = [e EXCEPT !.layer = r.layer]
      BY <3>1, <3>2, <3>3
    <3>5. r.do # "addLayer" => L[k] = e
      BY <3>1, <3>2, <3>3
    <3>6. L[k].do = e.do /\ L[k].on = e.on /\ L[k].folder = e.folder
      BY <3>4, <3>5 DEF Asking
    <3>. QED BY <3>2, <3>3, <3>6
  <2>2. \A k \in DOMAIN L : L[k].do = "addLayer" => L[k].on = TRUE /\ L[k].folder = M!None
    BY <2>1 DEF Formed
  <2>. QED BY <1>3, <2>2 DEF Formed, IsNext
<1>. QED BY <1>5, <1>6

(* The answers that may leave the map as it is drawn.                       *)
QuietDo == {"showLayer", "addLayer", "intoFolder", "addFolder", "dropLayer", "patchLayer"}

(* What is to be seen of an object stays, unless r drops it or switches it. *)
SeenAfter(m, w, r) ==
  /\ DOMAIN w.own = {o \in DOMAIN m.own : r.do = "dropLayer" => Home[o] # r.layer}
  /\ \A o \in DOMAIN w.own : ~(r.do = "patchLayer" /\ Home[o] = r.layer) =>
       (o \in M!Visible(w)) = (o \in M!Visible(m))

(* An object whose layer, place and folder say the same is seen as before.  *)
LEMMA SeenAsBefore ==
  ASSUME NEW m, NEW w, NEW o \in DOMAIN m.own, o \in DOMAIN w.own,
         w.layers[Home[o]] = m.layers[Home[o]], w.own[o] = m.own[o],
         \A f : (f \in DOMAIN w.folders => w.folders[f]) <=> (f \in DOMAIN m.folders => m.folders[f])
  PROVE  (o \in M!Visible(w)) = (o \in M!Visible(m))
<1>1. M!HomeFolder(w, o) = M!HomeFolder(m, o)
  BY DEF M!HomeFolder
<1>2. o \in M!Visible(w) <=> o \in M!Visible(m)
  BY <1>1 DEF M!Visible
<1>. QED BY <1>2

(* What a quiet answer teaches.                                             *)
LEMMA LearntShows ==
  ASSUME NEW m, IsMap(m), Housed(m), NEW r \in Asking, HasId(r), r.do \in QuietDo, NEW last \in BOOLEAN,
         NEW w, w = M!Learnt(m, r, last)
  PROVE  SeenAfter(m, w, r)
<1>0. r.layer \in Nat /\ r.folder \in Nat /\ r.on \in BOOLEAN
  BY AnswerIsTyped
<1>1. CASE w = m /\ r.do # "dropLayer"
  BY <1>1 DEF SeenAfter
<1>2. CASE r.do \in {"addLayer", "intoFolder"} /\ (r.do = "addLayer" => last) /\ AddsNew(m, r)
  <2>1. PICK row \in Row : row = [on |-> r.on, folder |-> r.folder]
    BY <1>0 DEF Row
  <2>2. w = WithRow(m, r.layer, row)
    BY <1>2, <2>1, LearntIsTheEffect DEF Effect
  <2>3. r.layer \in Nat \ {0} /\ r.layer \notin DOMAIN m.layers
    BY <1>0, <1>2 DEF HasId, AddsNew, M!None
  <2>4. /\ \A k \in DOMAIN m.layers : w.layers[k] = m.layers[k]
        /\ w.folders = m.folders /\ w.own = m.own
    BY <2>2, <2>3, RowIsPut
  <2>5. ASSUME NEW o \in DOMAIN w.own PROVE (o \in M!Visible(w)) = (o \in M!Visible(m))
    <3>1. o \in DOMAIN m.own /\ Home[o] \in DOMAIN m.layers
      BY <2>4 DEF Housed
    <3>. QED BY <2>4, <3>1, SeenAsBefore
  <2>. QED BY <1>2, <2>4, <2>5 DEF SeenAfter
<1>3. CASE r.do = "addFolder" /\ AddsNew(m, r)
  <2>0. PICK on \in BOOLEAN : on = TRUE
    OBVIOUS
  <2>1. w = WithFolder(m, r.folder, on)
    BY <1>3, <2>0, LearntIsTheEffect DEF Effect
  <2>2. r.folder \in Nat \ {0} /\ r.folder \notin DOMAIN m.folders
    BY <1>0, <1>3 DEF HasId, AddsNew, M!None
  <2>3. /\ DOMAIN w.folders = DOMAIN m.folders \union {r.folder} /\ w.layers = m.layers /\ w.own = m.own
        /\ \A k \in DOMAIN m.folders \union {r.folder} : w.folders[k] = IF k = r.folder THEN on ELSE m.folders[k]
    BY <2>1, <2>2, FolderIsPut
  <2>4. ASSUME NEW f
        PROVE  (f \in DOMAIN w.folders => w.folders[f]) <=> (f \in DOMAIN m.folders => m.folders[f])
    <3>1. CASE f = r.folder
      BY <2>0, <2>2, <2>3, <3>1
    <3>2. CASE f # r.folder /\ f \in DOMAIN m.folders
      <4>1. f \in DOMAIN w.folders /\ w.folders[f] = m.folders[f]
        BY <2>3, <3>2
      <4>. QED BY <3>2, <4>1
    <3>3. CASE f # r.folder /\ f \notin DOMAIN m.folders
      BY <2>3, <3>3
    <3>. QED BY <3>1, <3>2, <3>3
  <2>5. ASSUME NEW o \in DOMAIN w.own PROVE (o \in M!Visible(w)) = (o \in M!Visible(m))
    BY <2>3, <2>4, SeenAsBefore
  <2>. QED BY <1>3, <2>3, <2>5 DEF SeenAfter
<1>4. CASE r.do = "dropLayer"
  <2>1. w = M!WithoutLayer(m, r.layer)
    BY <1>4 DEF M!Learnt, M!Creates
  <2>2. /\ \A k \in DOMAIN m.layers \ {r.layer} : w.layers[k] = m.layers[k]
        /\ w.folders = m.folders /\ DOMAIN w.own = {o \in DOMAIN m.own : Home[o] # r.layer}
        /\ \A o \in DOMAIN m.own : Home[o] # r.layer => w.own[o] = m.own[o]
    BY <2>1, LayerIsDropped
  <2>3. ASSUME NEW o \in DOMAIN w.own PROVE (o \in M!Visible(w)) = (o \in M!Visible(m))
    <3>1. o \in DOMAIN m.own /\ Home[o] \in DOMAIN m.layers \ {r.layer}
      BY <2>2 DEF Housed
    <3>. QED BY <2>2, <3>1, SeenAsBefore
  <2>. QED BY <1>4, <2>2, <2>3 DEF SeenAfter
<1>5. CASE r.do = "patchLayer" /\ r.layer \in DOMAIN m.layers
  <2>1. w = M!Switched(m, r.layer, r.on)
    BY <1>5 DEF M!Learnt, M!Creates
  <2>2. PICK row \in Row : row = [on |-> r.on, folder |-> m.layers[r.layer].folder]
    BY <1>0, <1>5 DEF IsMap, Row
  <2>3. w = WithRow(m, r.layer, row)
    BY <1>0, <1>5, <2>1, <2>2, SwitchIsARow
  <2>4. r.layer \in Nat \ {0}
    BY <1>5 DEF IsMap
  <2>5. /\ \A k \in DOMAIN m.layers : k # r.layer => w.layers[k] = m.layers[k]
        /\ w.folders = m.folders /\ w.own = m.own
    BY <2>3, <2>4, RowIsPut
  <2>6. ASSUME NEW o \in DOMAIN w.own, Home[o] # r.layer PROVE (o \in M!Visible(w)) = (o \in M!Visible(m))
    <3>1. o \in DOMAIN m.own /\ Home[o] \in DOMAIN m.layers
      BY <2>5 DEF Housed
    <3>. QED BY <2>5, <2>6, <3>1, SeenAsBefore
  <2>. QED BY <1>5, <2>5, <2>6 DEF SeenAfter
<1>6. r.do = "showLayer" \/ (r.do = "addLayer" /\ ~last) \/ ~AddsNew(m, r) => w = m
  BY LearntOtherwise
<1>7. r.do = "patchLayer" /\ r.layer \notin DOMAIN m.layers => w = m
  BY DEF M!Learnt, M!Creates, M!Switched
<1>8. ~AddsNew(m, r) => r.do # "dropLayer"
  BY DEF AddsNew
<1>. QED BY <1>1, <1>2, <1>3, <1>4, <1>5, <1>6, <1>7, <1>8 DEF QuietDo

(* A map that is not redrawn.                                               *)
LEMMA NotRedrawnIsShown ==
  ASSUME M!ShownAgrees, NEW r, SeenAfter(model, model', r), IsMap(model'),
         shown' = {o \in shown : r.do = "dropLayer" => Home[o] # r.layer},
         unseen' = unseen \union (IF r.do = "patchLayer" THEN {r.layer} ELSE {})
  PROVE  M!ShownAgrees'
<1>1. PICK w : w = model'
  OBVIOUS
<1>2. M!Visible(model)' = M!Visible(w) /\ M!Visible(w) \subseteq DOMAIN w.own
  BY <1>1 DEF M!Visible, M!HomeFolder
<1>3. shown' \subseteq DOMAIN w.own
  BY <1>1 DEF M!ShownAgrees, SeenAfter
<1>4. ASSUME NEW o \in M!Objects, Home[o] \notin unseen' PROVE (o \in shown') = (o \in M!Visible(w))
  <2>1. CASE o \notin DOMAIN w.own
    BY <1>2, <1>3, <2>1
  <2>2. CASE o \in DOMAIN w.own
    <3>1. Home[o] \notin unseen /\ ~(r.do = "patchLayer" /\ Home[o] = r.layer)
      BY <1>4
    <3>2. (o \in M!Visible(w)) = (o \in M!Visible(model))
      BY <1>1, <2>2, <3>1 DEF SeenAfter
    <3>3. (o \in shown) = (o \in M!Visible(model))
      BY <3>1 DEF M!ShownAgrees
    <3>4. (o \in shown') = (o \in shown)
      BY <1>1, <2>2 DEF SeenAfter
    <3>. QED BY <3>2, <3>3, <3>4
  <2>. QED BY <2>1, <2>2
<1>5. shown' \subseteq DOMAIN model'.own
  BY <1>1, <1>3
<1>. QED BY <1>2, <1>4, <1>5 DEF M!ShownAgrees, M!Objects

(* The answer arrives.                                                      *)
LEMMA MapArriveKeeps ==
  ASSUME ModelInv, NEW i \in DOMAIN commands, M!Arrive(i)
  PROVE  ModelInv'
<1>1. PICK c : c = commands[i]
  OBVIOUS
<1>2. c \in Going /\ Formed(c) /\ c.requests # <<>> /\ IsMap(model) /\ Housed(model) /\ commands \in Seq(Going) /\ c.served
      /\ epoch \in Nat /\ listed \in Seq(Nat)
  BY <1>1 DEF ModelInv, ModelTyped, Formed, M!Arrive
<1>3. PICK r \in Asking : r = c.requests[1] /\ r = Head(c.requests)
  BY <1>2, FirstRequest
<1>4. HasId(r)
  BY <1>2, <1>3 DEF Formed
<1>5. PICK w : w = IF M!Forgotten(c, r) THEN model ELSE M!Learnt(model, r, Len(c.requests) = 1)
  OBVIOUS
<1>6. PICK x : x = M!Following(w, c, r)
  OBVIOUS
<1>7. PICK L : L = M!Remaining(w, x.requests)
  OBVIOUS
<1>8. PICK d : d = [[x EXCEPT !.requests = L] EXCEPT !.served = FALSE]
  OBVIOUS
<1>9. /\ M!Redraws(r, L) => M!Becomes(w)
      /\ ~M!Redraws(r, L) =>
           /\ model' = w /\ epoch' = epoch
           /\ shown' = {o \in shown : r.do = "dropLayer" => Home[o] # r.layer}
           /\ unseen' = unseen \union (IF r.do = "patchLayer" THEN {r.layer} ELSE {})
      /\ listed' = IF M!Creates(r, Len(c.requests) = 1) THEN Append(listed, r.layer)
                   ELSE M!Only(listed, DOMAIN w.layers)
      /\ L = <<>> => commands' = M!RemoveAt(commands, i)
      /\ L # <<>> => commands' = [commands EXCEPT ![i] = [x EXCEPT !.requests = L, !.served = FALSE]]
      /\ UNCHANGED <<copied, loads, given, calls, excused>>
  BY <1>1, <1>3, <1>5, <1>6, <1>7 DEF M!Arrive
<1>10. IsMap(w) /\ Housed(w)
  <2>1. PICK last \in BOOLEAN : last <=> Len(c.requests) = 1
    OBVIOUS
  <2>2. M!Learnt(model, r, last) = M!Learnt(model, r, Len(c.requests) = 1)
    BY <2>1 DEF M!Learnt, M!Creates
  <2>3. IsMap(M!Learnt(model, r, last)) /\ Housed(M!Learnt(model, r, last))
    BY <1>2, <1>4, LearntIsHoused
  <2>. QED BY <1>2, <1>5, <2>2, <2>3
<1>11. IsFollowing(w, c, r, epoch, x)
  BY <1>2, <1>3, <1>6, <1>10, FollowingIs
<1>12. x \in Going /\ Leaves(w, x.requests, L)
  <2>1. x \in Going /\ x.requests \in Seq(Asking)
    BY <1>11 DEF IsFollowing, Going
  <2>. QED BY <1>7, <2>1, RemainingIs
<1>13. L # <<>> => IsNext(x, L, d)
  BY <1>2, <1>3, <1>8, <1>11, <1>12, FollowingIsFormed
<1>14. model' = w /\ epoch' = epoch
  BY <1>9 DEF M!Becomes
<1>15. L # <<>> => /\ commands' = [commands EXCEPT ![i] = d] /\ commands' \in Seq(Going) /\ DOMAIN commands' = DOMAIN commands
                   /\ commands'[i] = d /\ \A j \in DOMAIN commands : j # i => commands'[j] = commands[j]
  <2>1. [x EXCEPT !.requests = L, !.served = FALSE] = d
    BY <1>8
  <2>. QED BY <1>2, <1>9, <1>13, <2>1 DEF IsNext
<1>16. L = <<>> => /\ commands' \in Seq(Going)
                   /\ \A j \in DOMAIN commands' : Behind(j, i) \in DOMAIN commands /\ commands'[j] = commands[Behind(j, i)]
  BY <1>2, <1>9, WithoutOne
<1>17. ModelTyped'
  <2>1. commands' \in Seq(Going) /\ \A j \in DOMAIN commands' : Formed(commands'[j])
    BY <1>13, <1>15, <1>16 DEF ModelInv, ModelTyped, IsNext
  <2>2. listed' \in Seq(Nat)
    <3>1. r.layer \in Nat
      BY <1>3 DEF Asking
    <3>2. Append(listed, r.layer) \in Seq(Nat) /\ M!Only(listed, DOMAIN w.layers) \in Seq(Nat)
      BY <1>2, <3>1, OnlyThose
    <3>. QED BY <1>9, <3>2
  <2>. QED BY <1>9, <1>10, <1>14, <2>1, <2>2 DEF ModelInv, ModelTyped, Housed
<1>18. LoadsFit'
  BY <1>9 DEF ModelInv, LoadsFit
<1>19. M!ShownAgrees'
  <2>1. CASE M!Redraws(r, L)
    BY <1>9, <1>10, <1>14, <2>1, RedrawnIsShown DEF M!Becomes
  <2>2. CASE ~M!Redraws(r, L)
    <3>1. r.do \in QuietDo
      BY <1>3, <2>2 DEF M!Redraws, QuietDo, Asking, Dos, LayerDo, ObjectDo, FolderDo
    <3>2. SeenAfter(model, w, r)
      <4>1. CASE M!Forgotten(c, r)
        <5>1. w = model /\ r.do = "patchLayer"
          BY <1>5, <3>1, <4>1 DEF M!Forgotten, QuietDo
        <5>. QED BY <5>1 DEF SeenAfter
      <4>2. CASE ~M!Forgotten(c, r)
        <5>1. PICK last \in BOOLEAN : last <=> Len(c.requests) = 1
          OBVIOUS
        <5>2. M!Learnt(model, r, last) = M!Learnt(model, r, Len(c.requests) = 1)
          BY <5>1 DEF M!Learnt, M!Creates
        <5>3. w = M!Learnt(model, r, last)
          BY <1>5, <4>2, <5>2
        <5>. QED BY <1>2, <1>4, <3>1, <5>3, LearntShows
      <4>. QED BY <4>1, <4>2
    <3>. QED BY <1>9, <1>10, <1>14, <2>2, <3>2, NotRedrawnIsShown DEF ModelInv
  <2>. QED BY <2>1, <2>2
<1>20. ASSUME ~excused' PROVE Calm(model', copied', commands', epoch') /\ ListFits(listed', model')
  <2>1. Calm(model, copied, commands, epoch) /\ ListFits(listed, model)
    BY <1>9, <1>20 DEF ModelInv
  <2>2. PICK m, n, q, now, p, z : m = model /\ n = copied /\ q = commands /\ now = epoch /\ p = listed /\ z = listed'
    OBVIOUS
  <2>3. /\ q \in Seq(Going) /\ i \in DOMAIN q /\ c = q[i] /\ Calm(m, n, q, now) /\ p \in Seq(Nat) /\ ListFits(p, m)
        /\ CommandFits(m, n, c, now) /\ c.held = now /\ IsMap(m) /\ Placed(m)
    BY <1>1, <1>2, <2>1, <2>2 DEF Calm, CommandFits
  <2>4. w = LearntFrom(m, c)
    <3>1. ~M!Forgotten(c, r)
      BY <2>2, <2>3 DEF M!Forgotten
    <3>. QED BY <1>3, <1>5, <2>2, <3>1 DEF LearntFrom
  <2>5. z = Relisted(p, w, c)
    BY <1>3, <1>9, <2>2 DEF Relisted
  <2>6. ListFits(z, w)
    BY <1>2, <2>3, <2>4, <2>5, ListArrives
  <2>7. IsFollowing(w, c, c.requests[1], now, x)
    BY <1>3, <1>11, <2>2
  <2>8. CASE L = <<>>
    <3>1. \A k \in DOMAIN x.requests : ~M!Needed(w, x.requests[k])
      <4>1. ASSUME NEW s, IsRest(x.requests, L, s) PROVE FALSE
        <5>1. x.requests \in Seq(Asking) /\ s \in DOMAIN x.requests /\ Len(L) = Len(x.requests) - s + 1
          BY <1>12, <4>1 DEF IsRest, Going
        <5>2. Len(L) = 0
          BY <2>8
        <5>. QED BY <5>1, <5>2
      <4>. QED BY <1>12, <4>1 DEF Leaves
    <3>2. Calm(w, n, M!RemoveAt(q, i), now)
      BY <1>2, <2>3, <2>4, <2>7, <3>1, ArrivesLast
    <3>. QED BY <1>9, <1>14, <2>2, <2>6, <2>8, <3>2
  <2>9. CASE L # <<>>
    <3>1. PICK s \in DOMAIN x.requests : /\ IsRest(x.requests, L, s) /\ M!Needed(w, x.requests[s])
                                         /\ \A k \in DOMAIN x.requests : k < s => ~M!Needed(w, x.requests[k])
      BY <1>12, <2>9 DEF Leaves
    <3>2. IsRest(x.requests, d.requests, s)
      BY <1>13, <2>9, <3>1 DEF IsNext
    <3>3. Calm(w, n, [q EXCEPT ![i] = d], now)
      BY <1>2, <1>13, <2>3, <2>4, <2>7, <2>9, <3>1, <3>2, ArrivesNext DEF IsNext
    <3>. QED BY <1>9, <1>14, <1>15, <2>2, <2>6, <2>9, <3>3
  <2>. QED BY <2>8, <2>9
<1>. QED BY <1>17, <1>18, <1>19, <1>20 DEF ModelInv

-----------------------------------------------------------------------------
(* The loads                                                                *)

AreLoads(q, n) == q \in Seq({q[k] : k \in DOMAIN q}) /\ \A k \in DOMAIN q : LoadFits(q[k], n)

(* A sequence of loads that fit.                                            *)
LEMMA LoadsAre ==
  ASSUME NEW V, NEW q \in Seq(V), NEW n, \A k \in DOMAIN q : LoadFits(q[k], n)
  PROVE  AreLoads(q, n)
<1>1. PICK N \in Nat : N = Len(q) /\ DOMAIN q = 1..N
  OBVIOUS
<1>2. q = [k \in 1..N |-> q[k]]
  BY <1>1
<1>. QED BY <1>2, IsASequence DEF AreLoads

(* A load goes.                                                             *)
LEMMA LoadGoes ==
  ASSUME NEW q, NEW n, AreLoads(q, n), NEW k \in DOMAIN q
  PROVE  AreLoads(M!RemoveAt(q, k), n)
<1>1. PICK V : V = {q[j] : j \in DOMAIN q} /\ q \in Seq(V)
  BY DEF AreLoads
<1>2. PICK p : p = M!RemoveAt(q, k)
  OBVIOUS
<1>3. p \in Seq(V) /\ \A j \in DOMAIN p : Behind(j, k) \in DOMAIN q /\ p[j] = q[Behind(j, k)]
  BY <1>1, <1>2, WithoutOne
<1>4. \A j \in DOMAIN p : LoadFits(p[j], n)
  BY <1>3 DEF AreLoads
<1>. QED BY <1>2, <1>3, <1>4, LoadsAre

(* A load comes, or goes on.                                                *)
LEMMA LoadComes ==
  ASSUME NEW q, NEW n, AreLoads(q, n), NEW l, LoadFits(l, n)
  PROVE  /\ AreLoads(Append(q, l), n)
         /\ \A k \in DOMAIN q : AreLoads([q EXCEPT ![k] = l], n)
<1>1. PICK V : V = {q[j] : j \in DOMAIN q} \union {l} /\ q \in Seq(V) /\ l \in V
  <2>1. PICK W : W = {q[j] : j \in DOMAIN q} /\ q \in Seq(W)
    BY DEF AreLoads
  <2>2. q \in Seq(W \union {l})
    BY <2>1
  <2>. QED BY <2>1, <2>2
<1>2. DOMAIN q = 1..Len(q) /\ Len(q) \in Nat
  BY <1>1
<1>3. PICK p : p = Append(q, l)
  OBVIOUS
<1>4. p \in Seq(V) /\ DOMAIN p = 1..(Len(q) + 1) /\ p[Len(q) + 1] = l /\ \A j \in DOMAIN q : p[j] = q[j]
  BY <1>1, <1>3
<1>5. \A j \in DOMAIN p : j \in DOMAIN q \/ j = Len(q) + 1
  BY <1>2, <1>4
<1>6. \A j \in DOMAIN p : LoadFits(p[j], n)
  BY <1>4, <1>5 DEF AreLoads
<1>7. AreLoads(p, n)
  BY <1>4, <1>6, LoadsAre
<1>8. ASSUME NEW k \in DOMAIN q PROVE AreLoads([q EXCEPT ![k] = l], n)
  <2>1. PICK x : x = [q EXCEPT ![k] = l]
    OBVIOUS
  <2>2. x \in Seq(V) /\ DOMAIN x = DOMAIN q /\ \A j \in DOMAIN q : x[j] = IF j = k THEN l ELSE q[j]
    BY <1>1, <2>1
  <2>3. \A j \in DOMAIN x : LoadFits(x[j], n)
    BY <2>2 DEF AreLoads
  <2>. QED BY <2>1, <2>2, <2>3, LoadsAre
<1>. QED BY <1>3, <1>7, <1>8

(* What the head of a load's list says of the load.                         *)
LEMMA LoadIsAt ==
  ASSUME NEW load, NEW n, LoadFits(load, n), load.todo # <<>>, NEW what, what = Head(load.todo)
  PROVE  /\ what[1] = "layers" => load.todo = <<<<"layers", M!None>>>> /\ ~Layered(load)
         /\ what[1] = "folders" => load.todo = <<<<"folders", M!None>>>> /\ ~Layered(load)
         /\ what[1] = "layer" => Layered(load) /\ what[2] \in DOMAIN load.layers /\ what = load.todo[1]
<1>1. CASE Layered(load)
  <2>1. load.todo \in Seq({"layer"} \X DOMAIN load.layers)
    BY <1>1 DEF Layered
  <2>2. what = load.todo[1] /\ what \in {"layer"} \X DOMAIN load.layers
    BY <2>1
  <2>. QED BY <1>1, <2>2
<1>2. CASE ~Layered(load)
  <2>1. load.todo = <<<<"layers", M!None>>>> \/ load.todo = <<<<"folders", M!None>>>>
    BY <1>2 DEF LoadFits
  <2>2. what[1] = load.todo[1][1] /\ (load.todo = <<<<"layers", M!None>>>> => what[1] = "layers")
        /\ (load.todo = <<<<"folders", M!None>>>> => what[1] = "folders")
    BY <2>1
  <2>. QED BY <1>2, <2>1, <2>2
<1>. QED BY <1>1, <1>2

(* The first two lists of a load are none of layers.                        *)
LEMMA NotLayered ==
  ASSUME NEW l, l.todo = <<<<"layers", M!None>>>> \/ l.todo = <<<<"folders", M!None>>>>
  PROVE  ~Layered(l) /\ l.todo # <<>>
<1>1. l.todo[1][1] # "layer" /\ 1 \in DOMAIN l.todo
  OBVIOUS
<1>2. ASSUME Layered(l) PROVE FALSE
  <2>1. l.todo[1] \in {"layer"} \X DOMAIN l.layers
    BY <1>1, <1>2 DEF Layered
  <2>. QED BY <1>1, <2>1
<1>. QED BY <1>1, <1>2

(* The layers are read.                                                     *)
LEMMA LayersAreRead ==
  ASSUME NEW load, NEW n, IsMap(n), LoadFits(load, n), load.todo = <<<<"layers", M!None>>>>,
         NEW l, l = [load EXCEPT !.layers = n.layers, !.dirty = FALSE, !.todo = <<<<"folders", M!None>>>>]
  PROVE  LoadFits(l, n)
<1>1. /\ l.layers = n.layers /\ l.folders = load.folders /\ l.own = load.own
      /\ l.todo = <<<<"folders", M!None>>>> /\ l.dirty = FALSE /\ l.seq = load.seq
      /\ l = [seq |-> l.seq, layers |-> l.layers, folders |-> l.folders, own |-> l.own, todo |-> l.todo, dirty |-> l.dirty]
  BY DEF LoadFits
<1>2. ~Layered(load) /\ ~Layered(l)
  BY <1>1, NotLayered
<1>3. DOMAIN l.own = {}
  BY <1>1, <1>2 DEF LoadFits
<1>. QED BY <1>1, <1>2, <1>3 DEF LoadFits, IsMap

(* Finitely many layers.                                                    *)
LEMMA LsIsFinite ==
  ASSUME NEW S, IsFiniteSet(S)
  PROVE  IsFiniteSet(M!Ls(S))
<1>1. PICK f : f = [s \in S |-> <<"layer", s>>]
  OBVIOUS
<1>2. f \in Surjection(S, M!Ls(S))
  BY <1>1 DEF Surjection, M!Ls
<1>. QED BY <1>2, FS_Surjection DEF ExistsSurjection

(* The folders are read.                                                    *)
LEMMA FoldersAreRead ==
  ASSUME NEW load, NEW n, IsMap(n), Placed(n), LoadFits(load, n), load.todo = <<<<"folders", M!None>>>>,
         NEW l, l = [load EXCEPT !.folders = n.folders, !.todo = M!SetToSeq(M!Ls(DOMAIN load.layers))]
  PROVE  LoadFits(l, n)
<1>1. PICK D, q : D = M!Ls(DOMAIN load.layers) /\ q = M!SetToSeq(D)
  OBVIOUS
<1>2. /\ l.layers = load.layers /\ l.folders = n.folders /\ l.own = load.own
      /\ l.todo = q /\ l.dirty = load.dirty /\ l.seq = load.seq
      /\ l = [seq |-> l.seq, layers |-> l.layers, folders |-> l.folders, own |-> l.own, todo |-> l.todo, dirty |-> l.dirty]
  BY <1>1 DEF LoadFits
<1>3. IsFiniteSet(D)
  BY <1>1, LsIsFinite DEF LoadFits
<1>4. Cardinality(D) \in Nat /\ q \in [1..Cardinality(D) -> D] /\ M!ToSet(q) = D
  BY <1>1, <1>3, SetInSequence
<1>5. Layered(l)
  <2>1. PICK N \in Nat : N = Cardinality(D)
    BY <1>4
  <2>2. q \in [1..N -> D]
    BY <1>4, <2>1
  <2>3. q \in Seq(D)
    BY <2>2
  <2>4. D = {"layer"} \X DOMAIN load.layers
    BY <1>1 DEF M!Ls
  <2>. QED BY <1>2, <2>3, <2>4 DEF Layered
<1>6. DOMAIN load.own = {}
  BY NotLayered DEF LoadFits
<1>7. ~load.dirty => load.layers = n.layers
  <2>1. load.todo # <<<<"layers", M!None>>>>
    <3>1. load.todo[1][1] = "folders"
      OBVIOUS
    <3>. QED BY <3>1
  <2>. QED BY <2>1 DEF LoadFits
<1>8. ASSUME ~load.dirty, NEW o \in DOMAIN n.own PROVE \E i \in DOMAIN q : q[i] = <<"layer", Home[o]>>
  <2>1. <<"layer", Home[o]>> \in D
    BY <1>1, <1>7, <1>8 DEF Placed, M!Ls
  <2>. QED BY <1>4, <2>1 DEF M!ToSet
<1>9. /\ l.dirty \in BOOLEAN /\ l.layers \in [DOMAIN l.layers -> Row] /\ l.folders \in [DOMAIN l.folders -> BOOLEAN]
      /\ l.own \in [DOMAIN l.own -> Nat] /\ DOMAIN l.own = {}
      /\ DOMAIN l.layers \subseteq Nat \ {0} /\ IsFiniteSet(DOMAIN l.layers)
      /\ DOMAIN l.folders \subseteq Nat \ {0} /\ IsFiniteSet(DOMAIN l.folders)
  BY <1>2, <1>6 DEF LoadFits, IsMap
<1>10. ~l.dirty => l.layers = n.layers /\ l.folders = n.folders
  BY <1>2, <1>7
<1>11. ASSUME ~l.dirty, NEW o \in DOMAIN n.own PROVE \E i \in DOMAIN l.todo : l.todo[i] = <<"layer", Home[o]>>
  BY <1>2, <1>8, <1>11
<1>. QED BY <1>2, <1>5, <1>9, <1>10, <1>11 DEF LoadFits

(* The objects of the next layer are read.                                  *)
LEMMA LayerIsRead ==
  ASSUME NEW load, NEW n, IsMap(n), LoadFits(load, n), Layered(load), load.todo # <<>>,
         NEW x, x \in DOMAIN load.layers, load.todo[1] = <<"layer", x>>,
         NEW l, l = [load EXCEPT !.todo = Tail(@),
                       !.own = [o \in DOMAIN @ \union M!Objs(n, x) |-> IF o \in DOMAIN @ THEN @[o] ELSE n.own[o]]]
  PROVE  LoadFits(l, n)
<1>1. PICK D, q, p, w : /\ D = {"layer"} \X DOMAIN load.layers /\ q = load.todo /\ p = Tail(q)
                        /\ w = [o \in DOMAIN load.own \union M!Objs(n, x) |->
                                  IF o \in DOMAIN load.own THEN load.own[o] ELSE n.own[o]]
  OBVIOUS
<1>2. /\ l.layers = load.layers /\ l.folders = load.folders /\ l.own = w
      /\ l.todo = p /\ l.dirty = load.dirty /\ l.seq = load.seq
      /\ l = [seq |-> l.seq, layers |-> l.layers, folders |-> l.folders, own |-> l.own, todo |-> l.todo, dirty |-> l.dirty]
  BY <1>1 DEF LoadFits
<1>3. q \in Seq(D) /\ q # <<>>
  BY <1>1 DEF Layered
<1>4. /\ p \in Seq(D) /\ DOMAIN q = 1..Len(q) /\ Len(q) \in Nat /\ DOMAIN p = 1..(Len(q) - 1)
      /\ \A i \in 1..(Len(q) - 1) : p[i] = q[i + 1]
  BY <1>1, <1>3
<1>5. Layered(l)
  BY <1>1, <1>2, <1>4 DEF Layered
<1>6. M!Objs(n, x) = {o \in DOMAIN n.own : Home[o] = x}
  BY DEF M!Objs
<1>7. /\ DOMAIN w = DOMAIN load.own \union {o \in DOMAIN n.own : Home[o] = x}
      /\ \A o \in DOMAIN w : w[o] = IF o \in DOMAIN load.own THEN load.own[o] ELSE n.own[o]
  BY <1>1, <1>6
<1>8. /\ load.own \in [DOMAIN load.own -> Nat] /\ n.own \in [DOMAIN n.own -> Nat]
      /\ DOMAIN load.own \subseteq M!Objects /\ DOMAIN n.own \subseteq M!Objects
      /\ \A o \in DOMAIN load.own : Home[o] \in DOMAIN load.layers
  BY DEF LoadFits, IsMap
<1>9. w \in [DOMAIN w -> Nat] /\ DOMAIN w \subseteq M!Objects /\ \A o \in DOMAIN w : Home[o] \in DOMAIN load.layers
  <2>1. \A o \in DOMAIN w : w[o] \in Nat
    BY <1>7, <1>8
  <2>2. w = [o \in DOMAIN w |-> w[o]]
    BY <1>1
  <2>3. w \in [DOMAIN w -> Nat]
    BY <2>1, <2>2
  <2>. QED BY <2>3, <1>7, <1>8
<1>10. /\ l.dirty \in BOOLEAN /\ l.layers \in [DOMAIN l.layers -> Row] /\ l.folders \in [DOMAIN l.folders -> BOOLEAN]
       /\ l.own \in [DOMAIN l.own -> Nat] /\ DOMAIN l.own \subseteq M!Objects
       /\ \A o \in DOMAIN l.own : Home[o] \in DOMAIN l.layers
       /\ DOMAIN l.layers \subseteq Nat \ {0} /\ IsFiniteSet(DOMAIN l.layers)
       /\ DOMAIN l.folders \subseteq Nat \ {0} /\ IsFiniteSet(DOMAIN l.folders)
  BY <1>2, <1>9 DEF LoadFits
<1>11. load.todo # <<<<"layers", M!None>>>>
  BY NotLayered
<1>12. ~l.dirty => l.layers = n.layers
  BY <1>2, <1>11 DEF LoadFits
<1>13. ASSUME ~l.dirty PROVE l.folders = n.folders /\ DOMAIN l.own \subseteq DOMAIN n.own
  <2>1. load.folders = n.folders /\ DOMAIN load.own \subseteq DOMAIN n.own
    BY <1>2, <1>13 DEF LoadFits
  <2>. QED BY <2>1, <1>2, <1>7
<1>14. ASSUME ~l.dirty, NEW o \in DOMAIN n.own
       PROVE  IF o \in DOMAIN l.own THEN l.own[o] = n.own[o]
              ELSE \E i \in DOMAIN l.todo : l.todo[i] = <<"layer", Home[o]>>
  <2>1. IF o \in DOMAIN load.own THEN load.own[o] = n.own[o]
        ELSE \E i \in DOMAIN load.todo : load.todo[i] = <<"layer", Home[o]>>
    BY <1>2, <1>14 DEF LoadFits
  <2>2. CASE o \in DOMAIN w
    BY <2>1, <2>2, <1>2, <1>7
  <2>3. CASE o \notin DOMAIN w
    <3>1. o \notin DOMAIN load.own /\ Home[o] # x
      BY <2>3, <1>7
    <3>2. PICK i \in DOMAIN q : q[i] = <<"layer", Home[o]>>
      BY <3>1, <2>1, <1>1
    <3>3. i # 1
      BY <3>1, <3>2, <1>1
    <3>4. i - 1 \in 1..(Len(q) - 1) /\ p[i - 1] = q[i]
      BY <3>3, <1>4
    <3>5. PICK j : j = i - 1
      OBVIOUS
    <3>6. j \in DOMAIN p /\ p[j] = <<"layer", Home[o]>>
      BY <3>2, <3>4, <3>5, <1>4
    <3>. QED BY <3>6, <2>3, <1>2
  <2>. QED BY <2>2, <2>3
<1>. QED BY <1>2, <1>5, <1>10, <1>12, <1>13, <1>14 DEF LoadFits

(* A step of a load.                                                        *)
LEMMA MapReadKeeps ==
  ASSUME ModelInv, NEW k \in DOMAIN loads, M!Read(k)
  PROVE  ModelInv'
<1>. DEFINE load == loads[k]
            what == Head(load.todo)
<1>1. /\ IsMap(copied) /\ Placed(copied) /\ LoadFits(load, copied) /\ AreLoads(loads, copied)
      /\ UNCHANGED <<copied, model, listed, shown, epoch, commands, given, calls, excused, unseen>>
      /\ load.todo # <<>>
  BY DEF ModelInv, ModelTyped, LoadsFit, AreLoads, M!Read, M!client
<1>2. /\ what[1] = "layers" => load.todo = <<<<"layers", M!None>>>> /\ ~Layered(load)
      /\ what[1] = "folders" => load.todo = <<<<"folders", M!None>>>> /\ ~Layered(load)
      /\ what[1] = "layer" => Layered(load) /\ what[2] \in DOMAIN load.layers /\ what = load.todo[1]
  <2>1. PICK h : h = what
    OBVIOUS
  <2>. HIDE DEF load
  <2>. QED BY <1>1, <2>1, LoadIsAt
<1>3. \E l : LoadFits(l, copied) /\ loads' = [loads EXCEPT ![k] = l]
  <2>1. CASE what[1] = "layers"
    <3>1. PICK l : l = [load EXCEPT !.layers = copied.layers, !.dirty = FALSE, !.todo = <<<<"folders", M!None>>>>]
      OBVIOUS
    <3>2. loads' = [loads EXCEPT ![k] = l]
      BY <2>1, <3>1 DEF M!Read
    <3>3. LoadFits(l, copied)
      BY <1>1, <1>2, <2>1, <3>1, LayersAreRead
    <3>. QED BY <3>2, <3>3
  <2>2. CASE what[1] = "folders"
    <3>1. PICK l : l = [load EXCEPT !.folders = copied.folders, !.todo = M!SetToSeq(M!Ls(DOMAIN load.layers))]
      OBVIOUS
    <3>2. loads' = [loads EXCEPT ![k] = l]
      BY <2>2, <3>1 DEF M!Read
    <3>3. LoadFits(l, copied)
      BY <1>1, <1>2, <2>2, <3>1, FoldersAreRead
    <3>. QED BY <3>2, <3>3
  <2>3. CASE what[1] = "layer"
    <3>1. PICK x : x = what[2]
      OBVIOUS
    <3>2. PICK l : l = [load EXCEPT !.todo = Tail(@),
                       !.own = [o \in DOMAIN @ \union M!Objs(copied, x) |-> IF o \in DOMAIN @ THEN @[o] ELSE copied.own[o]]]
      OBVIOUS
    <3>3. loads' = [loads EXCEPT ![k] = l]
      BY <2>3, <3>1, <3>2 DEF M!Read
    <3>4. load.todo[1] = <<"layer", x>>
      <4>1. load.todo \in Seq({"layer"} \X DOMAIN load.layers) /\ load.todo # <<>>
        BY <1>1, <1>2, <2>3 DEF Layered
      <4>2. load.todo[1] \in {"layer"} \X DOMAIN load.layers
        BY <4>1
      <4>. QED BY <4>2, <3>1, <1>2, <2>3
    <3>5. LoadFits(l, copied)
      <4>. HIDE DEF load
      <4>. QED BY <1>1, <1>2, <2>3, <3>1, <3>2, <3>4, LayerIsRead
    <3>. QED BY <3>3, <3>5
  <2>. QED BY <2>1, <2>2, <2>3 DEF M!Read
<1>4. AreLoads(loads', copied)
  BY <1>1, <1>3, LoadComes, ZenonT(60)
<1>5. LoadsFit'
  BY <1>1, <1>4 DEF LoadsFit, AreLoads
<1>6. ModelTyped'
  BY <1>1 DEF ModelInv, ModelTyped
<1>7. M!ShownAgrees'
  BY <1>1 DEF ModelInv, M!ShownAgrees, M!Visible, M!HomeFolder
<1>8. ASSUME ~excused' PROVE Calm(model, copied, commands, epoch)' /\ ListFits(listed, model)'
  BY <1>1, <1>8 DEF ModelInv
<1>. QED BY <1>5, <1>6, <1>7, <1>8 DEF ModelInv

(* A load fails.                                                            *)
LEMMA MapFailLoadKeeps ==
  ASSUME ModelInv, NEW k \in DOMAIN loads, M!FailLoad(k)
  PROVE  ModelInv'
<1>1. /\ AreLoads(loads, copied) /\ loads' = M!RemoveAt(loads, k)
      /\ UNCHANGED <<copied, model, listed, shown, epoch, commands, given, calls, excused, unseen>>
  BY DEF ModelInv, LoadsFit, AreLoads, M!FailLoad, M!client
<1>2. AreLoads(loads', copied)
  BY <1>1, LoadGoes
<1>3. LoadsFit'
  BY <1>1, <1>2 DEF LoadsFit, AreLoads
<1>4. ModelTyped'
  BY <1>1 DEF ModelInv, ModelTyped
<1>5. M!ShownAgrees'
  BY <1>1 DEF ModelInv, M!ShownAgrees, M!Visible, M!HomeFolder
<1>6. ASSUME ~excused' PROVE Calm(model, copied, commands, epoch)' /\ ListFits(listed, model)'
  BY <1>1, <1>6 DEF ModelInv
<1>. QED BY <1>3, <1>4, <1>5, <1>6 DEF ModelInv

(* A load begins.                                                           *)
LEMMA MapLoadKeeps ==
  ASSUME ModelInv, M!LoadMapData
  PROVE  ModelInv'
<1>1. PICK l : l = [seq |-> calls', layers |-> <<>>, folders |-> <<>>, own |-> <<>>,
                    todo |-> <<<<"layers", M!None>>>>, dirty |-> FALSE]
  OBVIOUS
<1>2. /\ AreLoads(loads, copied) /\ loads' = Append(loads, l) /\ calls' \in Nat
      /\ UNCHANGED <<copied, model, listed, shown, epoch, commands, given, excused, unseen>>
  BY <1>1 DEF ModelInv, ModelTyped, LoadsFit, AreLoads, M!LoadMapData, M!client
<1>3. /\ DOMAIN l.layers = {} /\ DOMAIN l.folders = {} /\ DOMAIN l.own = {} /\ l.todo = <<<<"layers", M!None>>>>
      /\ l.dirty = FALSE
      /\ l = [seq |-> l.seq, layers |-> l.layers, folders |-> l.folders, own |-> l.own, todo |-> l.todo, dirty |-> l.dirty]
      /\ l.layers = <<>> /\ l.folders = <<>> /\ l.own = <<>>
  BY <1>1
<1>4. ~Layered(l)
  BY <1>3, NotLayered
<1>5. /\ l.layers \in [DOMAIN l.layers -> Row] /\ l.folders \in [DOMAIN l.folders -> BOOLEAN]
      /\ l.own \in [DOMAIN l.own -> Nat]
  BY <1>3
<1>6. IsFiniteSet(DOMAIN l.layers) /\ IsFiniteSet(DOMAIN l.folders)
  BY <1>3, FS_EmptySet
<1>7. LoadFits(l, copied)
  BY <1>3, <1>4, <1>5, <1>6 DEF LoadFits
<1>8. AreLoads(loads', copied)
  BY <1>2, <1>7, LoadComes
<1>9. LoadsFit'
  BY <1>2, <1>8 DEF LoadsFit, AreLoads
<1>10. ModelTyped'
  BY <1>2 DEF ModelInv, ModelTyped
<1>11. M!ShownAgrees'
  BY <1>2 DEF ModelInv, M!ShownAgrees, M!Visible, M!HomeFolder
<1>12. ASSUME ~excused' PROVE Calm(model, copied, commands, epoch)' /\ ListFits(listed, model)'
  BY <1>2, <1>12 DEF ModelInv
<1>. QED BY <1>9, <1>10, <1>11, <1>12 DEF ModelInv

(* A load that has not been overtaken has read what the server has.         *)
LEMMA LoadHasRead ==
  ASSUME NEW load, NEW n, IsMap(n), LoadFits(load, n), load.todo = <<>>,
         NEW m, m = [layers |-> load.layers, folders |-> load.folders, own |-> load.own]
  PROVE  IsMap(m) /\ Housed(m) /\ (~load.dirty => m = n)
<1>1. m.layers = load.layers /\ m.folders = load.folders /\ m.own = load.own
      /\ m \in [layers : {m.layers}, folders : {m.folders}, own : {m.own}]
  OBVIOUS
<1>2. IsMap(m) /\ Housed(m)
  BY <1>1 DEF IsMap, Housed, LoadFits
<1>3. ASSUME ~load.dirty PROVE m = n
  <2>1. Layered(load)
    BY DEF Layered
  <2>2. load.todo # <<<<"layers", M!None>>>>
    BY NotLayered
  <2>3. /\ load.layers = n.layers /\ load.folders = n.folders /\ DOMAIN load.own \subseteq DOMAIN n.own
        /\ \A o \in DOMAIN n.own : o \in DOMAIN load.own /\ load.own[o] = n.own[o]
    <3>1. DOMAIN load.todo = {}
      OBVIOUS
    <3>. QED BY <1>3, <2>1, <2>2, <3>1 DEF LoadFits
  <2>4. load.own \in [DOMAIN load.own -> Nat] /\ n.own \in [DOMAIN n.own -> Nat]
    BY DEF LoadFits, IsMap
  <2>5. DOMAIN load.own = DOMAIN n.own
    BY <2>3
  <2>6. load.own = n.own
    BY <2>3, <2>4, <2>5
  <2>7. n = [layers |-> n.layers, folders |-> n.folders, own |-> n.own]
    BY DEF IsMap
  <2>. QED BY <2>3, <2>6, <2>7
<1>. QED BY <1>2, <1>3

(* A load replaces the copy, or is overtaken by a later one.                *)
LEMMA MapInstallKeeps ==
  ASSUME ModelInv, NEW k \in DOMAIN loads, M!Install(k)
  PROVE  ModelInv'
<1>1. PICK load, m : load = loads[k] /\ m = [layers |-> load.layers, folders |-> load.folders, own |-> load.own]
  OBVIOUS
<1>2. /\ IsMap(copied) /\ Placed(copied) /\ LoadFits(load, copied) /\ AreLoads(loads, copied)
      /\ loads' = M!RemoveAt(loads, k) /\ load.todo = <<>>
      /\ UNCHANGED <<copied, commands, given, calls>>
      /\ epoch \in Nat /\ commands \in Seq(Going)
  BY <1>1 DEF ModelInv, ModelTyped, LoadsFit, AreLoads, M!Install
<1>3. AreLoads(loads', copied)
  BY <1>2, LoadGoes
<1>4. LoadsFit'
  BY <1>2, <1>3 DEF LoadsFit, AreLoads
<1>5. CASE load.seq = calls
  <2>1. /\ model' = m /\ shown' = M!Visible(m) /\ unseen' = {}
        /\ listed' = M!SetToSeq(DOMAIN m.layers) /\ epoch' = epoch + 1
        /\ excused' = (load.dirty \/ commands # <<>>)
    BY <1>1, <1>5 DEF M!Install, M!Latest
  <2>2. IsMap(m) /\ Housed(m) /\ (~load.dirty => m = copied)
    BY <1>1, <1>2, LoadHasRead
  <2>3. /\ IsFiniteSet(DOMAIN m.layers) /\ DOMAIN m.layers \subseteq Nat
    BY <2>2 DEF IsMap
  <2>4. /\ Cardinality(DOMAIN m.layers) \in Nat /\ listed' \in [1..Cardinality(DOMAIN m.layers) -> DOMAIN m.layers]
        /\ M!ToSet(listed') = DOMAIN m.layers /\ Distinct(listed')
    BY <2>1, <2>3, SetInSequence
  <2>5. listed' \in Seq(Nat)
    <3>1. PICK N \in Nat : N = Cardinality(DOMAIN m.layers)
      BY <2>4
    <3>2. listed' \in [1..N -> Nat]
      BY <2>3, <2>4, <3>1
    <3>. QED BY <3>2
  <2>6. ModelTyped'
    <3>1. load.dirty \in BOOLEAN
      BY <1>2 DEF LoadFits
    <3>2. IsMap(model') /\ Housed(model')
      BY <2>1, <2>2
    <3>3. epoch' \in Nat
      <4>1. epoch' = epoch + 1 /\ epoch \in Nat
        BY <2>1, <1>2
      <4>. QED BY <4>1
    <3>4. (load.dirty \/ commands # <<>>) \in BOOLEAN
      OBVIOUS
    <3>5. excused' \in BOOLEAN
      BY <2>1, <3>4
    <3>. QED BY <1>2, <2>5, <3>2, <3>3, <3>5 DEF ModelInv, ModelTyped
  <2>7. M!ShownAgrees'
    BY <2>1, <2>2, RedrawnIsShown
  <2>8. ASSUME ~excused' PROVE Calm(model, copied, commands, epoch)' /\ ListFits(listed, model)'
    <3>1. model' = copied /\ commands = <<>>
      BY <2>1, <2>2, <2>8
    <3>2. DOMAIN commands = {}
      BY <3>1
    <3>3. \A t \in Things : Same(copied, copied, t)
      BY SameIsSame
    <3>4. Calm(copied, copied, commands, epoch')
      BY <1>2, <3>2, <3>3 DEF Calm
    <3>5. ListFits(listed', model')
      BY <2>1, <2>4 DEF ListFits
    <3>. QED BY <1>2, <3>1, <3>4, <3>5
  <2>. QED BY <1>4, <2>6, <2>7, <2>8 DEF ModelInv
<1>6. CASE load.seq # calls
  <2>1. UNCHANGED <<model, listed, shown, epoch, excused, unseen>>
    BY <1>1, <1>6 DEF M!Install, M!Latest, M!client
  <2>2. ModelTyped'
    BY <1>2, <2>1 DEF ModelInv, ModelTyped
  <2>3. M!ShownAgrees'
    BY <1>2, <2>1 DEF ModelInv, M!ShownAgrees, M!Visible, M!HomeFolder
  <2>4. ASSUME ~excused' PROVE Calm(model, copied, commands, epoch)' /\ ListFits(listed, model)'
    BY <1>2, <2>1, <2>4 DEF ModelInv
  <2>. QED BY <1>4, <2>2, <2>3, <2>4 DEF ModelInv
<1>. QED BY <1>5, <1>6

-----------------------------------------------------------------------------
(* A command begins                                                         *)

(* A command moves things only into folders that it is about.               *)
LEMMA ExpectedMoves ==
  ASSUME NEW m, IsMap(m), NEW c \in Going, Fits(c), Formed(c), HasIds(c)
  PROVE  Moves(m, Expected(m, c), c.about)
<1>1. PICK r : r = c.requests[1]
  OBVIOUS
<1>2. /\ r \in Asking
      /\ r.do \in FolderDo => <<"folder", r.folder>> \in c.about
      /\ r.do = "addLayer" => r.folder = M!None
  <2>1. 1 \in DOMAIN c.requests
    BY FirstRequest DEF Formed
  <2>. QED BY <1>1, <2>1, FirstFits DEF Formed
<1>3. CASE c.served
  <2>1. HasId(r)
    BY <1>1, <1>3 DEF HasIds
  <2>2. Expected(m, c) = IF r.do = "showLayer" THEN m ELSE Effect(m, r)
    BY <1>1, <1>2, <1>3 DEF Expected, Ended
  <2>3. Moves(m, Effect(m, r), c.about)
    BY <1>2, <2>1, EffectMoves DEF FolderDo
  <2>. QED BY <2>2, <2>3, NothingMoves
<1>4. CASE ~c.served
  <2>1. Expected(m, c) = Begun(m, r)
    BY <1>1, <1>4 DEF Expected
  <2>2. Begun(m, r) = IF r.do = "showLayer" THEN Effect(m, [r EXCEPT !.on = ~r.on])
                      ELSE IF r.do = "intoFolder" THEN WithRow(m, r.layer, [on |-> TRUE, folder |-> M!None])
                      ELSE m
    BY <1>2, BegunIs
  <2>3. CASE r.do = "showLayer"
    <3>1. PICK x : x = [r EXCEPT !.on = ~r.on]
      OBVIOUS
    <3>2. x \in Asking /\ x.do = "showLayer" /\ HasId(x)
      BY <1>2, <2>3, <3>1 DEF Asking, HasId
    <3>3. Moves(m, Effect(m, x), c.about)
      BY <3>2, EffectMoves
    <3>. QED BY <2>1, <2>2, <2>3, <3>1, <3>3
  <2>4. CASE r.do = "intoFolder"
    <3>1. r.layer \in Nat \ {0}
      BY <1>1, <1>2, <2>4 DEF HasIds, HasId, Asking, M!None
    <3>2. PICK row : row = [on |-> TRUE, folder |-> M!None]
      OBVIOUS
    <3>3. row \in Row /\ row.folder = M!None
      BY <3>2 DEF Row, M!None
    <3>4. Moves(m, WithRow(m, r.layer, row), c.about)
      BY <3>1, <3>3, RowMoves
    <3>. QED BY <2>1, <2>2, <2>4, <3>2, <3>4
  <2>5. CASE r.do \notin {"showLayer", "intoFolder"}
    BY <2>1, <2>2, <2>5, NothingMoves
  <2>. QED BY <2>3, <2>4, <2>5
<1>. QED BY <1>3, <1>4

(* What is in the folder f in n is there in m.                              *)
IsThereToo(m, n, l, f) ==
  /\ l \in DOMAIN n.layers /\ n.layers[l].folder = f => l \in DOMAIN m.layers /\ m.layers[l].folder = f
  /\ \A o \in DOMAIN n.own : Home[o] = l /\ o \in M!Objects /\ n.own[o] = f => o \in DOMAIN m.own /\ m.own[o] = f

(* What no command touches is the same for the server, and what one touches *)
(* is in no folder that it does not know of.                                *)
LEMMA WhereItIs ==
  ASSUME NEW m, NEW n, IsMap(m), NEW q \in Seq(Going), NEW now, Calm(m, n, q, now),
         \A i \in DOMAIN q : Formed(q[i]),
         NEW A, \A i \in DOMAIN q : q[i].about \intersect A = {},
         NEW f, <<"folder", f>> \in A, f # M!None,
         NEW l, <<"layer", l>> \in Things
  PROVE  IsThereToo(m, n, l, f)
<1>1. PICK t \in Things : t = <<"layer", l>> /\ t[1] = "layer" /\ t[2] = l
  OBVIOUS
<1>2. PICK w : Same(w, n, t) /\ Moves(m, w, {x \in Things : x \notin A})
  <2>1. CASE \A i \in DOMAIN q : t \notin Touched(q[i])
    BY <2>1, NothingMoves DEF Calm
  <2>2. CASE \E i \in DOMAIN q : t \in Touched(q[i])
    <3>1. PICK i \in DOMAIN q : t \in Touched(q[i])
      BY <2>2
    <3>2. PICK c : c = q[i]
      OBVIOUS
    <3>3. c \in Going /\ CommandFits(m, n, c, now) /\ Formed(c) /\ c.about \intersect A = {}
      BY <3>2 DEF Calm
    <3>4. HasIds(c) /\ Fits(c)
      BY <3>3, KnownHasIds DEF CommandFits, Formed
    <3>5. PICK w : w = Expected(m, c)
      OBVIOUS
    <3>6. Moves(m, w, c.about)
      BY <3>3, <3>4, <3>5, ExpectedMoves
    <3>7. c.about \subseteq {x \in Things : x \notin A}
      BY <3>3, FirstRequest DEF Formed
    <3>8. Moves(m, w, {x \in Things : x \notin A})
      BY <3>6, <3>7 DEF Moves
    <3>9. Same(w, n, t)
      BY <3>1, <3>2, <3>3, <3>5 DEF CommandFits
    <3>. QED BY <3>8, <3>9
  <2>. QED BY <2>1, <2>2
<1>3. SameLayer(w, n, l)
  BY <1>1, <1>2 DEF Same
<1>4. <<"folder", f>> \notin {x \in Things : x \notin A}
  OBVIOUS
<1>5. l \in DOMAIN n.layers /\ n.layers[l].folder = f => l \in DOMAIN m.layers /\ m.layers[l].folder = f
  BY <1>2, <1>3, <1>4 DEF SameLayer, Moves
<1>6. ASSUME NEW o \in DOMAIN n.own, Home[o] = l, o \in M!Objects, n.own[o] = f PROVE o \in DOMAIN m.own /\ m.own[o] = f
  BY <1>2, <1>3, <1>4, <1>6 DEF SameLayer, Moves
<1>. QED BY <1>5, <1>6 DEF IsThereToo

(* What the panel asks for, as the copy m is.                               *)
IsAsked(m, c, now) ==
  /\ c \in Going /\ Fits(c) /\ Formed(c) /\ c.served = FALSE /\ c.held = now
  /\ \A t \in c.about : There(m, t)
  /\ \A k \in DOMAIN c.requests : c.requests[k].do # "patchLayer"
  /\ \A k \in DOMAIN c.requests : c.requests[k].do = "intoFolder" => k # 1
  /\ \A k \in DOMAIN c.requests : c.requests[k].do = "showLayer" => c.requests[k].on = ~m.layers[c.requests[k].layer].on
  /\ \A k \in DOMAIN c.requests : c.requests[k].do \in {"showFolder", "dropFolder"} => Claims(m, c)
  /\ MovesOut(m, c)

(* What is left of it.                                                      *)
LEMMA MovesOutStill ==
  ASSUME NEW m, NEW c \in Going, MovesOut(m, c), NEW d, Follows(c, d), NEW s, IsRest(c.requests, d.requests, s),
         \A k \in DOMAIN c.requests : k < s => ~M!Needed(m, c.requests[k])
  PROVE  MovesOut(m, d)
<1>1. PICK q, p : q = c.requests /\ p = d.requests
  OBVIOUS
<1>2. PICK N \in Nat : N = Len(q) /\ DOMAIN q = 1..N
  BY <1>1 DEF Going
<1>3. /\ s \in 1..N /\ Len(p) = N - s + 1 /\ DOMAIN p = 1..(N - s + 1)
      /\ \A k \in DOMAIN p : s + k - 1 \in DOMAIN q /\ p[k] = q[s + k - 1]
  BY <1>1, <1>2 DEF IsRest
<1>4. s \in Nat /\ s >= 1 /\ s <= N /\ N >= 1
  BY <1>2, <1>3
<1>5. SUFFICES ASSUME c.keeps # {} /\ c.folder # M!None
               PROVE  \E l \in Nat :
                        /\ <<"layer", l>> \in c.about
                        /\ \A o \in c.keeps : o \in DOMAIN m.own /\ Home[o] = l /\ m.own[o] \in {M!None, c.folder}
                        /\ p[Len(p)].do \in {"putObject", "detachObject"} /\ p[Len(p)].layer \notin c.keeps
                        /\ \A n \in DOMAIN p : n = Len(p) - 1 => p[n].do = "detachLayer" /\ p[n].layer = l
                        /\ \A n \in DOMAIN p : n < Len(p) - 1 => p[n].do = "keepObject" /\ p[n].folder = c.folder
                        /\ m.layers[l].folder = IF Len(p) = 1 THEN M!None ELSE c.folder
                        /\ \A o \in c.keeps : m.own[o] = M!None => \E n \in DOMAIN p : n < Len(p) - 1 /\ p[n].layer = o
  BY <1>1 DEF MovesOut, Follows
<1>6. PICK l \in Nat :
        /\ <<"layer", l>> \in c.about
        /\ \A o \in c.keeps : o \in DOMAIN m.own /\ Home[o] = l /\ m.own[o] \in {M!None, c.folder}
        /\ q[N].do \in {"putObject", "detachObject"} /\ q[N].layer \notin c.keeps
        /\ \A n \in DOMAIN q : n = N - 1 => q[n].do = "detachLayer" /\ q[n].layer = l
        /\ \A n \in DOMAIN q : n < N - 1 => q[n].do = "keepObject" /\ q[n].folder = c.folder
        /\ m.layers[l].folder = IF N = 1 THEN M!None ELSE c.folder
        /\ \A o \in c.keeps : m.own[o] = M!None => \E n \in DOMAIN q : n < N - 1 /\ q[n].layer = o
  BY <1>1, <1>2, <1>5 DEF MovesOut
<1>7. N # 1 => s <= N - 1
  <2>1. SUFFICES ASSUME N # 1, s = N PROVE FALSE
    BY <1>4
  <2>2. N - 1 \in DOMAIN q /\ N - 1 < s
    BY <1>2, <1>4, <2>1
  <2>3. q[N - 1].do = "detachLayer" /\ ~M!Needed(m, q[N - 1])
    BY <1>1, <1>6, <2>2
  <2>. QED BY <2>3, AlwaysNeeded
<1>8. p[Len(p)] = q[N] /\ (Len(p) = 1 <=> N = 1)
  <2>1. Len(p) \in DOMAIN p /\ s + Len(p) - 1 = N
    BY <1>3, <1>4
  <2>2. p[Len(p)] = q[s + Len(p) - 1]
    BY <1>3, <2>1
  <2>3. Len(p) = 1 <=> N = 1
    BY <1>3, <1>4, <1>7
  <2>. QED BY <2>1, <2>2, <2>3
<1>9. ASSUME NEW n \in DOMAIN p
      PROVE  /\ n = Len(p) - 1 => p[n].do = "detachLayer" /\ p[n].layer = l
             /\ n < Len(p) - 1 => p[n].do = "keepObject" /\ p[n].folder = c.folder
  <2>1. PICK k \in DOMAIN q : k = s + n - 1 /\ p[n] = q[k]
    BY <1>3
  <2>2. (n = Len(p) - 1 => k = N - 1) /\ (n < Len(p) - 1 => k < N - 1)
    BY <1>3, <1>4, <2>1
  <2>. QED BY <2>1, <2>2, <1>6
<1>10. ASSUME NEW o \in c.keeps, m.own[o] = M!None PROVE \E n \in DOMAIN p : n < Len(p) - 1 /\ p[n].layer = o
  <2>1. PICK k \in DOMAIN q : k < N - 1 /\ q[k].layer = o
    BY <1>6, <1>10
  <2>2. M!Needed(m, q[k])
    <3>1. q[k].do = "keepObject"
      BY <1>6, <2>1
    <3>. QED BY <2>1, <3>1, <1>10 DEF M!Needed
  <2>3. k \in Nat /\ k >= s
    BY <1>1, <1>2, <1>4, <2>1, <2>2
  <2>4. PICK n : n = k - s + 1
    OBVIOUS
  <2>5. n \in DOMAIN p /\ s + n - 1 = k /\ n < Len(p) - 1
    BY <1>2, <1>3, <1>4, <2>1, <2>3, <2>4
  <2>6. p[n] = q[k]
    BY <1>3, <2>5
  <2>. QED BY <2>1, <2>5, <2>6
<1>. QED BY <1>6, <1>8, <1>9, <1>10

(* What is left fits.                                                       *)
Leftover(m, c, d, s) ==
  /\ Follows(c, d) /\ IsRest(c.requests, d.requests, s) /\ M!Needed(m, c.requests[s])
  /\ \A k \in DOMAIN c.requests : k < s => ~M!Needed(m, c.requests[k])

(* It is still what the panel asks for.                                     *)
LEMMA LeftoverIsAsked ==
  ASSUME NEW m, NEW c, NEW now, IsAsked(m, c, now), NEW d, NEW s, Leftover(m, c, d, s)
  PROVE  /\ IsAsked(m, d, now) /\ Fresh(d) = {}
         /\ d.requests[1].do \notin {"intoFolder", "patchLayer"}
<1>1. /\ c \in Going /\ d \in Going /\ Follows(c, d) /\ IsRest(c.requests, d.requests, s) /\ Fits(c) /\ Formed(c)
      /\ c.requests \in Seq(Asking)
  BY DEF IsAsked, Leftover, Follows, Going
<1>2. PICK q, p : q = c.requests /\ p = d.requests
  OBVIOUS
<1>3. PICK N \in Nat : N = Len(q) /\ DOMAIN q = 1..N
  BY <1>1, <1>2
<1>4. /\ s \in 1..N /\ Len(p) = N - s + 1 /\ DOMAIN p = 1..(N - s + 1)
      /\ \A k \in DOMAIN p : s + k - 1 \in DOMAIN q /\ p[k] = q[s + k - 1]
  BY <1>1, <1>2, <1>3 DEF IsRest
<1>5. s \in Nat /\ s >= 1 /\ s <= N /\ 1 \in DOMAIN p /\ 1 \in DOMAIN q /\ p[1] = q[s]
  BY <1>3, <1>4
<1>6. q[1].do = "addLayer" => s = 1
  <2>1. SUFFICES ASSUME q[1].do = "addLayer", s # 1 PROVE FALSE
    OBVIOUS
  <2>2. ~M!Needed(m, q[1])
    BY <1>2, <1>5, <2>1 DEF Leftover
  <2>. QED BY <2>1, <2>2, AlwaysNeeded
<1>7. Fits(d)
  BY <1>1, <1>2, <1>6, RestFits
<1>8. p # <<>>
  BY <1>4, <1>5
<1>9. \A k \in DOMAIN p : \E j \in DOMAIN q : p[k] = q[j]
  BY <1>4
<1>10. Formed(d)
  BY <1>1, <1>2, <1>8, <1>9 DEF Formed, Follows
<1>11. \A k \in DOMAIN p : p[k].do = "intoFolder" => k # 1
  <2>1. SUFFICES ASSUME p[1].do = "intoFolder" PROVE FALSE
    OBVIOUS
  <2>2. q[s].do = "intoFolder" /\ s # 1
    BY <1>2, <1>3, <1>4, <1>5, <2>1 DEF IsAsked
  <2>3. q[1].do = "addLayer"
    BY <1>1, <1>2, <1>3, <1>4, <2>2 DEF Fits
  <2>. QED BY <1>6, <2>2, <2>3
<1>12. MovesOut(m, d)
  BY <1>1, MovesOutStill DEF IsAsked, Leftover
<1>13. ASSUME NEW k \in DOMAIN p, p[k].do \in {"showFolder", "dropFolder"} PROVE Claims(m, d)
  <2>1. PICK j \in DOMAIN q : p[k] = q[j]
    BY <1>9
  <2>2. Claims(m, c) /\ Len(q) = 1
    BY <1>1, <1>2, <1>13, <2>1, ZenonT(60) DEF IsAsked, Fits, AloneDo
  <2>3. s = 1
    BY <1>3, <1>4, <2>2
  <2>4. p[1] = q[1]
    BY <1>5, <2>3
  <2>. QED BY <1>1, <1>2, <2>2, <2>4 DEF Claims, Follows
<1>14. /\ \A t \in d.about : There(m, t)
       /\ \A k \in DOMAIN p : p[k].do # "patchLayer"
       /\ \A k \in DOMAIN p : p[k].do = "showLayer" => p[k].on = ~m.layers[p[k].layer].on
       /\ d.served = FALSE /\ d.held = now
  BY <1>1, <1>2, <1>9 DEF IsAsked, Follows
<1>15. IsAsked(m, d, now)
  BY <1>1, <1>2, <1>7, <1>10, <1>11, <1>12, <1>13, <1>14 DEF IsAsked
<1>16. p[1].do \notin {"intoFolder", "patchLayer"}
  BY <1>5, <1>11, <1>14
<1>17. Fresh(d) = {}
  BY <1>2, <1>14, <1>16 DEF Fresh
<1>. QED BY <1>2, <1>15, <1>16, <1>17

(* What is about to begin claims what is there for the server, too.         *)
LEMMA ClaimsThere ==
  ASSUME NEW m, NEW n, IsMap(m), IsMap(n), Housed(n), NEW q \in Seq(Going), NEW now, Calm(m, n, q, now),
         \A i \in DOMAIN q : Formed(q[i]),
         NEW d, IsAsked(m, d, now), \A i \in DOMAIN q : q[i].about \intersect d.about = {}
  PROVE  Claims(m, d) /\ Claims(n, d)
<1>1. PICK r : r = d.requests[1]
  OBVIOUS
<1>2. d \in Going /\ Fits(d) /\ 1 \in DOMAIN d.requests /\ (r.do \in {"showFolder", "dropFolder"} => Claims(m, d))
  <2>1. d \in Going /\ d.requests # <<>>
    BY DEF IsAsked, Formed
  <2>. QED BY <1>1, <2>1, FirstRequest DEF IsAsked
<1>3. CASE r.do \notin {"showFolder", "dropFolder"}
  BY <1>1, <1>3 DEF Claims
<1>4. CASE r.do \in {"showFolder", "dropFolder"}
  <2>1. Claims(m, d)
    BY <1>2, <1>4
  <2>2. PICK f : f = r.folder
    OBVIOUS
  <2>3. <<"folder", f>> \in d.about
    BY <1>1, <1>2, <1>4, <2>2, FirstFits DEF FolderDo
  <2>4. f # M!None
    <3>1. There(m, <<"folder", f>>)
      BY <2>3 DEF IsAsked
    <3>2. f \in DOMAIN m.folders
      BY <3>1 DEF There
    <3>. QED BY <3>2 DEF IsMap, M!None
  <2>5. ASSUME NEW l \in Nat
        PROVE  /\ l \in DOMAIN n.layers /\ n.layers[l].folder = f => l \in DOMAIN m.layers /\ m.layers[l].folder = f
               /\ \A o \in DOMAIN n.own : Home[o] = l /\ o \in M!Objects /\ n.own[o] = f => o \in DOMAIN m.own /\ m.own[o] = f
    <3>1. <<"layer", l>> \in Things
      BY DEF Things
    <3>2. IsThereToo(m, n, l, f)
      BY <2>3, <2>4, <3>1, WhereItIs
    <3>. QED BY <3>2 DEF IsThereToo
  <2>6. ASSUME NEW l \in DOMAIN n.layers, n.layers[l].folder = f PROVE <<"layer", l>> \in d.about
    <3>1. l \in Nat
      BY DEF IsMap
    <3>2. l \in DOMAIN m.layers /\ m.layers[l].folder = f
      BY <3>1, <2>5, <2>6
    <3>. QED BY <1>1, <1>4, <2>1, <2>2, <3>2 DEF Claims
  <2>7. ASSUME r.do = "dropFolder", NEW o \in DOMAIN n.own, n.own[o] = f PROVE <<"layer", Home[o]>> \in d.about
    <3>1. PICK l : l = Home[o]
      OBVIOUS
    <3>2. l \in Nat /\ o \in M!Objects
      BY <3>1 DEF IsMap, Housed
    <3>3. o \in DOMAIN m.own /\ m.own[o] = f
      BY <3>1, <3>2, <2>5, <2>7
    <3>. QED BY <1>1, <2>1, <2>2, <2>7, <3>3 DEF Claims
  <2>8. Claims(n, d)
    BY <1>1, <2>2, <2>6, <2>7 DEF Claims
  <2>. QED BY <2>1, <2>8
<1>. QED BY <1>3, <1>4

(* setLayerVisibility switches at once.                                     *)
SwitchedAtOnce(m, r) == IF r.do = "showLayer" THEN M!Switched(m, r.layer, r.on) ELSE m

(* The copy that a command leaves when it begins, and what the command      *)
(* expects of the server then.                                              *)
LEMMA SwitchBegins ==
  ASSUME NEW m, IsMap(m), Placed(m), NEW now, NEW d, IsAsked(m, d, now), NEW r, r = d.requests[1], r.do # "intoFolder",
         NEW w, w = SwitchedAtOnce(m, r)
  PROVE  /\ IsMap(w) /\ Placed(w) /\ ChangesOnly(m, w, d.about) /\ Moves(m, w, d.about)
         /\ \A t \in Things : There(m, t) => There(w, t)
         /\ r.do = "showLayer" => w.layers[r.layer].on = r.on
         /\ \A t \in Things : Same(Expected(w, d), m, t)
         /\ (r.do # "showLayer" => w = m)
<1>1. /\ d \in Going /\ Fits(d) /\ d.served = FALSE /\ r \in Asking
      /\ r.do = "showLayer" => r.on = ~m.layers[r.layer].on /\ <<"layer", r.layer>> \in d.about
  <2>1. d \in Going /\ d.requests # <<>> /\ Fits(d) /\ d.served = FALSE
    BY DEF IsAsked, Formed
  <2>2. 1 \in DOMAIN d.requests /\ r \in Asking
    BY <2>1, FirstRequest
  <2>3. r.do = "showLayer" => <<"layer", r.layer>> \in d.about
    BY <2>1, FirstFits DEF LayerDo
  <2>. QED BY <2>1, <2>2, <2>3 DEF IsAsked
<1>2. Expected(w, d) = Begun(w, r)
  BY <1>1 DEF Expected
<1>3. CASE r.do # "showLayer"
  <2>1. w = m /\ Begun(w, r) = m
    BY <1>3 DEF SwitchedAtOnce, Begun
  <2>. QED BY <1>2, <1>3, <2>1, NothingChanges, NothingMoves, SameIsSame
<1>4. CASE r.do = "showLayer"
  <2>1. PICK l, on : l = r.layer /\ on = r.on
    OBVIOUS
  <2>2. l \in DOMAIN m.layers /\ l \in Nat \ {0} /\ on \in BOOLEAN
    <3>1. There(m, <<"layer", l>>)
      BY <1>1, <1>4, <2>1 DEF IsAsked
    <3>2. l \in DOMAIN m.layers
      BY <3>1 DEF There
    <3>. QED BY <1>1, <2>1, <3>2 DEF IsMap, Asking
  <2>3. PICK old : old = m.layers[l]
    OBVIOUS
  <2>4. old \in Row /\ old.on \in BOOLEAN /\ old.folder \in Nat /\ old = [on |-> old.on, folder |-> old.folder]
    BY <2>2, <2>3 DEF IsMap, Row
  <2>5. PICK row : row = [on |-> on, folder |-> old.folder]
    OBVIOUS
  <2>6. row \in Row /\ row.on = on /\ row.folder = old.folder
    BY <2>2, <2>4, <2>5 DEF Row
  <2>7. w = WithRow(m, l, row)
    BY <1>4, <2>1, <2>2, <2>3, <2>5, SwitchIsARow DEF SwitchedAtOnce
  <2>8. HasId(r) /\ w = Effect(m, r)
    BY <1>4 DEF SwitchedAtOnce, Effect, HasId
  <2>9. IsMap(w) /\ Placed(w)
    BY <1>1, <1>4, <2>8, EffectIsAMap, EffectIsPlaced
  <2>10. ChangesOnly(m, w, d.about)
    <3>1. ASSUME NEW t \in Things \ d.about PROVE Same(w, m, t)
      <4>1. t # <<"layer", l>>
        BY <1>1, <1>4, <2>1
      <4>. QED BY <2>2, <2>6, <2>7, <4>1, RowIsLocal
    <3>. QED BY <3>1 DEF ChangesOnly
  <2>11. Moves(m, w, d.about)
    BY <1>1, <1>4, <2>8, EffectMoves
  <2>12. \A t \in Things : There(m, t) => There(w, t)
    BY <1>1, <1>4, <2>8, EffectKeeps
  <2>13. /\ l \in DOMAIN w.layers /\ w.layers[l] = row
    BY <2>2, <2>6, <2>7, RowIsPut
  <2>14. Begun(w, r) = WithRow(w, l, old)
    <3>1. (~r.on) = old.on
      BY <1>1, <1>4, <2>1, <2>3, <2>4
    <3>2. PICK off \in BOOLEAN : off = ~r.on
      OBVIOUS
    <3>3. M!Switched(w, l, off) = WithRow(w, l, [on |-> off, folder |-> w.layers[l].folder])
      BY <2>2, <2>9, <2>13, SwitchIsARow
    <3>4. Begun(w, r) = M!Switched(w, l, off)
      BY <1>4, <2>1, <3>2 DEF Begun
    <3>5. off = old.on /\ w.layers[l].folder = old.folder
      BY <2>6, <2>13, <3>1, <3>2
    <3>. QED BY <2>4, <3>3, <3>4, <3>5
  <2>15. ASSUME NEW t \in Things PROVE Same(Begun(w, r), m, t)
    <3>1. Same(WithRow(WithRow(m, l, row), l, old), WithRow(m, l, old), t)
      BY <2>2, <2>4, <2>6, LastRowCounts
    <3>2. Same(WithRow(m, l, old), m, t)
      BY <2>2, <2>3, SameRowCounts
    <3>3. Same(WithRow(w, l, old), m, t)
      BY <2>7, <3>1, <3>2, SameAsTheSame
    <3>. QED BY <2>14, <3>3
  <2>. QED BY <1>2, <1>4, <2>1, <2>6, <2>9, <2>10, <2>11, <2>12, <2>13, <2>15
<1>. QED BY <1>3, <1>4

(* A command that is about nothing that another one is about, begins.       *)
LEMMA BeginsCalm ==
  ASSUME NEW m, NEW n, IsMap(m), IsMap(n), Housed(n), NEW q \in Seq(Going), NEW now, Calm(m, n, q, now),
         \A i \in DOMAIN q : Formed(q[i]),
         NEW d, IsAsked(m, d, now), Fresh(d) = {}, d.requests[1].do # "intoFolder",
         \A i \in DOMAIN q : q[i].about \intersect d.about = {},
         NEW w, w = SwitchedAtOnce(m, d.requests[1])
  PROVE  Calm(w, n, Append(q, d), now)
<1>1. PICK r : r = d.requests[1]
  OBVIOUS
<1>2. d \in Going /\ Fits(d) /\ d.served = FALSE /\ d.held = now /\ Placed(m) /\ d.about \subseteq Things /\ MovesOut(m, d)
      /\ Touched(d) = d.about
  <2>1. d \in Going /\ d.requests # <<>>
    BY DEF IsAsked, Formed
  <2>. QED BY <2>1, FirstRequest DEF IsAsked, Calm, Touched
<1>3. /\ IsMap(w) /\ Placed(w) /\ ChangesOnly(m, w, d.about) /\ Moves(m, w, d.about)
      /\ \A t \in Things : There(m, t) => There(w, t)
      /\ r.do = "showLayer" => w.layers[r.layer].on = r.on
      /\ \A t \in Things : Same(Expected(w, d), m, t)
      /\ (r.do # "showLayer" => w = m)
  BY <1>1, <1>2, SwitchBegins
<1>4. ASSUME NEW j \in DOMAIN q PROVE Touched(q[j]) \intersect Touched(d) = {}
  <2>1. PICK c : c = q[j]
    OBVIOUS
  <2>2. CommandFits(m, n, c, now) /\ c.about \intersect d.about = {}
    BY <2>1 DEF Calm
  <2>3. \A t \in Fresh(c) : ~There(m, t)
    BY <2>2 DEF CommandFits, Known
  <2>4. \A t \in d.about : There(m, t)
    BY DEF IsAsked
  <2>. QED BY <1>2, <2>1, <2>2, <2>3, <2>4 DEF Touched
<1>5. ASSUME NEW t \in d.about PROVE Same(Expected(w, d), n, t)
  <2>1. t \in Things /\ \A i \in DOMAIN q : t \notin Touched(q[i])
    BY <1>2, <1>4
  <2>2. Same(m, n, t)
    BY <2>1 DEF Calm
  <2>. QED BY <1>3, <2>1, <2>2, SameAsTheSame
<1>6. Claims(m, d) /\ Claims(n, d)
  BY ClaimsThere
<1>7. Known(w, d)
  <2>1. \A t \in d.about : There(w, t)
    BY <1>2, <1>3 DEF IsAsked
  <2>. QED BY <1>1, <1>2, <1>3, <2>1 DEF Known
<1>8. Claims(w, d) /\ MovesOut(w, d)
  <2>1. CASE r.do # "showLayer"
    BY <1>2, <1>3, <1>6, <2>1
  <2>2. CASE r.do = "showLayer"
    <3>1. Claims(w, d)
      BY <1>1, <2>2 DEF Claims
    <3>2. MovesOut(w, d)
      <4>1. SUFFICES ASSUME d.keeps # {}, d.folder # M!None PROVE FALSE
        BY DEF MovesOut
      <4>2. PICK l \in Nat : d.requests[Len(d.requests)].do \in {"putObject", "detachObject"}
        BY <1>2, <4>1 DEF MovesOut
      <4>3. Len(d.requests) = 1
        BY <1>1, <1>2, <2>2, FirstFits DEF AloneDo
      <4>. QED BY <1>1, <2>2, <4>2, <4>3
    <3>. QED BY <3>1, <3>2
  <2>. QED BY <2>1, <2>2
<1>9. CommandFits(w, n, d, now)
  BY <1>2, <1>5, <1>6, <1>7, <1>8 DEF CommandFits
<1>. QED BY <1>2, <1>3, <1>4, <1>9, CalmBegins

(* Whatever the copy is, what the panel asks for is a command; and one that *)
(* fits, if the copy says where everything is.                              *)
WellAsked(m, c, now) ==
  /\ c \in Going /\ Formed(c) /\ c.served = FALSE
  /\ \A k \in DOMAIN c.requests : c.requests[k].do # "patchLayer"
  /\ Placed(m) => IsAsked(m, c, now)

IsOne(c, r, A, now) ==
  c = [requests |-> <<r>>, served |-> FALSE, held |-> now, about |-> A, keeps |-> {}, folder |-> M!None]

(* What a single request of the panel is about.                             *)
IsAbout(m, r, A) ==
  /\ A \subseteq Things /\ \A t \in A : There(m, t)
  /\ r.do \in LayerDo => <<"layer", r.layer>> \in A
  /\ r.do \in FolderDo => <<"folder", r.folder>> \in A
  /\ r.do = "showLayer" => r.on = ~m.layers[r.layer].on
  /\ r.do = "showFolder" => \A l \in DOMAIN m.layers : m.layers[l].folder = r.folder => <<"layer", l>> \in A
  /\ r.do = "dropFolder" => \A l \in DOMAIN m.layers : <<"layer", l>> \in A

(* A command of one request is well asked.                                  *)
LEMMA OneIsAsked ==
  ASSUME NEW m, IsMap(m), Housed(m), NEW now \in Nat, NEW r \in Asking, r.do \in AloneDo, NEW A, IsAbout(m, r, A),
         NEW c, IsOne(c, r, A, now)
  PROVE  WellAsked(m, c, now)
<1>1. PICK q : q = <<r>>
  OBVIOUS
<1>2. q \in Seq(Asking) /\ q # <<>> /\ DOMAIN q = {1} /\ Len(q) = 1 /\ q[1] = r
  BY <1>1
<1>3. /\ c \in Going /\ c.requests = q /\ c.served = FALSE /\ c.held = now /\ c.about = A /\ c.keeps = {}
  <2>1. c = [requests |-> q, served |-> FALSE, held |-> now, about |-> A, keeps |-> {}, folder |-> M!None]
    BY <1>1 DEF IsOne
  <2>2. A \in SUBSET Things /\ {} \in SUBSET Nat /\ M!None \in Nat /\ FALSE \in BOOLEAN
    BY DEF IsAbout, M!None
  <2>. QED BY <1>2, <2>1, <2>2 DEF Going
<1>4. r.do \notin {"patchLayer", "intoFolder", "addLayer"} /\ r.do \notin ObjectDo
  BY DEF AloneDo, ObjectDo
<1>5. Fits(c)
  BY <1>2, <1>3, <1>4 DEF Fits, IsAbout
<1>6. Formed(c)
  BY <1>2, <1>3, <1>4 DEF Formed
<1>7. r.do \in {"showFolder", "dropFolder"} => Claims(m, c)
  BY <1>2, <1>3 DEF Claims, IsAbout, Housed
<1>8. MovesOut(m, c)
  BY <1>3 DEF MovesOut
<1>9. IsAsked(m, c, now)
  BY <1>2, <1>3, <1>4, <1>5, <1>6, <1>7, <1>8 DEF IsAsked, IsAbout
<1>. QED BY <1>2, <1>3, <1>4, <1>6, <1>9 DEF WellAsked

(* The commands of the panel.                                               *)
LEMMA AskedIsOneOf ==
  ASSUME NEW c \in M!Asked
  PROVE  \/ \E l \in DOMAIN model.layers :
              \/ c = M!One("showLayer", l, M!None, ~model.layers[l].on, M!Ls({l}))
              \/ c = M!One("editLayer", l, M!None, TRUE, M!Ls({l}))
              \/ c = M!One("dropLayer", l, M!None, TRUE, M!Ls({l}))
              \/ c = M!Freeing(l)
         \/ \E l \in DOMAIN model.layers, f \in DOMAIN model.folders :
              c = M!One("putLayer", l, f, TRUE, M!Ls({l}) \union M!Fs({f}))
         \/ \E f \in DOMAIN model.folders :
              \/ c = M!One("editFolder", M!None, f, model.folders[f], M!Fs({f}))
              \/ c = M!One("dropFolder", M!None, f, TRUE, M!Fs({f}) \union M!Ls(DOMAIN model.layers))
              \/ c = M!One("showFolder", M!None, f, ~model.folders[f], M!Fs({f}) \union M!Ls(M!Inside(model, f)))
         \/ c = M!One("addFolder", M!None, M!None, TRUE, {})
         \/ \E f \in DOMAIN model.folders \union {M!None} : c = M!Adding(f)
         \/ \E o \in DOMAIN model.own, f \in DOMAIN model.folders \union {M!None} : c = M!Assigning(o, f)
<1>1. \/ c \in UNION {M!OfLayer(l) : l \in DOMAIN model.layers}
      \/ c \in UNION {M!OfFolder(f) : f \in DOMAIN model.folders}
      \/ c \in {M!One("addFolder", M!None, M!None, TRUE, {})}
      \/ c \in {M!Adding(f) : f \in DOMAIN model.folders \union {M!None}}
      \/ c \in UNION {{M!Assigning(o, f) : f \in DOMAIN model.folders \union {M!None}} : o \in DOMAIN model.own}
  BY DEF M!Asked
<1>2. CASE c \in UNION {M!OfLayer(l) : l \in DOMAIN model.layers}
  <2>1. PICK l \in DOMAIN model.layers : c \in M!OfLayer(l)
    BY <1>2
  <2>. QED BY <2>1 DEF M!OfLayer
<1>3. CASE c \in UNION {M!OfFolder(f) : f \in DOMAIN model.folders}
  <2>1. PICK f \in DOMAIN model.folders : c \in M!OfFolder(f)
    BY <1>3
  <2>. QED BY <2>1 DEF M!OfFolder
<1>4. CASE c \in {M!One("addFolder", M!None, M!None, TRUE, {})}
  BY <1>4
<1>5. CASE c \in {M!Adding(f) : f \in DOMAIN model.folders \union {M!None}}
  BY <1>5
<1>6. CASE c \in UNION {{M!Assigning(o, f) : f \in DOMAIN model.folders \union {M!None}} : o \in DOMAIN model.own}
  <2>1. PICK o \in DOMAIN model.own : c \in {M!Assigning(o, f) : f \in DOMAIN model.folders \union {M!None}}
    BY <1>6
  <2>. QED BY <2>1
<1>. QED BY <1>1, <1>2, <1>3, <1>4, <1>5, <1>6

(* A command of one request.                                                *)
LEMMA OneIs ==
  ASSUME epoch \in Nat, NEW m, m = model, IsMap(m), Housed(m),
         NEW do \in AloneDo, NEW l \in Nat, NEW f \in Nat, NEW on \in BOOLEAN, NEW A, IsAbout(m, M!Request(do, l, f, on), A)
  PROVE  WellAsked(m, M!One(do, l, f, on, A), epoch)
<1>1. PICK r : r = M!Request(do, l, f, on)
  OBVIOUS
<1>2. r \in Asking /\ r.do = do
  BY <1>1 DEF M!Request, Asking, AloneDo, Dos, LayerDo, FolderDo
<1>3. PICK c : c = M!One(do, l, f, on, A)
  OBVIOUS
<1>4. IsOne(c, r, A, epoch)
  BY <1>1, <1>3 DEF IsOne, M!One, M!Command
<1>. QED BY <1>1, <1>2, <1>3, <1>4, OneIsAsked

(* The things that the panel asks about are there.                          *)
LEMMA LsAndFs ==
  ASSUME NEW m, IsMap(m), NEW S, S \subseteq DOMAIN m.layers, NEW F, F \subseteq DOMAIN m.folders
  PROVE  /\ M!Ls(S) \union M!Fs(F) \subseteq Things
         /\ \A t \in M!Ls(S) \union M!Fs(F) : There(m, t)
         /\ \A l \in S : <<"layer", l>> \in M!Ls(S)
         /\ \A f \in F : <<"folder", f>> \in M!Fs(F)
<1>1. S \subseteq Nat /\ F \subseteq Nat
  BY DEF IsMap
<1>2. M!Ls(S) \subseteq Things /\ \A t \in M!Ls(S) : There(m, t)
  BY <1>1 DEF M!Ls, Things, There
<1>3. M!Fs(F) \subseteq Things /\ \A t \in M!Fs(F) : There(m, t)
  BY <1>1 DEF M!Fs, Things, There
<1>. QED BY <1>2, <1>3 DEF M!Ls, M!Fs

(* One sequence after another.                                              *)
Joined(q, a, b) ==
  /\ Len(q) = Len(a) + Len(b) /\ DOMAIN q = 1..(Len(a) + Len(b)) /\ DOMAIN a = 1..Len(a) /\ DOMAIN b = 1..Len(b)
  /\ Len(a) \in Nat /\ Len(b) \in Nat
  /\ \A k \in DOMAIN a : k \in DOMAIN q /\ q[k] = a[k]
  /\ \A k \in DOMAIN b : Len(a) + k \in DOMAIN q /\ q[Len(a) + k] = b[k]
  /\ \A k \in DOMAIN q : k \in DOMAIN a \/ (k - Len(a) \in DOMAIN b /\ q[k] = b[k - Len(a)])

(* Concatenation.                                                           *)
LEMMA JoinedIs ==
  ASSUME NEW V, NEW a \in Seq(V), NEW b \in Seq(V)
  PROVE  a \o b \in Seq(V) /\ Joined(a \o b, a, b)
<1>1. PICK q : q = a \o b
  OBVIOUS
<1>2. PICK N \in Nat, K \in Nat : N = Len(a) /\ K = Len(b) /\ DOMAIN a = 1..N /\ DOMAIN b = 1..K
  OBVIOUS
<1>3. q \in Seq(V) /\ Len(q) = N + K /\ DOMAIN q = 1..(N + K)
  BY <1>1, <1>2
<1>4. /\ \A k \in 1..N : q[k] = a[k]
      /\ \A k \in (N + 1)..(N + K) : q[k] = b[k - N]
  BY <1>1, <1>2
<1>5. \A k \in DOMAIN a : k \in DOMAIN q /\ q[k] = a[k]
  BY <1>2, <1>3, <1>4
<1>6. ASSUME NEW k \in DOMAIN b PROVE N + k \in DOMAIN q /\ q[N + k] = b[k]
  <2>1. PICK j : j = N + k
    OBVIOUS
  <2>2. j \in (N + 1)..(N + K) /\ j - N = k /\ j \in DOMAIN q
    BY <1>2, <1>3, <2>1
  <2>3. q[j] = b[j - N]
    BY <1>4, <2>2
  <2>. QED BY <2>1, <2>2, <2>3
<1>7. ASSUME NEW k \in DOMAIN q, k \notin DOMAIN a PROVE k - N \in DOMAIN b /\ q[k] = b[k - N]
  <2>1. k \in (N + 1)..(N + K) /\ k - N \in 1..K
    BY <1>2, <1>3, <1>7
  <2>. QED BY <1>2, <1>4, <2>1
<1>. QED BY <1>1, <1>2, <1>3, <1>5, <1>6, <1>7 DEF Joined

(* Adding a layer, and putting it into a folder.                            *)
LEMMA AddingIs ==
  ASSUME epoch \in Nat, NEW m, IsMap(m), NEW f \in DOMAIN m.folders \union {M!None}
  PROVE  WellAsked(m, M!Adding(f), epoch)
<1>1. PICK c : c = M!Adding(f)
  OBVIOUS
<1>2. PICK q, r, x : /\ r = [do |-> "addLayer", layer |-> M!None, folder |-> M!None, on |-> TRUE]
                     /\ x = [do |-> "intoFolder", layer |-> M!None, folder |-> f, on |-> TRUE]
                     /\ q = <<r>> \o (IF f = M!None THEN <<>> ELSE <<x>>)
  OBVIOUS
<1>3. c = [requests |-> q, served |-> FALSE, held |-> epoch, about |-> M!Fs({f} \ {M!None}), keeps |-> {}, folder |-> M!None]
  BY <1>1, <1>2 DEF M!Adding, M!Command, M!Request
<1>4. f \in Nat
  BY DEF IsMap, M!None
<1>5. r \in Asking /\ x \in Asking
  BY <1>2, <1>4 DEF Asking, Dos, FolderDo, M!None
<1>6. /\ q \in Seq(Asking) /\ q # <<>> /\ q[1] = r /\ 1 \in DOMAIN q
      /\ \A k \in DOMAIN q : k = 1 \/ (k = 2 /\ f # M!None /\ q[k] = x)
      /\ Len(q) = 1 \/ (Len(q) = 2 /\ q[2] = x)
      /\ \A k \in DOMAIN q : k # 1 => k = Len(q)
  <2>1. CASE f = M!None
    BY <1>2, <1>5, <2>1
  <2>2. CASE f # M!None
    <3>1. PICK a, b : a = <<r>> /\ b = <<x>>
      OBVIOUS
    <3>2. q = a \o b /\ a \in Seq(Asking) /\ b \in Seq(Asking)
      BY <1>2, <1>5, <2>2, <3>1
    <3>3. q \in Seq(Asking) /\ Joined(q, a, b)
      BY <3>2, JoinedIs
    <3>4. /\ Len(a) = 1 /\ Len(b) = 1 /\ a[1] = r /\ b[1] = x /\ 1 \in DOMAIN a /\ 1 \in DOMAIN b
      BY <3>1
    <3>5. Len(q) = 1 + 1 /\ DOMAIN q = 1..(1 + 1) /\ q[1] = r /\ q[1 + 1] = x
      BY <3>3, <3>4 DEF Joined
    <3>6. Len(q) = 2 /\ DOMAIN q = 1..2 /\ q[2] = x
      BY <3>5
    <3>. QED BY <3>3, <3>5, <3>6, <2>2
  <2>. QED BY <2>1, <2>2
<1>7. /\ M!Fs({f} \ {M!None}) \subseteq Things /\ \A t \in M!Fs({f} \ {M!None}) : There(m, t)
      /\ f # M!None => <<"folder", f>> \in M!Fs({f} \ {M!None})
  <2>1. PICK F : F = {f} \ {M!None} /\ F \subseteq DOMAIN m.folders
    OBVIOUS
  <2>2. M!Ls({}) = {}
    BY DEF M!Ls
  <2>3. M!Ls({}) \union M!Fs(F) \subseteq Things /\ \A t \in M!Ls({}) \union M!Fs(F) : There(m, t)
    BY <2>1, LsAndFs
  <2>. QED BY <2>1, <2>2, <2>3 DEF M!Fs
<1>8. /\ c \in Going /\ c.requests = q /\ c.served = FALSE /\ c.held = epoch
      /\ c.about = M!Fs({f} \ {M!None}) /\ c.keeps = {}
  BY <1>3, <1>6, <1>7 DEF Going, M!None
<1>9. /\ r.do = "addLayer" /\ r.on = TRUE /\ r.folder = M!None /\ x.do = "intoFolder" /\ x.folder = f
  BY <1>2
<1>10. Fits(c)
  BY <1>6, <1>7, <1>8, <1>9 DEF Fits, LayerDo, ObjectDo, FolderDo, AloneDo
<1>11. Formed(c)
  BY <1>6, <1>8, <1>9 DEF Formed
<1>12. MovesOut(m, c)
  BY <1>8 DEF MovesOut
<1>13. IsAsked(m, c, epoch)
  BY <1>6, <1>7, <1>8, <1>9, <1>10, <1>11, <1>12 DEF IsAsked
<1>. QED BY <1>1, <1>6, <1>8, <1>9, <1>11, <1>13 DEF WellAsked

(* The instance has a copy of IsFiniteSet.                                  *)
LEMMA MSameFinite ==
  ASSUME NEW S
  PROVE  M!IsFiniteSet(S) = IsFiniteSet(S)
BY DEF M!IsFiniteSet, IsFiniteSet

(* The objects of a layer.                                                  *)
LEMMA ObjsAre ==
  ASSUME NEW m, IsMap(m), NEW l
  PROVE  /\ M!Objs(m, l) = {o \in DOMAIN m.own : Home[o] = l}
         /\ M!MapModelAssumption => M!Objs(m, l) \in SUBSET Nat /\ IsFiniteSet(M!Objs(m, l))
<1>1. M!Objs(m, l) = {o \in DOMAIN m.own : Home[o] = l}
  BY DEF M!Objs
<1>2. M!MapModelAssumption => M!Objs(m, l) \in SUBSET Nat /\ IsFiniteSet(M!Objs(m, l))
  <2>1. M!Objs(m, l) \subseteq M!Objects
    BY <1>1 DEF IsMap
  <2>2. M!MapModelAssumption => M!Objects \subseteq Nat /\ IsFiniteSet(M!Objects)
    BY MSameFinite DEF M!MapModelAssumption
  <2>. QED BY <2>1, <2>2, FS_Subset
<1>. QED BY <1>1, <1>2

(* Taking a layer out of its folder.                                        *)
LEMMA FreeingIs ==
  ASSUME M!MapModelAssumption, epoch \in Nat, NEW m, m = model, IsMap(m), NEW l \in DOMAIN m.layers,
         M!Freeing(l).requests # <<>>
  PROVE  WellAsked(m, M!Freeing(l), epoch)
<1>1. PICK c, S, A : c = M!Freeing(l) /\ S = M!Objs(m, l) /\ A = M!Ls({l}) \union M!Fs(DOMAIN m.folders)
  OBVIOUS
<1>2. PICK q, r, p, a : /\ r = [do |-> "detachLayer", layer |-> l, folder |-> m.layers[l].folder, on |-> TRUE]
                        /\ p = M!Requests("detachObject", S, M!None, TRUE)
                        /\ a = IF m.layers[l].folder = M!None THEN <<>> ELSE <<r>>
                        /\ q = a \o p
  OBVIOUS
<1>3. c = [requests |-> q, served |-> FALSE, held |-> epoch, about |-> A, keeps |-> {}, folder |-> M!None]
  BY <1>1, <1>2 DEF M!Freeing, M!Command, M!Request
<1>4. r \in Asking
  BY <1>2 DEF Asking, Dos, LayerDo, IsMap, Row
<1>5. /\ S \in SUBSET Nat /\ IsFiniteSet(S) /\ \A o \in S : o \in M!Objects /\ Home[o] = l
  <2>1. S = {o \in DOMAIN m.own : Home[o] = l} /\ S \in SUBSET Nat /\ IsFiniteSet(S)
    BY <1>1, ObjsAre
  <2>. QED BY <2>1 DEF IsMap
<1>6. AreRequests(p, "detachObject", S, M!None, TRUE)
  <2>1. "detachObject" \in Dos /\ M!None \in Nat
    BY DEF Dos, ObjectDo, M!None
  <2>. QED BY <1>2, <1>5, <2>1, RequestsAre
<1>7. /\ q \in Seq(Asking) /\ q # <<>>
      /\ \A k \in DOMAIN q : q[k] = r \/ (q[k].do = "detachObject" /\ q[k].layer \in S)
  <2>1. p \in Seq(Asking) /\ \A k \in DOMAIN p : p[k].do = "detachObject" /\ p[k].layer \in S
    BY <1>6 DEF AreRequests
  <2>2. a \in Seq(Asking) /\ \A k \in DOMAIN a : a[k] = r
    <3>1. CASE a = <<>>
      BY <3>1
    <3>2. CASE a # <<>>
      <4>1. a = <<r>>
        BY <1>2, <3>2
      <4>. QED BY <1>4, <4>1
    <3>. QED BY <3>1, <3>2
  <2>3. q \in Seq(Asking) /\ Joined(q, a, p)
    BY <1>2, <2>1, <2>2, JoinedIs
  <2>4. \A k \in DOMAIN q : q[k] = r \/ (q[k].do = "detachObject" /\ q[k].layer \in S)
    BY <2>1, <2>2, <2>3 DEF Joined
  <2>5. q # <<>>
    BY <1>1, <1>3
  <2>. QED BY <2>3, <2>4, <2>5
<1>8. A \subseteq Things /\ (\A t \in A : There(m, t)) /\ <<"layer", l>> \in A
  <2>1. {l} \subseteq DOMAIN m.layers
    OBVIOUS
  <2>. QED BY <1>1, <2>1, LsAndFs
<1>9. c \in Going /\ c.requests = q /\ c.served = FALSE /\ c.held = epoch /\ c.about = A /\ c.keeps = {}
  BY <1>3, <1>7, <1>8 DEF Going, M!None
<1>10. r.do = "detachLayer" /\ r.layer = l
  BY <1>2
<1>11. \A k \in DOMAIN q : q[k].do \in {"detachLayer", "detachObject"}
  BY <1>7, <1>10
<1>12. Fits(c)
  BY <1>5, <1>7, <1>8, <1>9, <1>10, <1>11 DEF Fits, LayerDo, ObjectDo, FolderDo, AloneDo
<1>13. Formed(c)
  BY <1>7, <1>9, <1>11 DEF Formed
<1>14. MovesOut(m, c)
  BY <1>9 DEF MovesOut
<1>15. IsAsked(m, c, epoch)
  BY <1>8, <1>9, <1>11, <1>12, <1>13, <1>14 DEF IsAsked
<1>. QED BY <1>1, <1>9, <1>11, <1>13, <1>15 DEF WellAsked

(* Putting an object into a folder: the requests.                           *)
AssignsBy(q, o, f, l, home, S) ==
  /\ q \in Seq(Asking) /\ Len(q) \in Nat /\ Len(q) >= 1 /\ DOMAIN q = 1..Len(q)
  /\ q[Len(q)].layer = o /\ q[Len(q)].folder = f
  /\ q[Len(q)].do = IF f = M!None THEN "detachObject" ELSE "putObject"
  /\ home = M!None <=> Len(q) = 1
  /\ \A k \in DOMAIN q : k = Len(q) - 1 => q[k].do = "detachLayer" /\ q[k].layer = l
  /\ \A k \in DOMAIN q : k < Len(q) - 1 => q[k].do = "keepObject" /\ q[k].folder = home /\ q[k].layer \in S
  /\ \A s \in S : Len(q) = 1 \/ \E k \in DOMAIN q : k < Len(q) - 1 /\ q[k].layer = s

(* What assignObjectToFolder sends.                                         *)
LEMMA AssignIs ==
  ASSUME M!MapModelAssumption, NEW m, IsMap(m), Housed(m), NEW o \in DOMAIN m.own, NEW f \in Nat,
         NEW l, l = Home[o], NEW S, S = M!Objs(m, l) \ {o}
  PROVE  AssignsBy(M!Assign(m, o, f), o, f, l, m.layers[l].folder, S)
<1>1. PICK home, q : home = m.layers[l].folder /\ q = M!Assign(m, o, f)
  OBVIOUS
<1>2. PICK x, y : /\ x = IF f # M!None THEN [do |-> "putObject", layer |-> o, folder |-> f, on |-> TRUE]
                         ELSE [do |-> "detachObject", layer |-> o, folder |-> M!None, on |-> TRUE]
                  /\ y = [do |-> "detachLayer", layer |-> l, folder |-> home, on |-> TRUE]
  OBVIOUS
<1>3. PICK a, b, p : a = <<x>> /\ b = <<y>> /\ p = M!Requests("keepObject", S, home, TRUE)
  OBVIOUS
<1>4. q = IF home = M!None THEN a ELSE (p \o b) \o a
  BY <1>1, <1>2, <1>3 DEF M!Assign, M!Request
<1>5. l \in DOMAIN m.layers /\ l \in Nat /\ home \in Nat /\ o \in Nat
  <2>1. l \in DOMAIN m.layers /\ o \in M!Objects
    BY DEF Housed, IsMap
  <2>2. o \in Nat
    BY <2>1 DEF M!MapModelAssumption
  <2>. QED BY <1>1, <2>1, <2>2 DEF IsMap, Row
<1>6. /\ x \in Asking /\ y \in Asking /\ x.layer = o /\ x.folder = f /\ y.do = "detachLayer" /\ y.layer = l
      /\ x.do = IF f = M!None THEN "detachObject" ELSE "putObject"
  <2>1. {"putObject", "detachObject", "detachLayer"} \subseteq Dos /\ M!None = 0
    BY DEF Dos, LayerDo, ObjectDo, M!None
  <2>2. x \in Asking
    BY <1>2, <1>5, <2>1 DEF Asking
  <2>3. y \in Asking
    BY <1>2, <1>5, <2>1 DEF Asking
  <2>. QED BY <1>2, <2>2, <2>3
<1>7. S \in SUBSET Nat /\ IsFiniteSet(S)
  <2>1. M!Objs(m, l) \in SUBSET Nat /\ IsFiniteSet(M!Objs(m, l))
    BY ObjsAre
  <2>. QED BY <2>1, FS_Subset
<1>8. /\ a \in Seq(Asking) /\ Len(a) = 1 /\ a[1] = x /\ DOMAIN a = 1..1
      /\ b \in Seq(Asking) /\ Len(b) = 1 /\ b[1] = y /\ DOMAIN b = 1..1
  BY <1>3, <1>6
<1>9. /\ p \in Seq(Asking) /\ \A k \in DOMAIN p : p[k].do = "keepObject" /\ p[k].layer \in S /\ p[k].folder = home
      /\ \A s \in S : \E k \in DOMAIN p : p[k].layer = s
  <2>1. "keepObject" \in Dos
    BY DEF Dos, ObjectDo
  <2>2. AreRequests(p, "keepObject", S, home, TRUE)
    BY <1>3, <1>5, <1>7, <2>1, RequestsAre
  <2>. QED BY <2>2 DEF AreRequests
<1>10. CASE home = M!None
  <2>1. q = a
    BY <1>4, <1>10
  <2>2. Len(q) = 1 /\ q[1] = x /\ q \in Seq(Asking) /\ DOMAIN q = 1..1 /\ \A k \in DOMAIN q : k = 1
    BY <1>8, <2>1
  <2>3. /\ Len(q) \in Nat /\ Len(q) >= 1 /\ DOMAIN q = 1..Len(q) /\ q[Len(q)] = x
        /\ \A k \in DOMAIN q : ~(k = Len(q) - 1) /\ ~(k < Len(q) - 1)
    BY <2>2
  <2>. QED BY <1>1, <1>6, <1>10, <2>2, <2>3 DEF AssignsBy
<1>11. CASE home # M!None
  <2>1. PICK j : j = p \o b
    OBVIOUS
  <2>2. j \in Seq(Asking) /\ Joined(j, p, b)
    BY <1>8, <1>9, <2>1, JoinedIs
  <2>3. q \in Seq(Asking) /\ Joined(q, j, a)
    BY <1>4, <1>8, <1>11, <2>1, <2>2, JoinedIs
  <2>4. PICK K \in Nat : K = Len(p) /\ DOMAIN p = 1..K
    BY <1>9
  <2>5. /\ Len(j) = K + 1 /\ DOMAIN j = 1..(K + 1) /\ j[K + 1] = y
        /\ \A k \in 1..K : k \in DOMAIN j /\ j[k] = p[k]
    BY <1>8, <2>2, <2>4 DEF Joined
  <2>6. /\ Len(q) = K + 1 + 1 /\ DOMAIN q = 1..(K + 1 + 1) /\ q[K + 1 + 1] = x
        /\ \A k \in 1..(K + 1) : k \in DOMAIN q /\ q[k] = j[k]
    BY <1>8, <2>3, <2>5 DEF Joined
  <2>7. /\ Len(q) = K + 2 /\ DOMAIN q = 1..(K + 2) /\ q[K + 2] = x /\ q[K + 1] = y
        /\ \A k \in 1..K : k \in DOMAIN q /\ q[k] = p[k]
    <3>1. K + 1 \in 1..(K + 1) /\ \A k \in 1..K : k \in 1..(K + 1)
      OBVIOUS
    <3>. QED BY <2>5, <2>6, <3>1
  <2>8. /\ q[Len(q)] = x /\ (\A k \in DOMAIN q : k = Len(q) - 1 => q[k] = y)
        /\ (\A k \in DOMAIN q : k < Len(q) - 1 => k \in DOMAIN p /\ q[k] = p[k])
        /\ Len(q) \in Nat /\ Len(q) >= 1 /\ DOMAIN q = 1..Len(q) /\ Len(q) # 1
    BY <2>4, <2>7
  <2>9. ASSUME NEW s \in S PROVE \E k \in DOMAIN q : k < Len(q) - 1 /\ q[k].layer = s
    <3>1. PICK k \in DOMAIN p : p[k].layer = s
      BY <1>9
    <3>2. k \in DOMAIN q /\ q[k] = p[k] /\ k < Len(q) - 1
      BY <2>4, <2>7, <3>1
    <3>. QED BY <3>1, <3>2
  <2>. QED BY <1>1, <1>6, <1>9, <1>11, <2>3, <2>8, <2>9 DEF AssignsBy
<1>. QED BY <1>10, <1>11

(* And it is well asked.                                                    *)
LEMMA AssigningIs ==
  ASSUME M!MapModelAssumption, epoch \in Nat, NEW m, m = model, IsMap(m), Housed(m),
         NEW o \in DOMAIN m.own, NEW f \in DOMAIN m.folders \union {M!None}
  PROVE  WellAsked(m, M!Assigning(o, f), epoch)
<1>1. PICK c, l, home, S, A : /\ c = M!Assigning(o, f) /\ l = Home[o] /\ home = m.layers[l].folder
                              /\ S = M!Objs(m, l) \ {o} /\ A = M!Ls({l}) \union M!Fs(DOMAIN m.folders)
  OBVIOUS
<1>2. PICK q, K : q = M!Assign(m, o, f) /\ K = {p \in S : m.own[p] \in {M!None, home}}
  OBVIOUS
<1>3. c = [requests |-> q, served |-> FALSE, held |-> epoch, about |-> A, keeps |-> K, folder |-> home]
  BY <1>1, <1>2 DEF M!Assigning, M!Command
<1>4. l \in DOMAIN m.layers /\ l \in Nat /\ home \in Nat /\ f \in Nat /\ o \in M!Objects
  <2>1. l \in DOMAIN m.layers /\ o \in M!Objects
    BY <1>1 DEF Housed, IsMap
  <2>. QED BY <1>1, <2>1 DEF IsMap, Row, M!None
<1>5. AssignsBy(q, o, f, l, home, S)
  BY <1>1, <1>2, <1>4, AssignIs
<1>6. /\ S \in SUBSET Nat /\ \A p \in S : p \in M!Objects /\ p \in DOMAIN m.own /\ Home[p] = l /\ p # o
  <2>1. M!Objs(m, l) = {p \in DOMAIN m.own : Home[p] = l} /\ M!Objs(m, l) \in SUBSET Nat
    BY ObjsAre
  <2>. QED BY <1>1, <2>1 DEF IsMap
<1>7. /\ A \subseteq Things /\ (\A t \in A : There(m, t)) /\ <<"layer", l>> \in A
      /\ \A g \in DOMAIN m.folders : <<"folder", g>> \in A
  <2>1. {l} \subseteq DOMAIN m.layers
    BY <1>4
  <2>. QED BY <1>1, <2>1, LsAndFs
<1>8. K \in SUBSET Nat /\ q \in Seq(Asking) /\ q # <<>>
  <2>1. q \in Seq(Asking) /\ Len(q) >= 1
    BY <1>5 DEF AssignsBy
  <2>. QED BY <1>2, <1>6, <2>1
<1>9. /\ c \in Going /\ c.requests = q /\ c.served = FALSE /\ c.held = epoch /\ c.about = A /\ c.keeps = K
      /\ c.folder = home
  BY <1>3, <1>4, <1>7, <1>8 DEF Going
<1>10. \A k \in DOMAIN q : k = Len(q) \/ k = Len(q) - 1 \/ k < Len(q) - 1
  BY <1>5 DEF AssignsBy
<1>11. \A k \in DOMAIN q : q[k].do \in {"keepObject", "detachLayer", "putObject", "detachObject"}
  BY <1>5, <1>10 DEF AssignsBy
<1>12. Formed(c)
  BY <1>8, <1>9, <1>11 DEF Formed
<1>13. ASSUME Placed(m) PROVE IsAsked(m, c, epoch)
  <2>1. home \in DOMAIN m.folders \union {M!None}
    BY <1>1, <1>4, <1>13 DEF Placed
  <2>2. ASSUME NEW k \in DOMAIN q
        PROVE  /\ q[k].do \in LayerDo => <<"layer", q[k].layer>> \in A
               /\ q[k].do \in ObjectDo => q[k].layer \in M!Objects /\ <<"layer", Home[q[k].layer]>> \in A
               /\ q[k].do \in FolderDo => <<"folder", q[k].folder>> \in A
    <3>1. CASE k = Len(q)
      <4>1. q[k].layer = o /\ q[k].folder = f /\ q[k].do = IF f = M!None THEN "detachObject" ELSE "putObject"
        BY <1>5, <3>1 DEF AssignsBy
      <4>2. f # M!None => <<"folder", f>> \in A
        BY <1>7
      <4>. QED BY <1>1, <1>4, <1>7, <4>1, <4>2 DEF LayerDo, ObjectDo, FolderDo
    <3>2. CASE k = Len(q) - 1
      <4>1. q[k].do = "detachLayer" /\ q[k].layer = l
        BY <1>5, <3>2 DEF AssignsBy
      <4>. QED BY <1>7, <4>1 DEF LayerDo, ObjectDo, FolderDo
    <3>3. CASE k < Len(q) - 1
      <4>1. q[k].do = "keepObject" /\ q[k].folder = home /\ q[k].layer \in S
        BY <1>5, <3>3 DEF AssignsBy
      <4>2. home # M!None
        <5>1. PICK N \in Nat : N = Len(q) /\ k \in 1..N
          BY <1>5 DEF AssignsBy
        <5>2. k < N - 1
          BY <3>3, <5>1
        <5>3. N # 1
          BY <5>1, <5>2
        <5>. QED BY <1>5, <5>1, <5>3 DEF AssignsBy
      <4>3. <<"folder", home>> \in A
        BY <1>7, <2>1, <4>2
      <4>. QED BY <1>6, <1>7, <4>1, <4>3 DEF LayerDo, ObjectDo, FolderDo
    <3>. QED BY <1>10, <3>1, <3>2, <3>3
  <2>3. Fits(c)
    BY <1>8, <1>9, <1>11, <2>2 DEF Fits, AloneDo
  <2>4. MovesOut(m, c)
    <3>1. SUFFICES ASSUME home # M!None PROVE MovesOut(m, c)
      BY <1>9 DEF MovesOut
    <3>2. Len(q) # 1 /\ m.layers[l].folder = home
      BY <1>1, <1>5, <3>1 DEF AssignsBy
    <3>3. \A p \in K : p \in S /\ p \in DOMAIN m.own /\ Home[p] = l /\ m.own[p] \in {M!None, home}
      BY <1>2, <1>6
    <3>4. q[Len(q)].do \in {"putObject", "detachObject"} /\ q[Len(q)].layer \notin K
      BY <1>2, <1>5, <1>6 DEF AssignsBy
    <3>5. /\ \A k \in DOMAIN q : k = Len(q) - 1 => q[k].do = "detachLayer" /\ q[k].layer = l
          /\ \A k \in DOMAIN q : k < Len(q) - 1 => q[k].do = "keepObject" /\ q[k].folder = home
          /\ \A p \in K : \E k \in DOMAIN q : k < Len(q) - 1 /\ q[k].layer = p
      BY <1>5, <3>2, <3>3 DEF AssignsBy
    <3>. QED BY <1>4, <1>7, <1>9, <3>2, <3>3, <3>4, <3>5 DEF MovesOut
  <2>. QED BY <1>7, <1>9, <1>11, <1>12, <2>3, <2>4 DEF IsAsked
<1>. QED BY <1>1, <1>9, <1>11, <1>12, <1>13 DEF WellAsked

(* Whatever the panel asks for.                                             *)
LEMMA AskedIsWell ==
  ASSUME M!MapModelAssumption, epoch \in Nat, NEW m, m = model, IsMap(m), Housed(m), NEW c \in M!Asked,
         c.requests # <<>>
  PROVE  WellAsked(m, c, epoch)
<1>0. M!None = 0 /\ DOMAIN m.layers \subseteq Nat /\ DOMAIN m.folders \subseteq Nat /\ {} \subseteq DOMAIN m.layers
      /\ {} \subseteq DOMAIN m.folders /\ M!Ls({}) = {} /\ M!Fs({}) = {}
  BY DEF M!None, IsMap, M!Ls, M!Fs
<1>1. \A l \in DOMAIN m.layers : (~m.layers[l].on) \in BOOLEAN
  OBVIOUS
<1>2. \A f \in DOMAIN m.folders : (~m.folders[f]) \in BOOLEAN /\ m.folders[f] \in BOOLEAN
  BY DEF IsMap
<1>3. ASSUME NEW l \in DOMAIN m.layers, NEW on \in BOOLEAN, NEW do \in {"showLayer", "editLayer", "dropLayer"},
             do = "showLayer" => on = ~m.layers[l].on
      PROVE  WellAsked(m, M!One(do, l, M!None, on, M!Ls({l})), epoch)
  <2>1. PICK A : A = M!Ls({l})
    OBVIOUS
  <2>2. A \subseteq Things /\ (\A t \in A : There(m, t)) /\ <<"layer", l>> \in A
    <3>1. {l} \subseteq DOMAIN m.layers
      OBVIOUS
    <3>2. /\ M!Ls({l}) \union M!Fs({}) \subseteq Things /\ \A t \in M!Ls({l}) \union M!Fs({}) : There(m, t)
          /\ <<"layer", l>> \in M!Ls({l})
      BY <1>0, <3>1, LsAndFs
    <3>. QED BY <2>1, <3>2
  <2>3. PICK r : r = M!Request(do, l, M!None, on)
    OBVIOUS
  <2>4. r.do = do /\ r.layer = l /\ r.on = on
    BY <2>3 DEF M!Request
  <2>5. IsAbout(m, r, A)
    BY <1>3, <2>2, <2>4 DEF IsAbout, FolderDo
  <2>6. do \in AloneDo /\ l \in Nat /\ M!None \in Nat
    BY <1>0 DEF AloneDo
  <2>. QED BY <2>1, <2>3, <2>5, <2>6, OneIs
<1>4. ASSUME NEW l \in DOMAIN m.layers, NEW f \in DOMAIN m.folders
      PROVE  WellAsked(m, M!One("putLayer", l, f, TRUE, M!Ls({l}) \union M!Fs({f})), epoch)
  <2>1. PICK A : A = M!Ls({l}) \union M!Fs({f})
    OBVIOUS
  <2>2. A \subseteq Things /\ (\A t \in A : There(m, t)) /\ <<"layer", l>> \in A /\ <<"folder", f>> \in A
    <3>1. {l} \subseteq DOMAIN m.layers /\ {f} \subseteq DOMAIN m.folders
      OBVIOUS
    <3>. QED BY <2>1, <3>1, LsAndFs
  <2>3. PICK r : r = M!Request("putLayer", l, f, TRUE)
    OBVIOUS
  <2>4. r.do = "putLayer" /\ r.layer = l /\ r.folder = f
    BY <2>3 DEF M!Request
  <2>5. IsAbout(m, r, A)
    BY <2>2, <2>4 DEF IsAbout
  <2>6. "putLayer" \in AloneDo /\ l \in Nat /\ f \in Nat
    BY <1>0 DEF AloneDo
  <2>. QED BY <2>1, <2>3, <2>5, <2>6, OneIs
<1>5. ASSUME NEW f \in DOMAIN m.folders, NEW on \in BOOLEAN, NEW do \in {"editFolder", "dropFolder", "showFolder"},
             NEW L, L \subseteq DOMAIN m.layers, do = "dropFolder" => L = DOMAIN m.layers,
             do = "showFolder" => L = M!Inside(m, f)
      PROVE  WellAsked(m, M!One(do, M!None, f, on, M!Fs({f}) \union M!Ls(L)), epoch)
  <2>1. PICK A : A = M!Fs({f}) \union M!Ls(L)
    OBVIOUS
  <2>2. /\ A \subseteq Things /\ (\A t \in A : There(m, t)) /\ <<"folder", f>> \in A
        /\ \A l \in L : <<"layer", l>> \in A
    <3>1. {f} \subseteq DOMAIN m.folders
      OBVIOUS
    <3>2. A = M!Ls(L) \union M!Fs({f})
      BY <2>1
    <3>. QED BY <1>5, <3>1, <3>2, LsAndFs
  <2>3. PICK r : r = M!Request(do, M!None, f, on)
    OBVIOUS
  <2>4. r.do = do /\ r.folder = f
    BY <2>3 DEF M!Request
  <2>5. do = "showFolder" => \A l \in DOMAIN m.layers : m.layers[l].folder = f => l \in L
    BY <1>5 DEF M!Inside
  <2>6. IsAbout(m, r, A)
    BY <1>5, <2>2, <2>4, <2>5 DEF IsAbout, LayerDo
  <2>7. do \in AloneDo /\ M!None \in Nat /\ f \in Nat
    BY <1>0 DEF AloneDo
  <2>. QED BY <2>1, <2>3, <2>6, <2>7, OneIs
<1>6. WellAsked(m, M!One("addFolder", M!None, M!None, TRUE, {}), epoch)
  <2>1. PICK r, A : r = M!Request("addFolder", M!None, M!None, TRUE) /\ A = {}
    OBVIOUS
  <2>2. r.do = "addFolder"
    BY <2>1 DEF M!Request
  <2>3. IsAbout(m, r, A)
    BY <2>1, <2>2 DEF IsAbout, LayerDo, FolderDo
  <2>4. "addFolder" \in AloneDo /\ M!None \in Nat
    BY <1>0 DEF AloneDo
  <2>. QED BY <2>1, <2>3, <2>4, OneIs
<1>7. M!Inside(m, 1) \subseteq DOMAIN m.layers /\ \A f : M!Inside(m, f) \subseteq DOMAIN m.layers
  BY DEF M!Inside
<1>8. CASE \E l \in DOMAIN m.layers :
              \/ c = M!One("showLayer", l, M!None, ~m.layers[l].on, M!Ls({l}))
              \/ c = M!One("editLayer", l, M!None, TRUE, M!Ls({l}))
              \/ c = M!One("dropLayer", l, M!None, TRUE, M!Ls({l}))
              \/ c = M!Freeing(l)
  <2>1. PICK l \in DOMAIN m.layers :
              \/ c = M!One("showLayer", l, M!None, ~m.layers[l].on, M!Ls({l}))
              \/ c = M!One("editLayer", l, M!None, TRUE, M!Ls({l}))
              \/ c = M!One("dropLayer", l, M!None, TRUE, M!Ls({l}))
              \/ c = M!Freeing(l)
    BY <1>8
  <2>2. WellAsked(m, M!One("showLayer", l, M!None, ~m.layers[l].on, M!Ls({l})), epoch)
    BY <1>1, <1>3
  <2>3. /\ WellAsked(m, M!One("editLayer", l, M!None, TRUE, M!Ls({l})), epoch)
        /\ WellAsked(m, M!One("dropLayer", l, M!None, TRUE, M!Ls({l})), epoch)
    BY <1>3
  <2>4. c = M!Freeing(l) => WellAsked(m, M!Freeing(l), epoch)
    BY FreeingIs
  <2>. QED BY <2>1, <2>2, <2>3, <2>4
<1>9. CASE \E l \in DOMAIN m.layers, f \in DOMAIN m.folders :
             c = M!One("putLayer", l, f, TRUE, M!Ls({l}) \union M!Fs({f}))
  BY <1>4, <1>9
<1>10. CASE \E f \in DOMAIN m.folders :
              \/ c = M!One("editFolder", M!None, f, m.folders[f], M!Fs({f}))
              \/ c = M!One("dropFolder", M!None, f, TRUE, M!Fs({f}) \union M!Ls(DOMAIN m.layers))
              \/ c = M!One("showFolder", M!None, f, ~m.folders[f], M!Fs({f}) \union M!Ls(M!Inside(m, f)))
  <2>1. PICK f \in DOMAIN m.folders :
              \/ c = M!One("editFolder", M!None, f, m.folders[f], M!Fs({f}))
              \/ c = M!One("dropFolder", M!None, f, TRUE, M!Fs({f}) \union M!Ls(DOMAIN m.layers))
              \/ c = M!One("showFolder", M!None, f, ~m.folders[f], M!Fs({f}) \union M!Ls(M!Inside(m, f)))
    BY <1>10
  <2>2. WellAsked(m, M!One("editFolder", M!None, f, m.folders[f], M!Fs({f})), epoch)
    <3>1. WellAsked(m, M!One("editFolder", M!None, f, m.folders[f], M!Fs({f}) \union M!Ls({})), epoch)
      BY <1>0, <1>2, <1>5
    <3>2. M!Fs({f}) \union M!Ls({}) = M!Fs({f})
      BY <1>0
    <3>. QED BY <3>1, <3>2
  <2>3. WellAsked(m, M!One("dropFolder", M!None, f, TRUE, M!Fs({f}) \union M!Ls(DOMAIN m.layers)), epoch)
    BY <1>5
  <2>4. WellAsked(m, M!One("showFolder", M!None, f, ~m.folders[f], M!Fs({f}) \union M!Ls(M!Inside(m, f))), epoch)
    BY <1>2, <1>5, <1>7
  <2>. QED BY <2>1, <2>2, <2>3, <2>4
<1>11. CASE c = M!One("addFolder", M!None, M!None, TRUE, {})
  BY <1>6, <1>11
<1>12. CASE \E f \in DOMAIN m.folders \union {M!None} : c = M!Adding(f)
  BY <1>12, AddingIs
<1>13. CASE \E o \in DOMAIN m.own, f \in DOMAIN m.folders \union {M!None} : c = M!Assigning(o, f)
  BY <1>13, AssigningIs
<1>. QED BY <1>8, <1>9, <1>10, <1>11, <1>12, <1>13, AskedIsOneOf

(* What is left of a command that is well asked is a leftover.              *)
IsLeft(m, c, now, L, d) ==
  /\ d \in Going /\ Formed(d) /\ d.requests = L /\ d.about = c.about /\ Head(L) = L[1] /\ L[1] \in Asking
  /\ IsAsked(m, c, now) => \E s : Leftover(m, c, d, s)

(* It is a command, too.                                                    *)
LEMMA LeftoverIs ==
  ASSUME NEW m, NEW c, NEW now, WellAsked(m, c, now), NEW L, L = M!Remaining(m, c.requests), L # <<>>,
         NEW d, d = [c EXCEPT !.requests = L]
  PROVE  IsLeft(m, c, now, L, d)
<1>1. c \in Going /\ c.requests \in Seq(Asking)
  BY DEF WellAsked, Going
<1>2. Leaves(m, c.requests, L)
  BY <1>1, RemainingIs
<1>3. PICK s \in DOMAIN c.requests : /\ IsRest(c.requests, L, s) /\ M!Needed(m, c.requests[s])
                                     /\ \A k \in DOMAIN c.requests : k < s => ~M!Needed(m, c.requests[k])
  BY <1>2 DEF Leaves
<1>4. /\ L \in Seq(Asking)
      /\ \A k \in DOMAIN L : \E j \in DOMAIN c.requests : L[k] = c.requests[j]
  BY <1>3 DEF IsRest
<1>5. Head(L) = L[1] /\ L[1] \in Asking
  BY <1>4
<1>6. /\ d \in Going /\ d.requests = L /\ d.about = c.about /\ d.held = c.held /\ d.keeps = c.keeps /\ d.folder = c.folder
      /\ d.served = c.served
  BY <1>1, <1>4 DEF Going
<1>7. IsAsked(m, c, now) => Leftover(m, c, d, s)
  BY <1>3, <1>6 DEF IsAsked, Leftover, Follows
<1>8. Formed(d)
  BY <1>4, <1>6 DEF WellAsked, Formed
<1>. QED BY <1>5, <1>6, <1>7, <1>8 DEF IsLeft

(* A click in the panel.                                                    *)
LEMMA MapStartKeeps ==
  ASSUME M!MapModelAssumption, ModelInv, NEW c \in M!Asked, M!Start(c)
  PROVE  ModelInv'
<1>1. PICK m, now, q : m = model /\ now = epoch /\ q = commands
  OBVIOUS
<1>2. IsMap(m) /\ Housed(m) /\ now \in Nat /\ q \in Seq(Going) /\ IsMap(copied) /\ Placed(copied)
      /\ \A i \in DOMAIN q : Formed(q[i])
  BY <1>1 DEF ModelInv, ModelTyped
<1>3. WellAsked(m, c, now)
  <2>1. M!Remaining(m, c.requests) # <<>>
    BY <1>1 DEF M!Start
  <2>2. c.requests # <<>>
    BY <2>1 DEF M!Remaining
  <2>. QED BY <1>1, <1>2, <2>2, AskedIsWell
<1>4. PICK L : L = M!Remaining(m, c.requests)
  OBVIOUS
<1>5. PICK d : d = [c EXCEPT !.requests = L]
  OBVIOUS
<1>6. PICK r : r = Head(L)
  OBVIOUS
<1>7. /\ L # <<>> /\ commands' = Append(q, d) /\ given' = given + 1
      /\ excused' = (excused \/ \E i \in DOMAIN q : q[i].about \intersect c.about # {})
      /\ r.do = "showLayer" => M!Becomes(M!Switched(m, r.layer, r.on))
      /\ r.do # "showLayer" => UNCHANGED <<model, shown, unseen, epoch>>
      /\ UNCHANGED <<copied, listed, loads, calls>>
  BY <1>1, <1>4, <1>5, <1>6 DEF M!Start
<1>8. /\ d \in Going /\ Formed(d) /\ d.requests = L /\ d.about = c.about /\ r = L[1] /\ r \in Asking
      /\ IsAsked(m, c, now) => \E s : Leftover(m, c, d, s)
  <2>1. IsLeft(m, c, now, L, d)
    BY <1>3, <1>4, <1>5, <1>7, LeftoverIs
  <2>. QED BY <1>6, <2>1 DEF IsLeft
<1>9. PICK w : w = SwitchedAtOnce(m, r)
  OBVIOUS
<1>10. model' = w /\ epoch' = now
  BY <1>1, <1>7, <1>9 DEF M!Becomes, SwitchedAtOnce
<1>11. IsMap(w) /\ Housed(w) /\ DOMAIN w.layers = DOMAIN m.layers
  <2>1. CASE r.do # "showLayer"
    BY <1>2, <1>9, <2>1 DEF SwitchedAtOnce
  <2>2. CASE r.do = "showLayer"
    <3>1. r.layer \in Nat /\ r.on \in BOOLEAN
      BY <1>8 DEF Asking
    <3>2. w = M!Switched(m, r.layer, r.on)
      BY <1>9, <2>2 DEF SwitchedAtOnce
    <3>3. IsMap(w) /\ DOMAIN w.layers = DOMAIN m.layers /\ w.own = m.own
      BY <1>2, <3>1, <3>2, SwitchLeaves
    <3>. QED BY <1>2, <3>3 DEF Housed
  <2>. QED BY <2>1, <2>2
<1>12. /\ commands' \in Seq(Going) /\ DOMAIN commands' = 1..(Len(q) + 1) /\ DOMAIN q = 1..Len(q) /\ Len(q) \in Nat
       /\ commands'[Len(q) + 1] = d /\ \A j \in DOMAIN q : j \in DOMAIN commands' /\ commands'[j] = q[j]
  BY <1>2, <1>7, <1>8
<1>13. ModelTyped'
  <2>1. Formed(d)
    BY <1>8
  <2>2. \A j \in DOMAIN commands' : j = Len(q) + 1 \/ j \in DOMAIN q
    BY <1>12
  <2>3. \A j \in DOMAIN commands' : Formed(commands'[j])
    BY <1>2, <1>12, <2>1, <2>2
  <2>4. given' \in Nat
    BY <1>7 DEF ModelInv, ModelTyped
  <2>5. (excused \/ \E i \in DOMAIN q : q[i].about \intersect c.about # {}) \in BOOLEAN
    OBVIOUS
  <2>6. excused' \in BOOLEAN
    BY <1>7, <2>5
  <2>7. epoch' \in Nat
    BY <1>2, <1>10
  <2>. QED BY <1>2, <1>7, <1>10, <1>11, <1>12, <2>3, <2>4, <2>6, <2>7 DEF ModelInv, ModelTyped
<1>14. LoadsFit'
  BY <1>7 DEF ModelInv, LoadsFit
<1>15. M!ShownAgrees'
  <2>1. CASE r.do = "showLayer"
    BY <1>7, <1>10, <1>11, <2>1, RedrawnIsShown DEF M!Becomes
  <2>2. CASE r.do # "showLayer"
    BY <1>7, <2>2 DEF ModelInv, M!ShownAgrees, M!Visible, M!HomeFolder
  <2>. QED BY <2>1, <2>2
<1>16. ASSUME ~excused' PROVE Calm(model', copied', commands', epoch') /\ ListFits(listed', model')
  <2>1. ~excused /\ \A i \in DOMAIN q : q[i].about \intersect c.about = {}
    BY <1>7, <1>16
  <2>2. Calm(m, copied, q, now) /\ ListFits(listed, m)
    BY <1>1, <2>1 DEF ModelInv
  <2>3. IsAsked(m, c, now)
    BY <1>3, <2>2 DEF Calm, WellAsked
  <2>4. PICK s : Leftover(m, c, d, s)
    BY <1>8, <2>3
  <2>5. IsAsked(m, d, now) /\ Fresh(d) = {} /\ d.requests[1].do # "intoFolder"
    BY <2>3, <2>4, LeftoverIsAsked
  <2>6. w = SwitchedAtOnce(m, d.requests[1])
    BY <1>8, <1>9
  <2>7. PICK n : n = copied
    OBVIOUS
  <2>8. Housed(n)
    BY <1>2, <2>7 DEF Placed, Housed
  <2>9. \A i \in DOMAIN q : q[i].about \intersect d.about = {}
    BY <1>8, <2>1
  <2>10. Calm(w, n, Append(q, d), now)
    BY <1>2, <2>2, <2>5, <2>6, <2>7, <2>8, <2>9, BeginsCalm
  <2>11. ListFits(listed, w)
    BY <1>11, <2>2 DEF ListFits
  <2>. QED BY <1>7, <1>10, <2>7, <2>10, <2>11
<1>. QED BY <1>13, <1>14, <1>15, <1>16 DEF ModelInv

(* Every step of the model of the map keeps the invariant.                  *)
LEMMA MapInvNext ==
  ASSUME M!MapModelAssumption, ModelInv, M!Next
  PROVE  ModelInv'
<1>1. ASSUME NEW c \in M!Asked, M!Start(c) PROVE ModelInv'
  BY <1>1, MapStartKeeps
<1>2. ASSUME NEW i \in DOMAIN commands, M!Serve(i) \/ M!Arrive(i) \/ M!Fail(i) PROVE ModelInv'
  BY <1>2, MapServeKeeps, MapArriveKeeps, MapFailKeeps
<1>3. CASE M!LoadMapData
  BY <1>3, MapLoadKeeps
<1>4. ASSUME NEW k \in DOMAIN loads, M!Read(k) \/ M!Install(k) \/ M!FailLoad(k) PROVE ModelInv'
  BY <1>4, MapReadKeeps, MapInstallKeeps, MapFailLoadKeeps
<1>. QED BY <1>1, <1>2, <1>3, <1>4 DEF M!Next

(* A step of another part keeps it.                                         *)
LEMMA MapInvStutter ==
  ASSUME ModelInv, UNCHANGED M!vars
  PROVE  ModelInv'
<1>1. UNCHANGED <<copied, model, listed, shown, epoch, commands, loads, given, calls, excused, unseen>>
  BY DEF M!vars
<1>2. ModelTyped'
  BY <1>1 DEF ModelInv, ModelTyped
<1>3. LoadsFit'
  BY <1>1 DEF ModelInv, LoadsFit
<1>4. M!ShownAgrees'
  BY <1>1 DEF ModelInv, M!ShownAgrees, M!Visible, M!HomeFolder
<1>5. ASSUME ~excused' PROVE Calm(model', copied', commands', epoch') /\ ListFits(listed', model')
  BY <1>1, <1>5 DEF ModelInv
<1>. QED BY <1>2, <1>3, <1>4, <1>5 DEF ModelInv

(* It holds when the page opens.                                            *)
LEMMA MapInvInit ==
  ASSUME M!MapModelAssumption, M!Init
  PROVE  ModelInv
<1>1. PICK ls : ls = {Home[o] : o \in M!Objects}
  OBVIOUS
<1>2. ls \subseteq Nat \ {0} /\ IsFiniteSet(ls) /\ \A o \in M!Objects : Home[o] \in ls
  <2>1. MaxLayers \in Nat /\ \A o \in M!Objects : Home[o] \in 1..MaxLayers
    BY DEF M!MapModelAssumption
  <2>2. ls \in SUBSET (1..MaxLayers)
    BY <1>1, <2>1
  <2>3. IsFiniteSet(1..MaxLayers)
    BY <2>1, FS_Interval
  <2>4. IsFiniteSet(ls)
    BY <2>2, <2>3, FS_Subset
  <2>5. 1..MaxLayers \subseteq Nat \ {0}
    BY <2>1
  <2>. QED BY <1>1, <2>2, <2>4, <2>5
<1>3. PICK S \in SUBSET DOMAIN M!Begin.layers, on \in BOOLEAN : copied = M!Sorted(S, on)
  BY DEF M!Init
<1>4. /\ DOMAIN M!Begin.layers = ls /\ \A k \in ls : M!Begin.layers[k] = [on |-> TRUE, folder |-> M!None]
      /\ M!Begin.own = [p \in M!Objects |-> M!None]
  BY <1>1 DEF M!Begin
<1>5. /\ copied = [layers |-> copied.layers, folders |-> copied.folders, own |-> copied.own]
      /\ copied.layers = [k \in ls |-> IF k \in S THEN [on |-> on, folder |-> 1] ELSE M!Begin.layers[k]]
      /\ copied.folders = [g \in {1} |-> on]
      /\ copied.own = [p \in M!Objects |-> M!None]
  BY <1>3, <1>4 DEF M!Sorted
<1>6. DOMAIN copied.layers = ls /\ DOMAIN copied.folders = {1} /\ DOMAIN copied.own = M!Objects
  BY <1>5
<1>7. \A k \in ls : copied.layers[k] \in Row /\ copied.layers[k].folder \in {M!None, 1}
  <2>1. ASSUME NEW k \in ls
        PROVE  copied.layers[k] = [on |-> on, folder |-> 1] \/ copied.layers[k] = [on |-> TRUE, folder |-> M!None]
    BY <1>4, <1>5
  <2>2. PICK a, b : a = [on |-> on, folder |-> 1] /\ b = [on |-> TRUE, folder |-> M!None]
    OBVIOUS
  <2>3. a \in Row /\ b \in Row /\ a.folder = 1 /\ b.folder = M!None
    BY <2>2 DEF Row, M!None
  <2>4. \A k \in ls : copied.layers[k] = a \/ copied.layers[k] = b
    BY <2>1, <2>2
  <2>. QED BY <2>3, <2>4
<1>11. IsMap(copied)
  <2>1. copied.layers \in [ls -> Row]
    BY <1>5, <1>7
  <2>2. copied.folders \in [{1} -> BOOLEAN] /\ copied.own \in [M!Objects -> Nat]
    BY <1>5 DEF M!None
  <2>3. IsFiniteSet({1})
    BY FS_Singleton
  <2>4. copied \in [layers : {copied.layers}, folders : {copied.folders}, own : {copied.own}]
    BY <1>5
  <2>. QED BY <1>2, <1>6, <2>1, <2>2, <2>3, <2>4 DEF IsMap
<1>12. Placed(copied)
  BY <1>2, <1>6, <1>7 DEF Placed
<1>13. /\ model = copied /\ listed = M!SetToSeq(ls) /\ shown = M!Visible(copied) /\ epoch = 0
       /\ commands = <<>> /\ loads = <<>> /\ given = 0 /\ calls = 0 /\ excused = FALSE /\ unseen = {}
  BY <1>6 DEF M!Init
<1>14. /\ listed \in Seq(Nat) /\ M!ToSet(listed) = ls /\ Distinct(listed)
  <2>1. PICK N \in Nat : N = Cardinality(ls)
    BY <1>2, SetInSequence
  <2>2. listed \in [1..N -> ls] /\ M!ToSet(listed) = ls /\ Distinct(listed)
    BY <1>2, <1>13, <2>1, SetInSequence
  <2>3. listed \in [1..N -> Nat]
    BY <1>2, <2>2
  <2>. QED BY <2>2, <2>3
<1>15. DOMAIN commands = {} /\ commands \in Seq(Going) /\ DOMAIN loads = {} /\ \A V : loads \in Seq(V)
  BY <1>13
<1>16. ModelTyped
  <2>1. Housed(model) /\ IsMap(model)
    BY <1>11, <1>12, <1>13 DEF Housed, Placed
  <2>. QED BY <1>11, <1>12, <1>13, <1>14, <1>15, <2>1 DEF ModelTyped
<1>17. LoadsFit
  BY <1>15 DEF LoadsFit
<1>18. M!ShownAgrees
  <2>1. M!Visible(model) \subseteq DOMAIN model.own
    BY DEF M!Visible
  <2>. QED BY <1>13, <2>1 DEF M!ShownAgrees
<1>19. Calm(model, copied, commands, epoch)
  BY <1>12, <1>13, <1>15, SameIsSame DEF Calm
<1>20. ListFits(listed, model)
  BY <1>6, <1>13, <1>14 DEF ListFits
<1>. QED BY <1>16, <1>17, <1>18, <1>19, <1>20 DEF ModelInv

(* When nothing is under way, the copy is what the server has.              *)
LEMMA ModelInvCopy ==
  ASSUME M!MapModelAssumption, ModelInv
  PROVE  M!CopyAgrees
<1>1. SUFFICES ASSUME commands = <<>>, loads = <<>>, ~excused
               PROVE  /\ model = copied /\ M!ToSet(listed) = DOMAIN model.layers
                      /\ Len(listed) = M!Cardinality(DOMAIN model.layers)
  BY DEF M!CopyAgrees
<1>2. /\ IsMap(model) /\ IsMap(copied) /\ Calm(model, copied, commands, epoch) /\ ListFits(listed, model)
      /\ listed \in Seq(Nat)
  BY <1>1 DEF ModelInv, ModelTyped
<1>3. DOMAIN commands = {}
  BY <1>1
<1>4. \A t \in Things : Same(model, copied, t)
  BY <1>2, <1>3 DEF Calm
<1>5. \A o \in M!Objects : Home[o] \in Nat
  BY DEF M!MapModelAssumption
<1>6. model = copied
  BY <1>2, <1>4, <1>5, SameEverywhere
<1>7. T!ToSet(listed) = DOMAIN model.layers /\ M!ToSet(listed) = DOMAIN model.layers /\ Distinct(listed)
  BY <1>2 DEF ListFits, M!ToSet, T!ToSet
<1>8. Cardinality(DOMAIN model.layers) = Len(listed)
  BY <1>2, <1>7, CardinalityOfDistinct
<1>. QED BY <1>6, <1>7, <1>8, MSameCardinality

(* While an object is put into another folder, its neighbours stay.         *)
LEMMA NeighboursStay ==
  ASSUME NEW m, NEW n, IsMap(m), NEW c \in Going, NEW now, CommandFits(m, n, c, now), Formed(c),
         c.keeps # {}, c.folder # M!None, NEW o \in c.keeps
  PROVE  M!HomeFolder(n, o) = c.folder
<1>1. PICK q, N : q = c.requests /\ N = Len(q)
  OBVIOUS
<1>2. /\ q[1] \in Asking /\ 1 \in DOMAIN q /\ N \in Nat /\ N >= 1 /\ DOMAIN q = 1..N /\ c.served \in BOOLEAN
  BY <1>1, FirstRequest DEF Formed
<1>3a. MovesOut(m, c)
  BY DEF CommandFits
<1>3b. PICK l \in Nat :
        /\ <<"layer", l>> \in c.about
        /\ \A p \in c.keeps : p \in DOMAIN m.own /\ Home[p] = l /\ m.own[p] \in {M!None, c.folder}
        /\ c.requests[Len(c.requests)].do \in {"putObject", "detachObject"} /\ c.requests[Len(c.requests)].layer \notin c.keeps
        /\ \A k \in DOMAIN c.requests : k = Len(c.requests) - 1 => c.requests[k].do = "detachLayer" /\ c.requests[k].layer = l
        /\ \A k \in DOMAIN c.requests : k < Len(c.requests) - 1 => c.requests[k].do = "keepObject" /\ c.requests[k].folder = c.folder
        /\ m.layers[l].folder = IF Len(c.requests) = 1 THEN M!None ELSE c.folder
        /\ \A p \in c.keeps : m.own[p] = M!None => \E k \in DOMAIN c.requests : k < Len(c.requests) - 1 /\ c.requests[k].layer = p
  BY <1>3a DEF MovesOut
<1>3. /\ <<"layer", l>> \in c.about
      /\ \A p \in c.keeps : p \in DOMAIN m.own /\ Home[p] = l /\ m.own[p] \in {M!None, c.folder}
      /\ q[N].do \in {"putObject", "detachObject"} /\ q[N].layer \notin c.keeps
      /\ \A k \in DOMAIN q : k = N - 1 => q[k].do = "detachLayer" /\ q[k].layer = l
      /\ \A k \in DOMAIN q : k < N - 1 => q[k].do = "keepObject" /\ q[k].folder = c.folder
      /\ m.layers[l].folder = IF N = 1 THEN M!None ELSE c.folder
      /\ \A p \in c.keeps : m.own[p] = M!None => \E k \in DOMAIN q : k < N - 1 /\ q[k].layer = p
  <2>1. <<"layer", l>> \in c.about
    BY <1>1, <1>3b
  <2>2. \A p \in c.keeps : p \in DOMAIN m.own /\ Home[p] = l /\ m.own[p] \in {M!None, c.folder}
    BY <1>1, <1>3b
  <2>3. q[N].do \in {"putObject", "detachObject"} /\ q[N].layer \notin c.keeps
    BY <1>1, <1>3b
  <2>4. \A k \in DOMAIN q : k = N - 1 => q[k].do = "detachLayer" /\ q[k].layer = l
    BY <1>1, <1>3b
  <2>5. \A k \in DOMAIN q : k < N - 1 => q[k].do = "keepObject" /\ q[k].folder = c.folder
    BY <1>1, <1>3b
  <2>6. m.layers[l].folder = IF N = 1 THEN M!None ELSE c.folder
    BY <1>1, <1>3b
  <2>7. \A p \in c.keeps : m.own[p] = M!None => \E k \in DOMAIN q : k < N - 1 /\ q[k].layer = p
    BY <1>1, <1>3b
  <2>. QED BY <2>1, <2>2, <2>3, <2>4, <2>5, <2>6, <2>7
<1>4. PICK t : t = <<"layer", l>>
  OBVIOUS
<1>5. PICK w : w = Expected(m, c)
  OBVIOUS
<1>6. /\ l \in DOMAIN m.layers /\ Same(w, n, t)
  BY <1>3, <1>4, <1>5 DEF CommandFits, Known, There, Touched
<1>7. SameLayer(w, n, l)
  BY <1>4, <1>6 DEF Same
<1>8. o \in DOMAIN m.own /\ Home[o] = l /\ o \in M!Objects
  BY <1>3 DEF IsMap
<1>9. PICK r : r = q[1] /\ r \in Asking
  BY <1>2
<1>10. r.do \in {"putObject", "detachObject", "detachLayer", "keepObject"}
  <2>1. 1 = N \/ 1 = N - 1 \/ 1 < N - 1
    BY <1>2
  <2>. QED BY <1>2, <1>3, <1>9, <2>1
<1>11. w = IF c.served THEN Effect(m, r) ELSE m
  <2>1. CASE c.served
    BY <1>1, <1>5, <1>9, <1>10, <2>1 DEF Expected, Ended
  <2>2. CASE ~c.served
    BY <1>1, <1>5, <1>9, <1>10, <2>2 DEF Expected, Begun
  <2>. QED BY <2>1, <2>2
<1>12. /\ l \in DOMAIN w.layers /\ o \in DOMAIN w.own
       /\ w.layers[l].folder = IF r.do = "detachLayer" /\ r.layer = l /\ c.served THEN M!None ELSE m.layers[l].folder
       /\ r.do = "detachLayer" \/ r.layer # o => w.own[o] = m.own[o]
       /\ r.do = "keepObject" /\ r.layer = o => w.own[o] \in {m.own[o], r.folder}
  <2>1. CASE ~c.served
    BY <1>6, <1>8, <1>11, <2>1
  <2>2. CASE c.served /\ r.do = "detachLayer"
    <3>1. CASE r.layer \in DOMAIN m.layers
      <4>1. PICK row : row = [on |-> m.layers[r.layer].on, folder |-> M!None]
        OBVIOUS
      <4>2. w = WithRow(m, r.layer, row)
        BY <1>11, <2>2, <3>1, <4>1 DEF Effect
      <4>3. r.layer \in Nat \ {0} /\ row \in Row /\ row.folder = M!None
        BY <3>1, <4>1 DEF IsMap, Row, M!None
      <4>4. /\ DOMAIN w.layers = DOMAIN m.layers \union {r.layer} /\ w.own = m.own
            /\ \A k \in DOMAIN m.layers \union {r.layer} : w.layers[k] = IF k = r.layer THEN row ELSE m.layers[k]
        BY <4>2, <4>3, RowIsPut
      <4>. QED BY <1>6, <1>8, <2>2, <4>3, <4>4
    <3>2. CASE r.layer \notin DOMAIN m.layers
      <4>1. w = m /\ r.layer # l
        BY <1>6, <1>11, <2>2, <3>2 DEF Effect
      <4>. QED BY <1>6, <1>8, <4>1
    <3>. QED BY <3>1, <3>2
  <2>3. CASE c.served /\ r.do # "detachLayer"
    <3>1. PICK f \in Nat : f = IF r.do = "detachObject" THEN M!None ELSE r.folder
      BY <1>9 DEF Asking, M!None
    <3>2. w = IF r.layer \in DOMAIN m.own THEN WithOwn(m, r.layer, f) ELSE m
      BY <1>10, <1>11, <2>3, <3>1 DEF Effect
    <3>3. CASE r.layer \in DOMAIN m.own
      <4>1. r.layer \in M!Objects
        BY <3>3 DEF IsMap
      <4>2. /\ DOMAIN w.own = DOMAIN m.own \union {r.layer} /\ w.layers = m.layers
            /\ \A k \in DOMAIN m.own \union {r.layer} : w.own[k] = IF k = r.layer THEN f ELSE m.own[k]
        BY <3>2, <3>3, <4>1, OwnIsPut
      <4>. QED BY <1>6, <1>8, <1>10, <2>3, <3>1, <4>2
    <3>4. CASE r.layer \notin DOMAIN m.own
      BY <1>6, <1>8, <2>3, <3>2, <3>4
    <3>. QED BY <3>3, <3>4
  <2>. QED BY <2>1, <2>2, <2>3
<1>13. l \in DOMAIN n.layers /\ o \in DOMAIN n.own /\ n.layers[l] = w.layers[l] /\ n.own[o] = w.own[o]
  BY <1>7, <1>8, <1>12 DEF SameLayer
<1>14. M!HomeFolder(n, o) = IF w.layers[l].folder # M!None THEN w.layers[l].folder ELSE w.own[o]
  BY <1>8, <1>13 DEF M!HomeFolder
<1>15. CASE N = 1
  <2>1. r.layer # o /\ r.do \in {"putObject", "detachObject"} /\ m.layers[l].folder = M!None
    BY <1>3, <1>9, <1>15
  <2>2. m.own[o] = c.folder
    <3>1. \A k \in DOMAIN q : ~(k < N - 1)
      BY <1>2, <1>15
    <3>. QED BY <1>3, <3>1
  <2>. QED BY <1>12, <1>14, <2>1, <2>2
<1>16. CASE N = 2
  <2>1. r.do = "detachLayer" /\ m.layers[l].folder = c.folder
    BY <1>2, <1>3, <1>9, <1>16
  <2>2. m.own[o] = c.folder
    <3>1. \A k \in DOMAIN q : ~(k < N - 1)
      BY <1>2, <1>16
    <3>. QED BY <1>3, <3>1
  <2>. QED BY <1>12, <1>14, <2>1, <2>2
<1>17. CASE N > 2
  <2>1. 1 < N - 1 /\ N # 1
    BY <1>2, <1>17
  <2>2. r.do = "keepObject" /\ m.layers[l].folder = c.folder
    BY <1>2, <1>3, <1>9, <2>1
  <2>. QED BY <1>12, <1>14, <2>2
<1>. QED BY <1>2, <1>15, <1>16, <1>17

(* The invariant is stronger than ModelAgrees.                              *)
LEMMA ModelInvAgrees ==
  ASSUME M!MapModelAssumption, ModelInv
  PROVE  M!ModelAgrees
<1>1. M!CopyAgrees /\ M!ShownAgrees
  BY ModelInvCopy DEF ModelInv
<1>2. ASSUME NEW i \in DOMAIN commands, commands[i].keeps # {}, commands[i].folder # M!None, ~excused,
             NEW o \in commands[i].keeps
      PROVE  M!HomeFolder(copied, o) = commands[i].folder
  <2>1. PICK c : c = commands[i]
    OBVIOUS
  <2>2. c \in Going /\ Formed(c) /\ IsMap(model) /\ CommandFits(model, copied, c, epoch)
    BY <1>2, <2>1 DEF ModelInv, ModelTyped, Calm
  <2>. QED BY <1>2, <2>1, <2>2, NeighboursStay
<1>3. M!OthersStay
  BY <1>2 DEF M!OthersStay
<1>. QED BY <1>1, <1>3 DEF M!ModelAgrees

-----------------------------------------------------------------------------
(* The run                                                                  *)

(* The invariant holds in every behaviour of the browser of the run.        *)
LEMMA ModelInvAlways == SpecMC => []ModelInv
<1>. USE MCBrowserAssumption
<1>1. InitMC => ModelInv
  BY MapInvInit DEF InitMC
<1>2. ModelInv /\ [NextMC]_<<part, vars, tools, map>> => ModelInv'
  <2>1. NextMC => M!Next \/ UNCHANGED map
    BY DEF NextMC
  <2>2. UNCHANGED map => UNCHANGED M!vars
    BY DEF map, M!vars
  <2>. QED BY <2>1, <2>2, MapInvNext, MapInvStutter
<1>. QED BY <1>1, <1>2, PTL DEF SpecMC

(* The client's copy of the map is the server's when nothing is under way   *)
(* and nothing that it could not hear of has happened; what is on the map   *)
(* is what the layers and folders show (store.js:141); and the objects that *)
(* do not move stay in their folder (panel.js:264): ModelAgrees.            *)
THEOREM ModelAlwaysAgrees == SpecMC => []ModelAgrees
<1>1. ModelInv => ModelAgrees
  BY MCBrowserAssumption, ModelInvAgrees DEF ModelAgrees
<1>. QED BY <1>1, ModelInvAlways, PTL

=============================================================================
