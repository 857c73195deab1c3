------------------------ MODULE MemoryEventStoreProofs ------------------------
(***************************************************************************)
(* What MemoryEventStore guarantees for every set of ids, batches of any   *)
(* length, every clock and every request.  A batch is passed by a loop, a  *)
(* listing by a sort: what they return is proved from the least iteration  *)
(* at which the loop would go wrong, and from the rank of each position.   *)
(***************************************************************************)
EXTENDS MemoryEventStore, FiniteSetTheorems, WellFoundedInduction, TLAPS

-------------------------------------------------------------------------------
(* The loop over a batch *)

(* Every non-empty set of naturals has a least element. *)
LEMMA LeastNat ==
  ASSUME NEW T, T \subseteq Nat, T # {}
  PROVE  \E n \in T : \A m \in T : n <= m
<1> DEFINE R == OpToRel(<, Nat)
<1>1. \A m, n \in Nat : <<m, n>> \in R <=> m < n
  BY DEF OpToRel
<1>2. IsWellFoundedOn(R, Nat)
  BY NatLessThanWellFounded
<1> HIDE DEF R
<1>3. PICK n \in T : \A m \in T : ~(<<m, n>> \in R)
  BY <1>2, WFMin, Zenon
<1>4. \A m \in T : ~(m < n)
  BY <1>1, <1>3, Zenon
<1> QED BY <1>3, <1>4

(* One iteration of upsertEvents' loop. *)
Iteration(m, e, t) == Set(m, e.id, Replaced(m.rows[e.id], e, t))

(* g[k] is the Map after the first k of n iterations. *)
IsLoop(g, n, m, b, t) ==
  g = [k \in 0 .. n |-> IF k = 0 THEN m ELSE Iteration(g[k - 1], b[k], t)]

(* If there were none for some n, take the least: the loop for n - 1 extends to it. *)
LEMMA LoopExists ==
  ASSUME NEW m, NEW b, NEW t, NEW n \in Nat
  PROVE  \E g : IsLoop(g, n, m, b, t)
<1> DEFINE T == {i \in Nat : ~\E g : IsLoop(g, i, m, b, t)}
<1> SUFFICES ASSUME T # {} PROVE FALSE
  BY Zenon
<1>1. PICK i \in T : \A j \in T : i <= j
  BY LeastNat, Zenon
<1>2. CASE i = 0
  <2>1. IsLoop([k \in 0 .. 0 |-> m], 0, m, b, t)
    BY DEF IsLoop
  <2> QED BY <1>2, <2>1
<1>3. CASE i # 0
  <2>1. i - 1 \in Nat /\ i - 1 \notin T
    BY <1>1, <1>3
  <2>2. PICK g : IsLoop(g, i - 1, m, b, t)
    BY <2>1
  <2> DEFINE h == [k \in 0 .. i |-> IF k = i THEN Iteration(g[i - 1], b[i], t) ELSE g[k]]
  <2>3. \A k \in 0 .. i - 1 : h[k] = g[k]
    BY <1>1
  <2>4. \A k \in 0 .. i : h[k] = IF k = 0 THEN m ELSE Iteration(h[k - 1], b[k], t)
    <3> SUFFICES ASSUME NEW k \in 0 .. i
                 PROVE  h[k] = IF k = 0 THEN m ELSE Iteration(h[k - 1], b[k], t)
      OBVIOUS
    <3>1. CASE k = i
      <4>1. h[i - 1] = g[i - 1]
        BY <2>1, <2>3
      <4>2. h[i] = Iteration(g[i - 1], b[i], t)
        BY <1>1
      <4> HIDE DEF h
      <4> QED BY <3>1, <4>1, <4>2, <1>3
    <3>2. CASE k # i
      <4>1. k \in 0 .. i - 1
        BY <3>2, <1>1
      <4>2. g[k] = IF k = 0 THEN m ELSE Iteration(g[k - 1], b[k], t)
        BY <2>2, <4>1 DEF IsLoop
      <4>3. k # 0 => h[k - 1] = g[k - 1]
        BY <2>3, <4>1
      <4>4. h[k] = g[k]
        BY <2>3, <4>1
      <4> HIDE DEF h
      <4> QED BY <4>2, <4>3, <4>4
    <3> QED BY <3>1, <3>2
  <2>5. IsLoop(h, i, m, b, t)
    <3> h = [k \in 0 .. i |-> h[k]]
      OBVIOUS
    <3> HIDE DEF h
    <3> QED BY <2>4 DEF IsLoop
  <2> HIDE DEF h
  <2> QED BY <2>5, <1>1
<1> QED BY <1>2, <1>3

(* So the recursive function in StoredAll is the loop. *)
LEMMA StoredAllIsLoop ==
  ASSUME NEW m, NEW b, NEW t, Len(b) \in Nat
  PROVE  \E g : IsLoop(g, Len(b), m, b, t) /\ StoredAll(m, b, t) = g[Len(b)]
<1> DEFINE L == CHOOSE g : IsLoop(g, Len(b), m, b, t)
<1>1. IsLoop(L, Len(b), m, b, t)
  BY LoopExists
<1>2. StoredAll(m, b, t) = L[Len(b)]
  BY Zenon DEF StoredAll, IsLoop, Iteration
<1> QED BY <1>1, <1>2

-------------------------------------------------------------------------------
(* Sorting *)

(* R orders the elements of P strictly and totally. *)
Orders(R, P) ==
  /\ \A i \in P : <<i, i>> \notin R
  /\ \A i, j, k \in P : <<i, j>> \in R /\ <<j, k>> \in R => <<i, k>> \in R
  /\ \A i, j \in P : i = j \/ <<i, j>> \in R \/ <<j, i>> \in R

(* Those that R puts before i. *)
Before(P, R, i) == {j \in P : <<j, i>> \in R}

(* What comes later has more before it. *)
LEMMA RankGrows ==
  ASSUME NEW P, IsFiniteSet(P), NEW R, Orders(R, P),
         NEW i \in P, NEW j \in P, <<i, j>> \in R
  PROVE  Cardinality(Before(P, R, i)) < Cardinality(Before(P, R, j))
<1>1. Before(P, R, i) \subseteq Before(P, R, j) /\ i \in Before(P, R, j) /\ i \notin Before(P, R, i)
  BY DEF Orders, Before
<1>2. IsFiniteSet(Before(P, R, j))
  BY FS_Subset DEF Before
<1>3. /\ Cardinality(Before(P, R, i)) <= Cardinality(Before(P, R, j))
      /\ Cardinality(Before(P, R, i)) # Cardinality(Before(P, R, j))
  BY <1>1, <1>2, FS_Subset
<1>4. Cardinality(Before(P, R, i)) \in Nat /\ Cardinality(Before(P, R, j)) \in Nat
  BY <1>1, <1>2, FS_Subset, FS_CardinalityType
<1> QED BY <1>3, <1>4

(* No element comes before itself. *)
LEMMA RankBound ==
  ASSUME NEW P, IsFiniteSet(P), NEW R, Orders(R, P), NEW i \in P
  PROVE  Cardinality(Before(P, R, i)) \in 0 .. Cardinality(P) - 1
<1>1. Before(P, R, i) \subseteq P /\ i \notin Before(P, R, i)
  BY DEF Orders, Before
<1>2. /\ IsFiniteSet(Before(P, R, i))
      /\ Cardinality(Before(P, R, i)) <= Cardinality(P)
      /\ Cardinality(Before(P, R, i)) # Cardinality(P)
  BY <1>1, FS_Subset
<1>3. Cardinality(Before(P, R, i)) \in Nat /\ Cardinality(P) \in Nat
  BY <1>2, FS_CardinalityType
<1> QED BY <1>2, <1>3

(* Ranks differ, and there are as many as elements: none is left out. *)
LEMMA RankTaken ==
  ASSUME NEW P, IsFiniteSet(P), NEW R, Orders(R, P), NEW k \in 1 .. Cardinality(P)
  PROVE  \E i \in P : Cardinality(Before(P, R, i)) = k - 1
<1> DEFINE rank == [i \in P |-> Cardinality(Before(P, R, i))]
           N == 0 .. Cardinality(P) - 1
<1>1. Cardinality(P) \in Nat
  BY FS_CardinalityType
<1>2. rank \in [P -> N]
  BY RankBound
<1>3. ASSUME NEW i \in P, NEW j \in P, i # j
      PROVE  rank[i] # rank[j]
  <2>1. rank[i] \in Nat /\ rank[j] \in Nat
    BY <1>1, <1>2
  <2>2. rank[i] < rank[j] \/ rank[j] < rank[i]
    BY <1>3, RankGrows DEF Orders
  <2> HIDE DEF rank
  <2> QED BY <2>1, <2>2
<1>4. rank \in Injection(P, N)
  BY <1>2, <1>3 DEF Injection, IsInjective
<1>5. IsFiniteSet(N) /\ Cardinality(N) = Cardinality(P)
  <2> DEFINE top == Cardinality(P) - 1
  <2>1. top \in Int /\ (IF 0 > top THEN 0 ELSE top - 0 + 1) = Cardinality(P)
    BY <1>1
  <2> HIDE DEF top
  <2>2. IsFiniteSet(0 .. top) /\ Cardinality(0 .. top) = Cardinality(P)
    BY <2>1, FS_Interval
  <2> QED BY <2>2 DEF top
<1> HIDE DEF N
<1>6. rank \in Surjection(P, N)
  BY <1>4, <1>5, FS_Injection
<1>7. k - 1 \in N
  BY <1>1 DEF N
<1> QED BY <1>6, <1>7 DEF Surjection

(* The k-th positions are P's, in R's order, each once. *)
LEMMA PositionsSorted ==
  ASSUME NEW P, IsFiniteSet(P), NEW R, Orders(R, P)
  PROVE  /\ \A k \in 1 .. Cardinality(P) : Position(P, R, k) \in P
         /\ \A k, l \in 1 .. Cardinality(P) :
               k < l => <<Position(P, R, k), Position(P, R, l)>> \in R
         /\ \A k, l \in 1 .. Cardinality(P) :
               Position(P, R, k) = Position(P, R, l) => k = l
         /\ \A i \in P : \E k \in 1 .. Cardinality(P) : Position(P, R, k) = i
<1> DEFINE rank(i) == Cardinality(Before(P, R, i))
<1>1. Cardinality(P) \in Nat
  BY FS_CardinalityType
<1>2. ASSUME NEW k \in 1 .. Cardinality(P)
      PROVE  Position(P, R, k) \in P /\ rank(Position(P, R, k)) = k - 1
  <2>1. Position(P, R, k) = CHOOSE i \in P : rank(i) = k - 1
    BY DEF Position, Before
  <2> HIDE DEF rank
  <2>2. \E i \in P : rank(i) = k - 1
    BY RankTaken DEF rank
  <2> QED BY <2>1, <2>2
<1>3. ASSUME NEW i \in P, NEW j \in P
      PROVE  /\ rank(i) < rank(j) => <<i, j>> \in R
             /\ rank(i) = rank(j) => i = j
  <2>1. rank(i) \in Nat /\ rank(j) \in Nat
    BY RankBound
  <2>2. <<j, i>> \in R => rank(j) < rank(i)
    BY RankGrows
  <2>3. <<i, j>> \in R => rank(i) < rank(j)
    BY RankGrows
  <2>4. i = j \/ <<i, j>> \in R \/ <<j, i>> \in R
    BY DEF Orders
  <2> HIDE DEF rank
  <2> QED BY <2>1, <2>2, <2>3, <2>4
<1>4. ASSUME NEW i \in P
      PROVE  \E k \in 1 .. Cardinality(P) : Position(P, R, k) = i
  <2>1. rank(i) \in 0 .. Cardinality(P) - 1
    BY RankBound
  <2>2. rank(i) + 1 \in 1 .. Cardinality(P) /\ (rank(i) + 1) - 1 = rank(i)
    BY <1>1, <2>1
  <2>3. Position(P, R, rank(i) + 1) = i
    BY <1>2, <1>3, <2>2
  <2> QED BY <2>2, <2>3
<1> HIDE DEF rank
<1> QED BY <1>1, <1>2, <1>3, <1>4

(* Keys lists the ids at the positions P, each once, in R's order. *)
LEMMA KeysSorted ==
  ASSUME MemTypeOK, NEW P, P \subseteq DOMAIN order, NEW R, Orders(R, P)
  PROVE  /\ IsFiniteSet(P)
         /\ Keys(P, R) \in Seq(Id)
         /\ Len(Keys(P, R)) = Cardinality(P)
         /\ \A k \in 1 .. Cardinality(P) :
               Position(P, R, k) \in P /\ Keys(P, R)[k] = order[Position(P, R, k)]
         /\ IsInjective(Keys(P, R))
         /\ ToSet(Keys(P, R)) = {order[i] : i \in P}
<1> DEFINE s == Keys(P, R)
           pos(k) == Position(P, R, k)
<1>1. order \in Seq(Id) /\ Len(order) \in Nat /\ DOMAIN order = 1 .. Len(order)
  BY DEF MemTypeOK
<1>2. IsFiniteSet(P) /\ Cardinality(P) \in Nat
  <2>1. IsFiniteSet(1 .. Len(order))
    BY <1>1, FS_Interval
  <2>2. IsFiniteSet(P)
    BY <1>1, <2>1, FS_Subset
  <2> QED BY <2>2, FS_CardinalityType
<1>3. s = [k \in 1 .. Cardinality(P) |-> order[pos(k)]]
  BY DEF Keys
<1>4. /\ \A k \in 1 .. Cardinality(P) : pos(k) \in P
      /\ \A k, l \in 1 .. Cardinality(P) : pos(k) = pos(l) => k = l
      /\ \A i \in P : \E k \in 1 .. Cardinality(P) : pos(k) = i
  BY <1>2, PositionsSorted
<1> HIDE DEF s, pos
<1>5. \A k \in 1 .. Cardinality(P) : s[k] = order[pos(k)] /\ s[k] \in Id
  BY <1>1, <1>3, <1>4
<1>6. s \in Seq(Id) /\ Len(s) = Cardinality(P) /\ DOMAIN s = 1 .. Cardinality(P)
  <2>1. s \in [1 .. Cardinality(P) -> Id]
    BY <1>3, <1>5
  <2> QED BY <1>2, <2>1
<1>7. IsInjective(s)
  <2>1. \A i, j \in P : order[i] = order[j] => i = j
    BY DEF MemTypeOK, IsInjective
  <2> QED BY <1>4, <1>5, <1>6, <2>1 DEF IsInjective
<1>8. ToSet(s) = {order[i] : i \in P}
  BY <1>4, <1>5, <1>6 DEF ToSet
<1> QED BY <1>2, <1>4, <1>5, <1>6, <1>7, <1>8 DEF s, pos

-------------------------------------------------------------------------------
(* The Map after a batch *)

(* A Map: its keys, each once, in some order, are the ids that have a row. *)
IsMap(m) ==
  /\ m.rows \in Rows
  /\ m.order \in Seq(Id) /\ IsInjective(m.order)
  /\ ToSet(m.order) = {id \in Id : m.rows[id] # NoRow}

(* Map.prototype.set writes one row and leaves the others and their places. *)
LEMMA SetKeepsMap ==
  ASSUME NEW m, IsMap(m), NEW id \in Id, NEW row \in Row
  PROVE  /\ IsMap(Set(m, id, row))
         /\ Set(m, id, row).rows[id] = row
         /\ \A other \in Id \ {id} : Set(m, id, row).rows[other] = m.rows[other]
<1> DEFINE new == Set(m, id, row)
<1>1. row # NoRow
  BY EventsAssumption
<1>2. new.rows = [m.rows EXCEPT ![id] = row]
  BY DEF Set
<1>3. /\ new.rows \in Rows /\ new.rows[id] = row
      /\ \A other \in Id \ {id} : new.rows[other] = m.rows[other]
  BY <1>2 DEF IsMap, Rows
<1>4. new.order = IF m.rows[id] = NoRow THEN Append(m.order, id) ELSE m.order
  BY DEF Set
<1> HIDE DEF new
<1>5. CASE m.rows[id] # NoRow
  BY <1>1, <1>3, <1>4, <1>5 DEF IsMap, new
<1>6. CASE m.rows[id] = NoRow
  <2>1. m.order \in Seq(Id) /\ Len(m.order) \in Nat /\ DOMAIN m.order = 1 .. Len(m.order)
    BY DEF IsMap
  <2>2. /\ new.order \in Seq(Id) /\ DOMAIN new.order = 1 .. Len(m.order) + 1
        /\ \A i \in 1 .. Len(m.order) : new.order[i] = m.order[i]
        /\ new.order[Len(m.order) + 1] = id
    BY <1>4, <1>6, <2>1
  <2>3. \A i \in 1 .. Len(m.order) : m.order[i] # id
    BY <1>6, <2>1 DEF IsMap, ToSet
  <2>4. IsInjective(new.order)
    BY <2>1, <2>2, <2>3 DEF IsMap, IsInjective
  <2>5. ToSet(new.order) = ToSet(m.order) \cup {id}
    BY <2>1, <2>2 DEF ToSet
  <2>6. {x \in Id : new.rows[x] # NoRow} = {x \in Id : m.rows[x] # NoRow} \cup {id}
    BY <1>1, <1>3
  <2> QED BY <1>3, <2>2, <2>4, <2>5, <2>6 DEF IsMap, new
<1> QED BY <1>5, <1>6

(* An event of another id does not touch the row. *)
LEMMA UpsertedSkips ==
  ASSUME NEW b, NEW n \in Nat \ {0}, NEW id, NEW old, NEW new, NEW t,
         b[n].id # id, Upserted(old, new, b, n - 1, id, t)
  PROVE  Upserted(old, new, b, n, id, t)
<1>1. Hits(b, n, id) = Hits(b, n - 1, id)
  BY DEF Hits
<1> QED BY <1>1 DEF Upserted

(* One more iteration extends the prefix of the batch the row reflects. *)
LEMMA ReplacedExtends ==
  ASSUME NEW b \in Batch, NEW n \in 1 .. Len(b), NEW t \in Time,
         NEW old \in Row \cup {NoRow}, NEW seen \in Row \cup {NoRow},
         Upserted(old, seen, b, n - 1, b[n].id, t)
  PROVE  /\ Replaced(seen, b[n], t) \in Row
         /\ Upserted(old, Replaced(seen, b[n], t), b, n, b[n].id, t)
<1> DEFINE id == b[n].id
           before == Hits(b, n - 1, id)
           new == Replaced(seen, b[n], t)
<1>1. b \in Seq(Event) /\ n \in Nat \ {0} /\ b[n] \in Event
  BY EventsAssumption
<1>2. Hits(b, n, id) = before \cup {n} /\ \A i \in before : i <= n
  BY <1>1 DEF Hits
<1>3. new \in Row
  BY <1>1 DEF Replaced, Merged, Row, Event
<1>4. /\ new.content = b[n].content
      /\ new.place = b[n].place
      /\ new.refs = {b[n].ref} \cup (IF seen # NoRow THEN seen.refs ELSE {})
      /\ new.firstSeenAt = (IF seen # NoRow THEN seen.firstSeenAt ELSE t)
      /\ new.lastUpdatedAt = (IF seen # NoRow /\ seen.content = b[n].content
                                THEN seen.lastUpdatedAt ELSE t)
  BY DEF Replaced, Merged
<1> HIDE DEF new
<1>5. \E last \in before \cup {n} : /\ \A i \in before \cup {n} : i <= last
                                    /\ new.content = b[last].content
  BY <1>1, <1>2, <1>4
<1>6. \E i \in before \cup {n} : new.place = b[i].place
  BY <1>4
<1>7. ASSUME before = {}
      PROVE  Upserted(old, new, b, n, id, t)
  <2>1. seen = old
    BY <1>7 DEF Upserted
  <2> QED BY <1>2, <1>3, <1>4, <1>5, <1>6, <1>7, <2>1 DEF Upserted
<1>8. ASSUME before # {}
      PROVE  Upserted(old, new, b, n, id, t)
  <2>1. /\ seen \in Row /\ seen # NoRow
        /\ \E last \in before : seen.content = b[last].content
        /\ seen.refs = {b[i].ref : i \in before} \cup (IF old # NoRow THEN old.refs ELSE {})
        /\ seen.firstSeenAt = (IF old # NoRow THEN old.firstSeenAt ELSE t)
        /\ seen.lastUpdatedAt =
             IF old # NoRow /\ \A i \in before : b[i].content = old.content
               THEN old.lastUpdatedAt ELSE t
    BY <1>8, EventsAssumption DEF Upserted
  <2>2. new.refs = {b[i].ref : i \in before \cup {n}} \cup (IF old # NoRow THEN old.refs ELSE {})
    BY <1>4, <2>1
  <2>3. new.firstSeenAt = (IF old # NoRow THEN old.firstSeenAt ELSE t)
    BY <1>4, <2>1
  <2>4. new.lastUpdatedAt =
          IF old # NoRow /\ \A i \in before \cup {n} : b[i].content = old.content
            THEN old.lastUpdatedAt ELSE t
    BY <1>4, <2>1
  <2> QED BY <1>2, <1>3, <1>5, <1>6, <2>2, <2>3, <2>4 DEF Upserted
<1> QED BY <1>3, <1>7, <1>8 DEF new

(* There is no least iteration after which the Map is not what the contract makes
   of the events passed. *)
LEMMA StoredAllUpserts ==
  ASSUME NEW m, IsMap(m), NEW b \in Batch, NEW t \in Time
  PROVE  /\ IsMap(StoredAll(m, b, t))
         /\ \A id \in Id :
               Upserted(m.rows[id], StoredAll(m, b, t).rows[id], b, Len(b), id, t)
<1>1. b \in Seq(Event) /\ Len(b) \in Nat
  BY EventsAssumption
<1>2. PICK g : IsLoop(g, Len(b), m, b, t) /\ StoredAll(m, b, t) = g[Len(b)]
  BY <1>1, StoredAllIsLoop
<1>3. /\ g[0] = m
      /\ \A k \in 1 .. Len(b) : g[k] = Iteration(g[k - 1], b[k], t)
  BY <1>1, <1>2 DEF IsLoop
<1> DEFINE Sofar(k) == /\ IsMap(g[k])
                       /\ \A id \in Id : Upserted(m.rows[id], g[k].rows[id], b, k, id, t)
           T == {k \in 0 .. Len(b) : ~Sofar(k)}
<1>4. Sofar(0)
  <2>1. \A id \in Id : Hits(b, 0, id) = {}
    BY DEF Hits
  <2> QED BY <1>3, <2>1 DEF Upserted
<1>5. ASSUME NEW k \in 1 .. Len(b), Sofar(k - 1)
      PROVE  Sofar(k)
  <2> DEFINE id == b[k].id
             row == Replaced(g[k - 1].rows[id], b[k], t)
  <2>1. b[k] \in Event /\ id \in Id /\ k \in Nat \ {0}
    <3>1. b[k] \in Event
      BY <1>1
    <3> QED BY <1>1, <3>1 DEF Event
  <2>2. /\ m.rows[id] \in Row \cup {NoRow}
        /\ g[k - 1].rows[id] \in Row \cup {NoRow}
        /\ Upserted(m.rows[id], g[k - 1].rows[id], b, k - 1, id, t)
    BY <1>5, <2>1 DEF IsMap, Rows
  <2>3. row \in Row /\ Upserted(m.rows[id], row, b, k, id, t)
    BY <2>2, ReplacedExtends
  <2>4. g[k] = Set(g[k - 1], id, row)
    BY <1>3 DEF Iteration
  <2> HIDE DEF row
  <2>5. /\ IsMap(g[k]) /\ g[k].rows[id] = row
        /\ \A other \in Id \ {id} : g[k].rows[other] = g[k - 1].rows[other]
    BY <1>5, <2>1, <2>3, <2>4, SetKeepsMap
  <2>6. ASSUME NEW other \in Id \ {id}
        PROVE  Upserted(m.rows[other], g[k].rows[other], b, k, other, t)
    BY <1>5, <2>1, <2>5, UpsertedSkips
  <2> QED BY <2>3, <2>5, <2>6
<1> HIDE DEF Sofar
<1>6. T = {}
  <2> SUFFICES ASSUME T # {} PROVE FALSE
    OBVIOUS
  <2>1. PICK k \in T : \A j \in T : k <= j
    <3>1. T \subseteq Nat
      BY <1>1
    <3> HIDE DEF T
    <3> QED BY <3>1, LeastNat
  <2>2. k \in 1 .. Len(b) /\ k - 1 \in 0 .. Len(b) /\ ~(k <= k - 1)
    BY <1>1, <1>4, <2>1
  <2> QED BY <1>5, <2>1, <2>2
<1>7. Sofar(Len(b))
  BY <1>1, <1>6
<1> QED BY <1>2, <1>7 DEF Sofar

-------------------------------------------------------------------------------
(* The store *)

LEMMA UpsertKeepsMap ==
  ASSUME MemTypeOK, NEW b \in Batch, upsertEvents(b)
  PROVE  /\ MemTypeOK'
         /\ \A id \in Id : Upserted(rows[id], rows'[id], b, Len(b), id, now)
<1> DEFINE m == [rows |-> rows, order |-> order]
           new == StoredAll(m, b, now)
<1>1. IsMap(m)
  BY DEF IsMap, MemTypeOK
<1>2. IsMap(new) /\ \A id \in Id : Upserted(rows[id], new.rows[id], b, Len(b), id, now)
  <2>1. now \in Time /\ m.rows = rows
    BY DEF MemTypeOK
  <2> HIDE DEF m
  <2> QED BY <1>1, <2>1, StoredAllUpserts
<1>3. rows' = new.rows /\ order' = new.order /\ now' = now
  BY DEF upsertEvents
<1> HIDE DEF new
<1> QED BY <1>2, <1>3 DEF IsMap, MemTypeOK

LEMMA InsertedOrders ==
  ASSUME MemTypeOK, NEW P, P \subseteq DOMAIN order
  PROVE  Orders(Inserted, P)
<1>1. DOMAIN order \subseteq Nat
  BY DEF MemTypeOK
<1>2. \A i, j \in DOMAIN order : <<i, j>> \in Inserted <=> i < j
  BY DEF Inserted
<1> QED BY <1>1, <1>2 DEF Orders

LEMMA NewestFirstOrders ==
  ASSUME MemTypeOK, NEW P, P \subseteq DOMAIN order
  PROVE  Orders(NewestFirst, P)
<1> DEFINE stamp(i) == rows[order[i]].lastUpdatedAt
<1>1. DOMAIN order \subseteq Nat
  BY DEF MemTypeOK
<1>2. \A i \in DOMAIN order : stamp(i) \in Nat
  BY EventsAssumption DEF MemTypeOK, ToSet, Rows, Row, Time
<1>3. \A i, j \in DOMAIN order :
         <<i, j>> \in NewestFirst <=> stamp(i) > stamp(j) \/ (stamp(i) = stamp(j) /\ i < j)
  BY DEF NewestFirst
<1> HIDE DEF stamp
<1> QED BY <1>1, <1>2, <1>3 DEF Orders

LEMMA PruneKeepsMap ==
  ASSUME MemTypeOK, NEW cutoff \in Time, pruneOlderThan(cutoff)
  PROVE  MemTypeOK'
<1> DEFINE gone == Expired(rows, cutoff)
           kept == {i \in DOMAIN order : order[i] \notin gone}
<1>1. rows' = Without(rows, gone) /\ order' = Keys(kept, Inserted) /\ now' = now
  BY DEF pruneOlderThan
<1>2. rows' \in Rows /\ \A id \in Id : rows'[id] = IF id \in gone THEN NoRow ELSE rows[id]
  BY <1>1 DEF Without, MemTypeOK, Rows
<1>3. /\ order' \in Seq(Id) /\ IsInjective(order')
      /\ ToSet(order') = {order[i] : i \in kept}
  BY <1>1, KeysSorted, InsertedOrders
<1> HIDE DEF gone
<1>4. {order[i] : i \in kept} = {id \in Id : rows'[id] # NoRow}
  BY <1>2 DEF MemTypeOK, ToSet
<1> QED BY <1>1, <1>2, <1>3, <1>4 DEF MemTypeOK

(* MemTypeOK, for batches of any length: the Map lists each stored id once, whatever
   was inserted, updated, pruned and inserted again. *)
THEOREM MemTypeCorrect == MemSpec => []MemTypeOK
<1>1. MemInit => MemTypeOK
  BY EventsAssumption DEF MemInit, MemTypeOK, Rows, Time, IsInjective, ToSet
<1>2. MemTypeOK /\ [MemNext]_memVars => MemTypeOK'
  <2> SUFFICES ASSUME MemTypeOK, [MemNext]_memVars PROVE MemTypeOK'
    OBVIOUS
  <2>1. CASE UNCHANGED memVars
    BY <2>1 DEF memVars, MemTypeOK
  <2>2. CASE Tick
    BY <2>2 DEF Tick, MemTypeOK
  <2> QED BY <2>1, <2>2, UpsertKeepsMap, PruneKeepsMap DEF MemNext
<1> QED BY <1>1, <1>2, PTL DEF MemSpec

(* The in-memory store implements the event-store contract: one call's loop is one
   upsert of the whole batch, however often an id is repeated in it. *)
THEOREM MemImplements == MemSpec => MemImplementsEventStore
<1>1. MemInit => ES!Init
  BY DEF MemInit, ES!Init
<1>2. MemTypeOK /\ MemTypeOK' /\ [MemNext]_memVars => [ES!Next]_rows
  <2> SUFFICES ASSUME MemTypeOK, MemTypeOK', [MemNext]_memVars
               PROVE  [ES!Next]_rows
    OBVIOUS
  <2>1. ASSUME NEW b \in Batch, upsertEvents(b)
        PROVE  ES!Next
    <3>1. rows' \in Rows /\ now \in Time
      BY DEF MemTypeOK
    <3>2. \A id \in Id : Upserted(rows[id], rows'[id], b, Len(b), id, now)
      BY <2>1, UpsertKeepsMap
    <3>3. ES!UpsertEvents(b, now)
      BY <3>1, <3>2 DEF ES!UpsertEvents, ES!Upserted, ES!Hits, Upserted, Hits,
         ES!Rows, ES!Row, ES!Time, Rows, Row, Time
    <3> QED BY <3>1, <3>3 DEF ES!Next, ES!Time, Time
  <2>2. ASSUME NEW cutoff \in Time, pruneOlderThan(cutoff)
        PROVE  ES!Next
    BY <2>2 DEF pruneOlderThan, Without, Expired, Time, ES!Next, ES!PruneOlderThan, ES!Without,
                ES!Expired, ES!Time
  <2>3. CASE Tick \/ UNCHANGED memVars
    BY <2>3 DEF Tick, memVars
  <2> QED BY <2>1, <2>2, <2>3 DEF MemNext
<1> QED BY <1>1, <1>2, MemTypeCorrect, PTL DEF MemSpec, MemImplementsEventStore, ES!Spec

-------------------------------------------------------------------------------
(* Requests *)

LEMMA LimitBounds ==
  ASSUME NEW q \in Query
  PROVE  parseQueryFilters(q).limit \in Nat \ {0} /\ parseQueryFilters(q).limit <= MAX_LIMIT
<1>1. /\ parseQueryFilters(q).limit = IF q.limit = None THEN DEFAULT_LIMIT
                                                        ELSE Clamp(1, q.limit, MAX_LIMIT)
      /\ q.limit \in Int \cup {None}
  BY ListAssumption DEF parseQueryFilters, Filters
<1> QED BY <1>1, ListAssumption DEF Clamp

(* Before the limit: every matching row, each once, newest first. *)
LEMMA AllFound ==
  ASSUME MemTypeOK, NEW f
  PROVE  LET s == Keys(Found(f), NewestFirst)
             stamp(id) == rows[id].lastUpdatedAt
         IN  /\ s \in Seq(Id) /\ IsInjective(s)
             /\ ToSet(s) = Matching(rows, f)
             /\ Cardinality(Matching(rows, f)) = Len(s)
             /\ \A k, l \in 1 .. Len(s) : k <= l => stamp(s[k]) >= stamp(s[l])
<1> DEFINE P == Found(f)
           R == NewestFirst
           s == Keys(P, R)
           stamp(id) == rows[id].lastUpdatedAt
<1>1. P \subseteq DOMAIN order /\ Orders(R, P)
  BY NewestFirstOrders DEF Found
<1> HIDE DEF P, R
<1>2. /\ IsFiniteSet(P)
      /\ s \in Seq(Id) /\ Len(s) = Cardinality(P)
      /\ \A k \in 1 .. Cardinality(P) : Position(P, R, k) \in P /\ s[k] = order[Position(P, R, k)]
      /\ IsInjective(s)
      /\ ToSet(s) = {order[i] : i \in P}
  BY <1>1, KeysSorted
<1>3. \A k, l \in 1 .. Cardinality(P) : k < l => <<Position(P, R, k), Position(P, R, l)>> \in R
  BY <1>1, <1>2, PositionsSorted
<1>4. ToSet(s) = Matching(rows, f)
  <2>1. {order[i] : i \in DOMAIN order} = {id \in Id : rows[id] # NoRow}
    BY DEF MemTypeOK, ToSet
  <2>2. P = {i \in DOMAIN order : Matches(rows[order[i]], f)}
    BY DEF P, Found
  <2>3. Matching(rows, f) = {id \in {order[i] : i \in DOMAIN order} : Matches(rows[id], f)}
    BY <2>1 DEF Matching
  <2>4. {order[i] : i \in P} = Matching(rows, f)
    BY <2>2, <2>3
  <2> QED BY <1>2, <2>4
<1>5. \A i \in DOMAIN order : stamp(order[i]) \in Nat
  BY EventsAssumption DEF MemTypeOK, ToSet, Rows, Row, Time
<1>6. \A i, j \in P : <<i, j>> \in R => stamp(order[i]) >= stamp(order[j])
  BY <1>1, <1>5 DEF R, NewestFirst
<1>7. Len(s) \in Nat /\ DOMAIN s = 1 .. Len(s)
  BY <1>2
<1> HIDE DEF s, stamp
<1>8. ASSUME NEW k \in 1 .. Len(s), NEW l \in 1 .. Len(s), k <= l
      PROVE  stamp(s[k]) >= stamp(s[l])
  <2>1. /\ Position(P, R, k) \in P /\ s[k] = order[Position(P, R, k)]
        /\ Position(P, R, l) \in P /\ s[l] = order[Position(P, R, l)]
    BY <1>2
  <2>2. CASE k = l
    BY <1>1, <1>5, <2>1, <2>2
  <2>3. CASE k < l
    BY <1>2, <1>3, <1>6, <2>1, <2>3
  <2> QED BY <1>7, <1>8, <2>2, <2>3
<1>9. Cardinality(ToSet(s)) = Len(s)
  <2>1. IsFiniteSet(1 .. Len(s)) /\ Cardinality(1 .. Len(s)) = Len(s)
    <3>1. (IF 1 > Len(s) THEN 0 ELSE Len(s) - 1 + 1) = Len(s)
      BY <1>7
    <3> QED BY <1>7, <3>1, FS_Interval
  <2>2. s \in Surjection(1 .. Len(s), ToSet(s)) /\ s \in Injection(1 .. Len(s), ToSet(s))
    BY <1>2, <1>7 DEF Surjection, Injection, ToSet, IsInjective
  <2> QED BY <2>1, <2>2, FS_Surjection
<1> QED BY <1>2, <1>4, <1>8, <1>9 DEF s, stamp, P, R

(* The limit keeps the first of them. *)
LEMMA ListedPrefix ==
  ASSUME MemTypeOK, NEW q \in Query
  PROVE  LET f == parseQueryFilters(q)
             s == Keys(Found(f), NewestFirst)
             n == IF Len(s) < f.limit THEN Len(s) ELSE f.limit
         IN  /\ n \in Nat /\ n <= Len(s)
             /\ disruptions(q) \in Seq(Id) /\ Len(disruptions(q)) = n
             /\ \A i \in 1 .. n : disruptions(q)[i] = s[i]
<1> DEFINE f == parseQueryFilters(q)
           s == Keys(Found(f), NewestFirst)
           n == IF Len(s) < f.limit THEN Len(s) ELSE f.limit
<1>1. s \in Seq(Id) /\ Len(s) \in Nat
  BY AllFound
<1>2. f.limit \in Nat \ {0}
  BY LimitBounds
<1>3. disruptions(q) = SubSeq(s, 1, n)
  BY DEF disruptions, listAll, Shortened
<1> HIDE DEF s, f
<1>4. n \in Nat /\ n <= Len(s)
  BY <1>1, <1>2
<1> HIDE DEF n
<1>5. /\ disruptions(q) \in Seq(Id) /\ Len(disruptions(q)) = n
      /\ \A i \in 1 .. n : disruptions(q)[i] = s[i]
  BY <1>1, <1>3, <1>4
<1> QED BY <1>4, <1>5 DEF s, f, n

(* A row left out by the limit comes later in the sorted list than every row in it. *)
LEMMA ListedAsSql ==
  ASSUME MemTypeOK, NEW q \in Query
  PROVE  SqlMayReturn(rows, parseQueryFilters(q), disruptions(q))
<1> DEFINE f == parseQueryFilters(q)
           s == Keys(Found(f), NewestFirst)
           stamp(id) == rows[id].lastUpdatedAt
           listed == disruptions(q)
           matching == Matching(rows, f)
           all == Cardinality(matching)
           n == IF Len(s) < f.limit THEN Len(s) ELSE f.limit
<1>1. /\ s \in Seq(Id) /\ IsInjective(s)
      /\ ToSet(s) = matching
      /\ all = Len(s)
      /\ \A k, l \in 1 .. Len(s) : k <= l => stamp(s[k]) >= stamp(s[l])
  BY AllFound
<1>2. /\ n \in Nat /\ n <= Len(s)
      /\ listed \in Seq(Id) /\ Len(listed) = n
      /\ \A i \in 1 .. n : listed[i] = s[i]
  BY ListedPrefix
<1>3. n = IF all < f.limit THEN all ELSE f.limit
  BY <1>1
<1> HIDE DEF s, n, listed, matching, all, stamp
<1>4. Len(s) \in Nat /\ DOMAIN s = 1 .. Len(s) /\ DOMAIN listed = 1 .. n
  BY <1>1, <1>2
<1>5. IsInjective(listed) /\ ToSet(listed) \subseteq matching
  BY <1>1, <1>2, <1>4 DEF IsInjective, ToSet
<1>6. \A i \in DOMAIN listed : \A j \in i .. Len(listed) : stamp(listed[i]) >= stamp(listed[j])
  BY <1>1, <1>2, <1>4
<1>7. ASSUME NEW i \in DOMAIN listed, NEW id \in matching \ ToSet(listed)
      PROVE  stamp(listed[i]) >= stamp(id)
  <2>1. PICK k \in 1 .. Len(s) : s[k] = id
    BY <1>1, <1>4 DEF ToSet
  <2>2. k \notin 1 .. n
    BY <1>2, <1>4, <1>7, <2>1 DEF ToSet
  <2>3. i \in 1 .. Len(s) /\ i <= k /\ listed[i] = s[i]
    BY <1>2, <1>4, <2>2
  <2> QED BY <1>1, <2>1, <2>3
<1> QED BY <1>2, <1>3, <1>5, <1>6, <1>7 DEF SqlMayReturn, listed, matching, all, stamp

(* What listAll answers is what the SELECT of PostgresEventStore may return over the
   same rows, for every Map and every request. *)
THEOREM MemListsAsSql == MemSpec => []ListsAsSql
<1>1. MemTypeOK => ListsAsSql
  BY ListedAsSql DEF ListsAsSql
<1> QED BY <1>1, MemTypeCorrect, PTL

(* No request gets more than MAX_LIMIT rows, and none that matches some gets
   nothing. *)
THEOREM MemAnswerBounded == MemSpec => []AnswerBounded
<1>1. MemTypeOK => AnswerBounded
  <2> SUFFICES ASSUME MemTypeOK, NEW q \in Query
               PROVE  /\ Len(disruptions(q)) <= MAX_LIMIT
                      /\ disruptions(q) = <<>> => Matching(rows, parseQueryFilters(q)) = {}
    BY DEF AnswerBounded
  <2> DEFINE f == parseQueryFilters(q)
             s == Keys(Found(f), NewestFirst)
             n == IF Len(s) < f.limit THEN Len(s) ELSE f.limit
  <2>1. f.limit \in Nat \ {0} /\ f.limit <= MAX_LIMIT /\ MAX_LIMIT \in Nat
    BY LimitBounds, ListAssumption
  <2>2. s \in Seq(Id) /\ ToSet(s) = Matching(rows, f)
    BY AllFound
  <2>3. disruptions(q) \in Seq(Id) /\ Len(disruptions(q)) = n
    BY ListedPrefix
  <2>4. Len(s) \in Nat /\ DOMAIN s = 1 .. Len(s)
    BY <2>2
  <2> HIDE DEF s, f
  <2>5. Len(disruptions(q)) <= MAX_LIMIT
    BY <2>1, <2>3, <2>4
  <2>6. ASSUME disruptions(q) = <<>>
        PROVE  Matching(rows, f) = {}
    <3>1. Len(s) = 0
      BY <2>1, <2>3, <2>4, <2>6
    <3> QED BY <2>2, <2>4, <3>1 DEF ToSet
  <2> QED BY <2>5, <2>6 DEF f
<1> QED BY <1>1, MemTypeCorrect, PTL

-------------------------------------------------------------------------------
(* Two stores given the same calls *)

(* Two rows that differ in place at most. *)
Alike(r, s) ==
  IF NoRow \in {r, s}
    THEN r = s
    ELSE /\ r.content = s.content /\ r.refs = s.refs
         /\ r.firstSeenAt = s.firstSeenAt /\ r.lastUpdatedAt = s.lastUpdatedAt

AlikeTables(rs, ss) == \A id \in Id : Alike(rs[id], ss[id])

(* The contract leaves a row's place open and nothing else. *)
LEMMA UpsertedAlike ==
  ASSUME NEW b \in Batch, NEW id \in Id, NEW t \in Time,
         NEW old, NEW older, Alike(old, older),
         NEW new, Upserted(old, new, b, Len(b), id, t),
         NEW newer, Upserted(older, newer, b, Len(b), id, t)
  PROVE  Alike(new, newer)
<1> DEFINE hits == Hits(b, Len(b), id)
<1>0. hits \subseteq Nat
  BY EventsAssumption DEF Hits
<1> HIDE DEF hits
<1>1. ASSUME hits = {}
      PROVE  Alike(new, newer)
  BY <1>1 DEF Upserted, hits
<1>2. ASSUME hits # {}
      PROVE  Alike(new, newer)
  <2>1. new \in Row /\ newer \in Row /\ NoRow \notin Row
    BY <1>2, EventsAssumption DEF Upserted, hits
  <2>2. new.content = newer.content
    <3>1. PICK i \in hits : (\A j \in hits : j <= i) /\ new.content = b[i].content
      BY <1>2 DEF Upserted, hits
    <3>2. PICK k \in hits : (\A j \in hits : j <= k) /\ newer.content = b[k].content
      BY <1>2 DEF Upserted, hits
    <3>3. i = k
      BY <1>0, <3>1, <3>2
    <3> QED BY <3>1, <3>2, <3>3
  <2>3. CASE old = NoRow
    <3>1. older = NoRow
      BY <2>3 DEF Alike
    <3> QED BY <1>2, <2>1, <2>2, <2>3, <3>1 DEF Upserted, Alike, hits
  <2>4. CASE old # NoRow
    <3>1. /\ older # NoRow /\ old.content = older.content /\ old.refs = older.refs
          /\ old.firstSeenAt = older.firstSeenAt /\ old.lastUpdatedAt = older.lastUpdatedAt
      BY <2>4 DEF Alike
    <3>2. new.refs = newer.refs /\ new.firstSeenAt = newer.firstSeenAt
      BY <1>2, <2>4, <3>1 DEF Upserted, hits
    <3>3. new.lastUpdatedAt = newer.lastUpdatedAt
      BY <1>2, <2>4, <3>1 DEF Upserted, hits
    <3> QED BY <2>1, <2>2, <3>2, <3>3 DEF Alike
  <2> QED BY <2>3, <2>4
<1> QED BY <1>1, <1>2

LEMMA ListedAlike ==
  ASSUME NEW rs, NEW ss, AlikeTables(rs, ss), NEW f, NEW listed \in Seq(Id),
         SqlMayReturn(rs, f, listed)
  PROVE  SqlMayReturn(ss, f, listed)
<1>1. \A id \in Id : rs[id] # NoRow => /\ ss[id] # NoRow
                                       /\ ss[id].content = rs[id].content
                                       /\ ss[id].lastUpdatedAt = rs[id].lastUpdatedAt
  BY DEF AlikeTables, Alike
<1>2. \A id \in Id : rs[id] = NoRow => ss[id] = NoRow
  BY DEF AlikeTables, Alike
<1>3. Matching(ss, f) = Matching(rs, f)
  BY <1>1, <1>2 DEF Matching, Matches
<1>4. \A id \in Matching(rs, f) : ss[id].lastUpdatedAt = rs[id].lastUpdatedAt
  BY <1>1 DEF Matching
<1>5. \A i \in 1 .. Len(listed) : listed[i] \in Matching(rs, f)
  BY DEF SqlMayReturn, ToSet
<1> QED BY <1>3, <1>4, <1>5 DEF SqlMayReturn

(* "So both stores behave identically from createApp.js's point of view": two stores
   that implement the contract and get the same calls at the same times hold the
   same rows but for place, prune the same ids, and may list the same for any
   request. *)
THEOREM StoresStayAlike ==
  ASSUME NEW rs \in Rows, NEW ss \in Rows, AlikeTables(rs, ss)
  PROVE  /\ \A b \in Batch, t \in Time, rn \in Rows, sn \in Rows :
               (\A id \in Id : /\ Upserted(rs[id], rn[id], b, Len(b), id, t)
                               /\ Upserted(ss[id], sn[id], b, Len(b), id, t))
                 => AlikeTables(rn, sn)
         /\ \A cutoff \in Time :
               /\ Expired(rs, cutoff) = Expired(ss, cutoff)
               /\ AlikeTables(Without(rs, Expired(rs, cutoff)), Without(ss, Expired(ss, cutoff)))
         /\ \A f : \A listed \in Seq(Id) :
               SqlMayReturn(rs, f, listed) <=> SqlMayReturn(ss, f, listed)
<1>1. ASSUME NEW b \in Batch, NEW t \in Time, NEW rn \in Rows, NEW sn \in Rows,
             \A id \in Id : /\ Upserted(rs[id], rn[id], b, Len(b), id, t)
                            /\ Upserted(ss[id], sn[id], b, Len(b), id, t)
      PROVE  AlikeTables(rn, sn)
  BY <1>1, UpsertedAlike DEF AlikeTables
<1>2. ASSUME NEW cutoff \in Time
      PROVE  /\ Expired(rs, cutoff) = Expired(ss, cutoff)
             /\ AlikeTables(Without(rs, Expired(rs, cutoff)), Without(ss, Expired(ss, cutoff)))
  <2>1. Expired(rs, cutoff) = Expired(ss, cutoff)
    BY DEF Expired, AlikeTables, Alike
  <2> QED BY <2>1 DEF Without, AlikeTables, Alike
<1>3. AlikeTables(ss, rs)
  BY DEF AlikeTables, Alike
<1>4. \A f : \A listed \in Seq(Id) : SqlMayReturn(rs, f, listed) <=> SqlMayReturn(ss, f, listed)
  BY <1>3, ListedAlike
<1> QED BY <1>1, <1>2, <1>4
===============================================================================
