---------------------------- MODULE Reports_proof ----------------------------
(***************************************************************************)
(* Proofs about what tasks read and return and about reports, for any      *)
(* declaration, any bag of outputs and any plan: what validate_outputs     *)
(* accepts, where the slices of a snapshot lie, and the invariant of a run *)
(* that the properties of Reports follow from.                             *)
(***************************************************************************)
EXTENDS ReportsContract, Graph_proof

-----------------------------------------------------------------------------
(* Bags of outputs, entry by entry. *)

\* Entry p of the bag is meant for output k, and has its type.
Hits(schema, bag, p, k) ==
    k \in Addressed(schema, bag[p].address) /\ schema.outputs[k].type = bag[p].value.type

\* The first n entries are each meant for an output, and no two for the same.
Fitting(schema, bag, n) ==
    /\ \A p \in 1..n : \E k \in DOMAIN schema.outputs : Hits(schema, bag, p, k)
    /\ \A p, q \in 1..n : \A k \in DOMAIN schema.outputs :
          Hits(schema, bag, p, k) /\ Hits(schema, bag, q, k) => p = q

\* What was resolved after n entries.
Resolving(schema, bag, n, r) ==
    /\ r.ok <=> Fitting(schema, bag, n)
    /\ r.ok => \A k \in DOMAIN schema.outputs :
          /\ \A p \in 1..n : Hits(schema, bag, p, k) => r.values[k] = bag[p].value
          /\ (\A p \in 1..n : ~Hits(schema, bag, p, k)) => r.values[k] = NoValue

Resolutions(schema, V) ==
    {Rejected} \cup [ok : {TRUE}, values : [DOMAIN schema.outputs -> V \cup {NoValue}]]

LEMMA OneAddressed ==
    ASSUME NEW schema \in ValidSchemas, NEW a
    PROVE  /\ Addressed(schema, a) \subseteq DOMAIN schema.outputs
           /\ \A k, l \in Addressed(schema, a) : k = l
<1>1. ValidSlots(schema.outputs)
  BY DEF ValidSchemas, ValidSchema
<1>. QED BY <1>1 DEF Addressed, ValidSlots

LEMMA Accepted ==
    ASSUME NEW schema, NEW V, NEW r \in Resolutions(schema, V), r.ok
    PROVE  r.ok = TRUE /\ r \in [ok : {TRUE}, values : [DOMAIN schema.outputs -> V \cup {NoValue}]]
<1>1. Rejected.ok = FALSE
  BY DEF Rejected
<1>2. r # Rejected
  BY <1>1
<1>3. r \in [ok : {TRUE}, values : [DOMAIN schema.outputs -> V \cup {NoValue}]]
  BY <1>2 DEF Resolutions
<1>. QED BY <1>3

LEMMA PlaceTyped ==
    ASSUME NEW schema, NEW V, NEW r \in Resolutions(schema, V), NEW entry, entry.value \in V
    PROVE  Place(schema, r, entry) \in Resolutions(schema, V)
<1> DEFINE D == DOMAIN schema.outputs
           A == Addressed(schema, entry.address)
<1>1. CASE r.ok /\ \E k \in A : r.values[k] = NoValue /\ schema.outputs[k].type = entry.value.type
  <2>1. r.ok = TRUE /\ r \in [ok : {TRUE}, values : [D -> V \cup {NoValue}]]
    BY <1>1, Accepted
  <2> DEFINE new == [k \in D |-> IF k \in A THEN entry.value ELSE r.values[k]]
  <2>2. Place(schema, r, entry) = [r EXCEPT !.values = new]
    BY <1>1, <2>1 DEF Place
  <2>3. new \in [D -> V \cup {NoValue}]
    BY <2>1
  <2> HIDE DEF new
  <2>. QED BY <2>1, <2>2, <2>3 DEF Resolutions
<1>2. CASE ~(r.ok /\ \E k \in A : r.values[k] = NoValue
                                  /\ schema.outputs[k].type = entry.value.type)
  BY <1>2 DEF Place, Resolutions
<1>. QED BY <1>1, <1>2

LEMMA PlaceKeeps ==
    ASSUME NEW schema \in ValidSchemas, NEW V, NoValue \notin V, NEW bag, NEW n \in Nat,
           \A p \in 1..(n + 1) : bag[p].value \in V,
           NEW r \in Resolutions(schema, V), Resolving(schema, bag, n, r)
    PROVE  Resolving(schema, bag, n + 1, Place(schema, r, bag[n + 1]))
<1> DEFINE D == DOMAIN schema.outputs
           entry == bag[n + 1]
           A == Addressed(schema, entry.address)
           new == Place(schema, r, entry)
           Hit(p, k) == Hits(schema, bag, p, k)
<1>1. 1..(n + 1) = 1..n \cup {n + 1} /\ n + 1 \notin 1..n
  OBVIOUS
<1>2. A \subseteq D /\ \A k, l \in A : k = l
  BY OneAddressed
<1>3. \A k : Hit(n + 1, k) <=> k \in A /\ schema.outputs[k].type = entry.value.type
  BY DEF Hits
<1>4. entry.value \in V /\ \A p \in 1..n : bag[p].value \in V
  BY <1>1
<1> HIDE DEF A, entry
<1>5. CASE ~r.ok
  <2>1. new = Rejected /\ ~new.ok
    BY <1>5 DEF Place, Rejected
  <2>2. ~Fitting(schema, bag, n)
    BY <1>5 DEF Resolving
  <2>3. ~Fitting(schema, bag, n + 1)
    BY <1>1, <2>2 DEF Fitting
  <2>. QED BY <2>1, <2>3 DEF Resolving, entry
<1>6. CASE r.ok
  <2>1. r \in [ok : {TRUE}, values : [D -> V \cup {NoValue}]]
    BY <1>6, Accepted
  <2>2. /\ Fitting(schema, bag, n)
        /\ \A k \in D : /\ \A p \in 1..n : Hit(p, k) => r.values[k] = bag[p].value
                        /\ (\A p \in 1..n : ~Hit(p, k)) => r.values[k] = NoValue
    BY <1>6 DEF Resolving
  <2>3. \A k \in D : r.values[k] = NoValue <=> \A p \in 1..n : ~Hit(p, k)
    BY <1>4, <2>2
  <2> HIDE DEF Hit
  <2>4. ASSUME NEW k \in D, Hit(n + 1, k), \A p \in 1..n : ~Hit(p, k)
        PROVE  Resolving(schema, bag, n + 1, new)
    <3>1. k \in A /\ schema.outputs[k].type = entry.value.type /\ r.values[k] = NoValue
      BY <1>3, <2>3, <2>4
    <3>2. new = [r EXCEPT !.values = [l \in DOMAIN r.values |->
                     IF l \in A THEN entry.value ELSE r.values[l]]]
      BY <1>6, <3>1 DEF Place, A
    <3>3. /\ new.ok
          /\ \A l \in D : new.values[l] = IF l = k THEN entry.value ELSE r.values[l]
      BY <1>2, <1>6, <2>1, <3>1, <3>2
    <3>4. \A l \in D : Hit(n + 1, l) => l = k
      BY <1>2, <1>3, <3>1
    <3>5. Fitting(schema, bag, n + 1)
      <4>1. \A p \in 1..(n + 1) : \E l \in D : Hit(p, l)
        BY <1>1, <2>2, <2>4 DEF Fitting, Hit
      <4>2. \A p, q \in 1..(n + 1) : \A l \in D : Hit(p, l) /\ Hit(q, l) => p = q
        <5>1. \A p, q \in 1..n : \A l \in D : Hit(p, l) /\ Hit(q, l) => p = q
          BY <2>2 DEF Fitting, Hit
        <5>. QED BY <1>1, <2>4, <3>4, <5>1
      <4>. QED BY <4>1, <4>2 DEF Fitting, Hit
    <3>6. ASSUME NEW l \in D
          PROVE  /\ \A p \in 1..(n + 1) : Hit(p, l) => new.values[l] = bag[p].value
                 /\ (\A p \in 1..(n + 1) : ~Hit(p, l)) => new.values[l] = NoValue
      BY <1>1, <2>2, <2>4, <3>3, <3>4 DEF entry
    <3>. QED BY <3>3, <3>5, <3>6 DEF Resolving, Hit
  <2>5. ASSUME \A k \in D : Hit(n + 1, k) => \E p \in 1..n : Hit(p, k)
        PROVE  Resolving(schema, bag, n + 1, new)
    <3>1. \A k \in A : ~(r.values[k] = NoValue /\ schema.outputs[k].type = entry.value.type)
      BY <1>2, <1>3, <2>3, <2>5
    <3>2. new = Rejected /\ ~new.ok
      BY <3>1 DEF Place, Rejected, A
    <3>3. ~Fitting(schema, bag, n + 1)
      <4>1. SUFFICES ASSUME Fitting(schema, bag, n + 1) PROVE FALSE
        OBVIOUS
      <4>2. PICK k \in D : Hit(n + 1, k)
        BY <1>1, <4>1 DEF Fitting, Hit
      <4>3. PICK p \in 1..n : Hit(p, k)
        BY <2>5, <4>2
      <4>. QED BY <1>1, <4>1, <4>2, <4>3 DEF Fitting, Hit
    <3>. QED BY <3>2, <3>3 DEF Resolving
  <2>. QED BY <2>4, <2>5 DEF entry
<1>. QED BY <1>5, <1>6

\* All entries, one after the other.
Unplaced(schema) == [ok |-> TRUE, values |-> [k \in DOMAIN schema.outputs |-> NoValue]]

LEMMA PlacedTurns ==
    ASSUME NEW schema, NEW V, NEW bag, NEW n \in Nat, Len(bag) = n,
           \A p \in 1..n : bag[p].value \in V
    PROVE  /\ Placed(schema, bag)[0] = Unplaced(schema)
           /\ \A p \in 1..n : Placed(schema, bag)[p] = Place(schema, Placed(schema, bag)[p - 1], bag[p])
           /\ \A p \in 0..n : Placed(schema, bag)[p] \in Resolutions(schema, V)
<1> DEFINE T == Resolutions(schema, V)
           start == Unplaced(schema)
           step == [p \in 1..n |-> [r \in T |-> Place(schema, r, bag[p])]]
<1>1. start \in T
  <2>1. [k \in DOMAIN schema.outputs |-> NoValue] \in [DOMAIN schema.outputs -> V \cup {NoValue}]
    OBVIOUS
  <2>. QED BY <2>1 DEF Resolutions, Unplaced
<1>2. ASSUME NEW p \in 1..n, NEW r \in T
      PROVE  step[p][r] = Place(schema, r, bag[p]) /\ step[p][r] \in T
  <2>1. step[p][r] = Place(schema, r, bag[p])
    OBVIOUS
  <2>2. bag[p].value \in V
    OBVIOUS
  <2> HIDE DEF step
  <2>. QED BY <2>1, <2>2, PlaceTyped
<1> HIDE DEF T, start, step
<1>2s. PICK f : Stepping(n, start, step, f) /\ \A p \in 0..n : f[p] \in T
  <2>1. \A p \in 1..n : \A r \in T : step[p][r] \in T
    BY <1>2
  <2>. QED BY <1>1, <2>1, TypedSteps
<1>3. /\ f = [p \in 0..n |-> IF p = 0 THEN start ELSE step[p][f[p - 1]]]
      /\ \A p \in 0..n : f[p] \in T
  BY <1>2s DEF Stepping
<1>4. ASSUME NEW p \in 0..n
      PROVE  (IF p = 0 THEN start ELSE step[p][f[p - 1]])
                = (IF p = 0 THEN start ELSE Place(schema, f[p - 1], bag[p]))
  <2>1. p # 0 => p - 1 \in 0..n /\ p \in 1..n
    OBVIOUS
  <2>. QED BY <1>2, <1>3, <2>1
<1>5. f = [p \in 0..n |-> IF p = 0 THEN start ELSE Place(schema, f[p - 1], bag[p])]
  BY <1>3, <1>4
<1>6. Placed(schema, bag) = CHOOSE g : g = [p \in 0..n |-> IF p = 0 THEN start
                                                ELSE Place(schema, g[p - 1], bag[p])]
  BY DEF Placed, start, Unplaced
<1> DEFINE all == Placed(schema, bag)
<1>7. all = [p \in 0..n |-> IF p = 0 THEN start ELSE Place(schema, all[p - 1], bag[p])]
  BY <1>5, <1>6
<1> HIDE DEF all
<1>8. all[0] = start /\ \A p \in 1..n : p \in 0..n /\ all[p] = Place(schema, all[p - 1], bag[p])
  <2>1. 0 \in 0..n /\ \A p \in 1..n : p \in 0..n /\ p # 0
    OBVIOUS
  <2>. QED BY <1>7, <2>1
<1> DEFINE S == {p \in 0..n : all[p] \in T}
<1>9. 0..n \subseteq S
  <2>1. 0 \in S
    BY <1>1, <1>8
  <2>2. ASSUME NEW p \in 0..(n - 1), p \in S PROVE p + 1 \in S
    <3>1. p + 1 \in 1..n /\ (p + 1) - 1 = p /\ p + 1 \in 0..n
      OBVIOUS
    <3>2. all[p + 1] = Place(schema, all[p], bag[p + 1])
      BY <1>8, <3>1
    <3>. QED BY <1>2, <2>2, <3>1, <3>2
  <2> HIDE DEF S
  <2>. QED BY <2>1, <2>2, CountingUp
<1>. QED BY <1>8, <1>9 DEF all, T, start

\* As many entries as outputs, and one for each: then each has one for itself.
Matching(n, m, R) ==
    /\ \A p \in 1..n : \E k \in 1..m : <<p, k>> \in R
    /\ \A p, q \in 1..n : \A k \in 1..m : <<p, k>> \in R /\ <<q, k>> \in R => p = q

LEMMA OneEach ==
    ASSUME NEW n \in Nat, NEW m \in Nat, NEW R,
           \A p \in 1..n : \A k, l \in 1..m : <<p, k>> \in R /\ <<p, l>> \in R => k = l,
           \A k \in 1..m : \E p \in 1..n : <<p, k>> \in R
    PROVE  n = m <=> Matching(n, m, R)
<1> DEFINE g == [k \in 1..m |-> CHOOSE p \in 1..n : <<p, k>> \in R]
<1>1. \A k \in 1..m : g[k] \in 1..n /\ <<g[k], k>> \in R
  OBVIOUS
<1>2. g \in [1..m -> 1..n]
  BY <1>1
<1> HIDE DEF g
<1>3. g \in Injection(1..m, 1..n)
  BY <1>1, <1>2 DEF Injection, IsInjective
<1>4. /\ IsFiniteSet(1..n) /\ Cardinality(1..n) = n /\ Cardinality(1..m) = m
  BY FS_Interval
<1>5. n = m <=> g \in Surjection(1..m, 1..n)
  BY <1>3, <1>4, FS_Injection
<1>6. g \in Surjection(1..m, 1..n) <=> \A p \in 1..n : \E k \in 1..m : g[k] = p
  BY <1>2 DEF Surjection
<1>7. ASSUME \A p \in 1..n : \E k \in 1..m : g[k] = p
      PROVE  Matching(n, m, R)
  <2>1. ASSUME NEW p \in 1..n, NEW k \in 1..m, <<p, k>> \in R PROVE p = g[k]
    <3>1. PICK l \in 1..m : g[l] = p
      BY <1>7
    <3>2. <<p, l>> \in R
      BY <1>1, <3>1
    <3>. QED BY <2>1, <3>1, <3>2
  <2>2. \A p \in 1..n : \E k \in 1..m : <<p, k>> \in R
    BY <1>1, <1>7
  <2>. QED BY <2>1, <2>2 DEF Matching
<1>8. ASSUME Matching(n, m, R), NEW p \in 1..n
      PROVE  \E k \in 1..m : g[k] = p
  <2>1. PICK k \in 1..m : <<p, k>> \in R
    BY <1>8 DEF Matching
  <2>2. g[k] = p
    BY <1>1, <1>8, <2>1 DEF Matching
  <2>. QED BY <2>2
<1>. QED BY <1>5, <1>6, <1>7, <1>8

\* What validate_outputs answers to a bag of n entries.
Verdict(schema, V, bag, n, checked) ==
    /\ checked.ok <=> /\ n = Len(schema.outputs)
                      /\ \A k \in DOMAIN schema.outputs : \E p \in 1..n : Hits(schema, bag, p, k)
    /\ checked.ok =>
          /\ checked.values \in [DOMAIN schema.outputs -> V]
          /\ \A k \in DOMAIN schema.outputs : \E p \in 1..n :
                Hits(schema, bag, p, k) /\ checked.values[k] = bag[p].value

LEMMA ValidateExact ==
    ASSUME NEW schema \in ValidSchemas, NEW V, NoValue \notin V,
           NEW bag, NEW n \in Nat, Len(bag) = n, \A p \in 1..n : bag[p].value \in V
    PROVE  Verdict(schema, V, bag, n, ValidateOutputs(schema, bag))
<1> DEFINE D == DOMAIN schema.outputs
           m == Len(schema.outputs)
           Hit(p, k) == Hits(schema, bag, p, k)
           all == Placed(schema, bag)
           Covered == \A k \in D : \E p \in 1..n : Hit(p, k)
<1>1. m \in Nat /\ D = 1..m
  <2>1. schema.outputs \in Seq(ToSet(schema.outputs))
    BY SchemaFacts
  <2>. QED BY <2>1, LenProperties
<1>2. /\ all[0] = Unplaced(schema)
      /\ \A p \in 1..n : all[p] = Place(schema, all[p - 1], bag[p])
      /\ \A p \in 0..n : all[p] \in Resolutions(schema, V)
  <2>1. n \in Nat /\ Len(bag) = n /\ \A p \in 1..n : bag[p].value \in V
    OBVIOUS
  <2> HIDE DEF D, m, Hit, Covered
  <2>. QED BY <2>1, PlacedTurns, Zenon
<1> HIDE DEF all
<1> DEFINE S == {p \in 0..n : Resolving(schema, bag, p, all[p])}
<1>3. 0..n \subseteq S
  <2>1. 0 \in S
    <3>1. 1..0 = {}
      OBVIOUS
    <3>2. Fitting(schema, bag, 0)
      BY <3>1 DEF Fitting
    <3>. QED BY <1>2, <3>1, <3>2 DEF Resolving, Unplaced
  <2>2. ASSUME NEW p \in 0..(n - 1), p \in S PROVE p + 1 \in S
    <3>1. p + 1 \in 1..n /\ (p + 1) - 1 = p /\ p \in 0..n /\ p + 1 \in 0..n /\ p \in Nat
      OBVIOUS
    <3>2. all[p + 1] = Place(schema, all[p], bag[p + 1])
      BY <1>2, <3>1
    <3>3. all[p] \in Resolutions(schema, V) /\ Resolving(schema, bag, p, all[p])
      BY <1>2, <2>2, <3>1
    <3>4. \A q \in 1..(p + 1) : bag[q].value \in V
      BY <3>1
    <3>5. Resolving(schema, bag, p + 1, Place(schema, all[p], bag[p + 1]))
      BY <3>1, <3>3, <3>4, PlaceKeeps
    <3>. QED BY <3>1, <3>2, <3>5
  <2> HIDE DEF S
  <2>. QED BY <2>1, <2>2, CountingUp
<1> DEFINE last == all[n]
           checked == ValidateOutputs(schema, bag)
<1>4. last \in Resolutions(schema, V) /\ Resolving(schema, bag, n, last)
  BY <1>2, <1>3
<1>5. checked = IF last.ok /\ \E k \in D : last.values[k] = NoValue THEN Rejected ELSE last
  BY DEF ValidateOutputs, all
<1> HIDE DEF S, last, checked
<1>6. Covered => (n = m <=> Fitting(schema, bag, n))
  <2> DEFINE R == {x \in (1..n) \X D : Hit(x[1], x[2])}
  <2>1. SUFFICES ASSUME Covered PROVE n = m <=> Fitting(schema, bag, n)
    OBVIOUS
  <2>2. \A p \in 1..n : \A k \in D : <<p, k>> \in R <=> Hit(p, k)
    OBVIOUS
  <2>3. \A p \in 1..n : \A k, l \in D : Hit(p, k) /\ Hit(p, l) => k = l
    BY OneAddressed DEF Hits
  <2> HIDE DEF R
  <2>4. \A p \in 1..n : \A k, l \in 1..m : <<p, k>> \in R /\ <<p, l>> \in R => k = l
    BY <1>1, <2>2, <2>3
  <2>5. \A k \in 1..m : \E p \in 1..n : <<p, k>> \in R
    BY <1>1, <2>1, <2>2
  <2> HIDE DEF m
  <2>6. n = m <=> Matching(n, m, R)
    BY <1>1, <2>4, <2>5, OneEach
  <2>7. Matching(n, m, R) <=> Fitting(schema, bag, n)
    <3>1. \A p \in 1..n : \A k \in 1..m : <<p, k>> \in R <=> Hit(p, k)
      BY <1>1, <2>2
    <3>2. Fitting(schema, bag, n) <=> /\ \A p \in 1..n : \E k \in 1..m : Hit(p, k)
                                      /\ \A p, q \in 1..n : \A k \in 1..m :
                                            Hit(p, k) /\ Hit(q, k) => p = q
      BY <1>1 DEF Fitting
    <3> HIDE DEF Hit
    <3>. QED BY <3>1, <3>2 DEF Matching
  <2>. QED BY <2>6, <2>7
<1>7. CASE ~last.ok
  <2>1. checked = last
    BY <1>5, <1>7
  <2>2. ~Fitting(schema, bag, n)
    BY <1>4, <1>7 DEF Resolving
  <2>. QED BY <1>6, <1>7, <2>1, <2>2 DEF checked, Verdict
<1>8. CASE last.ok
  <2>1. /\ Fitting(schema, bag, n)
        /\ \A k \in D : /\ \A p \in 1..n : Hit(p, k) => last.values[k] = bag[p].value
                        /\ (\A p \in 1..n : ~Hit(p, k)) => last.values[k] = NoValue
    BY <1>4, <1>8 DEF Resolving
  <2>2. last \in [ok : {TRUE}, values : [D -> V \cup {NoValue}]]
    BY <1>4, <1>8, Accepted
  <2> HIDE DEF Hit
  <2>3. \A k \in D : last.values[k] = NoValue <=> \A p \in 1..n : ~Hit(p, k)
    BY <2>1
  <2>4. CASE Covered
    <3>1. checked = last
      BY <1>5, <2>3, <2>4
    <3>2. \A k \in D : \E p \in 1..n : Hit(p, k) /\ last.values[k] = bag[p].value
      BY <2>1, <2>4
    <3>3. last.values \in [D -> V]
      BY <2>2, <3>2
    <3>4. n = m
      BY <1>6, <2>1, <2>4
    <3>. QED BY <1>8, <2>4, <3>1, <3>2, <3>3, <3>4 DEF checked, Hit, Verdict
  <2>5. CASE ~Covered
    <3>1. checked = Rejected
      BY <1>5, <1>8, <2>3, <2>5
    <3>2. ~checked.ok
      BY <3>1 DEF Rejected
    <3>. QED BY <2>5, <3>2 DEF checked, Hit, Verdict
  <2>. QED BY <2>4, <2>5
<1>. QED BY <1>7, <1>8

-----------------------------------------------------------------------------
(* Addresses. *)

\* A key names a layout of the program, and its position there.
LEMMA KeysAre ==
    ASSUME NEW schema, NEW slots, NEW name, NEW type, NEW key
    PROVE  key \in KeysOf(schema, slots, name, type)
              <=> \E i \in DOMAIN slots :
                     /\ ValidSchema(schema) /\ slots[i].name = name /\ slots[i].type = type
                     /\ key = [layout |-> schema.layout, index |-> i, type |-> type]
  BY DEF KeysOf

\* On a valid schema a slot has one key, at its position.
LEMMA KeyOfSlot ==
    ASSUME NEW schema \in ValidSchemas, NEW slots, slots \in {schema.inputs, schema.outputs},
           NEW k \in DOMAIN slots
    PROVE  KeysOf(schema, slots, slots[k].name, slots[k].type)
              = {[layout |-> schema.layout, index |-> k, type |-> slots[k].type]}
<1>1. ValidSchema(schema) /\ ValidSlots(slots)
  BY DEF ValidSchemas, ValidSchema
<1>2. \A i \in DOMAIN slots : slots[i].name = slots[k].name => i = k
  BY <1>1 DEF ValidSlots
<1>. QED BY <1>1, <1>2 DEF KeysOf

\* What a task puts into a bag: a value under a name or under a key.
EntryKeyed(e) ==
    \E s \in Schemas : \E index, type :
        e = <<Keyed([layout |-> s.layout, index |-> index, type |-> type]), type>>

LEMMA EntryKinds ==
    ASSUME NEW e \in Entries
    PROVE  (\E name, type : e = <<Named(name), type>>) \/ EntryKeyed(e)
<1>1. CASE e \in {<<Named(name), type>> :
                     name \in UNION {NamesOf(s.outputs) : s \in Schemas}, type \in Types}
  BY <1>1
<1>2. ASSUME NEW s \in Schemas, NEW key \in KeysIssued(s, s.outputs, Types),
             e = <<Keyed(key), key.type>>
      PROVE  EntryKeyed(e)
  <2>1. PICK name, type : key \in KeysOf(s, s.outputs, name, type)
    BY DEF KeysIssued
  <2>2. PICK i : key = [layout |-> s.layout, index |-> i, type |-> type]
    BY <2>1, KeysAre
  <2>. QED BY <1>2, <2>2 DEF EntryKeyed
<1>. QED BY <1>1, <1>2 DEF Entries

LEMMA Shaped ==
    ASSUME NEW shape \in Shapes, NEW i
    PROVE  /\ Len(shape) \in Nat /\ DOMAIN shape = 1..Len(shape)
           /\ \A p \in DOMAIN shape : shape[p] \in Entries
           /\ Len(Bag(i, shape)) = Len(shape)
           /\ \A p \in DOMAIN shape :
                 /\ Bag(i, shape)[p].address = shape[p][1]
                 /\ Bag(i, shape)[p].value = [type |-> shape[p][2], node |-> i, entry |-> p]
<1>1. PICK n \in 0..MaxEntries : shape \in [1..n -> Entries]
  BY DEF Shapes, SeqOf
<1>2. n \in Nat
  BY EntryAssumption
<1>3. shape \in Seq(Entries) /\ Len(shape) = n
  BY <1>1, <1>2
<1>4. DOMAIN shape = 1..n
  BY <1>1
<1> DEFINE bag == [p \in 1..n |-> [address |-> shape[p][1],
                                   value |-> [type |-> shape[p][2], node |-> i, entry |-> p]]]
<1>5. Bag(i, shape) = bag
  BY <1>4 DEF Bag
<1>6. Len(bag) = n
  BY <1>2
<1>. QED BY <1>1, <1>2, <1>3, <1>4, <1>5, <1>6

\* The entries that are meant for output k, as AcceptedExactly lists them.
MeantFor(schema, k) ==
    {<<Named(schema.outputs[k].name), schema.outputs[k].type>>}
        \cup {<<Keyed(key), key.type>> :
                 key \in KeysOf(schema, schema.outputs, schema.outputs[k].name,
                                schema.outputs[k].type)}

LEMMA MeantIsHit ==
    ASSUME NEW schema \in ValidSchemas, NEW i, NEW shape \in Shapes, NEW p \in DOMAIN shape,
           NEW k \in DOMAIN schema.outputs
    PROVE  shape[p] \in MeantFor(schema, k) <=> Hits(schema, Bag(i, shape), p, k)
<1> DEFINE out == schema.outputs[k]
           e == shape[p]
<1>1. schema.layout \in Nat \ {0}
  BY LayoutAssumption DEF ValidSchemas
<1>2. MeantFor(schema, k)
         = {<<Named(out.name), out.type>>,
            <<Keyed([layout |-> schema.layout, index |-> k, type |-> out.type]), out.type>>}
  <2> DEFINE key == [layout |-> schema.layout, index |-> k, type |-> out.type]
  <2>1. KeysOf(schema, schema.outputs, out.name, out.type) = {key}
    BY KeyOfSlot
  <2>2. key.type = out.type
    OBVIOUS
  <2> HIDE DEF key
  <2>3. \A x : x \in MeantFor(schema, k) <=> x \in {<<Named(out.name), out.type>>, <<Keyed(key), out.type>>}
    BY <2>1, <2>2 DEF MeantFor
  <2>. QED BY <2>3 DEF key
<1>3. Hits(schema, Bag(i, shape), p, k)
         <=> k \in Addressed(schema, e[1]) /\ out.type = e[2]
  <2>1. /\ Bag(i, shape)[p].address = e[1]
        /\ Bag(i, shape)[p].value = [type |-> e[2], node |-> i, entry |-> p]
    BY Shaped
  <2> HIDE DEF e
  <2>2. Bag(i, shape)[p].value.type = e[2]
    BY <2>1
  <2>. QED BY <2>1, <2>2 DEF Hits
<1>4. e \in Entries
  BY Shaped
<1> HIDE DEF e
<1>5. ASSUME NEW name, NEW type, e = <<Named(name), type>>
      PROVE  e \in MeantFor(schema, k) <=> k \in Addressed(schema, e[1]) /\ out.type = e[2]
  <2>1. e[1].layout = 0 /\ e[1].name = name /\ e[2] = type
    BY <1>5 DEF Named
  <2>2. k \in Addressed(schema, e[1]) <=> out.name = name
    BY <2>1 DEF Addressed
  <2>3. e = <<Named(out.name), out.type>> <=> out.name = name /\ out.type = type
    BY <1>5 DEF Named
  <2>4. e # <<Keyed([layout |-> schema.layout, index |-> k, type |-> out.type]), out.type>>
    BY <1>1, <1>5 DEF Named, Keyed
  <2>. QED BY <1>2, <2>1, <2>2, <2>3, <2>4
<1>6. ASSUME NEW s \in Schemas, NEW index, NEW type,
             e = <<Keyed([layout |-> s.layout, index |-> index, type |-> type]), type>>
      PROVE  e \in MeantFor(schema, k) <=> k \in Addressed(schema, e[1]) /\ out.type = e[2]
  <2>1. s.layout \in Nat \ {0}
    BY LayoutAssumption
  <2>2. e[1].layout = s.layout /\ e[1].index = index /\ e[2] = type
    BY <1>6 DEF Keyed
  <2>3. k \in Addressed(schema, e[1]) <=> s.layout = schema.layout /\ k = index
    BY <2>1, <2>2 DEF Addressed
  <2>4. e # <<Named(out.name), out.type>>
    BY <1>6, <2>1 DEF Named, Keyed
  <2>5. e = <<Keyed([layout |-> schema.layout, index |-> k, type |-> out.type]), out.type>>
           <=> s.layout = schema.layout /\ k = index /\ out.type = type
    BY <1>6 DEF Keyed
  <2>. QED BY <1>2, <2>2, <2>3, <2>4, <2>5
<1>7. e \in MeantFor(schema, k) <=> k \in Addressed(schema, e[1]) /\ out.type = e[2]
  <2>1. CASE \E name, type : e = <<Named(name), type>>
    BY <1>5, <2>1
  <2>2. CASE EntryKeyed(e)
    BY <1>6, <2>2 DEF EntryKeyed
  <2>. QED BY <1>4, <2>1, <2>2, EntryKinds
<1>. QED BY <1>3, <1>7 DEF e

\* The values of a bag are no empty slots.
BagValues(i, shape) == {[type |-> shape[p][2], node |-> i, entry |-> p] : p \in DOMAIN shape}

\* A bag of a running task is accepted exactly if it has one entry per output.
LEMMA BagAccepted ==
    ASSUME NEW schema \in ValidSchemas, NEW i, NEW shape \in Shapes
    PROVE  LET checked == ValidateOutputs(schema, Bag(i, shape))
               D == DOMAIN schema.outputs
           IN  /\ checked.ok <=> /\ Len(shape) = Len(schema.outputs)
                                 /\ \A k \in D : \E p \in DOMAIN shape :
                                       shape[p] \in MeantFor(schema, k)
               /\ checked.ok =>
                     /\ checked.values \in [D -> BagValues(i, shape)]
                     /\ \A k \in D : \E p \in DOMAIN shape :
                           /\ shape[p] \in MeantFor(schema, k)
                           /\ checked.values[k] = [type |-> shape[p][2], node |-> i, entry |-> p]
<1> DEFINE D == DOMAIN schema.outputs
           n == Len(shape)
           V == BagValues(i, shape)
           bag == Bag(i, shape)
           checked == ValidateOutputs(schema, bag)
<1>1. /\ n \in Nat /\ DOMAIN shape = 1..n /\ Len(bag) = n
      /\ \A p \in 1..n : bag[p].value = [type |-> shape[p][2], node |-> i, entry |-> p]
  BY Shaped
<1>2. NoValue \notin V
  BY DEF NoValue, BagValues
<1>3. \A p \in 1..n : bag[p].value \in V
  BY <1>1 DEF BagValues
<1>4. \A p \in 1..n : \A k \in D : shape[p] \in MeantFor(schema, k) <=> Hits(schema, bag, p, k)
  BY <1>1, MeantIsHit
<1> HIDE DEF n, V, bag
<1>5. /\ checked.ok <=> /\ n = Len(schema.outputs)
                        /\ \A k \in D : \E p \in 1..n : Hits(schema, bag, p, k)
      /\ checked.ok =>
            /\ checked.values \in [D -> V]
            /\ \A k \in D : \E p \in 1..n :
                  Hits(schema, bag, p, k) /\ checked.values[k] = bag[p].value
  <2>1. Verdict(schema, V, bag, n, checked)
    BY <1>1, <1>2, <1>3, ValidateExact
  <2>. QED BY <2>1 DEF Verdict
<1>6. ASSUME NEW k \in D, NEW p \in 1..n, Hits(schema, bag, p, k), checked.values[k] = bag[p].value
      PROVE  /\ shape[p] \in MeantFor(schema, k)
             /\ checked.values[k] = [type |-> shape[p][2], node |-> i, entry |-> p]
  BY <1>1, <1>4, <1>6
<1> HIDE DEF checked, D
<1>. QED BY <1>1, <1>4, <1>5, <1>6 DEF checked, D, n, V, bag

-----------------------------------------------------------------------------
(* Snapshots of inputs. *)

Snapshots(V) == [values : Seq(V), ranges : Seq(Nat \X Nat)]

\* Range j of the snapshot holds the values of group j.
Holds(snapshot, j, group) ==
    /\ snapshot.ranges[j][1] \in 1..(Len(snapshot.values) + 1)
    /\ snapshot.ranges[j][2] = snapshot.ranges[j][1] + Len(group) - 1
    /\ snapshot.ranges[j][2] <= Len(snapshot.values)
    /\ \A x \in 1..Len(group) : snapshot.values[snapshot.ranges[j][1] + x - 1] = group[x]

Sliced(snapshot, groups, n) ==
    Len(snapshot.ranges) = n /\ \A j \in 1..n : Holds(snapshot, j, groups[j])

LEMMA ExtendedFacts ==
    ASSUME NEW V, NEW s \in Snapshots(V), NEW groups, NEW n \in Nat,
           \A j \in 1..(n + 1) : groups[j] \in Seq(V), Sliced(s, groups, n)
    PROVE  LET t == Extended(s, groups[n + 1])
           IN  t \in Snapshots(V) /\ Sliced(t, groups, n + 1)
<1> DEFINE g == groups[n + 1]
           t == Extended(s, g)
           a == Len(s.values)
<1>1. s.values \in Seq(V) /\ s.ranges \in Seq(Nat \X Nat) /\ a \in Nat /\ Len(s.ranges) = n
  BY DEF Snapshots, Sliced
<1>2. g \in Seq(V) /\ Len(g) \in Nat
  <2>1. n + 1 \in 1..(n + 1)
    OBVIOUS
  <2>. QED BY <2>1
<1>3. t.values = s.values \o g /\ t.ranges = Append(s.ranges, <<a + 1, a + Len(g)>>)
      /\ t = [values |-> t.values, ranges |-> t.ranges]
  BY DEF Extended
<1> HIDE DEF g, t, a
<1>4. /\ t.values \in Seq(V) /\ Len(t.values) = a + Len(g)
      /\ \A y \in 1..a : t.values[y] = s.values[y]
      /\ \A x \in 1..Len(g) : t.values[a + x] = g[x]
  <2>1. a = Len(s.values)
    BY DEF a
  <2>2. /\ s.values \o g \in Seq(V) /\ Len(s.values \o g) = Len(s.values) + Len(g)
        /\ \A y \in 1..Len(s.values) + Len(g) :
              (s.values \o g)[y] = IF y <= Len(s.values) THEN s.values[y]
                                  ELSE g[y - Len(s.values)]
    BY <1>1, <1>2, ConcatProperties, Zenon
  <2>3. /\ t.values \in Seq(V) /\ Len(t.values) = a + Len(g)
        /\ \A y \in 1..a + Len(g) :
              t.values[y] = IF y <= a THEN s.values[y] ELSE g[y - a]
    BY <1>3, <2>1, <2>2
  <2>4. ASSUME NEW y \in 1..a PROVE t.values[y] = s.values[y]
    <3>1. y \in 1..a + Len(g) /\ y <= a
      BY <1>1, <1>2
    <3>. QED BY <2>3, <3>1
  <2>5. ASSUME NEW x \in 1..Len(g) PROVE t.values[a + x] = g[x]
    <3>1. a + x \in 1..a + Len(g) /\ ~(a + x <= a) /\ (a + x) - a = x
      BY <1>1, <1>2
    <3>. QED BY <2>3, <3>1
  <2>. QED BY <2>3, <2>4, <2>5
<1>5. /\ t.ranges \in Seq(Nat \X Nat) /\ Len(t.ranges) = n + 1
      /\ t.ranges[n + 1] = <<a + 1, a + Len(g)>>
      /\ \A j \in 1..n : t.ranges[j] = s.ranges[j]
  <2>1. <<a + 1, a + Len(g)>> \in Nat \X Nat
    BY <1>1, <1>2
  <2>. QED BY <1>1, <1>3, <2>1, AppendProperties
<1>6. t \in Snapshots(V)
  BY <1>3, <1>4, <1>5 DEF Snapshots
<1>7. ASSUME NEW j \in 1..n PROVE Holds(t, j, groups[j])
  <2> DEFINE b == s.ranges[j][1]
             m == Len(groups[j])
  <2>1. /\ b \in 1..(a + 1) /\ s.ranges[j][2] = b + m - 1 /\ b + m - 1 <= a
        /\ \A x \in 1..m : s.values[b + x - 1] = groups[j][x]
    BY <1>7 DEF Sliced, Holds, a
  <2>2. m \in Nat
    <3>1. j \in 1..(n + 1)
      OBVIOUS
    <3>. QED BY <3>1
  <2>3. t.ranges[j] = s.ranges[j]
    BY <1>5
  <2> HIDE DEF b, m
  <2>4. ASSUME NEW x \in 1..m PROVE t.values[b + x - 1] = groups[j][x]
    <3>1. b + x - 1 \in 1..a
      BY <1>1, <2>1, <2>2
    <3>. QED BY <1>4, <2>1, <3>1
  <2>5. b \in 1..(Len(t.values) + 1) /\ b + m - 1 <= Len(t.values)
    BY <1>1, <1>2, <1>4, <2>1, <2>2
  <2>. QED BY <2>1, <2>3, <2>4, <2>5 DEF Holds, b, m
<1>8. Holds(t, n + 1, groups[n + 1])
  <2>1. t.ranges[n + 1][1] = a + 1 /\ t.ranges[n + 1][2] = a + Len(g)
    BY <1>5
  <2>2. \A x \in 1..Len(g) : (a + 1) + x - 1 = a + x
    BY <1>1
  <2>3. Holds(t, n + 1, g)
    BY <1>1, <1>2, <1>4, <2>1, <2>2 DEF Holds
  <2>. QED BY <2>3 DEF g
<1>9. Sliced(t, groups, n + 1)
  <2>1. 1..(n + 1) = 1..n \cup {n + 1}
    OBVIOUS
  <2>. QED BY <1>5, <1>7, <1>8, <2>1 DEF Sliced
<1>. QED BY <1>6, <1>9 DEF t, g

NoSnapshot == [values |-> <<>>, ranges |-> <<>>]

\* Each slice of a snapshot is the group it was made from.
LEMMA SlicesAreGroups ==
    ASSUME NEW V, NEW groups, NEW n \in Nat, Len(groups) = n,
           \A j \in 1..n : groups[j] \in Seq(V)
    PROVE  \A j \in 1..n : Slice(Snapshot(groups), j) = groups[j]
<1> DEFINE T == Snapshots(V)
           step == [k \in 1..n |-> [s \in T |-> Extended(s, groups[k])]]
           all == Extensions(groups)
<1>1. NoSnapshot \in T
  BY DEF NoSnapshot, Snapshots
<1>2. ASSUME NEW k \in 1..n, NEW s \in T
      PROVE  step[k][s] = Extended(s, groups[k]) /\ step[k][s] \in T
  <2>1. step[k][s] = Extended(s, groups[k])
    OBVIOUS
  <2>2. Extended(s, groups[k]) \in T
    <3>1. groups[k] \in Seq(V) /\ Len(groups[k]) \in Nat
      OBVIOUS
    <3>2. s.values \in Seq(V) /\ s.ranges \in Seq(Nat \X Nat) /\ Len(s.values) \in Nat
      BY DEF Snapshots
    <3>. QED BY <3>1, <3>2 DEF Extended, Snapshots
  <2>. QED BY <2>1, <2>2
<1> HIDE DEF T, step, all
<1>3. PICK f : Stepping(n, NoSnapshot, step, f) /\ \A k \in 0..n : f[k] \in T
  <2>1. \A k \in 1..n : \A s \in T : step[k][s] \in T
    BY <1>2
  <2>. QED BY <1>1, <2>1, TypedSteps
<1>4. f = [k \in 0..n |-> IF k = 0 THEN NoSnapshot ELSE step[k][f[k - 1]]]
  BY <1>3 DEF Stepping
<1>5. ASSUME NEW k \in 0..n
      PROVE  (IF k = 0 THEN NoSnapshot ELSE step[k][f[k - 1]])
                = (IF k = 0 THEN NoSnapshot ELSE Extended(f[k - 1], groups[k]))
  <2>1. k # 0 => k - 1 \in 0..n /\ k \in 1..n
    OBVIOUS
  <2>. QED BY <1>2, <1>3, <2>1
<1>6. f = [k \in 0..n |-> IF k = 0 THEN NoSnapshot ELSE Extended(f[k - 1], groups[k])]
  BY <1>4, <1>5
<1>7. all = CHOOSE u : u = [k \in 0..n |-> IF k = 0 THEN NoSnapshot
                                           ELSE Extended(u[k - 1], groups[k])]
  BY DEF Extensions, NoSnapshot, all
<1>8. all = [k \in 0..n |-> IF k = 0 THEN NoSnapshot ELSE Extended(all[k - 1], groups[k])]
  BY <1>6, <1>7
<1> DEFINE S == {k \in 0..n : all[k] \in T /\ Sliced(all[k], groups, k)}
<1>9. 0..n \subseteq S
  <2>1. 0 \in S
    <3>1. all[0] = NoSnapshot
      BY <1>8
    <3>2. 1..0 = {} /\ Len(NoSnapshot.ranges) = 0
      BY DEF NoSnapshot
    <3>. QED BY <1>1, <3>1, <3>2 DEF Sliced
  <2>2. ASSUME NEW k \in 0..(n - 1), k \in S PROVE k + 1 \in S
    <3>1. k + 1 \in 0..n /\ k + 1 # 0 /\ (k + 1) - 1 = k /\ k \in Nat
      OBVIOUS
    <3>2. all[k + 1] = Extended(all[k], groups[k + 1])
      BY <1>8, <3>1
    <3>3. \A j \in 1..(k + 1) : groups[j] \in Seq(V)
      BY <3>1
    <3>4. all[k + 1] \in T /\ Sliced(all[k + 1], groups, k + 1)
      BY <2>2, <3>1, <3>2, <3>3, ExtendedFacts DEF T
    <3>. QED BY <3>1, <3>4
  <2> HIDE DEF S
  <2>. QED BY <2>1, <2>2, CountingUp
<1> DEFINE s == Snapshot(groups)
<1>10. s \in Snapshots(V) /\ Sliced(s, groups, n)
  BY <1>9 DEF Snapshot, all, T
<1> HIDE DEF s, S
<1>11. ASSUME NEW j \in 1..n PROVE Slice(s, j) = groups[j]
  <2> DEFINE b == s.ranges[j][1]
             c == s.ranges[j][2]
             m == Len(groups[j])
  <2>1. groups[j] \in Seq(V) /\ m \in Nat
    OBVIOUS
  <2>2. /\ b \in 1..(Len(s.values) + 1) /\ c = b + m - 1 /\ c <= Len(s.values)
        /\ \A x \in 1..m : s.values[b + x - 1] = groups[j][x]
    BY <1>10 DEF Sliced, Holds
  <2>3. s.values \in Seq(V) /\ Len(s.values) \in Nat
    BY <1>10 DEF Snapshots
  <2> HIDE DEF b, c, m
  <2>4. b \in Int /\ c \in Int /\ c - b + 1 = m
    BY <2>1, <2>2, <2>3
  <2>5. \A x \in b..c : s.values[x] \in V
    BY <2>2, <2>3, <2>4, ElementOfSeq
  <2>6. /\ SubSeq(s.values, b, c) \in Seq(V)
        /\ Len(SubSeq(s.values, b, c)) = IF b <= c THEN c - b + 1 ELSE 0
        /\ \A x \in 1..(c - b + 1) : SubSeq(s.values, b, c)[x] = s.values[b + x - 1]
    BY <2>4, <2>5, SubSeqProperties
  <2>7. Len(SubSeq(s.values, b, c)) = m
    BY <2>1, <2>4, <2>6
  <2>8. \A x \in 1..m : SubSeq(s.values, b, c)[x] = groups[j][x]
    BY <2>2, <2>4, <2>6
  <2>9. m = Len(groups[j])
    BY DEF m
  <2>10. SubSeq(s.values, b, c) = groups[j]
    BY <2>1, <2>6, <2>7, <2>8, <2>9, SeqEqual
  <2>. QED BY <2>10 DEF Slice, b, c
<1>. QED BY <1>11 DEF s

-----------------------------------------------------------------------------
(* The compiled version, and the declaration since. *)

\* What the run relies on for an input of node i of version v.
InputFrozen(v, i, in, slot) ==
    /\ in.slot = slot
    /\ Len(in.sources) \in Nat /\ DOMAIN in.sources = 1..Len(in.sources)
    /\ \A s \in DOMAIN in.sources :
          LET m   == in.sources[s].node
              out == in.sources[s].output
          IN  /\ m \in DOMAIN v.ids /\ i \in ToSet(v.successors[m])
              /\ out \in DOMAIN v.nodes[m].schema.outputs
              /\ v.nodes[m].schema.outputs[out].type = slot.type
    /\ ~slot.many => Len(in.sources) <= 1
    /\ in.external => in.sources = <<>>
    /\ slot.required => in.sources # <<>> \/ in.external

PlanFrozen(v) ==
    v.verdict = "Ok" =>
        /\ Len(v.ids) \in Nat /\ DOMAIN v.ids = 1..Len(v.ids) /\ v.ids # <<>>
        /\ IsInjective(v.ids)
        /\ \A i \in DOMAIN v.ids :
              LET slots == v.nodes[i].schema.inputs
              IN  /\ v.nodes[i] \in LiveNode /\ DOMAIN v.inputs[i] = DOMAIN slots
                  /\ \A k \in DOMAIN slots : InputFrozen(v, i, v.inputs[i][k], slots[k])

LEMMA CompiledIs ==
    ASSUME Compiled.verdict = "Ok"
    PROVE  /\ Compiled.ids = Ids /\ Compiled.predecessors = Preds /\ Compiled.successors = Succs
           /\ Compiled.nodes = [i \in DOMAIN Ids |-> nodes[Ids[i]]]
           /\ Compiled.inputs = [i \in DOMAIN Ids |-> [k \in DOMAIN nodes[Ids[i]].schema.inputs |->
                  CompiledInput(Ids, Ids[i], nodes[Ids[i]].schema.inputs[k])]]
<1> DEFINE inputs == [i \in DOMAIN Ids |-> [k \in DOMAIN nodes[Ids[i]].schema.inputs |->
                         CompiledInput(Ids, Ids[i], nodes[Ids[i]].schema.inputs[k])]]
           accepted == [verdict |-> "Ok", ids |-> Ids, predecessors |-> Preds,
                        successors |-> Succs, nodes |-> [i \in DOMAIN Ids |-> nodes[Ids[i]]],
                        inputs |-> inputs]
           missing == MissingRequired(Selected)
           cyclic  == Visited(Succs, [i \in DOMAIN Ids |-> Len(Preds[i])]) # Len(Ids)
<1>1. Compiled = IF Active = {} THEN Refused("NoActiveTarget")
                 ELSE IF missing THEN Refused("MissingRequiredInput")
                 ELSE IF cyclic THEN Refused("CycleDetected")
                 ELSE accepted
  BY DEF Compiled, Ids, Preds, Succs
<1> HIDE DEF missing, cyclic, inputs
<1>2. Compiled = accepted
  BY <1>1 DEF Refused
<1>. QED BY <1>2 DEF inputs

\* A producer is a predecessor, so the consumer is one of its successors.
LEMMA CompiledFrozen ==
    ASSUME EditInv PROVE PlanFrozen(Compiled)
<1> SUFFICES ASSUME Compiled.verdict = "Ok" PROVE PlanFrozen(Compiled)
  BY DEF PlanFrozen
<1> DEFINE D == DOMAIN Ids
           v == Compiled
<1>1. /\ Len(Ids) \in Nat /\ D = 1..Len(Ids) /\ IsInjective(Ids)
      /\ ToSet(Ids) = Upstream /\ Upstream \subseteq LiveNodes
      /\ Mirrored(Len(Ids), Succs, Preds)
  BY NeighboursAreFed
<1>2. /\ v.ids = Ids /\ v.predecessors = Preds /\ v.successors = Succs
      /\ v.nodes = [i \in D |-> nodes[Ids[i]]]
      /\ v.inputs = [i \in D |-> [k \in DOMAIN nodes[Ids[i]].schema.inputs |->
            CompiledInput(Ids, Ids[i], nodes[Ids[i]].schema.inputs[k])]]
  BY CompiledIs
<1>3. PlanFits(v) /\ InputsFit(v)
  BY CompiledFits
<1> HIDE DEF v
<1>4. v.ids # <<>>
  <2>1. DOMAIN v.ids # {}
    BY <1>3 DEF PlanFits, v
  <2>. QED BY <2>1
<1>5. ASSUME NEW i \in D
      PROVE  /\ v.nodes[i] \in LiveNode /\ v.nodes[i] = nodes[Ids[i]] /\ Ids[i] \in LiveNodes
             /\ v.nodes[i].schema \in ValidSchemas
  <2>1. Ids[i] \in LiveNodes
    BY <1>1 DEF ToSet
  <2>. QED BY <1>2, <2>1, NodeFacts DEF EditInv
<1>6. ASSUME NEW i \in D, NEW k \in DOMAIN v.nodes[i].schema.inputs
      PROVE  InputFrozen(v, i, v.inputs[i][k], v.nodes[i].schema.inputs[k])
  <2> DEFINE slot == v.nodes[i].schema.inputs[k]
             in == v.inputs[i][k]
             into == Incoming(Ids[i], slot.id)
             es == InOrder(into)
  <2>1. slot = nodes[Ids[i]].schema.inputs[k] /\ in = CompiledInput(Ids, Ids[i], slot)
    BY <1>2, <1>5, <1>6
  <2>2. in \in ToSet(v.inputs[i])
    BY <1>2, <1>5, <1>6 DEF ToSet
  <2>3. Readable(Ids, Preds[i], in)
    <3>1. DOMAIN v.ids = D
      BY <1>2
    <3>. QED BY <1>2, <1>3, <2>2, <3>1 DEF InputsFit, v
  <2> HIDE DEF slot, in
  <2>4. into \in SUBSET LiveEdges /\ into \in SUBSET Nat
    BY DeclarationFinite DEF Incoming
  <2>5. IsFiniteSet(into)
    BY <2>4, DeclarationFinite, FS_Subset
  <2>6. es \in [1..Cardinality(into) -> into] /\ Cardinality(into) \in Nat
    BY <2>4, <2>5, InOrderFacts
  <2> DEFINE sources == [j \in DOMAIN es |-> [node |-> Index(Ids, edges[es[j]].source),
                                              output |-> OutputAt(es[j])]]
  <2>7. in = [slot |-> slot, external |-> IsExposed(Ids[i], slot.id), sources |-> sources]
    BY <2>1 DEF CompiledInput
  <2> HIDE DEF es, into
  <2>8. in.slot = slot /\ in.sources = sources
    BY <2>7
  <2>9. Len(sources) \in Nat /\ DOMAIN sources = 1..Len(sources)
    <3> DEFINE c == Cardinality(into)
               T == {sources[j] : j \in 1..c}
    <3>1. DOMAIN sources = 1..c /\ c \in Nat
      BY <2>6
    <3> HIDE DEF c, sources
    <3>2. sources \in [1..c -> T]
      <4>1. sources = [j \in 1..c |-> sources[j]]
        BY <3>1 DEF sources
      <4>. QED BY <4>1
    <3> HIDE DEF T
    <3>3. Len(sources) = c
      <4>1. sources \in Seq(T)
        BY <3>1, <3>2
      <4>. QED BY <3>1, <4>1, LenProperties
    <3>. QED BY <3>1, <3>3
  <2> HIDE DEF sources
  <2>10. ASSUME NEW s \in DOMAIN in.sources
         PROVE  /\ in.sources[s].node \in DOMAIN v.ids
                /\ i \in ToSet(v.successors[in.sources[s].node])
                /\ in.sources[s].output \in DOMAIN v.nodes[in.sources[s].node].schema.outputs
                /\ v.nodes[in.sources[s].node].schema.outputs[in.sources[s].output].type = slot.type
    <3> DEFINE m == in.sources[s].node
    <3>1. /\ m \in ToSet(Preds[i])
          /\ in.sources[s].output \in DOMAIN nodes[Ids[m]].schema.outputs
          /\ nodes[Ids[m]].schema.outputs[in.sources[s].output].type = slot.type
      BY <2>3, <2>8, <2>10 DEF Readable
    <3>2. m \in D
      <4>1. Preds[i] \in Seq(D)
        BY <1>1 DEF Mirrored
      <4>. QED BY <3>1, <4>1 DEF ToSet
    <3>3. i \in ToSet(Succs[m])
      BY <1>1, <3>1, <3>2 DEF Mirrored
    <3>4. v.nodes[m] = nodes[Ids[m]]
      BY <1>5, <3>2
    <3>5. DOMAIN v.ids = D /\ v.successors = Succs
      BY <1>2
    <3> HIDE DEF m
    <3>6. /\ m \in DOMAIN v.ids /\ i \in ToSet(v.successors[m])
          /\ in.sources[s].output \in DOMAIN v.nodes[m].schema.outputs
          /\ v.nodes[m].schema.outputs[in.sources[s].output].type = slot.type
      BY ONLY <3>1, <3>2, <3>3, <3>4, <3>5
    <3>. QED BY <3>6 DEF m
  <2>11. /\ ~slot.many => Len(in.sources) <= 1
         /\ in.external => in.sources = <<>>
         /\ slot.required => in.sources # <<>> \/ in.external
    BY <2>3, <2>8 DEF Readable
  <2>. QED BY <2>8, <2>9, <2>10, <2>11 DEF InputFrozen, slot, in
<1>7. ASSUME NEW i \in D PROVE DOMAIN v.inputs[i] = DOMAIN v.nodes[i].schema.inputs
  BY <1>2, <1>5
<1>. QED BY <1>1, <1>2, <1>4, <1>5, <1>6, <1>7 DEF PlanFrozen, v

\* Since version v was made, its nodes were removed, or kept their schema, or
\* moved on to a later generation.
NodesSince(v) ==
    v.verdict = "Ok" => \A i \in DOMAIN v.ids :
        /\ v.ids[i] \in DOMAIN nodes
        /\ v.ids[i] \in LiveNodes =>
              \/ /\ nodes[v.ids[i]].generation = v.nodes[i].generation
                 /\ nodes[v.ids[i]].schema = v.nodes[i].schema
              \/ nodes[v.ids[i]].generation > v.nodes[i].generation

\* A handle of the generation that was compiled names a slot that was compiled.
HandlesFrozen(v) ==
    v.verdict = "Ok" => \A x \in issued : \A i \in DOMAIN v.ids :
        x[1].node = v.ids[i] /\ x[1].generation = v.nodes[i].generation =>
            /\ x[2].id = x[1].slot
            /\ x[2] \in ToSet(IF x[1].side = "in" THEN v.nodes[i].schema.inputs
                              ELSE v.nodes[i].schema.outputs)

OwnHandle(h) ==
    \E side, n, slot, g, type :
        h = [graph |-> "own", side |-> side, node |-> n, slot |-> slot, generation |-> g,
             type |-> type]
HandlesOwn == \A x \in issued : OwnHandle(x[1])

DeclInv ==
    /\ EditInv /\ HandlesSound /\ HandlesOwn
    /\ PlanFrozen(version) /\ NodesSince(version) /\ HandlesFrozen(version)

LEMMA PlanFrozenNext ==
    ASSUME NEW v, version' = v, PlanFrozen(v) PROVE PlanFrozen(version)'
<1>1. PlanFrozen(version')
  OBVIOUS
<1>. QED BY Zenon, <1>1 DEF PlanFrozen, InputFrozen

LEMMA OfferedOwn == \A x \in Offered : OwnHandle(x[1])
<1> SUFFICES ASSUME NEW x \in Offered PROVE OwnHandle(x[1])
  OBVIOUS
<1>1. PICK n \in LiveNodes, side \in {"in", "out"}, type \in Types :
         \E slot \in SlotsOf(n, side) : x = <<Handle(side, n, slot, type), slot>>
  BY DEF Offered, Offer
<1>2. PICK slot : x = <<Handle(side, n, slot, type), slot>>
  BY <1>1
<1>3. x[1] = [graph |-> "own", side |-> side, node |-> n, slot |-> slot.id,
              generation |-> nodes[n].generation, type |-> type]
  BY <1>2 DEF Handle
<1>. QED BY <1>3 DEF OwnHandle

LEMMA OfferedOwnNext == (\A x \in Offered : OwnHandle(x[1]))'
BY OfferedOwn, PTL

\* A handle offered now, of a node that was compiled and has kept its schema.
LEMMA OfferedFrozen ==
    ASSUME EditInv, NEW v, v.verdict = "Ok", PlanFrozen(v), NodesSince(v), NEW x \in Offered,
           NEW i \in DOMAIN v.ids,
           x[1].node = v.ids[i], x[1].generation = v.nodes[i].generation
    PROVE  /\ x[2].id = x[1].slot
           /\ x[2] \in ToSet(IF x[1].side = "in" THEN v.nodes[i].schema.inputs
                             ELSE v.nodes[i].schema.outputs)
<1>1. PICK n \in LiveNodes, side \in {"in", "out"}, type \in Types :
         \E slot \in SlotsOf(n, side) : x = <<Handle(side, n, slot, type), slot>>
  BY DEF Offered, Offer
<1>2. PICK slot \in SlotsOf(n, side) : x = <<Handle(side, n, slot, type), slot>>
  BY <1>1
<1>3. /\ x[1].node = n /\ x[1].side = side /\ x[1].slot = slot.id /\ x[2] = slot
      /\ x[1].generation = nodes[n].generation
  BY <1>2 DEF Handle
<1>4. nodes[n].generation \in Nat
  BY NodeFacts DEF EditInv, LiveNode
<1>5. nodes[n].schema = v.nodes[i].schema
  <2>1. v.ids[i] = n /\ nodes[n].generation = v.nodes[i].generation
    BY <1>3
  <2>2. \/ nodes[n].schema = v.nodes[i].schema
        \/ nodes[n].generation > v.nodes[i].generation
    BY <2>1 DEF NodesSince
  <2>. QED BY <1>4, <2>1, <2>2
<1>. QED BY <1>2, <1>3, <1>5 DEF SlotsOf, Inputs, Outputs

OffersFrozen(v) ==
    \A x \in Offered : \A i \in DOMAIN v.ids :
        x[1].node = v.ids[i] /\ x[1].generation = v.nodes[i].generation =>
            /\ x[2].id = x[1].slot
            /\ x[2] \in ToSet(IF x[1].side = "in" THEN v.nodes[i].schema.inputs
                              ELSE v.nodes[i].schema.outputs)
OffersHold ==
    EditInv /\ version.verdict = "Ok" /\ PlanFrozen(version) /\ NodesSince(version)
        => OffersFrozen(version)

LEMMA OffersAreFrozen == OffersHold
BY OfferedFrozen DEF OffersHold, OffersFrozen

LEMMA OffersAreFrozenNext == OffersHold'
BY OffersAreFrozen, PTL

LEMMA EditsKeepVersion ==
    ASSUME DeclInv, HandleNext, UNCHANGED version PROVE DeclInv'
<1>1. Keeps /\ EditInv' /\ NodesAge /\ issued' = issued \cup Offered'
  BY EditKeeps DEF DeclInv, HandleNext, Keeps
<1>2. HandlesSound'
  BY <1>1, HandlesSoundStep DEF DeclInv
<1>3. HandlesOwn'
  BY <1>1, OfferedOwnNext DEF DeclInv, HandlesOwn, OwnHandle
<1>4. PlanFrozen(version)'
  BY PlanFrozenNext DEF DeclInv
<1>5. NodesSince(version)'
  <2> SUFFICES ASSUME version.verdict = "Ok", NEW i \in DOMAIN version.ids
               PROVE  /\ version.ids[i] \in DOMAIN nodes'
                      /\ version.ids[i] \in LiveNodes' =>
                            \/ /\ nodes'[version.ids[i]].generation = version.nodes[i].generation
                               /\ nodes'[version.ids[i]].schema = version.nodes[i].schema
                            \/ nodes'[version.ids[i]].generation > version.nodes[i].generation
    BY DEF NodesSince
  <2> DEFINE n == version.ids[i]
  <2>1. n \in DOMAIN nodes /\ n \in DOMAIN nodes' /\ Aged(n)
    BY <1>1 DEF DeclInv, NodesSince, NodesAge
  <2>2. ASSUME n \in LiveNodes'
        PROVE  \/ /\ nodes'[n].generation = version.nodes[i].generation
                  /\ nodes'[n].schema = version.nodes[i].schema
               \/ nodes'[n].generation > version.nodes[i].generation
    <3>1. /\ n \in LiveNodes
          /\ \/ /\ nodes'[n].generation = nodes[n].generation
                /\ nodes'[n].schema = nodes[n].schema
             \/ nodes'[n].generation > nodes[n].generation
      BY <2>1, <2>2 DEF Aged, LiveNodes
    <3>2. \/ /\ nodes[n].generation = version.nodes[i].generation
             /\ nodes[n].schema = version.nodes[i].schema
          \/ nodes[n].generation > version.nodes[i].generation
      BY <3>1 DEF DeclInv, NodesSince
    <3>3. nodes[n].generation \in Nat /\ version.nodes[i].generation \in Nat
      BY <3>1, NodeFacts DEF DeclInv, EditInv, PlanFrozen, LiveNode
    <3>4. nodes'[n].generation \in Nat
      <4>1. nodes' \in Seq(LiveNode \cup {Gone})
        BY <1>1 DEF EditInv, RecordsTyped
      <4>2. nodes'[n] \in LiveNode \cup {Gone}
        BY <2>1, <4>1, LenProperties, ElementOfSeq
      <4>3. nodes'[n].live /\ ~Gone.live
        BY <2>2 DEF LiveNodes, Gone
      <4>4. nodes'[n] \in LiveNode
        BY <4>2, <4>3
      <4>. QED BY <4>4 DEF LiveNode
    <3>. QED BY <3>1, <3>2, <3>3, <3>4
  <2>. QED BY <2>1, <2>2
<1>6. HandlesFrozen(version)'
  <2>1. version.verdict = "Ok" => OffersFrozen(version)'
    BY <1>1, <1>4, <1>5, OffersAreFrozenNext DEF OffersHold
  <2>. QED BY <1>1, <2>1 DEF DeclInv, HandlesFrozen, OffersFrozen
<1>. QED BY <1>1, <1>2, <1>3, <1>4, <1>5, <1>6 DEF DeclInv

LEMMA CompileKeepsVersion ==
    ASSUME DeclInv, CompileGraph, UNCHANGED issued PROVE DeclInv'
<1>1. UNCHANGED vars /\ version' = Compiled /\ nodes' = nodes
  BY DEF CompileGraph, vars, declaration
<1>2. EditInv' /\ HandlesSound' /\ HandlesOwn'
  <2>1. EditInv'
    BY <1>1, EditStutter DEF DeclInv
  <2>2. HandlesSound'
    BY <1>1 DEF DeclInv, HandlesSound, IssuedFor, LiveNodes, SlotsOf, Inputs, Outputs
  <2>3. HandlesOwn'
    BY DEF DeclInv, HandlesOwn, OwnHandle
  <2>. QED BY <2>1, <2>2, <2>3
<1>3. PlanFrozen(Compiled)
  BY CompiledFrozen DEF DeclInv
<1>4. ASSUME Compiled.verdict = "Ok", NEW i \in DOMAIN Compiled.ids
      PROVE  /\ Compiled.ids[i] \in LiveNodes /\ Compiled.nodes[i] = nodes[Compiled.ids[i]]
  <2>1. Compiled.ids = Ids /\ Compiled.nodes = [j \in DOMAIN Ids |-> nodes[Ids[j]]]
    BY <1>4, CompiledIs
  <2>2. ToSet(Ids) \subseteq LiveNodes
    BY NeighboursAreFed DEF DeclInv
  <2>. QED BY <1>4, <2>1, <2>2 DEF ToSet
<1>5. NodesSince(Compiled)
  BY <1>4, NodeFacts DEF DeclInv, EditInv, NodesSince
<1>6. HandlesFrozen(Compiled)
  BY <1>4 DEF DeclInv, HandlesSound, IssuedFor, HandlesFrozen, SlotsOf, Inputs, Outputs
<1> DEFINE v == Compiled
<1> HIDE DEF v
<1>7. PlanFrozen(version)' /\ NodesSince(version)' /\ HandlesFrozen(version)'
  <2>1. version' = v /\ PlanFrozen(v) /\ NodesSince(v) /\ HandlesFrozen(v)
    BY <1>1, <1>3, <1>5, <1>6 DEF v
  <2>2. PlanFrozen(version)'
    BY <2>1, PlanFrozenNext
  <2>3. NodesSince(version)'
    BY <1>1, <2>1 DEF NodesSince, LiveNodes
  <2>4. HandlesFrozen(version)'
    BY <2>1 DEF HandlesFrozen
  <2>. QED BY <2>2, <2>3, <2>4
<1>. QED BY <1>2, <1>7 DEF DeclInv

LEMMA VersionStutter ==
    ASSUME DeclInv, UNCHANGED <<allVars, version>> PROVE DeclInv'
<1>1. UNCHANGED vars /\ issued' = issued /\ version' = version /\ nodes' = nodes
  BY DEF allVars, vars, declaration
<1>2. EditInv'
  BY <1>1, EditStutter DEF DeclInv
<1>3. HandlesSound' /\ HandlesOwn'
  BY <1>1 DEF DeclInv, HandlesSound, HandlesOwn, OwnHandle, IssuedFor, LiveNodes, SlotsOf,
              Inputs, Outputs
<1>4. PlanFrozen(version)' /\ NodesSince(version)' /\ HandlesFrozen(version)'
  <2>1. PlanFrozen(version)'
    BY <1>1, PlanFrozenNext DEF DeclInv
  <2>2. NodesSince(version)'
    BY <1>1 DEF DeclInv, NodesSince, LiveNodes
  <2>3. HandlesFrozen(version)'
    BY <1>1 DEF DeclInv, HandlesFrozen
  <2>. QED BY <2>1, <2>2, <2>3
<1>. QED BY <1>2, <1>3, <1>4 DEF DeclInv

LEMMA DeclInvInit == ReportInit => DeclInv
<1> SUFFICES ASSUME ReportInit PROVE DeclInv
  OBVIOUS
<1>1. EditInv /\ issued = {} /\ version.verdict = "none"
  BY EditInvInit DEF ReportInit, HandleInit, Refused
<1>2. HandlesSound /\ HandlesOwn /\ HandlesFrozen(version)
  BY <1>1 DEF HandlesSound, HandlesOwn, HandlesFrozen
<1>3. PlanFrozen(version) /\ NodesSince(version)
  BY <1>1 DEF PlanFrozen, NodesSince
<1>. QED BY <1>1, <1>2, <1>3 DEF DeclInv

-----------------------------------------------------------------------------
(* The run and its report. *)

Phases == {"waiting", "running", "succeeded", "failed", "blocked", "cancelled"}

\* One value for each output of node i, and no two the same.
Whole(i, values) ==
    /\ DOMAIN values = DOMAIN OutputsOf(i)
    /\ \A k \in DOMAIN OutputsOf(i) :
          /\ values[k].type = OutputsOf(i)[k].type /\ values[k].node = i
          /\ values[k] # NoValue
    /\ \A k, l \in DOMAIN OutputsOf(i) : values[k] = values[l] => k = l
    /\ Len(OutputsOf(i)) <= MaxEntries

\* Before the report is taken.
Early ==
    /\ report = NoReport /\ handed = <<>> /\ DOMAIN outputs = P
    /\ \A i \in P :
          /\ phase[i] = "succeeded" => Whole(i, outputs[i])
          /\ phase[i] # "succeeded" => outputs[i] = NoOutputs(i)
          /\ phase[i] = "running" => Ready(i)

SuppliedAll ==
    \E count \in 0..MaxSupplied :
        external = [i \in P |-> [k \in DOMAIN version.inputs[i] |->
                                    Supplied(version.inputs[i][k], count)]]

\* Output k of node i was taken from the report, and its entry in the report,
\* where val[i][k] is the value that was committed.
Gave(val, i, k) ==
    /\ phase[i] = "succeeded"
    /\ \E j \in DOMAIN handed : handed[j] = [slot |-> OutputsOf(i)[k].id, value |-> val[i][k]]
Entry(val, i, k) ==
    [node |-> version.ids[i], slot |-> OutputsOf(i)[k].id, generation |-> Frozen(i).generation,
     value |-> IF phase[i] = "succeeded" /\ ~Gave(val, i, k) THEN val[i][k] ELSE NoValue,
     taken |-> Gave(val, i, k)]

NodeEntries ==
    [i \in P |-> [node |-> version.ids[i], status |-> phase[i],
                  slots |-> {<<out.id, Frozen(i).generation>> : out \in ToSet(OutputsOf(i))}]]

TargetsLate(val) ==
    LET targets == report.targets
    IN  /\ targets = [t \in DOMAIN targets |-> targets[t]]
        /\ \A t \in DOMAIN targets : \E i \in P : \E k \in DOMAIN OutputsOf(i) :
              Frozen(i).active /\ targets[t] = Entry(val, i, k)
        /\ \A i \in P : Frozen(i).active =>
              \A k \in DOMAIN OutputsOf(i) : \E t \in DOMAIN targets :
                  targets[t] = Entry(val, i, k)
        /\ \A t, u \in DOMAIN targets :
              targets[t].node = targets[u].node /\ targets[t].slot = targets[u].slot => t = u

HandedLate(val) ==
    /\ Len(handed) \in Nat /\ DOMAIN handed = 1..Len(handed)
    /\ handed = [j \in DOMAIN handed |-> handed[j]]
    /\ \A j \in DOMAIN handed : \E i \in P : \E k \in DOMAIN OutputsOf(i) :
          /\ Frozen(i).active /\ phase[i] = "succeeded"
          /\ handed[j] = [slot |-> OutputsOf(i)[k].id, value |-> val[i][k]]
    /\ \A j, l \in DOMAIN handed : handed[j] = handed[l] => j = l

\* After it.
Late(val) ==
    /\ report = [nodes |-> NodeEntries, failures |-> report.failures, targets |-> report.targets]
    /\ report # NoReport /\ Open = {} /\ DOMAIN outputs = P
    /\ ToSet(report.failures) = {version.ids[i] : i \in PhaseIn({"failed"})}
    /\ \A i \in P :
          /\ phase[i] = "succeeded" => Whole(i, val[i])
          /\ outputs[i] = IF phase[i] = "succeeded" /\ ~Frozen(i).active THEN val[i]
                          ELSE NoOutputs(i)
    /\ TargetsLate(val) /\ HandedLate(val)

Started ==
    /\ version.verdict = "Ok" /\ phase \in [P -> Phases] /\ SuppliedAll
    /\ Early \/ \E val : Late(val)

RunInv == (phase = <<>> /\ stop = FALSE /\ report = NoReport /\ handed = <<>>) \/ Started

ReportInv == DeclInv /\ RunInv

-----------------------------------------------------------------------------
(* What tasks return. *)

LEMMA FrozenFacts ==
    ASSUME PlanFrozen(version), version.verdict = "Ok"
    PROVE  /\ Len(version.ids) \in Nat /\ P = 1..Len(version.ids) /\ P # {}
           /\ \A i, j \in P : version.ids[i] = version.ids[j] => i = j
           /\ \A i \in P : Frozen(i) \in LiveNode /\ Frozen(i).schema \in ValidSchemas
<1>1. \A i \in P : Frozen(i).schema \in ValidSchemas
  BY DEF PlanFrozen, P, Frozen, LiveNode
<1>2. P # {}
  <2>1. Len(version.ids) \in Nat /\ P = 1..Len(version.ids) /\ version.ids # <<>>
    BY DEF PlanFrozen, P
  <2>2. Len(version.ids) # 0
    <3>1. ASSUME DOMAIN version.ids = {} PROVE version.ids = <<>>
      BY <3>1
    <3>. QED BY <2>1, <3>1 DEF P
  <2>. QED BY <2>1, <2>2
<1>3. Len(version.ids) \in Nat /\ P = 1..Len(version.ids) /\ IsInjective(version.ids)
  BY DEF PlanFrozen, P
<1>4. \A i, j \in P : version.ids[i] = version.ids[j] => i = j
  BY <1>3 DEF IsInjective, P
<1>5. \A i \in P : Frozen(i) \in LiveNode
  BY DEF PlanFrozen, P, Frozen
<1>6. QED
  BY <1>1, <1>2, <1>3, <1>4, <1>5

LEMMA RunningIs ==
    ASSUME ReportInv, NEW i \in DOMAIN phase
    PROVE  Started /\ i \in P /\ Frozen(i).schema \in ValidSchemas
<1>1. Started
  BY DEF ReportInv, RunInv
<1>2. i \in P
  BY <1>1 DEF Started
<1>3. PlanFrozen(version) /\ version.verdict = "Ok"
  BY <1>1 DEF Started, ReportInv, DeclInv
<1>. QED BY <1>1, <1>2, <1>3, FrozenFacts

\* Each entry of a bag is meant for one output at most.
LEMMA MeantOnce ==
    ASSUME NEW schema \in ValidSchemas, NEW i, NEW shape \in Shapes, NEW p \in DOMAIN shape,
           NEW k \in DOMAIN schema.outputs, NEW l \in DOMAIN schema.outputs,
           shape[p] \in MeantFor(schema, k), shape[p] \in MeantFor(schema, l)
    PROVE  k = l
<1>1. Hits(schema, Bag(i, shape), p, k) /\ Hits(schema, Bag(i, shape), p, l)
  BY MeantIsHit
<1>. QED BY <1>1, OneAddressed DEF Hits

LEMMA ReturnsChecked == ReportInv => AcceptedExactly
<1> SUFFICES ASSUME ReportInv, NEW i \in DOMAIN phase, NEW shape \in Shapes
             PROVE  LET schema  == Frozen(i).schema
                        checked == ValidateOutputs(schema, Bag(i, shape))
                        Fit(p, k) == shape[p] \in MeantFor(schema, k)
                    IN  /\ checked.ok <=> /\ Len(shape) = Len(schema.outputs)
                                          /\ \A k \in DOMAIN schema.outputs :
                                                \E p \in DOMAIN shape : Fit(p, k)
                        /\ checked.ok => \A k \in DOMAIN schema.outputs :
                                             Fit(checked.values[k].entry, k)
  BY DEF AcceptedExactly, MeantFor
<1> DEFINE schema  == Frozen(i).schema
           checked == ValidateOutputs(schema, Bag(i, shape))
<1>1. schema \in ValidSchemas
  BY RunningIs
<1> HIDE DEF schema
<1>2. /\ checked.ok <=> /\ Len(shape) = Len(schema.outputs)
                        /\ \A k \in DOMAIN schema.outputs : \E p \in DOMAIN shape :
                              shape[p] \in MeantFor(schema, k)
      /\ checked.ok => \A k \in DOMAIN schema.outputs : \E p \in DOMAIN shape :
            /\ shape[p] \in MeantFor(schema, k)
            /\ checked.values[k] = [type |-> shape[p][2], node |-> i, entry |-> p]
  BY <1>1, BagAccepted
<1> HIDE DEF checked
<1>3. ASSUME checked.ok, NEW k \in DOMAIN schema.outputs
      PROVE  shape[checked.values[k].entry] \in MeantFor(schema, k)
  <2>1. PICK p \in DOMAIN shape :
           /\ shape[p] \in MeantFor(schema, k)
           /\ checked.values[k] = [type |-> shape[p][2], node |-> i, entry |-> p]
    BY <1>2, <1>3
  <2>2. checked.values[k].entry = p
    BY <2>1
  <2>. QED BY <2>1, <2>2
<1>. QED BY <1>2, <1>3 DEF schema, checked

-----------------------------------------------------------------------------
(* What tasks read. *)

\* An address is a name, or the address of a key of one of the layouts.
LEMMA AddressKinds ==
    ASSUME NEW a \in InputAddresses
    PROVE  \/ \E name : a = Named(name)
           \/ \E layout \in Nat \ {0} : \E index : a = [layout |-> layout, index |-> index,
                                                        name |-> NoName]
<1>1. CASE a \in UNION {{Named(name) : name \in NamesOf(s.inputs)} : s \in Schemas}
  BY <1>1
<1>2. ASSUME NEW s \in Schemas, NEW key \in KeysIssued(s, s.inputs, Types), a = Keyed(key)
      PROVE  \E layout \in Nat \ {0} : \E index : a = [layout |-> layout, index |-> index,
                                                       name |-> NoName]
  <2>1. PICK name, type : key \in KeysOf(s, s.inputs, name, type)
    BY DEF KeysIssued
  <2>2. PICK i : key = [layout |-> s.layout, index |-> i, type |-> type]
    BY <2>1, KeysAre
  <2>3. a = [layout |-> s.layout, index |-> i, name |-> NoName]
    BY <1>2, <2>2 DEF Keyed
  <2>. QED BY <2>3, LayoutAssumption
<1>. QED BY <1>1, <1>2 DEF InputAddresses

\* An address is meant for an input exactly if it finds it.
LEMMA MeantIsFound ==
    ASSUME NEW schema \in ValidSchemas, NEW a \in InputAddresses
    PROVE  Meant(schema, a) = InputAt(schema, a)
<1>1. schema.layout \in Nat \ {0}
  BY LayoutAssumption DEF ValidSchemas
<1>2. ASSUME NEW k \in DOMAIN schema.inputs
      PROVE  k \in Meant(schema, a) <=>
                \/ a = Named(schema.inputs[k].name)
                \/ a = [layout |-> schema.layout, index |-> k, name |-> NoName]
  <2> DEFINE key == [layout |-> schema.layout, index |-> k, type |-> schema.inputs[k].type]
             keys == KeysOf(schema, schema.inputs, schema.inputs[k].name,
                            schema.inputs[k].type)
  <2>1. keys = {key}
    BY KeyOfSlot
  <2>2. Keyed(key) = [layout |-> schema.layout, index |-> k, name |-> NoName]
    BY DEF Keyed
  <2>3. k \in Meant(schema, a) <=> \/ a = Named(schema.inputs[k].name)
                                   \/ a \in {Keyed(x) : x \in keys}
    BY DEF Meant
  <2> HIDE DEF key, keys
  <2>4. {Keyed(x) : x \in keys} = {Keyed(key)}
    BY <2>1
  <2>. QED BY <2>2, <2>3, <2>4
<1>3. \A k \in Meant(schema, a) : k \in DOMAIN schema.inputs
  BY DEF Meant
<1>4. ASSUME NEW k \in DOMAIN schema.inputs, NEW name, a = Named(name)
      PROVE  k \in Meant(schema, a) <=> k \in InputAt(schema, a)
  <2>1. a.layout = 0 /\ a.name = name
    BY <1>4 DEF Named
  <2>2. a # [layout |-> schema.layout, index |-> k, name |-> NoName]
    BY <1>1, <2>1
  <2>3. a = Named(schema.inputs[k].name) <=> name = schema.inputs[k].name
    BY <1>4 DEF Named
  <2>. QED BY <1>2, <2>1, <2>2, <2>3 DEF InputAt
<1>5. ASSUME NEW k \in DOMAIN schema.inputs, NEW layout \in Nat \ {0}, NEW index,
             a = [layout |-> layout, index |-> index, name |-> NoName]
      PROVE  k \in Meant(schema, a) <=> k \in InputAt(schema, a)
  <2>1. a.layout = layout /\ a.index = index
    BY <1>5
  <2>2. a # Named(schema.inputs[k].name)
    BY <2>1 DEF Named
  <2>3. a = [layout |-> schema.layout, index |-> k, name |-> NoName]
           <=> layout = schema.layout /\ index = k
    BY <1>5
  <2>. QED BY <1>2, <2>1, <2>2, <2>3 DEF InputAt
<1>. QED BY <1>3, <1>4, <1>5, AddressKinds DEF InputAt

LEMMA OneFound ==
    ASSUME NEW schema \in ValidSchemas, NEW a, NEW k \in InputAt(schema, a),
           NEW l \in InputAt(schema, a)
    PROVE  k = l
<1>1. ValidSlots(schema.inputs)
  BY DEF ValidSchemas, ValidSchema
<1>. QED BY <1>1 DEF InputAt, ValidSlots

\* The values for one input of a task that runs.
Group(i, k, slot, group) ==
    /\ Len(group) \in Nat /\ DOMAIN group = 1..Len(group)
    /\ group \in Seq(ToSet(group))
    /\ \A j \in DOMAIN group : group[j].type = slot.type
    /\ ~slot.many => Len(group) <= 1
    /\ slot.required => Len(group) # 0

LEMMA MadeSeq ==
    ASSUME NEW n \in Nat, NEW f, f = [j \in 1..n |-> f[j]]
    PROVE  Len(f) = n /\ DOMAIN f = 1..n /\ f \in Seq(ToSet(f))
<1>1. DOMAIN f = 1..n
  OBVIOUS
<1>2. \A j \in 1..n : f[j] \in ToSet(f)
  BY <1>1 DEF ToSet
<1> DEFINE S == ToSet(f)
<1> HIDE DEF S
<1>3. f \in [1..n -> S]
  BY <1>2 DEF S
<1>4. f \in Seq(S) /\ Len(f) = n
  BY <1>3
<1>. QED BY <1>1, <1>4 DEF S

LEMMA SuppliedGroup ==
    ASSUME NEW i, NEW k, NEW in, NEW count \in Nat, in.external,
           in.slot.many \in BOOLEAN, in.slot.required \in BOOLEAN
    PROVE  Group(i, k, in.slot, Supplied(in, count))
<1> DEFINE n == IF in.slot.many /\ in.slot.required /\ count = 0 THEN 1
                ELSE IF in.slot.many THEN count
                ELSE IF in.slot.required \/ count > 0 THEN 1 ELSE 0
           f == [j \in 1..n |-> [type |-> in.slot.type, node |-> 0, entry |-> j]]
<1>1. Supplied(in, count) = f
  BY DEF Supplied
<1>2. /\ n \in Nat /\ (~in.slot.many => n <= 1) /\ (in.slot.required => n # 0)
  OBVIOUS
<1>3. \A j \in 1..n : f[j].type = in.slot.type
  OBVIOUS
<1>4. f = [j \in 1..n |-> f[j]]
  OBVIOUS
<1> HIDE DEF f, n
<1>5. Len(f) = n /\ DOMAIN f = 1..n /\ f \in Seq(ToSet(f))
  BY <1>2, <1>4, MadeSeq
<1>. QED BY <1>1, <1>2, <1>3, <1>5 DEF Group

\* What is given to a task that runs: everything it reads was committed.
LEMMA GivenGroup ==
    ASSUME ReportInv, NEW i \in DOMAIN phase, phase[i] = "running",
           NEW k \in DOMAIN Frozen(i).schema.inputs
    PROVE  Group(i, k, Frozen(i).schema.inputs[k], Given(i, k))
<1> DEFINE slot == Frozen(i).schema.inputs[k]
           in == version.inputs[i][k]
<1>1. /\ Started /\ i \in P /\ Frozen(i).schema \in ValidSchemas /\ version.verdict = "Ok"
      /\ PlanFrozen(version)
  BY RunningIs DEF Started, ReportInv, DeclInv
<1>2. InputFrozen(version, i, in, slot) /\ DOMAIN version.inputs[i] = DOMAIN Frozen(i).schema.inputs
  BY <1>1 DEF PlanFrozen, P, Frozen
<1>3. slot.many \in BOOLEAN /\ slot.required \in BOOLEAN
  BY <1>1, SchemaFacts DEF ToSet
<1>4. Early
  <2>1. ASSUME NEW val, Late(val) PROVE FALSE
    <3>1. Open = {}
      BY <2>1 DEF Late
    <3>. QED BY <1>1, <3>1 DEF Open, PhaseIn
  <2>. QED BY <1>1, <2>1 DEF Started
<1>5. CASE in.external
  <2>1. PICK count \in 0..MaxSupplied :
           external = [j \in P |-> [l \in DOMAIN version.inputs[j] |->
                                       Supplied(version.inputs[j][l], count)]]
    BY <1>1 DEF Started, SuppliedAll
  <2>2. external[i][k] = Supplied(in, count) /\ count \in Nat
    BY <1>1, <1>2, <2>1
  <2>3. in.slot = slot
    BY <1>2 DEF InputFrozen
  <2>4. Group(i, k, in.slot, Supplied(in, count))
    BY <1>3, <1>5, <2>2, <2>3, SuppliedGroup
  <2>5. Given(i, k) = external[i][k]
    BY <1>5 DEF Given
  <2>. QED BY <2>2, <2>3, <2>4, <2>5
<1>6. CASE ~in.external
  <2> DEFINE g == [s \in DOMAIN in.sources |-> outputs[in.sources[s].node][in.sources[s].output]]
             n == Len(in.sources)
  <2>1. Given(i, k) = g
    BY <1>6 DEF Given
  <2>2. /\ in.slot = slot
        /\ n \in Nat /\ DOMAIN in.sources = 1..n
        /\ ~slot.many => n <= 1
        /\ slot.required => in.sources # <<>>
    BY <1>2, <1>6 DEF InputFrozen
  <2>3. ASSUME NEW s \in DOMAIN in.sources PROVE g[s].type = slot.type
    <3> DEFINE m == in.sources[s].node
               out == in.sources[s].output
    <3>1. /\ m \in P /\ i \in ToSet(version.successors[m])
          /\ out \in DOMAIN OutputsOf(m) /\ OutputsOf(m)[out].type = slot.type
      BY <1>2, <2>3 DEF InputFrozen, P, OutputsOf, Frozen
    <3>2. m \in Run!Pred(i)
      <4>1. m \in 1..Len(version.ids)
        BY <1>1, <3>1, FrozenFacts
      <4>. QED BY <3>1, <4>1 DEF Run!Pred, Run!Succ, Run!Node, Run!ToSet, ToSet
    <3>3. Ready(i)
      BY <1>1, <1>4 DEF Early
    <3>4. phase[m] = "succeeded"
      BY <3>2, <3>3 DEF Ready, PhaseIn
    <3>5. Whole(m, outputs[m])
      BY <1>4, <3>1, <3>4 DEF Early
    <3>. QED BY <3>1, <3>5 DEF Whole
  <2>4. slot.required => n # 0
    <3>1. ASSUME n = 0, slot.required PROVE FALSE
      <4>1. DOMAIN in.sources = {}
        BY <2>2, <3>1
      <4>2. in.sources # <<>>
        BY <2>2, <3>1
      <4>3. in.external \/ in.sources # <<>>
        BY <4>2
      <4>. QED BY <2>2, <3>1, <4>1, <4>2
    <3>. QED BY <3>1
  <2>5. g = [j \in 1..n |-> g[j]]
    BY <2>2
  <2> HIDE DEF g, n
  <2>6. Len(g) = n /\ DOMAIN g = 1..n /\ g \in Seq(ToSet(g))
    BY <2>2, <2>5, MadeSeq
  <2>. QED BY <2>1, <2>2, <2>3, <2>4, <2>6 DEF Group
<1>. QED BY <1>5, <1>6

\* The slices of a snapshot are what was given.
LEMMA SlicesAreGiven ==
    ASSUME ReportInv, NEW i \in DOMAIN phase, phase[i] = "running",
           NEW k \in DOMAIN Frozen(i).schema.inputs
    PROVE  Slice(BuildInputs(i), k) = Given(i, k)
<1> DEFINE D == DOMAIN Frozen(i).schema.inputs
           n == Len(Frozen(i).schema.inputs)
           groups == [j \in D |-> Given(i, j)]
           V == UNION {ToSet(Given(i, j)) : j \in D}
<1>1. /\ version.verdict = "Ok" /\ i \in P /\ Frozen(i).schema \in ValidSchemas
      /\ PlanFrozen(version)
  BY RunningIs DEF Started, ReportInv, DeclInv
<1>2. DOMAIN version.inputs[i] = D
  BY <1>1 DEF PlanFrozen, P, Frozen
<1>3. BuildInputs(i) = Snapshot(groups)
  BY <1>2 DEF BuildInputs, Given
<1>4. n \in Nat /\ D = 1..n
  <2>1. Frozen(i).schema.inputs \in Seq(ToSet(Frozen(i).schema.inputs))
    BY <1>1, SchemaFacts
  <2>. QED BY <2>1, LenProperties
<1>5. ASSUME NEW j \in 1..n PROVE groups[j] \in Seq(V)
  <2>1. j \in D /\ groups[j] = Given(i, j)
    BY <1>4, <1>5
  <2>2. Given(i, j) \in Seq(ToSet(Given(i, j)))
    BY <2>1, GivenGroup DEF Group
  <2>3. ToSet(Given(i, j)) \subseteq V
    BY <2>1
  <2> HIDE DEF V
  <2>. QED BY <2>1, <2>2, <2>3
<1>6. Len(groups) = n
  <2>1. groups = [j \in 1..n |-> groups[j]]
    BY <1>4
  <2> HIDE DEF groups
  <2>. QED BY <1>4, <2>1, MadeSeq
<1>7. groups[k] = Given(i, k)
  OBVIOUS
<1> HIDE DEF groups, V, n
<1>8. \A j \in 1..n : Slice(Snapshot(groups), j) = groups[j]
  BY <1>4, <1>5, <1>6, SlicesAreGroups
<1>. QED BY <1>3, <1>4, <1>7, <1>8

LEMMA InputsRead == ReportInv => InputsReadable
<1> SUFFICES ASSUME ReportInv, NEW i \in DOMAIN phase, phase[i] = "running",
                    NEW address \in InputAddresses, NEW accessor \in Accessors, NEW type \in Types
             PROVE  LET schema == Frozen(i).schema
                        read == Read(schema, BuildInputs(i), accessor, address, type)
                        fits == {k \in Meant(schema, address) :
                                    /\ schema.inputs[k].type = type
                                    /\ MadeFor(accessor, schema.inputs[k])}
                    IN  /\ read.ok <=> fits # {}
                        /\ \A k \in fits :
                              /\ read.values = Given(i, k)
                              /\ accessor = "required" => Len(read.values) = 1
                              /\ schema.inputs[k].required => read.values # <<>>
                              /\ \A v \in ToSet(read.values) : v.type = type
  BY DEF InputsReadable
<1> DEFINE schema == Frozen(i).schema
           snapshot == BuildInputs(i)
           read == Read(schema, snapshot, accessor, address, type)
           fits == {k \in Meant(schema, address) : /\ schema.inputs[k].type = type
                                                   /\ MadeFor(accessor, schema.inputs[k])}
           good == {k \in InputAt(schema, address) :
                       /\ schema.inputs[k].type = type /\ MadeFor(accessor, schema.inputs[k])
                       /\ accessor # "many" => Len(Slice(snapshot, k)) <= 1
                       /\ accessor = "required" => Slice(snapshot, k) # <<>>
                       /\ \A v \in ToSet(Slice(snapshot, k)) : v.type = type}
<1>1. schema \in ValidSchemas
  BY RunningIs
<1>2. Meant(schema, address) = InputAt(schema, address)
  BY <1>1, MeantIsFound
<1>3. \A k \in DOMAIN schema.inputs :
         Slice(snapshot, k) = Given(i, k) /\ Group(i, k, schema.inputs[k], Given(i, k))
  BY SlicesAreGiven, GivenGroup
<1>4. \A k \in DOMAIN schema.inputs :
         schema.inputs[k].many \in BOOLEAN /\ schema.inputs[k].required \in BOOLEAN
  BY <1>1, SchemaFacts DEF ToSet
<1>5. read = IF good = {} THEN Rejected
             ELSE [ok |-> TRUE, values |-> Slice(snapshot, CHOOSE k \in good : TRUE)]
  BY DEF Read
<1> HIDE DEF schema, snapshot, read
<1>6. ASSUME NEW k \in fits
      PROVE  /\ k \in DOMAIN schema.inputs /\ k \in good
             /\ Slice(snapshot, k) = Given(i, k)
             /\ accessor = "required" => Len(Given(i, k)) = 1
             /\ schema.inputs[k].required => Given(i, k) # <<>>
             /\ \A v \in ToSet(Given(i, k)) : v.type = type
  <2> DEFINE slot == schema.inputs[k]
             group == Given(i, k)
  <2>1. /\ k \in InputAt(schema, address) /\ k \in DOMAIN schema.inputs
        /\ slot.type = type /\ MadeFor(accessor, slot)
    BY <1>2 DEF InputAt
  <2>2. Slice(snapshot, k) = group /\ Group(i, k, slot, group)
    BY <1>3, <2>1
  <2>3. slot.many \in BOOLEAN /\ slot.required \in BOOLEAN
    BY <1>4, <2>1
  <2> HIDE DEF slot, group
  <2>4. /\ accessor # "many" => ~slot.many
        /\ accessor = "required" => slot.required /\ ~slot.many
    BY <2>1, <2>3 DEF MadeFor
  <2>5. Len(group) \in Nat /\ (Len(group) # 0 => group # <<>>)
    <3>1. Len(group) \in Nat /\ DOMAIN group = 1..Len(group)
      BY <2>2 DEF Group
    <3>2. Len(<<>>) = 0
      OBVIOUS
    <3>. QED BY <3>1, <3>2
  <2>6. /\ accessor # "many" => Len(group) <= 1
        /\ accessor = "required" => Len(group) = 1
        /\ slot.required => group # <<>>
    BY <2>2, <2>4, <2>5 DEF Group
  <2>7. \A v \in ToSet(group) : v.type = type
    BY <2>1, <2>2 DEF Group, ToSet
  <2>8. accessor = "required" => group # <<>>
    BY <2>4, <2>6
  <2>9. k \in good
    BY <2>1, <2>2, <2>6, <2>7, <2>8 DEF slot
  <2>. QED BY <2>1, <2>2, <2>6, <2>7, <2>9 DEF slot, group
<1>7. good \subseteq fits
  BY <1>2
<1>8. \A k, l \in good : k = l
  BY <1>1, OneFound
<1> HIDE DEF fits, good
<1>9. ASSUME NEW k \in fits
      PROVE  read.ok /\ read.values = Given(i, k)
  <2>1. k \in good /\ (CHOOSE l \in good : TRUE) = k
    BY <1>6, <1>8
  <2>2. read = [ok |-> TRUE, values |-> Slice(snapshot, k)]
    BY <1>5, <2>1
  <2>. QED BY <1>6, <2>2
<1>10. fits = {} => ~read.ok
  BY <1>5, <1>7 DEF Rejected
<1>. QED BY <1>6, <1>9, <1>10 DEF schema, snapshot, read, fits

-----------------------------------------------------------------------------
(* Steps of the run. *)

LEMMA SameVersion ==
    ASSUME version' = version
    PROVE  /\ P' = P
           /\ \A i : /\ Frozen(i)' = Frozen(i) /\ OutputsOf(i)' = OutputsOf(i)
                     /\ NoOutputs(i)' = NoOutputs(i) /\ Run!Pred(i)' = Run!Pred(i)
           /\ \A i, values : Whole(i, values) => Whole(i, values)'
<1>1. /\ P' = P
      /\ \A i : /\ Frozen(i)' = Frozen(i) /\ OutputsOf(i)' = OutputsOf(i)
                /\ NoOutputs(i)' = NoOutputs(i)
  BY DEF P, Frozen, OutputsOf, NoOutputs
<1>2. \A i : Run!Pred(i)' = Run!Pred(i)
  BY DEF Run!Pred, Run!Succ, Run!Node, Run!ToSet
<1>3. \A i, values : Whole(i, values) => Whole(i, values)'
  BY <1>1 DEF Whole
<1>. QED BY <1>1, <1>2, <1>3

LEMMA WholeNext ==
    ASSUME version' = version, NEW i, Whole(i, outputs'[i]) PROVE Whole(i, outputs[i])'
<1>1. OutputsOf(i)' = OutputsOf(i)
  BY SameVersion
<1>. QED BY <1>1 DEF Whole

LEMMA SuppliedAllNext ==
    ASSUME UNCHANGED <<version, external>>, SuppliedAll PROVE SuppliedAll'
<1>1. P' = P
  BY SameVersion
<1>. QED BY <1>1 DEF SuppliedAll

LEMMA EarlyKeeps ==
    ASSUME Started, Early, UNCHANGED <<version, external, report, handed>>,
           phase' \in [P -> Phases], DOMAIN outputs' = P,
           \A i \in P :
              /\ phase'[i] = "succeeded" => Whole(i, outputs'[i])
              /\ phase'[i] # "succeeded" => outputs'[i] = NoOutputs(i)
              /\ phase'[i] = "running" => Ready(i)
              /\ phase[i] = "succeeded" => phase'[i] = "succeeded"
    PROVE  RunInv'
<1>1. /\ P' = P
      /\ \A i : NoOutputs(i)' = NoOutputs(i) /\ Run!Pred(i)' = Run!Pred(i)
  BY SameVersion
<1>2. ASSUME NEW i \in P PROVE Ready(i) => Ready(i)'
  BY <1>1 DEF Ready, PhaseIn
<1>3. Early'
  <2>1. report' = NoReport /\ handed' = <<>> /\ DOMAIN outputs' = P
    BY DEF Early
  <2>2. ASSUME NEW i \in P, phase'[i] = "succeeded" PROVE Whole(i, outputs[i])'
    BY <2>2, WholeNext
  <2>. QED BY <1>1, <1>2, <2>1, <2>2 DEF Early, NoReport
<1>4. SuppliedAll' /\ (phase \in [P -> Phases])'
  BY <1>1, SuppliedAllNext DEF Started, Phases
<1>. QED BY <1>3, <1>4 DEF RunInv, Started

LEMMA LateStutter ==
    ASSUME UNCHANGED <<version, phase, outputs, report, handed>>, NEW val, Late(val)
    PROVE  Late(val)'
<1>1. /\ P' = P
      /\ \A i : /\ Frozen(i)' = Frozen(i) /\ OutputsOf(i)' = OutputsOf(i)
                /\ NoOutputs(i)' = NoOutputs(i)
      /\ \A i, values : Whole(i, values) => Whole(i, values)'
  BY SameVersion
<1>2. Open' = Open /\ PhaseIn({"failed"})' = PhaseIn({"failed"})
  BY <1>1 DEF Open, PhaseIn
<1>3. \A i, k : Gave(val, i, k)' = Gave(val, i, k)
  BY <1>1 DEF Gave
<1>4. \A i, k : Entry(val, i, k)' = Entry(val, i, k)
  BY <1>1, <1>3 DEF Entry
<1>5. NodeEntries' = NodeEntries
  BY <1>1 DEF NodeEntries
<1>6. TargetsLate(val)'
  BY <1>1, <1>4 DEF Late, TargetsLate
<1>7. HandedLate(val)'
  BY <1>1 DEF Late, HandedLate
<1>. QED BY <1>1, <1>2, <1>5, <1>6, <1>7 DEF Late, NoReport

LEMMA RunStutter ==
    ASSUME RunInv, UNCHANGED <<version, phase, external, outputs, report, handed>>,
           phase # <<>> \/ UNCHANGED stop
    PROVE  RunInv'
<1>1. CASE phase = <<>> /\ stop = FALSE /\ report = NoReport /\ handed = <<>>
  BY <1>1 DEF RunInv, NoReport
<1>2. CASE Started /\ Early
  <2>1. /\ phase' \in [P -> Phases] /\ DOMAIN outputs' = P
        /\ \A i \in P :
              /\ phase'[i] = "succeeded" => Whole(i, outputs'[i])
              /\ phase'[i] # "succeeded" => outputs'[i] = NoOutputs(i)
              /\ phase'[i] = "running" => Ready(i)
              /\ phase[i] = "succeeded" => phase'[i] = "succeeded"
    BY <1>2 DEF Started, Early
  <2>. QED BY <1>2, <2>1, EarlyKeeps
<1>3. ASSUME Started, NEW val, Late(val) PROVE RunInv'
  <2>1. Late(val)'
    BY <1>3, LateStutter
  <2>2. SuppliedAll' /\ (phase \in [P -> Phases])'
    BY <1>3, SameVersion, SuppliedAllNext DEF Started, Phases
  <2>. QED BY <1>3, <2>1, <2>2 DEF RunInv, Started
<1>. QED BY <1>1, <1>2, <1>3 DEF RunInv, Started

\* Only what is undecided waits, runs or may fail: the report is not taken.
LEMMA OpenIsEarly ==
    ASSUME ReportInv, phase # <<>>, NEW i \in P, phase[i] \in {"waiting", "running"}
    PROVE  Started /\ Early
<1>1. Started
  BY DEF ReportInv, RunInv
<1>2. ASSUME NEW val, Late(val) PROVE FALSE
  BY <1>2 DEF Late, Open, PhaseIn
<1>. QED BY <1>1, <1>2 DEF Started

LEMMA ClaimStep ==
    ASSUME ReportInv, phase # <<>>, version' = version, NEW i \in P, Claim(i)
    PROVE  RunInv'
<1>1. Started /\ Early
  BY OpenIsEarly DEF Claim
<1>2. phase \in [P -> Phases] /\ phase' = [phase EXCEPT ![i] = "running"] /\ Ready(i)
  BY <1>1 DEF Started, Claim
<1>3. /\ phase' \in [P -> Phases] /\ DOMAIN outputs' = P
      /\ \A j \in P :
            /\ phase'[j] = "succeeded" => Whole(j, outputs'[j])
            /\ phase'[j] # "succeeded" => outputs'[j] = NoOutputs(j)
            /\ phase'[j] = "running" => Ready(j)
            /\ phase[j] = "succeeded" => phase'[j] = "succeeded"
  <2>1. phase' \in [P -> Phases]
    BY <1>2 DEF Phases
  <2>2. outputs' = outputs /\ phase[i] = "waiting"
    BY DEF Claim
  <2>. QED BY <1>1, <1>2, <2>1, <2>2 DEF Early
<1>. QED BY <1>1, <1>3, EarlyKeeps DEF Claim

LEMMA DiscardStep ==
    ASSUME ReportInv, phase # <<>>, version' = version, NEW i \in P, Discard(i)
    PROVE  RunInv'
<1>1. phase[i] \in {"waiting", "running"}
  BY DEF Discard, Open, PhaseIn
<1>2. Started /\ Early
  BY <1>1, OpenIsEarly
<1>3. phase \in [P -> Phases] /\ phase' = [phase EXCEPT ![i] = "cancelled"] /\ outputs' = outputs
  BY <1>2 DEF Started, Discard
<1>4. /\ phase' \in [P -> Phases] /\ DOMAIN outputs' = P
      /\ \A j \in P :
            /\ phase'[j] = "succeeded" => Whole(j, outputs'[j])
            /\ phase'[j] # "succeeded" => outputs'[j] = NoOutputs(j)
            /\ phase'[j] = "running" => Ready(j)
            /\ phase[j] = "succeeded" => phase'[j] = "succeeded"
  <2>1. phase' \in [P -> Phases]
    BY <1>3 DEF Phases
  <2>. QED BY <1>1, <1>2, <1>3, <2>1 DEF Early
<1>. QED BY <1>2, <1>4, EarlyKeeps DEF Discard

LEMMA FailStep ==
    ASSUME ReportInv, phase # <<>>, NEW i \in P, phase[i] \in {"waiting", "running"}, Fail(i),
           UNCHANGED <<version, external, report, handed>>
    PROVE  RunInv'
<1> DEFINE hit == Run!Downstream(i, Open \ {i})
<1>1. Started /\ Early
  BY OpenIsEarly
<1>2. hit \subseteq Open \ {i}
  BY DEF Run!Downstream
<1>3. /\ phase' = [j \in P |-> IF j = i THEN "failed"
                               ELSE IF j \in hit THEN "blocked" ELSE phase[j]]
      /\ outputs' = outputs
  BY DEF Fail
<1> HIDE DEF hit
<1>4. phase \in [P -> Phases]
  BY <1>1 DEF Started
<1>5. \A j \in hit : phase[j] \in {"waiting", "running"}
  BY <1>2 DEF Open, PhaseIn
<1>6. /\ phase' \in [P -> Phases] /\ DOMAIN outputs' = P
      /\ \A j \in P :
            /\ phase'[j] = "succeeded" => Whole(j, outputs'[j])
            /\ phase'[j] # "succeeded" => outputs'[j] = NoOutputs(j)
            /\ phase'[j] = "running" => Ready(j)
            /\ phase[j] = "succeeded" => phase'[j] = "succeeded"
  <2>1. phase' \in [P -> Phases]
    BY <1>3, <1>4 DEF Phases
  <2>. QED BY <1>1, <1>3, <1>5, <2>1 DEF Early
<1>. QED BY <1>1, <1>6, EarlyKeeps

\* The values of an accepted bag are whole.
LEMMA AcceptedWhole ==
    ASSUME NEW i, NEW shape \in Shapes, Frozen(i).schema \in ValidSchemas,
           ValidateOutputs(Frozen(i).schema, Bag(i, shape)).ok
    PROVE  Whole(i, ValidateOutputs(Frozen(i).schema, Bag(i, shape)).values)
<1> DEFINE schema == Frozen(i).schema
           values == ValidateOutputs(schema, Bag(i, shape)).values
           D == DOMAIN schema.outputs
           Value(p) == [type |-> shape[p][2], node |-> i, entry |-> p]
<1>1. /\ schema \in ValidSchemas /\ OutputsOf(i) = schema.outputs
  BY DEF OutputsOf
<1>2. /\ Len(shape) = Len(schema.outputs)
      /\ values \in [D -> BagValues(i, shape)]
      /\ \A k \in D : \E p \in DOMAIN shape :
            shape[p] \in MeantFor(schema, k) /\ values[k] = Value(p)
  BY BagAccepted
<1> HIDE DEF schema, values
<1>3. Len(shape) <= MaxEntries
  <2>1. PICK n \in 0..MaxEntries : shape \in [1..n -> Entries]
    BY DEF Shapes, SeqOf
  <2>2. Len(shape) = n
    BY <2>1, EntryAssumption
  <2>. QED BY <2>1, <2>2, EntryAssumption
<1>4. ASSUME NEW k \in D
      PROVE  values[k].type = schema.outputs[k].type /\ values[k].node = i /\ values[k] # NoValue
  <2>1. PICK p \in DOMAIN shape : shape[p] \in MeantFor(schema, k) /\ values[k] = Value(p)
    BY <1>2
  <2>2. Hits(schema, Bag(i, shape), p, k)
    BY <1>1, <2>1, MeantIsHit
  <2>3. Bag(i, shape)[p].value = Value(p)
    BY Shaped
  <2>4. Value(p).type = schema.outputs[k].type
    BY <2>2, <2>3 DEF Hits
  <2>5. Value(p) # NoValue /\ Value(p).node = i
    BY DEF NoValue
  <2>. QED BY <2>1, <2>4, <2>5
<1>5. ASSUME NEW k \in D, NEW l \in D, values[k] = values[l] PROVE k = l
  <2>1. PICK p \in DOMAIN shape : shape[p] \in MeantFor(schema, k) /\ values[k] = Value(p)
    BY <1>2
  <2>2. PICK q \in DOMAIN shape : shape[q] \in MeantFor(schema, l) /\ values[l] = Value(q)
    BY <1>2
  <2>3. p = q
    <3>1. Value(p).entry = p /\ Value(q).entry = q
      OBVIOUS
    <3>. QED BY <1>5, <2>1, <2>2, <3>1
  <2>. QED BY <1>1, <2>1, <2>2, <2>3, MeantOnce
<1>. QED BY <1>1, <1>2, <1>3, <1>4, <1>5 DEF Whole, schema, values

LEMMA ReturnStep ==
    ASSUME ReportInv, phase # <<>>, version' = version, NEW i \in P, NEW shape \in Shapes,
           TaskReturns(i, Bag(i, shape))
    PROVE  RunInv'
<1> DEFINE checked == ValidateOutputs(Frozen(i).schema, Bag(i, shape))
<1>1. phase[i] = "running" /\ UNCHANGED <<external, report, handed>>
  BY DEF TaskReturns
<1>2. Started /\ Early /\ phase \in [P -> Phases]
  <2>1. Started /\ Early
    BY <1>1, OpenIsEarly
  <2>. QED BY <2>1 DEF Started
<1>3. /\ \A j \in P : phase[j] = "succeeded" => Whole(j, outputs[j])
      /\ \A j \in P : phase[j] # "succeeded" => outputs[j] = NoOutputs(j)
      /\ \A j \in P : phase[j] = "running" => Ready(j)
      /\ DOMAIN outputs = P
  BY <1>2 DEF Early
<1>4. CASE ~checked.ok
  BY <1>1, <1>4, FailStep DEF TaskReturns
<1>5. CASE checked.ok /\ stop
  <2>1. phase' = [phase EXCEPT ![i] = "cancelled"] /\ outputs' = outputs
    BY <1>5 DEF TaskReturns
  <2>2. /\ phase' \in [P -> Phases]
        /\ \A j \in P :
              /\ phase'[j] = "succeeded" => Whole(j, outputs'[j])
              /\ phase'[j] # "succeeded" => outputs'[j] = NoOutputs(j)
              /\ phase'[j] = "running" => Ready(j)
              /\ phase[j] = "succeeded" => phase'[j] = "succeeded"
    <3>1. phase' \in [P -> Phases]
      BY <1>2, <2>1 DEF Phases
    <3>. QED BY <1>1, <1>2, <1>3, <2>1, <3>1
  <2>. QED BY <1>1, <1>2, <1>3, <2>1, <2>2, EarlyKeeps
<1>6. CASE checked.ok /\ ~stop
  <2> DEFINE values == checked.values
  <2>1. phase' = [phase EXCEPT ![i] = "succeeded"] /\ outputs' = [outputs EXCEPT ![i] = values]
    BY <1>6 DEF TaskReturns
  <2>2. Whole(i, values)
    <3>1. i \in DOMAIN phase
      BY <1>2
    <3>2. Frozen(i).schema \in ValidSchemas
      BY <3>1, RunningIs
    <3>. QED BY <1>6, <3>2, AcceptedWhole
  <2> HIDE DEF values, checked
  <2>3. DOMAIN outputs' = P /\ outputs'[i] = values /\ \A j \in P : j # i => outputs'[j] = outputs[j]
    BY <1>3, <2>1
  <2>4. /\ phase' \in [P -> Phases]
        /\ \A j \in P :
              /\ phase'[j] = "succeeded" => Whole(j, outputs'[j])
              /\ phase'[j] # "succeeded" => outputs'[j] = NoOutputs(j)
              /\ phase'[j] = "running" => Ready(j)
              /\ phase[j] = "succeeded" => phase'[j] = "succeeded"
    <3>1. phase' \in [P -> Phases]
      BY <1>2, <2>1 DEF Phases
    <3>2. phase'[i] = "succeeded" /\ \A j \in P : j # i => phase'[j] = phase[j]
      BY <1>2, <2>1
    <3>3. ASSUME NEW j \in P
          PROVE  /\ phase'[j] = "succeeded" => Whole(j, outputs'[j])
                 /\ phase'[j] # "succeeded" => outputs'[j] = NoOutputs(j)
                 /\ phase'[j] = "running" => Ready(j)
                 /\ phase[j] = "succeeded" => phase'[j] = "succeeded"
      <4>1. CASE j = i
        BY <2>2, <2>3, <3>2, <4>1
      <4>2. CASE j # i
        BY <1>3, <2>3, <3>2, <4>2
      <4>. QED BY <4>1, <4>2
    <3>. QED BY <3>1, <3>3
  <2>. QED BY <1>1, <1>2, <2>3, <2>4, EarlyKeeps
<1>. QED BY <1>4, <1>5, <1>6

LEMMA StartStep ==
    ASSUME ReportInv, version' = version, NEW count \in 0..MaxSupplied, StartRun(count)
    PROVE  RunInv'
<1>1. /\ version.verdict = "Ok" /\ phase = <<>>
      /\ phase' = [i \in P |-> "waiting"] /\ outputs' = [i \in P |-> NoOutputs(i)]
      /\ external' = [i \in P |-> [k \in DOMAIN version.inputs[i] |->
                                      Supplied(version.inputs[i][k], count)]]
      /\ UNCHANGED <<report, handed>>
  BY DEF StartRun
<1>2. report = NoReport /\ handed = <<>>
  <2>1. ASSUME Started PROVE FALSE
    <3>1. DOMAIN phase = P /\ P # {}
      BY <1>1, <2>1, FrozenFacts DEF Started, ReportInv, DeclInv
    <3>. QED BY <1>1, <3>1
  <2>. QED BY <2>1 DEF ReportInv, RunInv
<1>3. P' = P /\ \A i : NoOutputs(i)' = NoOutputs(i)
  BY SameVersion
<1>4. Early'
  <2>1. report' = NoReport /\ handed' = <<>> /\ DOMAIN outputs' = P
    BY <1>1, <1>2
  <2>2. \A i \in P : outputs'[i] = NoOutputs(i) /\ phase'[i] = "waiting"
    BY <1>1
  <2>. QED BY <1>3, <2>1, <2>2 DEF Early, NoReport
<1>5. SuppliedAll'
  BY <1>1, <1>3 DEF SuppliedAll, Supplied
<1>6. (phase \in [P -> Phases])'
  BY <1>1, <1>3 DEF Phases
<1>. QED BY <1>1, <1>4, <1>5, <1>6 DEF RunInv, Started

\* The targets of a report, made from the rows of the active nodes.
ActiveRows == InOrder({i \in P : Frozen(i).active})
Row(i) == [k \in DOMAIN OutputsOf(i) |-> Target(i, k)]

LEMMA RowFacts ==
    ASSUME PlanFrozen(version), version.verdict = "Ok", NEW i \in P
    PROVE  /\ Row(i) \in Seq(ToSet(Row(i))) /\ IsInjective(Row(i))
           /\ DOMAIN Row(i) = DOMAIN OutputsOf(i)
           /\ ToSet(Row(i)) = {Target(i, k) : k \in DOMAIN OutputsOf(i)}
           /\ \A k, l \in DOMAIN OutputsOf(i) : OutputsOf(i)[k].id = OutputsOf(i)[l].id => k = l
<1>1. Frozen(i).schema \in ValidSchemas
  BY FrozenFacts
<1>2. /\ OutputsOf(i) \in Seq(ToSet(OutputsOf(i)))
      /\ \A k, l \in DOMAIN OutputsOf(i) : OutputsOf(i)[k].id = OutputsOf(i)[l].id => k = l
  <2>1. OutputsOf(i) \in Seq(ToSet(OutputsOf(i))) /\ ValidSlots(OutputsOf(i))
    BY <1>1, SchemaFacts DEF OutputsOf, ValidSchemas, ValidSchema
  <2>. QED BY <2>1 DEF ValidSlots
<1> DEFINE n == Len(OutputsOf(i))
<1>3. n \in Nat /\ DOMAIN OutputsOf(i) = 1..n
  BY <1>2, LenProperties
<1>4. Row(i) = [k \in 1..n |-> Row(i)[k]] /\ \A k \in 1..n : Row(i)[k] = Target(i, k)
  BY <1>3 DEF Row
<1> HIDE DEF n
<1>5. DOMAIN Row(i) = 1..n /\ Row(i) \in Seq(ToSet(Row(i)))
  BY <1>3, <1>4, MadeSeq
<1>6. \A k \in 1..n : Target(i, k).slot = OutputsOf(i)[k].id
  BY DEF Target
<1>7. IsInjective(Row(i))
  BY <1>2, <1>3, <1>4, <1>5, <1>6 DEF IsInjective
<1>8. ToSet(Row(i)) = {Target(i, k) : k \in DOMAIN OutputsOf(i)}
  BY <1>3, <1>4, <1>5 DEF ToSet
<1>. QED BY <1>2, <1>3, <1>5, <1>7, <1>8

LEMMA ActiveRowsAre ==
    ASSUME PlanFrozen(version), version.verdict = "Ok"
    PROVE  /\ ActiveRows \in Seq({i \in P : Frozen(i).active}) /\ IsInjective(ActiveRows)
           /\ ToSet(ActiveRows) = {i \in P : Frozen(i).active}
           /\ Len(ActiveRows) \in Nat /\ DOMAIN ActiveRows = 1..Len(ActiveRows)
<1> DEFINE A == {i \in P : Frozen(i).active}
<1>1. A \in SUBSET Nat /\ IsFiniteSet(A)
  <2>1. P = 1..Len(version.ids) /\ Len(version.ids) \in Nat
    BY FrozenFacts
  <2>2. IsFiniteSet(P) /\ A \subseteq P
    BY <2>1, FS_Interval
  <2>3. P \subseteq Nat
    BY <2>1
  <2> HIDE DEF A
  <2>. QED BY <2>2, <2>3, FS_Subset
<1> HIDE DEF A
<1>2. InOrder(A) \in Seq(A) /\ IsInjective(InOrder(A)) /\ ToSet(InOrder(A)) = A
  BY <1>1, InOrderFacts
<1>3. ActiveRows = InOrder(A)
  BY DEF ActiveRows, A
<1>4. Len(ActiveRows) \in Nat /\ DOMAIN ActiveRows = 1..Len(ActiveRows)
  BY <1>2, <1>3, LenProperties
<1>. QED BY <1>2, <1>3, <1>4 DEF A

LEMMA TargetsAre ==
    ASSUME PlanFrozen(version), version.verdict = "Ok", NEW targets,
           targets = FlattenSeq([j \in DOMAIN ActiveRows |-> Row(ActiveRows[j])])
    PROVE  /\ targets = [t \in DOMAIN targets |-> targets[t]]
           /\ \A t \in DOMAIN targets : \E i \in P : \E k \in DOMAIN OutputsOf(i) :
                 Frozen(i).active /\ targets[t] = Target(i, k)
           /\ \A i \in P : Frozen(i).active =>
                 \A k \in DOMAIN OutputsOf(i) : \E t \in DOMAIN targets :
                    targets[t] = Target(i, k)
           /\ \A t, u \in DOMAIN targets :
                 targets[t].node = targets[u].node /\ targets[t].slot = targets[u].slot => t = u
<1> DEFINE rows == [j \in DOMAIN ActiveRows |-> Row(ActiveRows[j])]
           T == UNION {ToSet(Row(i)) : i \in P}
           n == Len(ActiveRows)
<1>1. /\ n \in Nat /\ DOMAIN ActiveRows = 1..n /\ IsInjective(ActiveRows)
      /\ ToSet(ActiveRows) = {i \in P : Frozen(i).active}
      /\ \A j \in 1..n : ActiveRows[j] \in P /\ Frozen(ActiveRows[j]).active
  <2>1. ActiveRows \in Seq({i \in P : Frozen(i).active})
    BY ActiveRowsAre
  <2>2. \A j \in 1..n : ActiveRows[j] \in {i \in P : Frozen(i).active}
    BY <2>1, ElementOfSeq
  <2>. QED BY <2>2, ActiveRowsAre
<1> HIDE DEF n
<1>2. /\ rows = [j \in 1..n |-> rows[j]]
      /\ \A j \in 1..n : rows[j] = Row(ActiveRows[j])
  BY <1>1
<1> HIDE DEF rows
<1>3. DOMAIN rows = 1..n /\ rows \in Seq(ToSet(rows))
  BY <1>1, <1>2, MadeSeq
<1>4. \A i \in P : Row(i) \in Seq(T)
  <2> SUFFICES ASSUME NEW i \in P PROVE Row(i) \in Seq(T)
    OBVIOUS
  <2>1. Row(i) \in Seq(ToSet(Row(i))) /\ ToSet(Row(i)) \subseteq T
    BY RowFacts
  <2> HIDE DEF T
  <2>. QED BY <2>1
<1> HIDE DEF T
<1>5. rows \in Seq(Seq(T))
  <2>1. \A j \in 1..n : rows[j] \in Seq(T)
    BY <1>1, <1>2, <1>4
  <2>2. rows \in [1..n -> Seq(T)]
    BY <1>2, <2>1
  <2>. QED BY <1>1, <2>2
<1>6. targets \in Seq(T) /\ ToSet(targets) = UNION {ToSet(rows[j]) : j \in DOMAIN rows}
  <2>1. targets = FlattenSeq(rows)
    BY DEF rows
  <2>. QED BY <1>5, <2>1, FlattenType, FlattenElements
<1>7. \A i \in P : \A k \in DOMAIN OutputsOf(i) :
         Target(i, k).node = version.ids[i] /\ Target(i, k).slot = OutputsOf(i)[k].id
  BY DEF Target
<1>8. IsInjective(targets)
  <2>1. \A j \in DOMAIN rows : IsInjective(rows[j])
    BY <1>1, <1>2, <1>3, RowFacts
  <2>2. ASSUME NEW j \in DOMAIN rows, NEW l \in DOMAIN rows, NEW x \in ToSet(rows[j]),
               x \in ToSet(rows[l])
        PROVE  j = l
    <3>1. ActiveRows[j] \in P /\ ActiveRows[l] \in P
      BY <1>1, <1>3
    <3>2. x.node = version.ids[ActiveRows[j]] /\ x.node = version.ids[ActiveRows[l]]
      <4>1. /\ x \in {Target(ActiveRows[j], k) : k \in DOMAIN OutputsOf(ActiveRows[j])}
            /\ x \in {Target(ActiveRows[l], k) : k \in DOMAIN OutputsOf(ActiveRows[l])}
        BY <1>2, <1>3, <2>2, <3>1, RowFacts
      <4>. QED BY <1>7, <3>1, <4>1
    <3>3. ActiveRows[j] = ActiveRows[l]
      BY <3>1, <3>2, FrozenFacts
    <3>. QED BY <1>1, <1>3, <3>3 DEF IsInjective
  <2>3. \A j, l \in DOMAIN rows : j # l => ToSet(rows[j]) \cap ToSet(rows[l]) = {}
    BY <2>2
  <2>4. targets = FlattenSeq(rows)
    BY DEF rows
  <2>. QED BY <1>5, <2>1, <2>3, <2>4, FlattenInjective
<1>9. ASSUME NEW t \in DOMAIN targets
      PROVE  \E i \in P : \E k \in DOMAIN OutputsOf(i) :
                Frozen(i).active /\ targets[t] = Target(i, k)
  <2>1. targets[t] \in ToSet(targets)
    BY DEF ToSet
  <2>2. PICK j \in DOMAIN rows : targets[t] \in ToSet(rows[j])
    BY <1>6, <2>1
  <2>3. ActiveRows[j] \in P /\ Frozen(ActiveRows[j]).active /\ rows[j] = Row(ActiveRows[j])
    BY <1>1, <1>2, <1>3
  <2>4. targets[t] \in {Target(ActiveRows[j], k) : k \in DOMAIN OutputsOf(ActiveRows[j])}
    BY <2>2, <2>3, RowFacts
  <2>. QED BY <2>3, <2>4
<1>10. ASSUME NEW i \in P, Frozen(i).active, NEW k \in DOMAIN OutputsOf(i)
       PROVE  \E t \in DOMAIN targets : targets[t] = Target(i, k)
  <2>1. i \in ToSet(ActiveRows)
    BY <1>1, <1>10
  <2>2. PICK j \in DOMAIN rows : ActiveRows[j] = i
    BY <1>1, <1>3, <2>1 DEF ToSet
  <2>3. Target(i, k) \in ToSet(rows[j])
    BY <1>2, <1>3, <2>2, RowFacts
  <2>4. Target(i, k) \in ToSet(targets)
    BY <1>6, <2>3
  <2>. QED BY <2>4 DEF ToSet
<1>11. ASSUME NEW t \in DOMAIN targets, NEW u \in DOMAIN targets,
              targets[t].node = targets[u].node, targets[t].slot = targets[u].slot
       PROVE  t = u
  <2>1. PICK i \in P : \E k \in DOMAIN OutputsOf(i) : targets[t] = Target(i, k)
    BY <1>9
  <2>2. PICK k \in DOMAIN OutputsOf(i) : targets[t] = Target(i, k)
    BY <2>1
  <2>3. PICK j \in P : \E l \in DOMAIN OutputsOf(j) : targets[u] = Target(j, l)
    BY <1>9
  <2>4. PICK l \in DOMAIN OutputsOf(j) : targets[u] = Target(j, l)
    BY <2>3
  <2>5. i = j
    BY <1>7, <1>11, <2>2, <2>4, FrozenFacts
  <2>6. k = l
    BY <1>7, <1>11, <2>2, <2>4, <2>5, RowFacts
  <2>. QED BY <1>8, <2>2, <2>4, <2>5, <2>6 DEF IsInjective
<1>12. targets = [t \in DOMAIN targets |-> targets[t]]
  BY <1>6, LenProperties
<1>. QED BY <1>9, <1>10, <1>11, <1>12

LEMMA TakeReportStep ==
    ASSUME ReportInv, phase # <<>>, version' = version, TakeReport
    PROVE  RunInv' /\ report' # NoReport
<1> DEFINE A == {i \in P : Frozen(i).active}
<1>1. Started /\ PlanFrozen(version) /\ version.verdict = "Ok"
  BY DEF ReportInv, RunInv, Started, DeclInv
<1>2. Early /\ handed = <<>>
  <2>1. Early
    BY <1>1 DEF TakeReport, Started, Late
  <2>. QED BY <2>1 DEF Early
<1>3. /\ Open = {} /\ UNCHANGED <<phase, external, handed>>
      /\ outputs' = [i \in P |-> IF Frozen(i).active THEN NoOutputs(i) ELSE outputs[i]]
  BY DEF TakeReport
<1>4. /\ P' = P
      /\ \A i : /\ Frozen(i)' = Frozen(i) /\ OutputsOf(i)' = OutputsOf(i)
                /\ NoOutputs(i)' = NoOutputs(i)
      /\ \A i, values : Whole(i, values) => Whole(i, values)'
  BY SameVersion
<1>5. Open' = Open /\ PhaseIn({"failed"})' = PhaseIn({"failed"})
  BY <1>3, <1>4 DEF Open, PhaseIn
<1> DEFINE failed == InOrder(PhaseIn({"failed"}))
           failures == [j \in DOMAIN failed |-> version.ids[failed[j]]]
           targets == FlattenSeq([j \in DOMAIN ActiveRows |-> Row(ActiveRows[j])])
<1>6. report' = [nodes |-> NodeEntries, failures |-> failures, targets |-> targets]
  <2>1. targets = FlattenSeq([j \in DOMAIN InOrder(A) |->
                     [k \in DOMAIN OutputsOf(InOrder(A)[j]) |-> Target(InOrder(A)[j], k)]])
    BY DEF ActiveRows, Row
  <2>. QED BY <2>1 DEF TakeReport, NodeEntries
<1>7. NodeEntries' = NodeEntries
  BY <1>3, <1>4 DEF NodeEntries
<1>8. ToSet(failures) = {version.ids[i] : i \in PhaseIn({"failed"})}
  <2> DEFINE F == PhaseIn({"failed"})
  <2>1. F \in SUBSET Nat /\ IsFiniteSet(F)
    <3>1. P = 1..Len(version.ids) /\ Len(version.ids) \in Nat
      BY <1>1, FrozenFacts
    <3>2. IsFiniteSet(P) /\ F \subseteq P /\ P \subseteq Nat
      BY <3>1, FS_Interval DEF PhaseIn
    <3> HIDE DEF F
    <3>. QED BY <3>2, FS_Subset
  <2> HIDE DEF F
  <2>2. ToSet(InOrder(F)) = F
    BY <2>1, InOrderFacts
  <2>3. failures = [j \in DOMAIN InOrder(F) |-> version.ids[InOrder(F)[j]]]
    BY DEF F
  <2> HIDE DEF failures
  <2>. QED BY <2>2, <2>3 DEF ToSet, F
<1> HIDE DEF failures, targets, A
<1>9. report' # NoReport
  <2>1. DOMAIN NodeEntries = P /\ P # {}
    BY <1>1, FrozenFacts DEF NodeEntries
  <2>2. report'.nodes = NodeEntries /\ NoReport.nodes = <<>>
    BY <1>6 DEF NoReport
  <2>. QED BY <2>1, <2>2
<1>10. /\ targets = [t \in DOMAIN targets |-> targets[t]]
       /\ \A t \in DOMAIN targets : \E i \in P : \E k \in DOMAIN OutputsOf(i) :
             Frozen(i).active /\ targets[t] = Target(i, k)
       /\ \A i \in P : Frozen(i).active =>
             \A k \in DOMAIN OutputsOf(i) : \E t \in DOMAIN targets :
                targets[t] = Target(i, k)
       /\ \A t, u \in DOMAIN targets :
             targets[t].node = targets[u].node /\ targets[t].slot = targets[u].slot => t = u
  BY <1>1, TargetsAre DEF targets
<1>11. PICK val : val = outputs
  OBVIOUS
<1>12. \A i \in P : /\ phase[i] = "succeeded" => Whole(i, val[i])
                    /\ phase[i] # "succeeded" => outputs[i] = NoOutputs(i)
  BY <1>2, <1>11 DEF Early
<1>13. \A i, k : ~Gave(val, i, k)'
  <2>1. handed' = <<>>
    BY <1>2, <1>3
  <2>. QED BY <2>1 DEF Gave
<1>14. ASSUME NEW i \in P, NEW k \in DOMAIN OutputsOf(i)
       PROVE  Target(i, k) = Entry(val, i, k)'
  <2>1. outputs[i][k] = IF phase[i] = "succeeded" THEN val[i][k] ELSE NoValue
    BY <1>11, <1>12 DEF NoOutputs
  <2>2. Gave(val, i, k)' = FALSE
    BY <1>13 DEF Gave
  <2>3. Entry(val, i, k)' = [node |-> version.ids[i], slot |-> OutputsOf(i)[k].id,
                             generation |-> Frozen(i).generation,
                             value |-> IF phase[i] = "succeeded" THEN val[i][k] ELSE NoValue,
                             taken |-> FALSE]
    BY <1>3, <1>4, <2>2 DEF Entry, NoValue
  <2>. QED BY <2>1, <2>3 DEF Target
<1>15. TargetsLate(val)'
  <2>1. report'.targets = targets
    BY <1>6
  <2>. QED BY <1>4, <1>10, <1>14, <2>1 DEF TargetsLate
<1>16. HandedLate(val)'
  <2>1. handed' = <<>>
    BY <1>2, <1>3
  <2>. QED BY <2>1 DEF HandedLate
<1>17. Late(val)'
  <2>1. (report = [nodes |-> NodeEntries, failures |-> report.failures,
                   targets |-> report.targets])'
    BY <1>6, <1>7
  <2>2. (ToSet(report.failures) = {version.ids[i] : i \in PhaseIn({"failed"})})'
    <3>1. report'.failures = failures
      BY <1>6
    <3>2. ToSet(report.failures)' = ToSet(failures)
      BY <3>1 DEF ToSet
    <3>. QED BY <1>5, <1>8, <3>2
  <2>3. ASSUME NEW i \in P
        PROVE  /\ phase[i] = "succeeded" => Whole(i, val[i])
               /\ outputs'[i] = IF phase[i] = "succeeded" /\ ~Frozen(i).active THEN val[i]
                                ELSE NoOutputs(i)
    BY <1>3, <1>11, <1>12
  <2>4. (\A i \in P :
           /\ phase[i] = "succeeded" => Whole(i, val[i])
           /\ outputs[i] = IF phase[i] = "succeeded" /\ ~Frozen(i).active THEN val[i]
                           ELSE NoOutputs(i))'
    BY <1>3, <1>4, <2>3
  <2>5. (DOMAIN outputs = P)' /\ (report # NoReport)' /\ (Open = {})'
    BY <1>3, <1>4, <1>5, <1>9 DEF NoReport
  <2>. QED BY <1>15, <1>16, <2>1, <2>2, <2>4, <2>5 DEF Late
<1>18. SuppliedAll' /\ (phase \in [P -> Phases])'
  BY <1>1, <1>3, <1>4, SuppliedAllNext DEF Started, Phases
<1>. QED BY <1>1, <1>9, <1>17, <1>18 DEF RunInv, Started

\* A report answers with a value only if the target still has one, of the type
\* of the handle.
LEMMA AnswerValue ==
    ASSUME NEW h, Answer(h) = "value"
    PROVE  LET target == report.targets[CHOOSE t \in TargetsAt(h) : TRUE]
           IN  /\ TargetsAt(h) # {} /\ h.graph = "own" /\ Known(h)
               /\ target.value # NoValue /\ target.value.type = h.type
<1> DEFINE target == report.targets[CHOOSE t \in TargetsAt(h) : TRUE]
<1>1. CASE h.graph # "own"
  BY <1>1 DEF Answer
<1>2. CASE h.graph = "own" /\ NodesAt(h) = {}
  BY <1>2 DEF Answer
<1>3. CASE h.graph = "own" /\ NodesAt(h) # {} /\ ~Known(h)
  BY <1>3 DEF Answer
<1>4. CASE h.graph = "own" /\ NodesAt(h) # {} /\ Known(h) /\ TargetsAt(h) = {}
  BY <1>4 DEF Answer
<1>5. CASE h.graph = "own" /\ NodesAt(h) # {} /\ Known(h) /\ TargetsAt(h) # {}
  <2>1. Answer(h) = IF target.value # NoValue
                    THEN IF target.value.type = h.type THEN "value" ELSE "TypeMismatch"
                    ELSE IF target.taken THEN "OutputTaken" ELSE "OutputUnavailable"
    BY <1>5 DEF Answer
  <2> HIDE DEF target
  <2>2. target.value # NoValue /\ target.value.type = h.type
    BY <2>1
  <2>. QED BY <1>5, <2>2 DEF target
<1>. QED BY <1>1, <1>2, <1>3, <1>4, <1>5

\* The target of a handle, if its report has one.
LEMMA TargetFound ==
    ASSUME NEW val, Late(val), NEW h, NEW t \in TargetsAt(h)
    PROVE  /\ t \in DOMAIN report.targets /\ (CHOOSE u \in TargetsAt(h) : TRUE) = t
           /\ \E i \in P : \E k \in DOMAIN OutputsOf(i) :
                 /\ Frozen(i).active /\ report.targets[t] = Entry(val, i, k)
                 /\ h.node = version.ids[i] /\ h.slot = OutputsOf(i)[k].id
                 /\ h.generation = Frozen(i).generation
<1>1. TargetsLate(val)
  BY DEF Late
<1>2. \A u \in TargetsAt(h) :
         /\ u \in DOMAIN report.targets
         /\ report.targets[u].node = h.node /\ report.targets[u].slot = h.slot
         /\ report.targets[u].generation = h.generation
  BY DEF TargetsAt
<1>3. \A u \in TargetsAt(h) : u = t
  BY <1>1, <1>2 DEF TargetsLate
<1>4. PICK i \in P : \E k \in DOMAIN OutputsOf(i) :
         Frozen(i).active /\ report.targets[t] = Entry(val, i, k)
  BY <1>1, <1>2 DEF TargetsLate
<1>5. PICK k \in DOMAIN OutputsOf(i) : Frozen(i).active /\ report.targets[t] = Entry(val, i, k)
  BY <1>4
<1>6. /\ Entry(val, i, k).node = version.ids[i] /\ Entry(val, i, k).slot = OutputsOf(i)[k].id
      /\ Entry(val, i, k).generation = Frozen(i).generation
  BY DEF Entry
<1>7. (CHOOSE u \in TargetsAt(h) : TRUE) = t
  BY <1>3
<1>. QED BY <1>2, <1>5, <1>6, <1>7

\* Two targets of a report are of two outputs.
LEMMA EntriesDiffer ==
    ASSUME PlanFrozen(version), version.verdict = "Ok", NEW val,
           NEW i \in P, NEW k \in DOMAIN OutputsOf(i), NEW j \in P, NEW l \in DOMAIN OutputsOf(j),
           Entry(val, i, k).node = Entry(val, j, l).node,
           Entry(val, i, k).slot = Entry(val, j, l).slot
    PROVE  i = j /\ k = l
<1>1. version.ids[i] = version.ids[j] /\ OutputsOf(i)[k].id = OutputsOf(j)[l].id
  BY DEF Entry
<1>2. i = j
  BY <1>1, FrozenFacts
<1>. QED BY <1>1, <1>2, RowFacts

\* What taking a value does to a target, and to the report.
LEMMA EntryEmptied ==
    ASSUME NEW e, NEW f,
           DOMAIN e = {"node", "slot", "generation", "value", "taken"}, DOMAIN f = DOMAIN e,
           e = [x \in DOMAIN e |-> e[x]], f = [x \in DOMAIN f |-> f[x]],
           f.node = e.node, f.slot = e.slot, f.generation = e.generation,
           f.value = NoValue, f.taken = TRUE
    PROVE  f = [e EXCEPT !.value = NoValue, !.taken = TRUE]
<1> DEFINE l == [e EXCEPT !.value = NoValue, !.taken = TRUE]
           D == {"node", "slot", "generation", "value", "taken"}
<1>1. DOMAIN l = D
  OBVIOUS
<1>2. l.node = e.node /\ l.slot = e.slot /\ l.generation = e.generation
  OBVIOUS
<1>3. l.value = NoValue /\ l.taken = TRUE
  OBVIOUS
<1>4. l = [x \in D |-> l[x]]
  BY <1>1
<1> HIDE DEF l
<1>5. \A x \in D : l[x] = f[x]
  BY <1>2, <1>3
<1>6. l = f
  BY <1>1, <1>4, <1>5
<1>. QED BY <1>6 DEF l

LEMMA TargetEmptied ==
    ASSUME NEW old, NEW new, NEW t,
           DOMAIN old = {"nodes", "failures", "targets"}, old = [x \in DOMAIN old |-> old[x]],
           new = [old EXCEPT !.targets[t].value = NoValue, !.targets[t].taken = TRUE]
    PROVE  /\ new = [nodes |-> old.nodes, failures |-> old.failures, targets |-> new.targets]
           /\ new.nodes = old.nodes /\ new.failures = old.failures
           /\ new.targets = [old.targets EXCEPT ![t].value = NoValue, ![t].taken = TRUE]
<1> DEFINE D == {"nodes", "failures", "targets"}
<1>1. DOMAIN new = D
  OBVIOUS
<1>2. new.nodes = old.nodes /\ new.failures = old.failures
  OBVIOUS
<1>3. new.targets = [old.targets EXCEPT ![t].value = NoValue, ![t].taken = TRUE]
  OBVIOUS
<1>4. new = [x \in D |-> new[x]]
  BY <1>1
<1>5. new = [nodes |-> old.nodes, failures |-> old.failures, targets |-> new.targets]
  BY <1>2, <1>4
<1>. QED BY <1>2, <1>3, <1>5

LEMMA TakeOutputStep ==
    ASSUME ReportInv, version' = version, NEW h, TakeOutput(h)
    PROVE  RunInv' /\ report # NoReport /\ report' # NoReport
<1>1. PICK t \in TargetsAt(h) :
         /\ report' = [report EXCEPT !.targets[t].value = NoValue, !.targets[t].taken = TRUE]
         /\ handed' = Append(handed, [slot |-> h.slot, value |-> report.targets[t].value])
  BY DEF TakeOutput
<1>2. Answer(h) = "value" /\ UNCHANGED <<phase, stop, external, outputs>>
  BY DEF TakeOutput
<1>3. report # NoReport
  <2>1. NoReport.targets = <<>>
    BY DEF NoReport
  <2>. QED BY <1>1, <2>1 DEF TargetsAt
<1>4. Started /\ PlanFrozen(version) /\ version.verdict = "Ok"
  BY <1>3 DEF ReportInv, RunInv, Started, DeclInv
<1>5. PICK val : Late(val)
  BY <1>3, <1>4 DEF Started, Early
<1>6. TargetsLate(val) /\ HandedLate(val)
  BY <1>5 DEF Late
<1>7. t \in DOMAIN report.targets /\ report.targets[t].value # NoValue
  BY <1>2, <1>5, AnswerValue, TargetFound
<1>8. PICK i \in P : \E k \in DOMAIN OutputsOf(i) :
         /\ Frozen(i).active /\ report.targets[t] = Entry(val, i, k)
         /\ h.slot = OutputsOf(i)[k].id
  BY <1>5, TargetFound
<1>9. PICK k \in DOMAIN OutputsOf(i) :
         /\ Frozen(i).active /\ report.targets[t] = Entry(val, i, k)
         /\ h.slot = OutputsOf(i)[k].id
  BY <1>8
<1>10. phase[i] = "succeeded" /\ ~Gave(val, i, k) /\ report.targets[t].value = val[i][k]
  BY <1>7, <1>9 DEF Entry
<1> DEFINE new == [slot |-> OutputsOf(i)[k].id, value |-> val[i][k]]
<1>11. handed' = Append(handed, new)
  BY <1>1, <1>9, <1>10
<1>12. /\ P' = P
       /\ \A j : /\ Frozen(j)' = Frozen(j) /\ OutputsOf(j)' = OutputsOf(j)
                 /\ NoOutputs(j)' = NoOutputs(j)
       /\ \A j, values : Whole(j, values) => Whole(j, values)'
  BY SameVersion
<1>13. Open' = Open /\ PhaseIn({"failed"})' = PhaseIn({"failed"}) /\ NodeEntries' = NodeEntries
  BY <1>2, <1>12 DEF Open, PhaseIn, NodeEntries
<1> DEFINE n == Len(handed)
<1>14. /\ n \in Nat /\ DOMAIN handed' = 1..(n + 1) /\ Len(handed') = n + 1
       /\ DOMAIN handed = 1..n
       /\ handed' = [j \in DOMAIN handed' |-> handed'[j]]
       /\ \A j \in 1..n : handed'[j] = handed[j]
       /\ handed'[n + 1] = new
  <2> DEFINE S == ToSet(handed) \cup {new}
  <2>1. n \in Nat /\ DOMAIN handed = 1..n /\ handed = [j \in 1..n |-> handed[j]]
    BY <1>6 DEF HandedLate
  <2>2. handed \in Seq(ToSet(handed)) /\ ToSet(handed) \subseteq S /\ new \in S
    BY <2>1, MadeSeq
  <2> HIDE DEF S, new
  <2>3. handed \in Seq(S)
    BY <2>2
  <2>4. /\ handed' \in Seq(S) /\ Len(handed') = n + 1
        /\ \A j \in 1..n : handed'[j] = handed[j]
        /\ handed'[n + 1] = new
    BY <1>11, <2>2, <2>3, AppendProperties
  <2>. QED BY <2>1, <2>4
<1> HIDE DEF n
<1>15. ASSUME NEW j \in P, NEW l \in DOMAIN OutputsOf(j), phase[j] = "succeeded",
              [slot |-> OutputsOf(j)[l].id, value |-> val[j][l]] = new
       PROVE  j = i /\ l = k
  <2>1. val[j][l] = val[i][k]
    BY <1>15
  <2>2. Whole(j, val[j]) /\ Whole(i, val[i])
    BY <1>5, <1>10, <1>15 DEF Late
  <2>3. val[j][l].node = j /\ val[i][k].node = i
    BY <2>2 DEF Whole
  <2>4. j = i
    BY <2>1, <2>3
  <2>. QED BY <2>1, <2>2, <2>4 DEF Whole
<1>16. \A j \in 1..n : handed[j] # new
  BY <1>10, <1>14 DEF Gave
<1>17. ASSUME NEW j \in P, NEW l \in DOMAIN OutputsOf(j)
       PROVE  /\ <<j, l>> = <<i, k>> => Gave(val, j, l)'
              /\ <<j, l>> # <<i, k>> => Gave(val, j, l)' = Gave(val, j, l)
  <2> DEFINE pair == [slot |-> OutputsOf(j)[l].id, value |-> val[j][l]]
  <2>1. Gave(val, j, l) = (phase[j] = "succeeded" /\ \E x \in 1..n : handed[x] = pair)
    BY <1>14 DEF Gave
  <2>2. Gave(val, j, l)' = (phase[j] = "succeeded" /\ \E x \in 1..(n + 1) : handed'[x] = pair)
    BY <1>2, <1>12, <1>14 DEF Gave
  <2>3. (\E x \in 1..(n + 1) : handed'[x] = pair) <=> (\E x \in 1..n : handed[x] = pair) \/ new = pair
    <3> HIDE DEF new, pair
    <3>. QED BY <1>14
  <2>4. <<j, l>> = <<i, k>> => new = pair
    OBVIOUS
  <2>5. phase[j] = "succeeded" /\ new = pair => <<j, l>> = <<i, k>>
    BY <1>15
  <2> HIDE DEF new, pair
  <2>. QED BY <1>10, <2>1, <2>2, <2>3, <2>4, <2>5
<1>18. ASSUME NEW j \in P, NEW l \in DOMAIN OutputsOf(j), <<j, l>> # <<i, k>>
       PROVE  Entry(val, j, l)' = Entry(val, j, l)
  BY <1>2, <1>12, <1>17, <1>18 DEF Entry, NoValue
<1>19. Entry(val, i, k)' = [Entry(val, i, k) EXCEPT !.value = NoValue, !.taken = TRUE]
  <2>1. Gave(val, i, k)' = TRUE
    BY <1>17 DEF Gave
  <2>2. Entry(val, i, k)' = [node |-> version.ids[i], slot |-> OutputsOf(i)[k].id,
                             generation |-> Frozen(i).generation, value |-> NoValue,
                             taken |-> TRUE]
    BY <1>2, <1>12, <2>1 DEF Entry, NoValue
  <2> DEFINE e == Entry(val, i, k)
             f == Entry(val, i, k)'
  <2>3. DOMAIN e = {"node", "slot", "generation", "value", "taken"} /\ DOMAIN f = DOMAIN e
    BY <2>2 DEF Entry
  <2>4. e = [x \in DOMAIN e |-> e[x]] /\ f = [x \in DOMAIN f |-> f[x]]
    BY <2>2 DEF Entry
  <2>5. e.node = version.ids[i] /\ e.slot = OutputsOf(i)[k].id /\ e.generation = Frozen(i).generation
    BY DEF Entry
  <2>6. /\ f.node = e.node /\ f.slot = e.slot /\ f.generation = e.generation
        /\ f.value = NoValue /\ f.taken = TRUE
    BY <2>2, <2>5
  <2> HIDE DEF e, f
  <2>7. f = [e EXCEPT !.value = NoValue, !.taken = TRUE]
    BY <2>3, <2>4, <2>6, EntryEmptied
  <2>. QED BY <2>7 DEF e, f
<1> DEFINE old == report.targets
           D == DOMAIN old
<1>20. /\ report' = [nodes |-> NodeEntries, failures |-> report.failures,
                     targets |-> report'.targets]
       /\ report'.failures = report.failures
       /\ report'.targets = [old EXCEPT ![t].value = NoValue, ![t].taken = TRUE]
  <2>1. report = [nodes |-> NodeEntries, failures |-> report.failures, targets |-> report.targets]
    BY <1>5 DEF Late
  <2>2. /\ DOMAIN report = {"nodes", "failures", "targets"} /\ report.nodes = NodeEntries
        /\ report = [x \in DOMAIN report |-> report[x]]
    BY <2>1
  <2> HIDE DEF D
  <2>. QED BY <1>1, <2>2, TargetEmptied DEF old
<1>21. /\ old = [u \in D |-> old[u]]
       /\ \A u \in D : \E j \in P : \E l \in DOMAIN OutputsOf(j) :
             Frozen(j).active /\ old[u] = Entry(val, j, l)
       /\ \A j \in P : Frozen(j).active =>
             \A l \in DOMAIN OutputsOf(j) : \E u \in D : old[u] = Entry(val, j, l)
       /\ \A u, v \in D : old[u].node = old[v].node /\ old[u].slot = old[v].slot => u = v
  BY <1>6 DEF TargetsLate
<1>22. t \in D /\ old[t] = Entry(val, i, k)
  BY <1>7, <1>9
<1> DEFINE all == report'.targets
<1> HIDE DEF old, D, all
<1>23. /\ DOMAIN all = D /\ all = [u \in D |-> all[u]]
       /\ all[t] = Entry(val, i, k)'
       /\ \A u \in D : u # t => all[u] = old[u]
  <2>1. all = [old EXCEPT ![t].value = NoValue, ![t].taken = TRUE]
    BY <1>20 DEF all, old
  <2>. QED BY <1>19, <1>21, <1>22, <2>1
<1>24. ASSUME NEW u \in D
       PROVE  \E j \in P : \E l \in DOMAIN OutputsOf(j) :
                 Frozen(j).active /\ all[u] = Entry(val, j, l)'
  <2>1. CASE u = t
    BY <1>9, <1>23, <2>1
  <2>2. CASE u # t
    <3>1. PICK j \in P : \E l \in DOMAIN OutputsOf(j) :
             Frozen(j).active /\ old[u] = Entry(val, j, l)
      BY <1>21
    <3>2. PICK l \in DOMAIN OutputsOf(j) : Frozen(j).active /\ old[u] = Entry(val, j, l)
      BY <3>1
    <3>3. <<j, l>> # <<i, k>>
      BY <1>21, <1>22, <2>2, <3>2
    <3>. QED BY <1>18, <1>23, <2>2, <3>2, <3>3
  <2>. QED BY <2>1, <2>2
<1>25. ASSUME NEW j \in P, Frozen(j).active, NEW l \in DOMAIN OutputsOf(j)
       PROVE  \E u \in D : all[u] = Entry(val, j, l)'
  <2>1. CASE <<j, l>> = <<i, k>>
    BY <1>22, <1>23, <2>1
  <2>2. CASE <<j, l>> # <<i, k>>
    <3>1. PICK u \in D : old[u] = Entry(val, j, l)
      BY <1>21, <1>25
    <3>2. u # t
      BY <1>4, <1>22, <2>2, <3>1, EntriesDiffer
    <3>. QED BY <1>18, <1>23, <2>2, <3>1, <3>2
  <2>. QED BY <2>1, <2>2
<1>26. ASSUME NEW u \in D, NEW v \in D, all[u].node = all[v].node, all[u].slot = all[v].slot
       PROVE  u = v
  <2>1. \A w \in D : all[w].node = old[w].node /\ all[w].slot = old[w].slot
    <3>1. all[t].node = old[t].node /\ all[t].slot = old[t].slot
      <4>1. all[t] = [old[t] EXCEPT !.value = NoValue, !.taken = TRUE]
        BY <1>19, <1>22, <1>23
      <4>2. {"node", "slot"} \subseteq DOMAIN old[t]
        BY <1>22 DEF Entry
      <4>. QED BY <4>1, <4>2
    <3>. QED BY <1>23, <3>1
  <2>. QED BY <1>21, <1>26, <2>1
<1>27. TargetsLate(val)'
  <2>1. /\ all = [u \in DOMAIN all |-> all[u]]
        /\ \A u \in DOMAIN all : \E j \in P' : \E l \in DOMAIN OutputsOf(j)' :
              Frozen(j)'.active /\ all[u] = Entry(val, j, l)'
        /\ \A j \in P' : Frozen(j)'.active =>
              \A l \in DOMAIN OutputsOf(j)' : \E u \in DOMAIN all : all[u] = Entry(val, j, l)'
        /\ \A u, v \in DOMAIN all :
              all[u].node = all[v].node /\ all[u].slot = all[v].slot => u = v
    BY <1>12, <1>23, <1>24, <1>25, <1>26
  <2>. QED BY <2>1 DEF TargetsLate, all
<1>28. HandedLate(val)'
  <2>1. ASSUME NEW j \in 1..(n + 1)
        PROVE  \E x \in P : \E y \in DOMAIN OutputsOf(x) :
                  /\ Frozen(x).active /\ phase[x] = "succeeded"
                  /\ handed'[j] = [slot |-> OutputsOf(x)[y].id, value |-> val[x][y]]
    <3>1. CASE j = n + 1
      BY <1>9, <1>10, <1>14, <3>1
    <3>2. CASE j \in 1..n
      BY <1>6, <1>14, <3>2 DEF HandedLate
    <3>. QED BY <1>14, <3>1, <3>2
  <2>2. ASSUME NEW j \in 1..(n + 1), NEW l \in 1..(n + 1), handed'[j] = handed'[l] PROVE j = l
    <3>1. \A x, y \in 1..n : handed[x] = handed[y] => x = y
      BY <1>6, <1>14 DEF HandedLate
    <3> HIDE DEF new
    <3>. QED BY <1>14, <1>16, <2>2, <3>1
  <2>. QED BY <1>2, <1>12, <1>14, <2>1, <2>2 DEF HandedLate
<1>29. report' # NoReport
  <2>1. NodeEntries # <<>>
    <3>1. DOMAIN NodeEntries = P /\ P # {}
      BY <1>4, FrozenFacts DEF NodeEntries
    <3>. QED BY <3>1
  <2>2. report'.nodes = NodeEntries /\ NoReport.nodes = <<>>
    BY <1>20 DEF NoReport
  <2>. QED BY <2>1, <2>2
<1>30. Late(val)'
  <2>1. (ToSet(report.failures) = {version.ids[j] : j \in PhaseIn({"failed"})})'
    <3>1. ToSet(report.failures)' = ToSet(report.failures)
      BY <1>20 DEF ToSet
    <3>. QED BY <1>5, <1>13, <3>1 DEF Late
  <2>2. (\A j \in P :
           /\ phase[j] = "succeeded" => Whole(j, val[j])
           /\ outputs[j] = IF phase[j] = "succeeded" /\ ~Frozen(j).active THEN val[j]
                           ELSE NoOutputs(j))'
    BY <1>2, <1>5, <1>12 DEF Late
  <2>3. (DOMAIN outputs = P)' /\ (Open = {})' /\ (report # NoReport)'
    BY <1>2, <1>5, <1>12, <1>13, <1>29 DEF Late, NoReport
  <2>4. (report = [nodes |-> NodeEntries, failures |-> report.failures,
                   targets |-> report.targets])'
    BY <1>13, <1>20
  <2>. QED BY <1>27, <1>28, <2>1, <2>2, <2>3, <2>4 DEF Late
<1>31. SuppliedAll' /\ (phase \in [P -> Phases])'
  BY <1>2, <1>4, <1>12, SuppliedAllNext DEF Started, Phases
<1>. QED BY <1>3, <1>4, <1>29, <1>30, <1>31 DEF RunInv, Started

-----------------------------------------------------------------------------
(* Where the values are. *)

InRun(val, i, k) == [at |-> <<"run", <<i, k>>>>, value |-> val[i][k]]
InReport(t)      == [at |-> <<"report", t>>, value |-> report.targets[t].value]
AtClient(j)      == [at |-> <<"client", j>>, value |-> handed[j].value]

\* Place p is the one of output k of node i.
PlaceOf(val, i, k, p) ==
    \/ (report = NoReport \/ ~Frozen(i).active) /\ p = InRun(val, i, k)
    \/ /\ Frozen(i).active /\ report # NoReport
       /\ \/ ~Gave(val, i, k) /\ \E t \in DOMAIN report.targets :
                report.targets[t] = Entry(val, i, k) /\ p = InReport(t)
          \/ \E j \in DOMAIN handed :
                /\ handed[j] = [slot |-> OutputsOf(i)[k].id, value |-> val[i][k]]
                /\ p = AtClient(j)

\* The places of the values of node i are those of its outputs.
Located(val, i) ==
    /\ phase[i] = "succeeded" => Whole(i, val[i])
    /\ \A p \in Places(i) : phase[i] = "succeeded" /\ \E k \in DOMAIN OutputsOf(i) :
          PlaceOf(val, i, k, p)
    /\ phase[i] = "succeeded" => \A k \in DOMAIN OutputsOf(i) :
          /\ \E p \in Places(i) : PlaceOf(val, i, k, p)
          /\ \A p, q \in Places(i) : PlaceOf(val, i, k, p) /\ PlaceOf(val, i, k, q) => p = q

\* A value somewhere is of a node, and at one of three kinds of places.
LEMMA PlacesAre ==
    ASSUME NEW i, NEW p
    PROVE  p \in Places(i) <=>
              /\ \/ \E x \in Committed : p = [at |-> <<"run", x>>, value |-> outputs[x[1]][x[2]]]
                 \/ \E t \in DOMAIN report.targets : p = InReport(t)
                 \/ \E j \in DOMAIN handed : p = AtClient(j)
              /\ p.value # NoValue /\ p.value.node = i
BY DEF Places, InReport, AtClient

\* Where one value is, the outputs were committed and not moved.
LEMMA NothingThere ==
    ASSUME NEW a, NEW b \in DOMAIN outputs[a], outputs[a][b] # NoValue
    PROVE  outputs[a] # NoOutputs(a)
<1>1. \A k \in DOMAIN NoOutputs(a) : NoOutputs(a)[k] = NoValue
  BY DEF NoOutputs
<1>. QED BY <1>1

LEMMA EarlyLocated ==
    ASSUME Started, Early, PlanFrozen(version), NEW i \in P PROVE \E val : Located(val, i)
<1>1. PICK val : val = outputs
  OBVIOUS
<1>2. /\ report = NoReport /\ DOMAIN report.targets = {} /\ DOMAIN handed = {}
      /\ \A a \in P : phase[a] = "succeeded" => Whole(a, val[a])
      /\ \A a \in P : phase[a] # "succeeded" => outputs[a] = NoOutputs(a)
  BY <1>1 DEF Early, NoReport
<1>3. ASSUME NEW p \in Places(i)
      PROVE  phase[i] = "succeeded" /\ \E k \in DOMAIN OutputsOf(i) : PlaceOf(val, i, k, p)
  <2>1. /\ \E x \in Committed : p = [at |-> <<"run", x>>, value |-> outputs[x[1]][x[2]]]
        /\ p.value # NoValue /\ p.value.node = i
    BY <1>2, PlacesAre
  <2>2. PICK a \in P, b \in 1..MaxEntries :
           b \in DOMAIN outputs[a] /\ p = [at |-> <<"run", <<a, b>>>>, value |-> outputs[a][b]]
    BY <2>1 DEF Committed
  <2>3. p.value = outputs[a][b]
    BY <2>2
  <2>4. phase[a] = "succeeded"
    <3>1. outputs[a] # NoOutputs(a)
      BY <2>1, <2>2, <2>3, NothingThere
    <3>. QED BY <1>2, <3>1
  <2>5. Whole(a, val[a]) /\ b \in DOMAIN OutputsOf(a)
    BY <1>1, <1>2, <2>2, <2>4 DEF Whole
  <2>6. a = i
    BY <1>1, <2>1, <2>3, <2>5 DEF Whole
  <2>7. PlaceOf(val, i, b, p)
    BY <1>1, <1>2, <2>2, <2>6 DEF PlaceOf, InRun
  <2>. QED BY <2>4, <2>5, <2>6, <2>7
<1>4. ASSUME phase[i] = "succeeded", NEW k \in DOMAIN OutputsOf(i)
      PROVE  \E p \in Places(i) : PlaceOf(val, i, k, p)
  <2>1. Whole(i, val[i])
    BY <1>2, <1>4
  <2>2. k \in 1..MaxEntries
    <3>1. OutputsOf(i) \in Seq(ToSet(OutputsOf(i)))
      BY FrozenFacts, SchemaFacts DEF OutputsOf, Started
    <3>2. DOMAIN OutputsOf(i) = 1..Len(OutputsOf(i)) /\ Len(OutputsOf(i)) \in Nat
      BY <3>1, LenProperties
    <3>. QED BY <2>1, <3>2, EntryAssumption DEF Whole
  <2>3. k \in DOMAIN outputs[i] /\ outputs[i][k] = val[i][k]
    BY <1>1, <2>1 DEF Whole
  <2>4. <<i, k>> \in Committed
    BY <2>2, <2>3 DEF Committed
  <2>5. InRun(val, i, k) \in Places(i)
    <3>1. InRun(val, i, k) = [at |-> <<"run", <<i, k>>>>, value |-> outputs[i][k]]
      BY <2>3 DEF InRun
    <3>2. InRun(val, i, k).value = val[i][k]
      BY DEF InRun
    <3>3. val[i][k] # NoValue /\ val[i][k].node = i
      BY <2>1 DEF Whole
    <3>4. \E x \in Committed : InRun(val, i, k) = [at |-> <<"run", x>>, value |-> outputs[x[1]][x[2]]]
      BY <2>4, <3>1
    <3>. QED BY <3>2, <3>3, <3>4, PlacesAre
  <2>. QED BY <1>2, <2>5 DEF PlaceOf
<1>5. ASSUME NEW k, NEW p, NEW q, PlaceOf(val, i, k, p), PlaceOf(val, i, k, q) PROVE p = q
  BY <1>2, <1>5 DEF PlaceOf
<1>. QED BY <1>2, <1>3, <1>4, <1>5 DEF Located

LEMMA LateLocated ==
    ASSUME Started, PlanFrozen(version), NEW val, Late(val), NEW i \in P
    PROVE  Located(val, i)
<1>1. /\ report # NoReport /\ TargetsLate(val) /\ HandedLate(val)
      /\ \A a \in P : phase[a] = "succeeded" => Whole(a, val[a])
      /\ \A a \in P : outputs[a] = IF phase[a] = "succeeded" /\ ~Frozen(a).active THEN val[a]
                                   ELSE NoOutputs(a)
  BY DEF Late
<1>2. ASSUME NEW p \in Places(i)
      PROVE  phase[i] = "succeeded" /\ \E k \in DOMAIN OutputsOf(i) : PlaceOf(val, i, k, p)
  <2>1. p.value # NoValue /\ p.value.node = i
    BY PlacesAre
  <2>2. ASSUME NEW x \in Committed, p = [at |-> <<"run", x>>, value |-> outputs[x[1]][x[2]]]
        PROVE  phase[i] = "succeeded" /\ \E k \in DOMAIN OutputsOf(i) : PlaceOf(val, i, k, p)
    <3>1. PICK a \in P, b \in 1..MaxEntries :
             b \in DOMAIN outputs[a] /\ p = [at |-> <<"run", <<a, b>>>>, value |-> outputs[a][b]]
      BY <2>2 DEF Committed
    <3>2. p.value = outputs[a][b]
      BY <3>1
    <3>3. phase[a] = "succeeded" /\ ~Frozen(a).active /\ outputs[a] = val[a]
      <4>1. outputs[a] # NoOutputs(a)
        BY <2>1, <3>1, <3>2, NothingThere
      <4>. QED BY <1>1, <4>1
    <3>4. Whole(a, val[a]) /\ b \in DOMAIN OutputsOf(a)
      BY <1>1, <3>1, <3>3 DEF Whole
    <3>5. a = i
      BY <2>1, <3>2, <3>3, <3>4 DEF Whole
    <3>6. PlaceOf(val, i, b, p)
      BY <3>1, <3>3, <3>5 DEF PlaceOf, InRun
    <3>. QED BY <3>3, <3>4, <3>5, <3>6
  <2>3. ASSUME NEW t \in DOMAIN report.targets, p = InReport(t)
        PROVE  phase[i] = "succeeded" /\ \E k \in DOMAIN OutputsOf(i) : PlaceOf(val, i, k, p)
    <3>1. PICK a \in P : \E k \in DOMAIN OutputsOf(a) :
             Frozen(a).active /\ report.targets[t] = Entry(val, a, k)
      BY <1>1 DEF TargetsLate
    <3>2. PICK k \in DOMAIN OutputsOf(a) :
             Frozen(a).active /\ report.targets[t] = Entry(val, a, k)
      BY <3>1
    <3>3. p.value = Entry(val, a, k).value
      BY <2>3, <3>2 DEF InReport
    <3>4. phase[a] = "succeeded" /\ ~Gave(val, a, k) /\ p.value = val[a][k]
      BY <2>1, <3>3 DEF Entry
    <3>5. a = i
      BY <1>1, <2>1, <3>4 DEF Whole
    <3>6. PlaceOf(val, i, k, p)
      BY <1>1, <2>3, <3>2, <3>4, <3>5 DEF PlaceOf
    <3>. QED BY <3>4, <3>5, <3>6
  <2>4. ASSUME NEW j \in DOMAIN handed, p = AtClient(j)
        PROVE  phase[i] = "succeeded" /\ \E k \in DOMAIN OutputsOf(i) : PlaceOf(val, i, k, p)
    <3>1. PICK a \in P : \E k \in DOMAIN OutputsOf(a) :
             /\ Frozen(a).active /\ phase[a] = "succeeded"
             /\ handed[j] = [slot |-> OutputsOf(a)[k].id, value |-> val[a][k]]
      BY <1>1 DEF HandedLate
    <3>2. PICK k \in DOMAIN OutputsOf(a) :
             /\ Frozen(a).active /\ phase[a] = "succeeded"
             /\ handed[j] = [slot |-> OutputsOf(a)[k].id, value |-> val[a][k]]
      BY <3>1
    <3>3. p.value = val[a][k]
      BY <2>4, <3>2 DEF AtClient
    <3>4. a = i
      BY <1>1, <2>1, <3>2, <3>3 DEF Whole
    <3>5. PlaceOf(val, i, k, p)
      BY <1>1, <2>4, <3>2, <3>4 DEF PlaceOf
    <3>. QED BY <3>2, <3>4, <3>5
  <2>. QED BY <2>2, <2>3, <2>4, PlacesAre
<1>3. ASSUME phase[i] = "succeeded", NEW k \in DOMAIN OutputsOf(i)
      PROVE  \E p \in Places(i) : PlaceOf(val, i, k, p)
  <2>1. Whole(i, val[i]) /\ val[i][k] # NoValue /\ val[i][k].node = i
    BY <1>1, <1>3 DEF Whole
  <2>2. CASE ~Frozen(i).active
    <3>1. k \in 1..MaxEntries
      <4>1. OutputsOf(i) \in Seq(ToSet(OutputsOf(i)))
        BY FrozenFacts, SchemaFacts DEF OutputsOf, Started
      <4>2. DOMAIN OutputsOf(i) = 1..Len(OutputsOf(i)) /\ Len(OutputsOf(i)) \in Nat
        BY <4>1, LenProperties
      <4>. QED BY <2>1, <4>2, EntryAssumption DEF Whole
    <3>2. k \in DOMAIN outputs[i] /\ outputs[i][k] = val[i][k]
      BY <1>1, <1>3, <2>1, <2>2 DEF Whole
    <3>3. <<i, k>> \in Committed
      BY <3>1, <3>2 DEF Committed
    <3>4. \E x \in Committed : InRun(val, i, k) = [at |-> <<"run", x>>, value |-> outputs[x[1]][x[2]]]
      <4>1. InRun(val, i, k) = [at |-> <<"run", <<i, k>>>>, value |-> outputs[i][k]]
        BY <3>2 DEF InRun
      <4>. QED BY <3>3, <4>1
    <3>5. InRun(val, i, k) \in Places(i)
      <4>1. InRun(val, i, k).value = val[i][k]
        BY DEF InRun
      <4>. QED BY <2>1, <3>4, <4>1, PlacesAre
    <3>. QED BY <2>2, <3>5 DEF PlaceOf
  <2>3. CASE Frozen(i).active /\ Gave(val, i, k)
    <3>1. PICK j \in DOMAIN handed :
             handed[j] = [slot |-> OutputsOf(i)[k].id, value |-> val[i][k]]
      BY <2>3 DEF Gave
    <3>2. AtClient(j).value = val[i][k]
      BY <3>1 DEF AtClient
    <3>3. AtClient(j) \in Places(i)
      BY <2>1, <3>2, PlacesAre
    <3>. QED BY <1>1, <2>3, <3>1, <3>3 DEF PlaceOf
  <2>4. CASE Frozen(i).active /\ ~Gave(val, i, k)
    <3>1. PICK t \in DOMAIN report.targets : report.targets[t] = Entry(val, i, k)
      BY <1>1, <2>4 DEF TargetsLate
    <3>2. InReport(t).value = val[i][k]
      BY <1>3, <2>4, <3>1 DEF InReport, Entry
    <3>3. InReport(t) \in Places(i)
      BY <2>1, <3>2, PlacesAre
    <3>. QED BY <1>1, <2>4, <3>1, <3>3 DEF PlaceOf
  <2>. QED BY <2>2, <2>3, <2>4
<1>4. ASSUME phase[i] = "succeeded", NEW k \in DOMAIN OutputsOf(i), NEW p, NEW q,
             PlaceOf(val, i, k, p), PlaceOf(val, i, k, q)
      PROVE  p = q
  <2>1. CASE ~Frozen(i).active
    BY <1>1, <1>4, <2>1 DEF PlaceOf
  <2>2. CASE Frozen(i).active /\ ~Gave(val, i, k)
    <3>1. \A j \in DOMAIN handed :
             handed[j] # [slot |-> OutputsOf(i)[k].id, value |-> val[i][k]]
      BY <1>4, <2>2 DEF Gave
    <3>2. PICK t \in DOMAIN report.targets :
             report.targets[t] = Entry(val, i, k) /\ p = InReport(t)
      BY <1>1, <1>4, <2>2, <3>1 DEF PlaceOf
    <3>3. PICK u \in DOMAIN report.targets :
             report.targets[u] = Entry(val, i, k) /\ q = InReport(u)
      BY <1>1, <1>4, <2>2, <3>1 DEF PlaceOf
    <3>4. t = u
      BY <1>1, <3>2, <3>3 DEF TargetsLate
    <3>. QED BY <3>2, <3>3, <3>4
  <2>3. CASE Frozen(i).active /\ Gave(val, i, k)
    <3> DEFINE pair == [slot |-> OutputsOf(i)[k].id, value |-> val[i][k]]
    <3>1. PICK j \in DOMAIN handed : handed[j] = pair /\ p = AtClient(j)
      BY <1>1, <1>4, <2>3 DEF PlaceOf
    <3>2. PICK m \in DOMAIN handed : handed[m] = pair /\ q = AtClient(m)
      BY <1>1, <1>4, <2>3 DEF PlaceOf
    <3>3. j = m
      BY <1>1, <3>1, <3>2 DEF HandedLate
    <3>. QED BY <3>1, <3>2, <3>3
  <2>. QED BY <2>1, <2>2, <2>3
<1>. QED BY <1>1, <1>2, <1>3, <1>4 DEF Located

\* The place of an output has its committed value.
LEMMA PlaceHolds ==
    ASSUME phase \in [P -> Phases], NEW val, NEW i \in P, phase[i] = "succeeded",
           NEW k, NEW p, PlaceOf(val, i, k, p)
    PROVE  p.value = val[i][k]
<1>1. CASE p = InRun(val, i, k)
  BY <1>1 DEF InRun
<1>2. CASE ~Gave(val, i, k) /\ \E t \in DOMAIN report.targets :
              report.targets[t] = Entry(val, i, k) /\ p = InReport(t)
  <2>1. p.value = Entry(val, i, k).value
    BY <1>2 DEF InReport
  <2>2. Entry(val, i, k).value = val[i][k]
    BY <1>2 DEF Entry
  <2>. QED BY <2>1, <2>2
<1>3. CASE \E j \in DOMAIN handed :
              /\ handed[j] = [slot |-> OutputsOf(i)[k].id, value |-> val[i][k]]
              /\ p = AtClient(j)
  BY <1>3 DEF AtClient
<1>. QED BY <1>1, <1>2, <1>3 DEF PlaceOf

\* As many places as outputs, and one value in each.
LEMMA LocatedWhole ==
    ASSUME Started, PlanFrozen(version), NEW val, NEW i \in P, Located(val, i)
    PROVE  /\ Cardinality(Places(i)) = IF phase[i] = "succeeded" THEN Len(OutputsOf(i)) ELSE 0
           /\ \A x, y \in Places(i) : x.value = y.value => x = y
<1>1. phase \in [P -> Phases]
  BY DEF Started
<1>2. CASE phase[i] # "succeeded"
  <2>1. Places(i) = {}
    BY <1>2 DEF Located
  <2>. QED BY <1>2, <2>1, FS_EmptySet
<1>3. CASE phase[i] = "succeeded"
  <2> DEFINE m == Len(OutputsOf(i))
             K == DOMAIN OutputsOf(i)
             f == [k \in K |-> CHOOSE p \in Places(i) : PlaceOf(val, i, k, p)]
  <2>1. K = 1..m /\ m \in Nat
    <3>1. OutputsOf(i) \in Seq(ToSet(OutputsOf(i)))
      BY FrozenFacts, SchemaFacts DEF OutputsOf, Started
    <3>. QED BY <3>1, LenProperties
  <2>2. /\ \A k \in K : \E p \in Places(i) : PlaceOf(val, i, k, p)
        /\ \A k \in K : \A p, q \in Places(i) :
              PlaceOf(val, i, k, p) /\ PlaceOf(val, i, k, q) => p = q
        /\ \A p \in Places(i) : \E k \in K : PlaceOf(val, i, k, p)
    BY <1>3 DEF Located
  <2>3. \A k, l \in K : val[i][k] = val[i][l] => k = l
    BY <1>3 DEF Located, Whole
  <2>4. \A k \in K : \A p \in Places(i) : PlaceOf(val, i, k, p) => p.value = val[i][k]
    BY <1>1, <1>3, PlaceHolds
  <2> HIDE DEF K, m
  <2>5. \A k \in K : f[k] \in Places(i) /\ PlaceOf(val, i, k, f[k])
    BY <2>2
  <2>6. f \in [K -> Places(i)]
    BY <2>5
  <2> HIDE DEF f
  <2>7. \A k, l \in K : f[k] = f[l] => k = l
    BY <2>3, <2>4, <2>5
  <2>8. \A p \in Places(i) : \E k \in K : f[k] = p
    BY <2>2, <2>5
  <2>9. f \in Bijection(K, Places(i))
    BY <2>6, <2>7, <2>8 DEF Bijection, Injection, Surjection, IsInjective
  <2>10. IsFiniteSet(K) /\ Cardinality(K) = m
    BY <2>1, FS_Interval
  <2>11. Cardinality(Places(i)) = m
    BY <2>9, <2>10, FS_Bijection DEF ExistsBijection
  <2>12. \A x, y \in Places(i) : x.value = y.value => x = y
    BY <2>2, <2>3, <2>4
  <2>. QED BY <1>3, <2>11, <2>12 DEF m
<1>. QED BY <1>2, <1>3

LEMMA PlacesWhole == ReportInv => OutputsWhole
<1> SUFFICES ASSUME ReportInv, NEW i \in DOMAIN phase
             PROVE  /\ Cardinality(Places(i)) = IF phase[i] = "succeeded" THEN Len(OutputsOf(i)) ELSE 0
                    /\ \A x, y \in Places(i) : x.value = y.value => x = y
  BY DEF OutputsWhole
<1>1. Started /\ i \in P /\ PlanFrozen(version)
  BY RunningIs DEF ReportInv, DeclInv
<1>2. \E val : Located(val, i)
  BY <1>1, EarlyLocated, LateLocated DEF Started
<1>. QED BY <1>1, <1>2, LocatedWhole

-----------------------------------------------------------------------------
(* What the report answers. *)

\* The compiled node of a handle, if it is of the compiled generation, and the
\* values taken through the handle's slot; what ReportAnswers promises for it.
Chosen(h) == {i \in P : version.ids[i] = h.node}
Same(h)   == {i \in Chosen(h) : Frozen(i).generation = h.generation}
Taken(h) == {j \in DOMAIN handed : handed[j].value.node \in Same(h) /\ handed[j].slot = h.slot}

\* The report knows the nodes and the slots that were compiled, and no other.
LEMMA NodesKnown ==
    ASSUME DeclInv, version.verdict = "Ok", NEW val, Late(val), NEW x \in issued,
           x[1].side = "out"
    PROVE  LET h == x[1]
           IN  /\ h.graph = "own" /\ x[2].type = h.type /\ NodesAt(h) = Chosen(h)
               /\ \A i, j \in Chosen(h) : i = j
               /\ \A i \in Same(h) : \E k \in DOMAIN OutputsOf(i) :
                     OutputsOf(i)[k] = x[2] /\ x[2].id = h.slot
               /\ Known(h) <=> Same(h) # {}
<1> DEFINE h == x[1]
<1>1. /\ DOMAIN report.nodes = P
      /\ \A i \in P : /\ report.nodes[i].node = version.ids[i]
                      /\ report.nodes[i].slots = {<<out.id, Frozen(i).generation>> :
                                                     out \in ToSet(OutputsOf(i))}
  <2>1. report.nodes = NodeEntries
    BY DEF Late
  <2>. QED BY <2>1 DEF NodeEntries
<1>2. h.graph = "own"
  <2>1. OwnHandle(x[1])
    BY DEF DeclInv, HandlesOwn
  <2>2. PICK side, n, slot, g, type :
           x[1] = [graph |-> "own", side |-> side, node |-> n, slot |-> slot, generation |-> g,
                   type |-> type]
    BY <2>1 DEF OwnHandle
  <2>. QED BY <2>2
<1>3. x[2].type = h.type
  BY DEF DeclInv, HandlesSound, IssuedFor
<1>4. NodesAt(h) = Chosen(h)
  BY <1>1 DEF NodesAt, Chosen
<1>5. \A i, j \in Chosen(h) : i = j
  BY FrozenFacts DEF Chosen, DeclInv
<1>6. ASSUME NEW i \in Same(h)
      PROVE  /\ x[2].id = h.slot /\ x[2] \in ToSet(OutputsOf(i))
             /\ \E k \in DOMAIN OutputsOf(i) : OutputsOf(i)[k] = x[2]
  <2>1. i \in DOMAIN version.ids /\ h.node = version.ids[i]
        /\ h.generation = version.nodes[i].generation
    BY DEF Same, Chosen, P, Frozen
  <2>2. x[2].id = h.slot /\ x[2] \in ToSet(OutputsOf(i))
    BY <2>1 DEF DeclInv, HandlesFrozen, OutputsOf, Frozen
  <2>. QED BY <2>2 DEF ToSet
<1>7. ASSUME Known(h) PROVE Same(h) # {}
  <2>1. PICK i \in NodesAt(h) : <<h.slot, h.generation>> \in report.nodes[i].slots
    BY <1>7 DEF Known
  <2>2. i \in P /\ i \in Chosen(h)
    BY <1>4, <2>1 DEF Chosen
  <2>3. PICK out \in ToSet(OutputsOf(i)) :
           <<h.slot, h.generation>> = <<out.id, Frozen(i).generation>>
    BY <1>1, <2>1, <2>2
  <2>4. i \in Same(h)
    BY <2>2, <2>3 DEF Same
  <2>. QED BY <2>4
<1>8. ASSUME NEW i \in Same(h) PROVE Known(h)
  <2>1. i \in Chosen(h) /\ i \in P /\ Frozen(i).generation = h.generation
    BY DEF Same, Chosen
  <2>2. <<x[2].id, Frozen(i).generation>> \in report.nodes[i].slots
    BY <1>1, <1>6, <2>1
  <2>. QED BY <1>4, <1>6, <2>1, <2>2 DEF Known
<1>. QED BY <1>2, <1>3, <1>4, <1>5, <1>6, <1>7, <1>8

\* The values that left the report through slot h.slot of the node of h are the
\* one value of that output.
LEMMA GivenIsGave ==
    ASSUME PlanFrozen(version), version.verdict = "Ok", NEW val, Late(val), NEW h,
           \A i, j \in Chosen(h) : i = j, NEW i \in Same(h), Frozen(i).active,
           NEW k \in DOMAIN OutputsOf(i), OutputsOf(i)[k].id = h.slot
    PROVE  Gave(val, i, k) <=> Taken(h) # {}
<1>1. i \in P /\ i \in Chosen(h) /\ \A j \in Same(h) : j \in Chosen(h)
  BY DEF Same, Chosen
<1>2. ASSUME Gave(val, i, k) PROVE Taken(h) # {}
  <2>1. PICK j \in DOMAIN handed :
           handed[j] = [slot |-> OutputsOf(i)[k].id, value |-> val[i][k]]
    BY <1>2 DEF Gave
  <2>2. Whole(i, val[i])
    BY <1>1, <1>2 DEF Gave, Late
  <2>3. handed[j].value.node = i /\ handed[j].slot = h.slot
    BY <2>1, <2>2 DEF Whole
  <2>. QED BY <2>3 DEF Taken
<1>3. ASSUME NEW j \in Taken(h) PROVE Gave(val, i, k)
  <2>1. j \in DOMAIN handed /\ handed[j].value.node \in Same(h) /\ handed[j].slot = h.slot
    BY DEF Taken
  <2>2. handed[j].value.node = i
    BY <1>1, <2>1
  <2>3. PICK a \in P : \E b \in DOMAIN OutputsOf(a) :
           /\ phase[a] = "succeeded"
           /\ handed[j] = [slot |-> OutputsOf(a)[b].id, value |-> val[a][b]]
    BY <2>1 DEF Late, HandedLate
  <2>4. PICK b \in DOMAIN OutputsOf(a) :
           /\ phase[a] = "succeeded"
           /\ handed[j] = [slot |-> OutputsOf(a)[b].id, value |-> val[a][b]]
    BY <2>3
  <2>5. Whole(a, val[a])
    BY <2>4 DEF Late
  <2>6. val[a][b].node = a
    BY <2>5 DEF Whole
  <2>7. a = i /\ OutputsOf(a)[b].id = OutputsOf(i)[k].id
    BY <2>1, <2>2, <2>4, <2>6
  <2>8. b = k
    BY <1>1, <2>7, RowFacts
  <2>. QED BY <2>1, <2>4, <2>7, <2>8 DEF Gave
<1>. QED BY <1>2, <1>3

Promise(h) ==
    CASE Chosen(h) = {} -> "NotCollected"
      [] Chosen(h) # {} /\ Same(h) = {} -> "StaleSlotHandle"
      [] \E i \in Same(h) : ~Frozen(i).active -> "NotCollected"
      [] \E i \in Same(h) : Frozen(i).active /\ phase[i] # "succeeded" -> "OutputUnavailable"
      [] OTHER -> IF Taken(h) = {} THEN "value" ELSE "OutputTaken"

LEMMA AnswerIsPromised ==
    ASSUME DeclInv, version.verdict = "Ok", NEW val, Late(val), NEW x \in issued,
           x[1].side = "out"
    PROVE  Answer(x[1]) = Promise(x[1])
<1> DEFINE h == x[1]
           target == report.targets[CHOOSE t \in TargetsAt(h) : TRUE]
<1>1. /\ h.graph = "own" /\ x[2].type = h.type /\ NodesAt(h) = Chosen(h)
      /\ \A i, j \in Chosen(h) : i = j
      /\ \A i \in Same(h) : \E k \in DOMAIN OutputsOf(i) :
            OutputsOf(i)[k] = x[2] /\ x[2].id = h.slot
      /\ Known(h) <=> Same(h) # {}
  BY NodesKnown
<1>2. \A i \in Same(h) : i \in P /\ i \in Chosen(h) /\ version.ids[i] = h.node
                         /\ Frozen(i).generation = h.generation
  BY DEF Same, Chosen
<1>3. PlanFrozen(version)
  BY DEF DeclInv
<1> HIDE DEF h
<1>4. CASE Chosen(h) = {}
  <2>1. Answer(h) = "NotCollected"
    BY <1>1, <1>4 DEF Answer
  <2>. QED BY <1>2, <1>4, <2>1 DEF Promise, h
<1>5. CASE Chosen(h) # {} /\ Same(h) = {}
  <2>1. Answer(h) = "StaleSlotHandle"
    BY <1>1, <1>5 DEF Answer
  <2>. QED BY <1>5, <2>1 DEF Promise, h
<1>6. ASSUME NEW i \in Same(h) PROVE Answer(h) = Promise(h)
  <2>1. PICK k \in DOMAIN OutputsOf(i) : OutputsOf(i)[k] = x[2] /\ x[2].id = h.slot
    BY <1>1
  <2>2. \A j \in Same(h) : j = i
    BY <1>1, <1>2
  <2>3. Known(h) /\ NodesAt(h) # {} /\ Chosen(h) # {} /\ Same(h) # {}
    BY <1>1, <1>2
  <2>4. CASE ~Frozen(i).active
    <3>1. TargetsAt(h) = {}
      <4>1. SUFFICES ASSUME NEW t \in TargetsAt(h) PROVE FALSE
        OBVIOUS
      <4>2. PICK j \in P : Frozen(j).active /\ h.node = version.ids[j]
        BY TargetFound
      <4>3. j = i
        BY <1>1, <1>2, <4>2 DEF Chosen
      <4>. QED BY <2>4, <4>2, <4>3
    <3>2. Answer(h) = "NotCollected"
      BY <1>1, <2>3, <3>1 DEF Answer
    <3>3. Promise(h) = "NotCollected"
      BY <2>2, <2>3, <2>4 DEF Promise
    <3>. QED BY <3>2, <3>3
  <2>5. CASE Frozen(i).active
    <3>1. PICK t \in DOMAIN report.targets : report.targets[t] = Entry(val, i, k)
      BY <1>2, <2>5 DEF Late, TargetsLate
    <3>2. /\ Entry(val, i, k).node = h.node /\ Entry(val, i, k).slot = h.slot
          /\ Entry(val, i, k).generation = h.generation
      BY <1>2, <2>1 DEF Entry
    <3>3. t \in TargetsAt(h)
      BY <3>1, <3>2 DEF TargetsAt
    <3>4. target = Entry(val, i, k)
      BY <3>1, <3>3, TargetFound
    <3>5. Answer(h) = IF target.value # NoValue
                      THEN IF target.value.type = h.type THEN "value" ELSE "TypeMismatch"
                      ELSE IF target.taken THEN "OutputTaken" ELSE "OutputUnavailable"
      BY <1>1, <2>3, <3>3 DEF Answer
    <3> HIDE DEF target
    <3>6. /\ target.value = IF phase[i] = "succeeded" /\ ~Gave(val, i, k) THEN val[i][k] ELSE NoValue
          /\ target.taken = Gave(val, i, k)
      BY <3>4 DEF Entry
    <3>7. Gave(val, i, k) <=> Taken(h) # {}
      BY <1>1, <1>3, <2>1, <2>5, GivenIsGave
    <3>8. CASE phase[i] # "succeeded"
      <4>1. Gave(val, i, k) = FALSE
        BY <3>8 DEF Gave
      <4>2. Answer(h) = "OutputUnavailable"
        BY <3>5, <3>6, <3>8, <4>1
      <4>3. Promise(h) = "OutputUnavailable"
        BY <2>2, <2>3, <2>5, <3>8 DEF Promise
      <4>. QED BY <4>2, <4>3
    <3>9. CASE phase[i] = "succeeded"
      <4>1. Promise(h) = IF Taken(h) = {} THEN "value" ELSE "OutputTaken"
        BY <2>2, <2>3, <2>5, <3>9 DEF Promise
      <4>2. CASE Gave(val, i, k)
        <5>1. Answer(h) = "OutputTaken"
          BY <3>5, <3>6, <4>2
        <5>. QED BY <3>7, <4>1, <4>2, <5>1
      <4>3. CASE ~Gave(val, i, k)
        <5>1. val[i][k] # NoValue /\ val[i][k].type = h.type
          BY <1>1, <1>2, <2>1, <3>9 DEF Late, Whole
        <5>2. Answer(h) = "value"
          BY <3>5, <3>6, <3>9, <4>3, <5>1
        <5>. QED BY <3>7, <4>1, <4>3, <5>2
      <4>. QED BY <4>2, <4>3
    <3>. QED BY <3>8, <3>9
  <2>. QED BY <2>4, <2>5
<1>. QED BY <1>4, <1>5, <1>6 DEF h

\* What a foreign handle gets, and what a value is worth.
LEMMA ValuesFit ==
    ASSUME DeclInv, version.verdict = "Ok", NEW val, Late(val), NEW x \in issued,
           x[1].side = "out"
    PROVE  /\ Answer([x[1] EXCEPT !.graph = "other"]) = "ForeignHandle"
           /\ Answer(x[1]) = "value" => \A t \in TargetsAt(x[1]) :
                 /\ report.targets[t].value.type = x[2].type
                 /\ version.ids[report.targets[t].value.node] = x[1].node
<1>1. Answer([x[1] EXCEPT !.graph = "other"]) = "ForeignHandle"
  <2>1. OwnHandle(x[1])
    BY DEF DeclInv, HandlesOwn
  <2>2. [x[1] EXCEPT !.graph = "other"].graph = "other"
    BY <2>1 DEF OwnHandle
  <2>. QED BY <2>2 DEF Answer
<1>2. ASSUME Answer(x[1]) = "value", NEW t \in TargetsAt(x[1])
      PROVE  /\ report.targets[t].value.type = x[2].type
             /\ version.ids[report.targets[t].value.node] = x[1].node
  <2> DEFINE h == x[1]
  <2>1. (CHOOSE u \in TargetsAt(h) : TRUE) = t
    BY TargetFound
  <2>2. report.targets[t].value # NoValue /\ report.targets[t].value.type = h.type
    BY <1>2, <2>1, AnswerValue
  <2>3. PICK i \in P : \E k \in DOMAIN OutputsOf(i) :
           report.targets[t] = Entry(val, i, k) /\ h.node = version.ids[i]
    BY TargetFound
  <2>4. PICK k \in DOMAIN OutputsOf(i) :
           report.targets[t] = Entry(val, i, k) /\ h.node = version.ids[i]
    BY <2>3
  <2>5. phase[i] = "succeeded" /\ report.targets[t].value = val[i][k]
    BY <2>2, <2>4 DEF Entry
  <2>6. val[i][k].node = i
    BY <2>5 DEF Late, Whole
  <2>7. x[2].type = h.type
    BY NodesKnown
  <2>. QED BY <2>2, <2>4, <2>5, <2>6, <2>7
<1>. QED BY <1>1, <1>2

LEMMA AnswersPromised == ReportInv => ReportAnswers
<1> SUFFICES ASSUME ReportInv, report # NoReport PROVE ReportAnswers
  BY DEF ReportAnswers
<1>1. Started /\ DeclInv /\ version.verdict = "Ok"
  BY DEF ReportInv, RunInv, Started
<1>2. PICK val : Late(val)
  BY <1>1 DEF Started, Early
<1>3. \A i \in P : report.nodes[i].status = phase[i]
  BY <1>2 DEF Late, NodeEntries
<1>4. ToSet(report.failures) = {version.ids[i] : i \in PhaseIn({"failed"})}
  BY <1>2 DEF Late
<1>5. \A x \in issued : x[1].side = "out" => Answer(x[1]) = Promise(x[1])
  BY <1>1, <1>2, AnswerIsPromised
<1>6. \A x \in issued : x[1].side = "out" =>
         /\ Answer([x[1] EXCEPT !.graph = "other"]) = "ForeignHandle"
         /\ Answer(x[1]) = "value" => \A t \in TargetsAt(x[1]) :
               /\ report.targets[t].value.type = x[2].type
               /\ version.ids[report.targets[t].value.node] = x[1].node
  BY <1>1, <1>2, ValuesFit
<1>. QED BY <1>3, <1>4, <1>5, <1>6 DEF ReportAnswers, Promise, Chosen, Same, Taken

-----------------------------------------------------------------------------
(* Every step keeps the invariant. *)

LEMMA ReportInvStep == ReportInv /\ [ReportNext]_reportVars => ReportInv'
<1> SUFFICES ASSUME ReportInv, [ReportNext]_reportVars PROVE ReportInv'
  OBVIOUS
<1>1. DeclInv /\ RunInv
  BY DEF ReportInv
<1>2. CASE HandleNext /\ UNCHANGED <<version, runVars>>
  <2>1. DeclInv'
    BY <1>1, <1>2, EditsKeepVersion
  <2>2. RunInv'
    BY <1>1, <1>2, RunStutter DEF runVars
  <2>. QED BY <2>1, <2>2 DEF ReportInv
<1>3. CASE CompileGraph /\ UNCHANGED <<issued, runVars>>
  <2>1. DeclInv'
    BY <1>1, <1>3, CompileKeepsVersion
  <2>2. version.verdict # "Ok"
    BY <1>3 DEF CompileGraph, Refused
  <2>3. phase = <<>> /\ stop = FALSE /\ report = NoReport /\ handed = <<>>
    BY <1>1, <2>2 DEF RunInv, Started
  <2>4. RunInv'
    BY <1>3, <2>3 DEF runVars, RunInv, NoReport
  <2>. QED BY <2>1, <2>4 DEF ReportInv
<1>4. CASE RunStep /\ UNCHANGED <<allVars, version>>
  <2>1. DeclInv'
    BY <1>1, <1>4, VersionStutter
  <2>2. version' = version
    BY <1>4
  <2>3. ASSUME NEW count \in 0..MaxSupplied, StartRun(count) PROVE RunInv'
    BY <2>2, <2>3, StartStep
  <2>4. ASSUME phase # <<>>, Stop PROVE RunInv'
    BY <1>1, <2>2, <2>4, RunStutter DEF Stop
  <2>5. ASSUME phase # <<>>, TakeReport PROVE RunInv'
    BY <2>2, <2>5, TakeReportStep
  <2>6. ASSUME phase # <<>>, NEW i \in P, Claim(i) PROVE RunInv'
    BY <2>2, <2>6, ClaimStep
  <2>7. ASSUME phase # <<>>, NEW i \in P, NodeFails(i) PROVE RunInv'
    <3>1. phase[i] \in {"waiting", "running"}
      BY <2>7 DEF NodeFails, Open, PhaseIn
    <3>. QED BY <2>2, <2>7, <3>1, FailStep DEF NodeFails
  <2>8. ASSUME phase # <<>>, NEW i \in P, Discard(i) PROVE RunInv'
    BY <2>2, <2>8, DiscardStep
  <2>9. ASSUME phase # <<>>, NEW i \in P, NEW shape \in Shapes, TaskReturns(i, Bag(i, shape))
        PROVE  RunInv'
    BY <2>2, <2>9, ReturnStep
  <2>10. ASSUME NEW h, TakeOutput(h) PROVE RunInv'
    BY <2>2, <2>10, TakeOutputStep
  <2>11. RunInv'
    BY <1>4, <2>3, <2>4, <2>5, <2>6, <2>7, <2>8, <2>9, <2>10 DEF RunStep
  <2>. QED BY <2>1, <2>11 DEF ReportInv
<1>5. CASE UNCHANGED reportVars
  <2>1. DeclInv'
    BY <1>1, <1>5, VersionStutter DEF reportVars
  <2>2. RunInv'
    BY <1>1, <1>5, RunStutter DEF reportVars, runVars
  <2>. QED BY <2>1, <2>2 DEF ReportInv
<1>. QED BY <1>2, <1>3, <1>4, <1>5 DEF ReportNext

LEMMA ReportInvariant == ReportSpec => []ReportInv
<1>1. ReportInit => ReportInv
  BY DeclInvInit DEF ReportInit, ReportInv, RunInv
<1>. QED BY <1>1, ReportInvStep, PTL DEF ReportSpec

-----------------------------------------------------------------------------

\* Whatever a task returns, its bag is accepted exactly if it has one entry per
\* declared output, of its type and under its name or a key of this very
\* schema, and each value lands where it was meant (validate_outputs).
THEOREM ReturnsAreChecked == ReportSpec => []AcceptedExactly
BY ReportInvariant, ReturnsChecked, PTL

\* Whatever was compiled and run, every running task finds each input by name
\* or key, with the one accessor for its shape, and reads the values that were
\* committed or supplied for it (build_inputs, NodeInputs).
THEOREM InputsAreRead == ReportSpec => []InputsReadable
BY ReportInvariant, InputsRead, PTL

\* However commit, report and clients move them, the outputs of a node are all
\* there, one value per declared output and each in one place, or none is.
THEOREM OutputsStayWhole == ReportSpec => []OutputsWhole
BY ReportInvariant, PlacesWhole, PTL

\* To a handle of any age the report gives the answer its documentation
\* promises, and a value only of the output the handle was issued for, once
\* (target_index, output, take_output).
THEOREM HandlesAreAnswered == ReportSpec => []ReportAnswers
BY ReportInvariant, AnswersPromised, PTL

-----------------------------------------------------------------------------
(* The run of a version implements RunContract, on whatever plan it has.    *)

\* On the plan of the contract both speak of the same nodes, in the same phases.
LEMMA OnPlanFacts ==
    ASSUME ReportInv, OnPlan
    PROVE  /\ Started /\ P = Contract!Node /\ P # {} /\ phase \in [P -> Phases]
           /\ ContractPhase = phase /\ (ContractStop <=> stop)
           /\ \A S : PhaseIn(S) = Contract!In(S)
           /\ Open = Contract!Open
           /\ \A i : Ready(i) <=> Contract!Pred(i) \subseteq Contract!In({"succeeded"})
           /\ \A i : Run!Downstream(i, Open \ {i})
                        = Contract!Downstream(i, Contract!Open \ {i})
<1>1. Started /\ P = 1..Len(version.ids) /\ P # {} /\ phase \in [P -> Phases]
  <2>1. Started
    BY DEF ReportInv, RunInv, OnPlan
  <2>2. PlanFrozen(version) /\ version.verdict = "Ok"
    BY DEF ReportInv, DeclInv, OnPlan
  <2>. QED BY <2>1, <2>2, FrozenFacts DEF Started
<1>2. Run!Node = Contract!Node /\ P = Contract!Node
  BY <1>1 DEF OnPlan, Run!Node, Contract!Node
<1>3. ContractPhase = phase /\ (ContractStop <=> stop)
  BY DEF ContractPhase, ContractStop
<1>4. \A m : Run!Succ(m) = Contract!Succ(m)
  BY DEF OnPlan, Run!Succ, Contract!Succ, Run!ToSet, Contract!ToSet
<1>5. \A i : Run!Pred(i) = Contract!Pred(i)
  BY <1>2, <1>4 DEF Run!Pred, Contract!Pred
<1>6. \A i, O : Run!Downstream(i, O) = Contract!Downstream(i, O)
  BY <1>4 DEF Run!Downstream, Contract!Downstream
<1>7. \A S : PhaseIn(S) = Contract!In(S)
  BY <1>2, <1>3 DEF PhaseIn, Contract!In
<1>8. Open = Contract!Open
  BY <1>7 DEF Open, Contract!Open
<1>9. \A i : Ready(i) <=> Contract!Pred(i) \subseteq Contract!In({"succeeded"})
  BY <1>5, <1>7 DEF Ready
<1>10. \A i : Run!Downstream(i, Open \ {i}) = Contract!Downstream(i, Contract!Open \ {i})
  BY <1>6, <1>8
<1>. QED BY <1>1, <1>2, <1>3, <1>7, <1>8, <1>9, <1>10

\* A step of the run stays on the plan.
LEMMA OnPlanKept ==
    ASSUME ReportInv, OnPlan, version' = version, DOMAIN phase' = P
    PROVE  /\ OnPlan' /\ ContractPhase' = phase' /\ (ContractStop' <=> stop')
<1>1. P # {}
  BY OnPlanFacts
<1>2. phase' # <<>>
  BY <1>1
<1>3. OnPlan'
  BY <1>2 DEF OnPlan
<1>. QED BY <1>3 DEF ContractPhase, ContractStop

\* Nothing is reported yet, and the step does not report.
LEMMA Unreported ==
    ASSUME ReportInv, OnPlan, OnPlan', NEW i \in P, phase[i] \in {"waiting", "running"},
           report' = report
    PROVE  ContractOutcome = "none" /\ ContractOutcome' = "none"
<1>1. report = NoReport
  BY OpenIsEarly DEF OnPlan, Early
<1>. QED BY <1>1 DEF ContractOutcome, NoReport

LEMMA ClaimImplements ==
    ASSUME ReportInv, OnPlan, version' = version, NEW i \in P, Claim(i)
    PROVE  Contract!Claim(i) /\ i \in Contract!Node
<1>1. /\ ~stop /\ phase[i] = "waiting" /\ Ready(i) /\ phase' = [phase EXCEPT ![i] = "running"]
      /\ UNCHANGED <<stop, report>>
  BY DEF Claim
<1>2. DOMAIN phase' = P
  BY <1>1, OnPlanFacts
<1>3. OnPlan' /\ ContractPhase' = phase' /\ (ContractStop' <=> stop')
  BY <1>2, OnPlanKept
<1>4. ContractOutcome = "none" /\ ContractOutcome' = "none"
  BY <1>1, <1>3, Unreported
<1>5. /\ P = Contract!Node /\ ContractPhase = phase /\ (ContractStop <=> stop)
      /\ Contract!Pred(i) \subseteq Contract!In({"succeeded"})
  BY <1>1, OnPlanFacts
<1>6. ContractStop' = ContractStop
  BY <1>1, <1>3, <1>5 DEF ContractStop
<1>. QED BY <1>1, <1>3, <1>4, <1>5, <1>6 DEF Contract!Claim

LEMMA FailImplements ==
    ASSUME ReportInv, OnPlan, NEW i \in P, phase[i] \in {"waiting", "running"}, Ready(i),
           Fail(i), UNCHANGED <<version, stop, report>>
    PROVE  Contract!Fail(i) /\ i \in Contract!Node
<1> DEFINE hit == Run!Downstream(i, Open \ {i})
<1>1. phase' = [j \in P |-> IF j = i THEN "failed" ELSE IF j \in hit THEN "blocked" ELSE phase[j]]
  BY DEF Fail
<1>2. DOMAIN phase' = P
  BY <1>1
<1>3. OnPlan' /\ ContractPhase' = phase' /\ (ContractStop' <=> stop')
  BY <1>2, OnPlanKept
<1>4. ContractOutcome = "none" /\ ContractOutcome' = "none"
  BY <1>3, Unreported
<1>5. /\ P = Contract!Node /\ ContractPhase = phase /\ (ContractStop <=> stop)
      /\ Contract!Pred(i) \subseteq Contract!In({"succeeded"}) /\ i \in Contract!Open
      /\ hit = Contract!Downstream(i, Contract!Open \ {i})
  <2>1. i \in Open
    BY DEF Open, PhaseIn
  <2>. QED BY <2>1, OnPlanFacts
<1>6. ContractStop' = ContractStop
  BY <1>3, <1>5 DEF ContractStop
<1> HIDE DEF hit
<1>. QED BY <1>1, <1>3, <1>4, <1>5, <1>6 DEF Contract!Fail

\* A node is discarded by itself: its late result, or with the undecided ones.
LEMMA DiscardImplements ==
    ASSUME ReportInv, OnPlan, NEW i \in P, phase[i] \in {"waiting", "running"}, stop,
           phase' = [phase EXCEPT ![i] = "cancelled"], UNCHANGED <<version, stop, report>>
    PROVE  Contract!Discard({i}) /\ {i} \in SUBSET Contract!Node
<1>1. phase \in [P -> Phases] /\ P = Contract!Node /\ ContractPhase = phase /\ (ContractStop <=> stop)
      /\ Open = Contract!Open
  BY OnPlanFacts
<1>2. DOMAIN phase' = P
  BY <1>1
<1>3. OnPlan' /\ ContractPhase' = phase' /\ (ContractStop' <=> stop')
  BY <1>2, OnPlanKept
<1>4. ContractOutcome = "none" /\ ContractOutcome' = "none"
  BY <1>3, Unreported
<1>5. {i} \subseteq Contract!Open
  BY <1>1 DEF Open, PhaseIn
<1>6. phase' = [n \in P |-> IF n \in {i} THEN "cancelled" ELSE phase[n]]
  BY <1>1
<1>7. ContractStop' = ContractStop
  BY <1>1, <1>3 DEF ContractStop
<1>. QED BY <1>1, <1>3, <1>4, <1>5, <1>6, <1>7 DEF Contract!Discard

LEMMA ReturnImplements ==
    ASSUME ReportInv, OnPlan, version' = version, NEW i \in P, NEW bag, TaskReturns(i, bag)
    PROVE  Contract!Next
<1> DEFINE checked == ValidateOutputs(Frozen(i).schema, bag)
<1>1. phase[i] = "running" /\ UNCHANGED <<stop, report>>
  BY DEF TaskReturns
<1>2. Ready(i)
  BY <1>1, OpenIsEarly DEF Early, OnPlan
<1>3. CASE ~checked.ok
  <2>1. Fail(i)
    BY <1>3 DEF TaskReturns
  <2>. QED BY <1>1, <1>2, <2>1, FailImplements DEF Contract!Next
<1>4. CASE checked.ok /\ stop
  <2>1. phase' = [phase EXCEPT ![i] = "cancelled"]
    BY <1>4 DEF TaskReturns
  <2>. QED BY <1>1, <1>4, <2>1, DiscardImplements DEF Contract!Next
<1>5. CASE checked.ok /\ ~stop
  <2>1. phase' = [phase EXCEPT ![i] = "succeeded"]
    BY <1>5 DEF TaskReturns
  <2>2. P = Contract!Node /\ ContractPhase = phase /\ (ContractStop <=> stop)
        /\ phase \in [P -> Phases]
    BY OnPlanFacts
  <2>3. DOMAIN phase' = P
    BY <2>1, <2>2
  <2>4. OnPlan' /\ ContractPhase' = phase' /\ (ContractStop' <=> stop')
    BY <2>3, OnPlanKept
  <2>5. ContractOutcome = "none" /\ ContractOutcome' = "none"
    BY <1>1, <2>4, Unreported
  <2>6. ContractStop' = ContractStop
    BY <1>1, <2>2, <2>4 DEF ContractStop
  <2>7. Contract!Commit(i)
    BY <1>1, <1>5, <2>1, <2>2, <2>4, <2>5, <2>6 DEF Contract!Commit
  <2>. QED BY <2>2, <2>7 DEF Contract!Next
<1>. QED BY <1>3, <1>4, <1>5

LEMMA StopImplements ==
    ASSUME ReportInv, OnPlan, version' = version, Stop PROVE Contract!RequestStop
<1>1. stop' = TRUE /\ report = NoReport /\ UNCHANGED <<phase, report>>
  BY DEF Stop
<1>2. ContractPhase = phase /\ DOMAIN phase' = P
  BY <1>1, OnPlanFacts
<1>3. OnPlan' /\ ContractPhase' = phase' /\ (ContractStop' <=> stop')
  BY <1>2, OnPlanKept
<1>4. ContractOutcome = "none" /\ ContractOutcome' = "none"
  BY <1>1, <1>3 DEF ContractOutcome, NoReport
<1>5. ContractStop' = TRUE
  BY <1>1, <1>3 DEF ContractStop
<1>. QED BY <1>1, <1>2, <1>3, <1>4, <1>5 DEF Contract!RequestStop

LEMMA ReportImplements ==
    ASSUME ReportInv, OnPlan, version' = version, TakeReport PROVE Contract!Return
<1>1. report = NoReport /\ Open = {} /\ UNCHANGED <<phase, stop>>
  BY DEF TakeReport
<1>2. /\ P = Contract!Node /\ ContractPhase = phase /\ (ContractStop <=> stop) /\ DOMAIN phase' = P
      /\ Contract!Open = {} /\ \A S : PhaseIn(S) = Contract!In(S)
  BY <1>1, OnPlanFacts
<1>3. OnPlan' /\ ContractPhase' = phase' /\ (ContractStop' <=> stop')
  BY <1>2, OnPlanKept
<1>4. report' # NoReport
  BY TakeReportStep DEF OnPlan
<1>5. PhaseIn({"failed"})' = PhaseIn({"failed"})
  BY <1>1, SameVersion DEF PhaseIn
<1>6. /\ ContractOutcome = "none"
      /\ ContractOutcome' = IF stop THEN "Cancelled"
                            ELSE IF PhaseIn({"failed"}) # {} THEN "Failed" ELSE "Ok"
  BY <1>1, <1>3, <1>4, <1>5 DEF ContractOutcome, NoReport
<1>7. ContractStop' = ContractStop
  BY <1>1, <1>2, <1>3 DEF ContractStop
<1>. QED BY <1>1, <1>2, <1>3, <1>6, <1>7 DEF Contract!Return

\* What leaves the run and the version alone, or only takes from the report, is
\* no step of the contract.
LEMMA ContractStutter ==
    ASSUME UNCHANGED <<version, phase, stop>>,
           report' = report \/ (report # NoReport /\ report' # NoReport)
    PROVE  UNCHANGED Contract!vars
<1>1. OnPlan' = OnPlan /\ PhaseIn({"failed"})' = PhaseIn({"failed"})
  BY SameVersion DEF OnPlan, PhaseIn
<1>2. ContractPhase' = ContractPhase /\ ContractStop' = ContractStop
  BY <1>1 DEF ContractPhase, ContractStop
<1>3. (report' = NoReport) = (report = NoReport)
  OBVIOUS
<1>4. ContractOutcome' = ContractOutcome
  BY <1>1, <1>3 DEF ContractOutcome, NoReport
<1>. QED BY <1>2, <1>4 DEF Contract!vars

\* No run on the plan: before the start, or on another plan.
LEMMA OffPlan ==
    ASSUME ~OnPlan
    PROVE  /\ ContractPhase = [n \in 1..Size |-> "waiting"] /\ ContractStop = FALSE
           /\ ContractOutcome = "none"
  BY DEF ContractPhase, ContractStop, ContractOutcome

LEMMA StartImplements ==
    ASSUME ReportInv, version' = version, NEW count \in 0..MaxSupplied, StartRun(count)
    PROVE  UNCHANGED Contract!vars
<1>1. /\ version.verdict = "Ok" /\ phase = <<>> /\ phase' = [i \in P |-> "waiting"]
      /\ UNCHANGED <<stop, report>>
  BY DEF StartRun
<1>2. ~OnPlan /\ stop = FALSE /\ report = NoReport
  <2>1. ~OnPlan
    BY <1>1 DEF OnPlan
  <2>2. ASSUME Started PROVE FALSE
    <3>1. DOMAIN phase = P /\ P # {}
      BY <1>1, <2>2, FrozenFacts DEF Started, ReportInv, DeclInv
    <3>. QED BY <1>1, <3>1
  <2>. QED BY <2>1, <2>2 DEF ReportInv, RunInv
<1>3. CASE ~OnPlan'
  <2>1. /\ ContractPhase' = [n \in 1..Size |-> "waiting"] /\ ContractStop' = FALSE
        /\ ContractOutcome' = "none"
    BY <1>3 DEF ContractPhase, ContractStop, ContractOutcome
  <2>. QED BY <1>2, <2>1, OffPlan DEF Contract!vars
<1>4. CASE OnPlan'
  <2>1. Len(version.ids) = Size
    BY <1>4 DEF OnPlan
  <2>2. P = 1..Size
    BY <1>1, <2>1, FrozenFacts DEF ReportInv, DeclInv
  <2>3. ContractPhase' = [n \in 1..Size |-> "waiting"]
    BY <1>1, <1>4, <2>2 DEF ContractPhase
  <2>4. ContractStop' = FALSE
    BY <1>1, <1>2 DEF ContractStop
  <2>5. ContractOutcome' = "none"
    BY <1>1, <1>2 DEF ContractOutcome, NoReport
  <2>. QED BY <1>2, <2>3, <2>4, <2>5, OffPlan DEF Contract!vars
<1>. QED BY <1>3, <1>4

\* A step of a run on another plan stays there.
LEMMA OtherPlan ==
    ASSUME ReportInv, ~OnPlan, phase # <<>>, version' = version PROVE UNCHANGED Contract!vars
<1>1. version.verdict = "Ok"
  BY DEF ReportInv, RunInv, Started
<1>2. ~OnPlan'
  BY <1>1 DEF OnPlan
<1>3. /\ ContractPhase' = [n \in 1..Size |-> "waiting"] /\ ContractStop' = FALSE
      /\ ContractOutcome' = "none"
  BY <1>2 DEF ContractPhase, ContractStop, ContractOutcome
<1>. QED BY <1>3, OffPlan DEF Contract!vars

LEMMA ContractSteps ==
    ReportInv /\ [ReportNext]_reportVars => [Contract!Next]_(Contract!vars)
<1> SUFFICES ASSUME ReportInv, [ReportNext]_reportVars PROVE [Contract!Next]_(Contract!vars)
  OBVIOUS
<1>1. CASE HandleNext /\ UNCHANGED <<version, runVars>>
  BY <1>1, ContractStutter DEF runVars
<1>2. CASE CompileGraph /\ UNCHANGED <<issued, runVars>>
  <2>1. version.verdict # "Ok"
    BY <1>2 DEF CompileGraph, Refused
  <2>2. phase = <<>> /\ phase' = <<>>
    BY <1>2, <2>1 DEF runVars, ReportInv, RunInv, Started
  <2>3. ~OnPlan /\ ~OnPlan'
    BY <2>2 DEF OnPlan
  <2>4. /\ ContractPhase' = [n \in 1..Size |-> "waiting"] /\ ContractStop' = FALSE
        /\ ContractOutcome' = "none"
    BY <2>3 DEF ContractPhase, ContractStop, ContractOutcome
  <2>. QED BY <2>3, <2>4, OffPlan DEF Contract!vars
<1>3. CASE RunStep /\ UNCHANGED <<allVars, version>>
  <2>1. version' = version
    BY <1>3
  <2>2. ASSUME NEW count \in 0..MaxSupplied, StartRun(count) PROVE UNCHANGED Contract!vars
    BY <2>1, <2>2, StartImplements
  <2>3. ASSUME NEW h, TakeOutput(h) PROVE UNCHANGED Contract!vars
    <3>1. report # NoReport /\ report' # NoReport
      BY <2>1, <2>3, TakeOutputStep
    <3>. QED BY <2>1, <2>3, <3>1, ContractStutter DEF TakeOutput
  <2>4. CASE phase # <<>> /\ ~OnPlan
    BY <2>1, <2>4, OtherPlan
  <2>5. ASSUME OnPlan, Stop PROVE Contract!Next
    BY <2>1, <2>5, StopImplements DEF Contract!Next
  <2>6. ASSUME OnPlan, TakeReport PROVE Contract!Next
    BY <2>1, <2>6, ReportImplements DEF Contract!Next
  <2>7. ASSUME OnPlan, NEW i \in P, Claim(i) PROVE Contract!Next
    BY <2>1, <2>7, ClaimImplements DEF Contract!Next
  <2>8. ASSUME OnPlan, NEW i \in P, NodeFails(i) PROVE Contract!Next
    <3>1. /\ phase[i] \in {"waiting", "running"} /\ Ready(i) /\ Fail(i)
          /\ UNCHANGED <<version, stop, report>>
      BY <2>1, <2>8 DEF NodeFails, Open, PhaseIn
    <3>. QED BY <2>8, <3>1, FailImplements DEF Contract!Next
  <2>9. ASSUME OnPlan, NEW i \in P, Discard(i) PROVE Contract!Next
    <3>1. /\ phase[i] \in {"waiting", "running"} /\ stop
          /\ phase' = [phase EXCEPT ![i] = "cancelled"] /\ UNCHANGED <<version, stop, report>>
      BY <2>1, <2>9 DEF Discard, Open, PhaseIn
    <3>. QED BY <2>9, <3>1, DiscardImplements DEF Contract!Next
  <2>10. ASSUME OnPlan, NEW i \in P, NEW shape \in Shapes, TaskReturns(i, Bag(i, shape))
         PROVE  Contract!Next
    BY <2>1, <2>10, ReturnImplements
  <2>. QED BY <1>3, <2>2, <2>3, <2>4, <2>5, <2>6, <2>7, <2>8, <2>9, <2>10 DEF RunStep
<1>4. CASE UNCHANGED reportVars
  BY <1>4, ContractStutter DEF reportVars, runVars
<1>. QED BY <1>1, <1>2, <1>3, <1>4 DEF ReportNext

\* On whatever plan compile made, and whatever edits go on meanwhile, the run of a
\* version is a run of RunContract: for any schemas, declaration and bags.
THEOREM VersionsKeepContract == ReportSpec => ImplementsContract
<1>1. ReportInit => Contract!Init
  <2> SUFFICES ASSUME ReportInit PROVE Contract!Init
    OBVIOUS
  <2>1. ~OnPlan
    BY DEF ReportInit, OnPlan
  <2>. QED BY <2>1, OffPlan DEF Contract!Init, Contract!Node
<1>. QED BY <1>1, ContractSteps, ReportInvariant, PTL
         DEF ReportSpec, ImplementsContract, Contract!Spec

-----------------------------------------------------------------------------
(* A version goes on to meet what a run assumes of its plan, so what is     *)
(* proved of the contract holds of its run.                                 *)

LEMMA FitStep ==
    ReportInv /\ PlanFits(version) /\ [ReportNext]_reportVars => PlanFits(version')
<1> SUFFICES ASSUME ReportInv, PlanFits(version), [ReportNext]_reportVars
             PROVE  PlanFits(version')
  OBVIOUS
<1>1. CASE CompileGraph
  BY <1>1, CompiledFits DEF CompileGraph, ReportInv, DeclInv
<1>2. CASE version' = version
  BY <1>2
<1>. QED BY <1>1, <1>2 DEF ReportNext, reportVars

LEMMA VersionStaysFit == ReportSpec => [](ReportInv /\ PlanFits(version))
<1>1. ReportInit => ReportInv /\ PlanFits(version)
  BY DeclInvInit DEF ReportInit, ReportInv, RunInv, PlanFits, Refused
<1>2. ReportInv /\ PlanFits(version) /\ [ReportNext]_reportVars
        => (ReportInv /\ PlanFits(version))'
  BY ReportInvStep, FitStep DEF PlanFits
<1>. QED BY <1>1, <1>2, PTL DEF ReportSpec

\* However the graph is edited after compile, the version keeps a plan that meets
\* what its run assumes of it.
THEOREM PlansStayFit == ReportSpec => []PlanFitsRun
<1>1. PlanFits(version) => PlanFitsRun
  BY DEF PlanFits, PlanFitsRun
<1>. QED BY <1>1, VersionStaysFit, PTL

\* PlanAssumption of RunPlan for the plan that the constants name.
PlanGiven ==
    /\ Size \in Nat \ {0}
    /\ After \in [1..Size -> Seq(1..Size)]
    /\ \A n \in 1..Size : IsInjective(After[n])
    /\ \E rank \in [1..Size -> 1..Size] :
          \A n \in 1..Size : \A m \in ToSet(After[n]) : rank[n] < rank[m]

\* A plan that some version has is one that a run can take.
LEMMA OnPlanGiven == ReportInv /\ PlanFits(version) /\ OnPlan => PlanGiven
<1> SUFFICES ASSUME ReportInv, PlanFits(version), OnPlan PROVE PlanGiven
  OBVIOUS
<1>1. /\ version.verdict = "Ok" /\ Len(version.ids) = Size /\ version.successors = After
  BY DEF OnPlan
<1>2. P = 1..Size /\ Size \in Nat
  BY <1>1, FrozenFacts DEF ReportInv, DeclInv
<1>3. /\ P # {}
      /\ version.successors \in [P -> Seq(P)]
      /\ \A i \in P : IsInjective(version.successors[i])
      /\ \E rank \in [P -> P] :
            \A i \in P : \A j \in ToSet(version.successors[i]) : rank[i] < rank[j]
  BY <1>1 DEF PlanFits, P
<1>4. Size # 0
  BY <1>2, <1>3
<1>. QED BY <1>1, <1>2, <1>3, <1>4 DEF PlanGiven

Promises == INSTANCE RunContract_proof WITH
    N <- Size, Succs <- After,
    phase <- ContractPhase, stop <- ContractStop, outcome <- ContractOutcome

LEMMA SamePlan ==
    /\ Promises!Node = Contract!Node
    /\ \A n : Promises!Succ(n) = Contract!Succ(n) /\ Promises!Pred(n) = Contract!Pred(n)
    /\ \A n, O : Promises!Downstream(n, O) = Contract!Downstream(n, O)
    /\ \A p : Promises!In(p) = Contract!In(p)
    /\ Promises!Open = Contract!Open
  BY DEF Contract!Node, Contract!Succ, Contract!ToSet, Contract!Pred, Contract!In,
         Contract!Open, Contract!Downstream, Promises!Node, Promises!Succ, Promises!ToSet,
         Promises!Pred, Promises!In, Promises!Open, Promises!Downstream

LEMMA SameContract == Contract!Spec => Promises!Spec
<1>1. Contract!Init => Promises!Init
  BY SamePlan DEF Contract!Init, Promises!Init
<1>2. [Contract!Next]_(Contract!vars) => [Promises!Next]_(Promises!vars)
  BY SamePlan
     DEF Contract!Next, Contract!RequestStop, Contract!Claim, Contract!Commit, Contract!Fail,
         Contract!Discard, Contract!Return, Contract!vars, Promises!Next,
         Promises!RequestStop, Promises!Claim, Promises!Commit, Promises!Fail,
         Promises!Discard, Promises!Return, Promises!vars
<1>. QED BY <1>1, <1>2, PTL DEF Contract!Spec, Promises!Spec

LEMMA SameInvariant == Promises!Inv <=> Contract!Inv
  BY SamePlan
     DEF Promises!Inv, Promises!TypeOK, Promises!Phase, Promises!Outcome,
         Promises!StartedAfterInputs, Promises!FailureSettles, Promises!BlockedHasCause,
         Promises!BlockedNeedsFailure, Promises!BlocksFollowFailures, Promises!Dependents,
         Promises!DiscardNeedsStop, Promises!OutcomeTruthful,
         Contract!Inv, Contract!TypeOK, Contract!Phase, Contract!Outcome,
         Contract!StartedAfterInputs, Contract!FailureSettles, Contract!BlockedHasCause,
         Contract!BlockedNeedsFailure, Contract!BlocksFollowFailures, Contract!Dependents,
         Contract!DiscardNeedsStop, Contract!OutcomeTruthful

\* No assumption about a plan is left: whatever compile made, and whatever edits go
\* on, in the run of the version nothing waits for a node that can never start, the
\* report is truthful and complete, a settled node keeps its verdict, and nothing
\* starts or commits after a stop.
THEOREM VersionsKeepPromises ==
    ReportSpec => /\ [](OnPlan => Contract!Inv)
                  /\ Contract!SettledIsFinal /\ Contract!StopFreezes
<1>1. CASE PlanGiven
  <2>1. ReportSpec => Promises!Spec
    BY VersionsKeepContract, SameContract DEF ImplementsContract
  <2> USE <1>1 DEF PlanGiven, Promises!Node, Promises!IsInjective, IsInjective,
                   Promises!ToSet, ToSet
  <2>2. Promises!Spec => []Promises!Inv
    BY Promises!ContractInvariant
  <2>3. Promises!Spec => Promises!SettledIsFinal
    BY Promises!SettledStays
  <2>4. Promises!Spec => Promises!StopFreezes
    BY Promises!StopIsFinal
  <2>5. [Promises!SettledStep]_(Promises!vars) => [Contract!SettledStep]_(Contract!vars)
    BY SamePlan DEF Promises!SettledStep, Promises!Settled, Promises!vars,
                    Contract!SettledStep, Contract!Settled, Contract!vars
  <2>6. [Promises!StopFreezesStep]_(Promises!vars) => [Contract!StopFreezesStep]_(Contract!vars)
    BY SamePlan DEF Promises!StopFreezesStep, Promises!vars,
                    Contract!StopFreezesStep, Contract!vars
  <2>7. Promises!Inv => (OnPlan => Contract!Inv)
    BY SameInvariant
  <2>. QED BY <2>1, <2>2, <2>3, <2>4, <2>5, <2>6, <2>7, PTL
           DEF Promises!SettledIsFinal, Promises!StopFreezes,
               Contract!SettledIsFinal, Contract!StopFreezes
<1>2. CASE ~PlanGiven
  <2>1. ReportInv /\ PlanFits(version) => ~OnPlan
    BY <1>2, OnPlanGiven
  <2>2. ~OnPlan /\ ~OnPlan' => [FALSE]_(Contract!vars)
    <3>1. SUFFICES ASSUME ~OnPlan, ~OnPlan' PROVE UNCHANGED Contract!vars
      OBVIOUS
    <3>2. /\ ContractPhase' = [n \in 1..Size |-> "waiting"] /\ ContractStop' = FALSE
          /\ ContractOutcome' = "none"
      BY <3>1 DEF ContractPhase, ContractStop, ContractOutcome
    <3>. QED BY <3>1, <3>2, OffPlan DEF Contract!vars
  <2>3. /\ [FALSE]_(Contract!vars) => [Contract!SettledStep]_(Contract!vars)
        /\ [FALSE]_(Contract!vars) => [Contract!StopFreezesStep]_(Contract!vars)
    OBVIOUS
  <2>. QED BY <2>1, <2>2, <2>3, VersionStaysFit, PTL
           DEF Contract!SettledIsFinal, Contract!StopFreezes
<1>. QED BY <1>1, <1>2
=============================================================================
