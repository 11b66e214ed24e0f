------------------------- MODULE CollectionProofs -------------------------
(* Proofs about Collection: one collector from the configuration that asks for
   its metrics to the score and the page its samples end in.  The counters are
   followed from their first reading with arithmetic modulo their width; the
   budgets and the order of the scores come from the charges of HealthRules,
   component by component; the rest is one inductive invariant, CollectionInv,
   that says of a batch what was asked, what was read and what it is worth. *)
EXTENDS Collection, FiniteSetTheorems, WellFoundedInduction, TLAPS

---------------------------------------------------------------------------
\* The catalog: what a feature asks for passes threshold, scope and filter.

LEMMA PriorityValues == \A p : priorityValue(p) \in 0..2
  BY DEF priorityValue

\* A nonempty set of naturals has a least element.
LEMMA LeastIndex ==
    ASSUME NEW I \in SUBSET Nat, I /= {}
    PROVE  \E i \in I : \A j \in I : i <= j
  <1>1. PICK i \in I : \A j \in I : ~(<<j, i>> \in OpToRel(<, Nat))
    BY NatLessThanWellFounded, WFMin
  <1>2. \A j \in I : ~(j < i)
    BY <1>1 DEF OpToRel
  <1>3. QED
    BY <1>2

Lists(files, k) == {i \in DOMAIN files : k \in DOMAIN files[i].entries}
Urgency(files, k, i) == priorityValue(files[i].entries[k].priority)
Best(files, k, i) ==
    \A j \in Lists(files, k) :
        \/ Urgency(files, k, i) > Urgency(files, k, j)
        \/ Urgency(files, k, i) = Urgency(files, k, j) /\ i <= j

\* The features that list k have a strongest one among them.
LEMMA BestExists ==
    ASSUME NEW files, DOMAIN files \subseteq Nat, NEW k, Lists(files, k) /= {}
    PROVE  \E i \in Lists(files, k) : Best(files, k, i)
  <1> DEFINE L == Lists(files, k)
             At(m) == {i \in L : Urgency(files, k, i) = m}
  <1>1. \A i \in L : Urgency(files, k, i) \in 0..2
    BY PriorityValues DEF Urgency
  <1>2. L \subseteq Nat
    BY DEF Lists
  <1>3. \E m \in 0..2 : At(m) /= {} /\ \A i \in L : Urgency(files, k, i) <= m
    <2>1. CASE At(2) /= {}
      BY <2>1, <1>1
    <2>2. CASE At(2) = {} /\ At(1) /= {}
      <3>1. \A i \in L : Urgency(files, k, i) <= 1
        BY <2>2, <1>1
      <3>2. QED
        BY <3>1, <2>2
    <2>3. CASE At(2) = {} /\ At(1) = {}
      <3>1. \A i \in L : Urgency(files, k, i) = 0
        BY <2>3, <1>1
      <3>2. At(0) /= {}
        BY <3>1
      <3>3. QED
        BY <3>1, <3>2
    <2>4. QED
      BY <2>1, <2>2, <2>3
  <1>4. PICK m \in 0..2 : At(m) /= {} /\ \A i \in L : Urgency(files, k, i) <= m
    BY <1>3
  <1>5. At(m) \in SUBSET Nat
    BY <1>2
  <1>6. PICK i \in At(m) : \A j \in At(m) : i <= j
    BY <1>4, <1>5, LeastIndex
  <1>7. ASSUME NEW j \in L
        PROVE  \/ Urgency(files, k, i) > Urgency(files, k, j)
               \/ Urgency(files, k, i) = Urgency(files, k, j) /\ i <= j
    <2>1. Urgency(files, k, i) = m /\ Urgency(files, k, j) \in 0..2 /\ Urgency(files, k, j) <= m
      BY <1>1, <1>4, <1>6
    <2>2. CASE Urgency(files, k, j) = m
      BY <2>1, <2>2, <1>6
    <2>3. CASE Urgency(files, k, j) /= m
      BY <2>1, <2>3
    <2>4. QED
      BY <2>2, <2>3
  <1>8. QED
    BY <1>6, <1>7 DEF Best

\* Merging the features' files never weakens what one of them asks for.
LEMMA StrongestIsStrong ==
    ASSUME NEW files, DOMAIN files \subseteq Nat, NEW k, NEW i \in Lists(files, k)
    PROVE  /\ files[i].entries[k].static => Override(files, k).static
           /\ priorityValue(Override(files, k).priority) >= Urgency(files, k, i)
  <1> DEFINE best == CHOOSE b \in Lists(files, k) : Best(files, k, b)
  <1>1. Override(files, k) = [priority |-> files[best].entries[k].priority,
                              static |-> \E j \in Lists(files, k) : files[j].entries[k].static]
    BY Zenon DEF Override, StrongestWins, Lists, Best, Urgency
  <1>2. best \in Lists(files, k) /\ Best(files, k, best)
    BY BestExists
  <1>3. priorityValue(Override(files, k).priority) = Urgency(files, k, best)
    BY <1>1 DEF Urgency
  <1>4. Urgency(files, k, best) >= Urgency(files, k, i)
    <2>1. Urgency(files, k, best) \in 0..2 /\ Urgency(files, k, i) \in 0..2
      BY PriorityValues DEF Urgency
    <2>2. QED
      BY <2>1, <1>2 DEF Best
  <1>5. files[i].entries[k].static => Override(files, k).static
    BY <1>1
  <1>6. QED
    BY <1>3, <1>4, <1>5

\* Nor does merging a feature's entry with the default one.
LEMMA MergeKeepsStrong ==
    ASSUME NEW b, NEW o, NEW v \in 0..2, o.static \/ priorityValue(o.priority) >= v
    PROVE  mergeSpec(b, o).static \/ priorityValue(mergeSpec(b, o).priority) >= v
  <1>1. CASE o.static
    BY <1>1 DEF mergeSpec
  <1>2. CASE ~o.static /\ o.priority = ""
    <2>1. priorityValue("") = 0
      BY DEF priorityValue
    <2>2. priorityValue(o.priority) = 0
      BY <1>2, <2>1, Zenon
    <2>3. priorityValue(o.priority) >= v
      BY <1>2, Zenon
    <2>4. v = 0
      BY <2>2, <2>3
    <2>5. priorityValue(mergeSpec(b, o).priority) \in 0..2
      BY PriorityValues
    <2>6. QED
      BY <2>4, <2>5
  <1>3. CASE ~o.static /\ o.priority /= ""
    <2>1. mergeSpec(b, o).priority = o.priority
      BY <1>3 DEF mergeSpec
    <2>2. QED
      BY <1>3, <2>1
  <1>4. QED
    BY <1>1, <1>2, <1>3

\* A metric a feature asks for is wanted by the gates and passes the filter, in
\* every command.
LEMMA AskedIsSelected ==
    ASSUME NEW command, NEW defaults, NEW files, NEW own, NEW min, NEW c, NEW k,
           c = Configured(command, defaults, files, own, min),
           DOMAIN files \subseteq Nat,
           \A i \in DOMAIN files : files[i].state /= "broken",
           NEW i \in Lists(files, k),
           files[i].entries[k].static \/ Urgency(files, k, i) >= priorityValue(min)
    PROVE  IsWanted(c, k) /\ Selected(c, k)
  <1> DEFINE first == applyCatalog(<< >>, defaults.entries)
             over == [x \in Listed(files) |-> Override(files, x)]
             cat == applyCatalog(first, over)
             Strong(s) == s.static \/ priorityValue(s.priority) >= priorityValue(min)
  <1>1. k \in Listed(files)
    BY DEF Listed, Lists
  <1>2. Strong(over[k])
    <2>1. over[k] = Override(files, k)
      BY <1>1
    <2>2. priorityValue(min) \in 0..2 /\ priorityValue(Override(files, k).priority) \in 0..2
          /\ Urgency(files, k, i) \in 0..2
      BY PriorityValues DEF Urgency
    <2>3. QED
      BY <2>1, <2>2, StrongestIsStrong
  <1>3. k \in DOMAIN cat /\ Strong(cat[k])
    <2>1. k \in DOMAIN cat /\ cat[k] \in {over[k], mergeSpec(first[k], over[k])}
      BY <1>1 DEF applyCatalog
    <2>2. Strong(mergeSpec(first[k], over[k]))
      BY <1>2, MergeKeepsStrong, PriorityValues
    <2>3. QED
      BY <1>2, <2>1, <2>2
  <1>4. loadConfig(defaults, files) =
            [cat |-> cat, scope |-> Listed(files), threshold |-> 0, gated |-> FALSE]
    BY DEF loadConfig, LoadFeatureOverrides, SetFeatureScope
  <1>5. CASE command = "health"
    <2>1. c.scope = Listed(files) /\ c.threshold = 0
      BY <1>4, <1>5 DEF Configured
    <2>2. priorityValue(c.cat[k].priority) >= 0
      BY PriorityValues
    <2>3. QED
      BY <1>1, <2>1, <2>2 DEF IsWanted, Selected, inScope
  <1>6. CASE command /= "health"
    <2>1. c.scope = Listed(files) /\ c.threshold = priorityValue(min) /\ c.cat = cat
      BY <1>4, <1>6 DEF Configured
    <2>2. QED
      BY <1>1, <1>3, <2>1 DEF IsWanted, Selected, inScope
  <1>7. QED
    BY <1>5, <1>6

---------------------------------------------------------------------------
\* The score: the charges of every component fit its weight.

\* A finite set of integers has a greatest element: removing one from a least
\* set that had none would leave a smaller one.
LEMMA GreatestElement ==
    ASSUME NEW S \in SUBSET Int, IsFiniteSet(S), S /= {}
    PROVE  \E x \in S : \A y \in S : x >= y
  <1> DEFINE Without == {U \in FiniteSubsetsOf(S) :
                           U /= {} /\ ~\E x \in U : \A y \in U : x >= y}
  <1>1. S \in FiniteSubsetsOf(S)
    BY DEF FiniteSubsetsOf
  <1>2. ASSUME Without /= {} PROVE FALSE
    <2>1. Without \subseteq FiniteSubsetsOf(S)
      OBVIOUS
    <2> HIDE DEF Without
    <2>2. PICK U \in Without : \A V \in Without : ~(<<V, U>> \in StrictSubsetOrdering(S))
      BY <1>2, <2>1, FS_StrictSubsetOrderingWellFounded, WFMin
    <2> USE DEF Without
    <2>3. U \in SUBSET S /\ IsFiniteSet(U) /\ U /= {} /\ ~\E x \in U : \A y \in U : x >= y
      BY DEF FiniteSubsetsOf
    <2>4. PICK z \in U : TRUE
      BY <2>3
    <2> DEFINE V == U \ {z}
    <2>5. IsFiniteSet(V)
      BY <2>3, FS_RemoveElement
    <2>6. V \in FiniteSubsetsOf(S) /\ <<V, U>> \in StrictSubsetOrdering(S)
      BY <2>3, <2>4, <2>5 DEF FiniteSubsetsOf, StrictSubsetOrdering
    <2>7. V = {} \/ \E x \in V : \A y \in V : x >= y
      BY <2>2, <2>6
    <2>8. CASE V = {}
      <3>1. \A y \in U : z >= y
        BY <2>3, <2>4, <2>8
      <3>2. QED
        BY <3>1, <2>3, <2>4
    <2>9. CASE \E x \in V : \A y \in V : x >= y
      <3>1. PICK x \in V : \A y \in V : x >= y
        BY <2>9
      <3>2. x \in Int /\ z \in Int /\ \A y \in U : y \in Int /\ (y = z \/ y \in V)
        BY <2>3, <2>4
      <3>3. CASE x >= z
        BY <3>1, <3>2, <3>3, <2>3
      <3>4. CASE z >= x
        BY <3>1, <3>2, <3>4, <2>3, <2>4
      <3>5. QED
        BY <3>2, <3>3, <3>4
    <2>10. QED
      BY <2>7, <2>8, <2>9
  <1>3. QED
    BY <1>1, <1>2

LEMMA MaxIsGreatest ==
    ASSUME NEW S \in SUBSET Int, IsFiniteSet(S), S /= {}
    PROVE  Max(S) \in S /\ \A y \in S : Max(S) >= y
  BY GreatestElement DEF Max

\* Readings of a batch.
IsBatch(v) == IsFiniteSet(DOMAIN v) /\ \A k \in DOMAIN v : v[k] \in Int

LEMMA MountsFinite ==
    ASSUME NEW v, IsBatch(v)
    PROVE  /\ IsFiniteSet(Mounts(v))
           /\ Cardinality(Mounts(v)) \in Nat
           /\ Parts(v) \in Nat \ {0}
  <1>1. Mounts(v) \in SUBSET DOMAIN v
    BY DEF Mounts
  <1>2. IsFiniteSet(Mounts(v))
    BY <1>1, FS_Subset DEF IsBatch
  <1>3. Cardinality(Mounts(v)) \in Nat /\ (Mounts(v) /= {} => Cardinality(Mounts(v)) /= 0)
    BY <1>2, FS_CardinalityType, FS_EmptySet
  <1>4. QED
    BY <1>2, <1>3 DEF Parts

\* The mounts fuller than t percent.
Fuller(v, t) == {k \in Mounts(v) : v[k] > t}

LEMMA FullerMounts ==
    ASSUME NEW v, IsBatch(v)
    PROVE  /\ \A t : /\ IsFiniteSet(Fuller(v, t))
                     /\ Cardinality(Fuller(v, t)) \in Nat
                     /\ Cardinality(Fuller(v, t)) <= Cardinality(Mounts(v))
           /\ Cardinality({k \in Mounts(v) : v[k] > 80 /\ v[k] <= 90})
                = Cardinality(Fuller(v, 80)) - Cardinality(Fuller(v, 90))
  <1>1. \A t : /\ IsFiniteSet(Fuller(v, t))
               /\ Cardinality(Fuller(v, t)) \in Nat
               /\ Cardinality(Fuller(v, t)) <= Cardinality(Mounts(v))
    <2> TAKE t
    <2>1. Fuller(v, t) \in SUBSET Mounts(v)
      BY DEF Fuller
    <2>2. QED
      BY <2>1, MountsFinite, FS_Subset, FS_CardinalityType
  <1> DEFINE between == {k \in Mounts(v) : v[k] > 80 /\ v[k] <= 90}
             above == Fuller(v, 90)
  <1>2. \A k \in Mounts(v) : v[k] \in Int
    BY DEF IsBatch, Mounts
  <1>3. between \cup above = Fuller(v, 80) /\ between \cap above = {}
    BY <1>2 DEF Fuller
  <1>4. IsFiniteSet(between) /\ Cardinality(between) \in Nat
    <2>1. between \in SUBSET Mounts(v)
      OBVIOUS
    <2>2. QED
      BY <2>1, MountsFinite, FS_Subset, FS_CardinalityType
  <1>5. IsFiniteSet(above) /\ Cardinality(above) \in Nat
    BY <1>1
  <1> HIDE DEF between, above
  <1>6. Cardinality(between \cup above)
          = Cardinality(between) + Cardinality(above) - Cardinality(between \cap above)
    BY <1>4, <1>5, FS_Union
  <1>7. Cardinality(between \cap above) = 0
    BY <1>3, FS_EmptySet
  <1>8. Cardinality(Fuller(v, 80)) = Cardinality(between) + Cardinality(above)
    <2>1. Cardinality(between \cup above) = Cardinality(Fuller(v, 80))
      BY <1>3, Zenon
    <2> DEFINE all == Cardinality(between \cup above)
               both == Cardinality(between \cap above)
    <2>2. all = Cardinality(between) + Cardinality(above) - both /\ both = 0
      BY <1>6, <1>7
    <2> HIDE DEF all, both
    <2>3. all = Cardinality(between) + Cardinality(above)
      BY <1>4, <1>5, <2>2
    <2>4. QED
      BY <2>1, <2>3 DEF all
  <1>9. Cardinality(between) = Cardinality(Fuller(v, 80)) - Cardinality(above)
    BY <1>4, <1>5, <1>8
  <1>10. QED
    BY <1>1, <1>9 DEF between, above

LEMMA DiskCharge ==
    ASSUME NEW v, IsBatch(v)
    PROVE  evaluateDisk(v) =
             20 * Cardinality(Fuller(v, 90)) + 15 * Cardinality(Fuller(v, 80))
             + Parts(v) * (Charge(v, "io_wait", 20, 15)
                           + IF \E r \in Values(v, "smart_status") : r < 1 THEN 50 ELSE 0)
  <1> DEFINE a == Cardinality({k \in Mounts(v) : v[k] > 90})
             b == Cardinality({k \in Mounts(v) : v[k] > 80 /\ v[k] <= 90})
             x == Parts(v) * (Charge(v, "io_wait", 20, 15)
                           + IF \E r \in Values(v, "smart_status") : r < 1 THEN 50 ELSE 0)
  <1>1. evaluateDisk(v) = 35 * a + 15 * b + x
    BY DEF evaluateDisk
  <1>2. a = Cardinality(Fuller(v, 90)) /\ b = Cardinality(Fuller(v, 80)) - a /\ a \in Nat
        /\ Cardinality(Fuller(v, 80)) \in Nat
    BY FullerMounts DEF Fuller
  <1>3. x \in Int
    BY MountsFinite DEF Charge
  <1> HIDE DEF a, b, x
  <1>4. QED
    BY <1>1, <1>2, <1>3 DEF x

\* No component's charges exceed a hundred percent, whatever is read.
LEMMA LostInBudget ==
    ASSUME NEW c \in Components, NEW v, IsBatch(v), NEW first
    PROVE  Lost(c, v, first) \in 0..(100 * Parts(v))
  <1>1. CASE c /= "disk"
    <2>1. Lost(c, v, first) \in 0..100
      <3>1. CASE c = "cpu"
        BY <3>1 DEF Lost, evaluateCPU, Graded, Bands, Charge, Corrected
      <3>2. CASE c = "memory"
        BY <3>2 DEF Lost, evaluateMemory, Graded, Bands, Charge, Corrected
      <3>3. CASE c = "gpu"
        BY <3>3 DEF Lost, evaluateGPU, Graded, Bands, Charge
      <3>4. CASE c = "npu"
        BY <3>4 DEF Lost, evaluateNPU, Graded, Bands, Charge, Ecc
      <3>5. CASE c = "network"
        BY <3>5 DEF Lost, evaluateNetwork, Graded, Bands, Charge
      <3>6. CASE c = "chassis"
        BY <3>6 DEF Lost, evaluateChassis, Graded, Bands, Charge
      <3>7. QED
        BY <1>1, <3>1, <3>2, <3>3, <3>4, <3>5, <3>6 DEF Components
    <2>2. QED
      BY <2>1, MountsFinite
  <1>2. CASE c = "disk"
    <2> DEFINE p == Parts(v)
               n == Cardinality(Mounts(v))
               rest == Charge(v, "io_wait", 20, 15)
                       + IF \E r \in Values(v, "smart_status") : r < 1 THEN 50 ELSE 0
               a == Cardinality(Fuller(v, 90))
               b == Cardinality(Fuller(v, 80))
    <2>1. Lost(c, v, first) = 20 * a + 15 * b + p * rest
      BY <1>2, DiskCharge DEF Lost
    <2>2. rest \in {0, 15, 50, 65}
      BY DEF Charge
    <2>3. a \in Nat /\ b \in Nat /\ a <= p /\ b <= p /\ p \in Nat
      <3>1. a \in Nat /\ b \in Nat /\ a <= n /\ b <= n
        BY FullerMounts
      <3>2. n \in Nat /\ n <= p /\ p \in Nat
        BY MountsFinite, FS_EmptySet DEF Parts
      <3> HIDE DEF a, b, n, p
      <3>3. QED
        BY <3>1, <3>2
    <2> HIDE DEF a, b, p, rest
    <2>4. 20 * a + 15 * b + p * rest \in 0..(100 * p)
      BY <2>2, <2>3
    <2>5. QED
      BY <2>1, <2>4 DEF p
  <1>3. QED
    BY <1>1, <1>2

\* Rounding down.
LEMMA DivBelow ==
    ASSUME NEW x \in Nat, NEW w \in Nat, NEW d \in Nat \ {0}, x <= w * d
    PROVE  x \div d \in 0..w
  <1> DEFINE q == x \div d
  <1>1. q \in Nat /\ q * d <= x
    BY SMT
  <1> HIDE DEF q
  <1>2. ASSUME q >= w + 1 PROVE FALSE
    <2>1. q * d >= (w + 1) * d
      BY <1>1, <1>2, SMT
    <2>2. (w + 1) * d = w * d + d
      BY SMT
    <2>3. w * d \in Nat /\ q * d \in Nat
      BY <1>1, SMT
    <2>4. QED
      BY <1>1, <2>1, <2>2, <2>3, SMT
  <1>3. q <= w
    BY <1>1, <1>2
  <1>4. QED
    BY <1>1, <1>3 DEF q

LEMMA DivMonotone ==
    ASSUME NEW x \in Nat, NEW y \in Nat, NEW d \in Nat \ {0}, x <= y
    PROVE  x \div d <= y \div d
  <1> DEFINE q == y \div d
             m == y % d
  <1>1. q \in Nat /\ m \in 0..(d - 1) /\ y = q * d + m
    BY SMT
  <1>2. y <= (q + 1) * d - 1
    <2>1. (q + 1) * d = q * d + d
      BY <1>1, SMT
    <2>2. q * d \in Nat
      BY <1>1, SMT
    <2> HIDE DEF q, m
    <2>3. QED
      BY <1>1, <2>1, <2>2, SMT
  <1> DEFINE r == x \div d
             n == x % d
  <1>3. r \in Nat /\ n \in 0..(d - 1) /\ x = r * d + n
    BY SMT
  <1> HIDE DEF q, m, r, n
  <1>4. ASSUME r >= q + 1 PROVE FALSE
    <2>1. r * d >= (q + 1) * d
      BY <1>1, <1>3, <1>4, SMT
    <2>2. r * d \in Nat /\ (q + 1) * d \in Nat
      BY <1>1, <1>3, SMT
    <2>3. QED
      BY <1>2, <1>3, <2>1, <2>2, SMT
  <1>5. QED
    BY <1>1, <1>3, <1>4 DEF q, r

LEMMA PointsAre ==
    ASSUME NEW w \in Nat, NEW p \in Nat \ {0}, NEW lost \in 0..(100 * p)
    PROVE  /\ w * (100 * p - lost) \in Nat
           /\ w * (100 * p - lost) <= w * (100 * p)
           /\ Points(w, lost, p) = (w * (100 * p - lost)) \div (100 * p)
           /\ Points(w, lost, p) \in 0..w
  <1> DEFINE d == 100 * p
             a == d - lost
             x == w * a
             q == x \div d
  <1>1. d \in Nat \ {0} /\ a \in 0..d
    BY SMT
  <1> HIDE DEF d, a
  <1>2. x \in Nat /\ x <= w * d
    BY <1>1, SMT
  <1> HIDE DEF x
  <1>3. q \in 0..w
    BY <1>1, <1>2, DivBelow
  <1> HIDE DEF q
  <1>4. Max({0, q}) = q
    <2>1. \A z \in {0, q} : q >= z
      BY <1>3
    <2>2. \A y \in {0, q} : (\A z \in {0, q} : y >= z) => y = q
      BY <1>3
    <2>3. QED
      BY <2>1, <2>2 DEF Max
  <1>5. Points(w, lost, p) = Max({0, q})
    BY DEF Points, q, x, a, d
  <1>6. QED
    BY <1>2, <1>3, <1>4, <1>5 DEF q, x, a, d

\* Less is lost, more points are left.
LEMMA PointsFall ==
    ASSUME NEW w \in Nat, NEW p \in Nat \ {0},
           NEW lost \in 0..(100 * p), NEW more \in 0..(100 * p), lost <= more
    PROVE  Points(w, more, p) <= Points(w, lost, p)
  <1> DEFINE d == 100 * p
             x == w * (d - more)
             y == w * (d - lost)
  <1>1. d \in Nat \ {0}
    BY SMT
  <1>2. x \in Nat /\ y \in Nat
    BY PointsAre DEF d
  <1>3. x <= y
    <2> DEFINE a == d - more
               b == d - lost
    <2>1. a \in Nat /\ b \in Nat /\ a <= b
      BY SMT
    <2> HIDE DEF a, b
    <2>2. w * a <= w * b
      BY <2>1, SMT
    <2>3. QED
      BY <2>2 DEF a, b
  <1>4. Points(w, more, p) = x \div d /\ Points(w, lost, p) = y \div d
    BY PointsAre DEF d
  <1> HIDE DEF d, x, y
  <1>5. QED
    BY <1>1, <1>2, <1>3, <1>4, DivMonotone

\* Weights that add up to a hundred points at most, of the accelerators only
\* the one kind a host may have.
Balanced(w, gpu) ==
    /\ \A c \in Components : w[c] \in Nat
    /\ w["cpu"] + w["memory"] + w["disk"] + w["network"] + w["chassis"]
         + (IF gpu THEN w["gpu"] ELSE w["npu"]) <= 100

LEMMA SchemesBalanced ==
    ASSUME NEW gpu \in BOOLEAN, NEW npu \in BOOLEAN, NEW cards
    PROVE  Balanced(Scheme(gpu, npu, cards), gpu)
  <1> DEFINE w == Scheme(gpu, npu, cards)
  <1>1. \/ w = CPUOnlyScheme \/ w = Accelerated2CardScheme
        \/ w = Accelerated4CardScheme \/ w = Accelerated8CardScheme
    <2>1. CASE gpu
      BY <2>1 DEF Scheme
    <2>2. CASE ~gpu /\ npu
      BY <2>2 DEF Scheme
    <2>3. CASE ~gpu /\ ~npu
      BY <2>3 DEF Scheme
    <2>4. QED
      BY <2>1, <2>2, <2>3
  <1> HIDE DEF w
  <1>2. CASE w = CPUOnlyScheme
    <2>1. w["cpu"] = 25 /\ w["memory"] = 25 /\ w["disk"] = 30 /\ w["gpu"] = 0 /\ w["npu"] = 0
          /\ w["network"] = 10 /\ w["chassis"] = 10
      BY <1>2 DEF CPUOnlyScheme
    <2>2. QED
      BY <2>1 DEF Components, w, Balanced
  <1>3. CASE w = Accelerated2CardScheme
    <2>1. w["cpu"] = 20 /\ w["memory"] = 20 /\ w["disk"] = 20 /\ w["gpu"] = 20 /\ w["npu"] = 20
          /\ w["network"] = 10 /\ w["chassis"] = 10
      BY <1>3 DEF CPUOnlyScheme, Accelerated2CardScheme
    <2>2. QED
      BY <2>1 DEF Components, w, Balanced
  <1>4. CASE w = Accelerated4CardScheme
    <2>1. w["cpu"] = 15 /\ w["memory"] = 15 /\ w["disk"] = 20 /\ w["gpu"] = 30 /\ w["npu"] = 30
          /\ w["network"] = 10 /\ w["chassis"] = 10
      BY <1>4 DEF CPUOnlyScheme, Accelerated4CardScheme
    <2>2. QED
      BY <2>1 DEF Components, w, Balanced
  <1>5. CASE w = Accelerated8CardScheme
    <2>1. w["cpu"] = 15 /\ w["memory"] = 15 /\ w["disk"] = 15 /\ w["gpu"] = 35 /\ w["npu"] = 35
          /\ w["network"] = 10 /\ w["chassis"] = 10
      BY <1>5 DEF CPUOnlyScheme, Accelerated8CardScheme
    <2>2. QED
      BY <2>1 DEF Components, w, Balanced
  <1>6. QED
    BY <1>1, <1>2, <1>3, <1>4, <1>5

---------------------------------------------------------------------------
\* A worse host loses more.

IsWorse(old, new) ==
    /\ IsBatch(old) /\ IsBatch(new)
    /\ DOMAIN old = DOMAIN new
    /\ \A k \in DOMAIN old : Worse(k, old[k], new[k])

\* Of these readings less is worse.
Inverted == {"smart_status", "core_num", "online_core_num"}

LEMMA OverWorse ==
    ASSUME NEW old, NEW new, IsWorse(old, new),
           NEW name, name \notin Inverted, NEW s \in Int, NEW t \in Int, s <= t,
           Over(old, name, t)
    PROVE  Over(new, name, s)
  <1>1. PICK k \in DOMAIN old : k[1] = name /\ old[k] > t
    BY DEF Over, Values
  <1>2. old[k] \in Int /\ new[k] \in Int /\ k \in DOMAIN new
    BY DEF IsWorse, IsBatch
  <1>3. new[k] >= old[k]
    BY <1>1 DEF IsWorse, Worse, Inverted
  <1>4. new[k] > s
    BY <1>1, <1>2, <1>3
  <1>5. new[k] \in Values(new, name)
    BY <1>1, <1>2 DEF Values
  <1>6. QED
    BY <1>4, <1>5 DEF Over

LEMMA OverWorseAll ==
    ASSUME NEW old, NEW new, IsWorse(old, new)
    PROVE  \A name : name \notin Inverted =>
             \A t \in Int : Over(old, name, t) => Over(new, name, t)
  <1> TAKE name
  <1> SUFFICES ASSUME name \notin Inverted, NEW t \in Int, Over(old, name, t) PROVE Over(new, name, t)
    OBVIOUS
  <1>1. t <= t
    OBVIOUS
  <1>2. QED
    BY <1>1, OverWorse

\* The readings of one name are finitely many.
LEMMA ValuesFinite ==
    ASSUME NEW v, IsBatch(v), NEW name
    PROVE  Values(v, name) \in SUBSET Int /\ IsFiniteSet(Values(v, name))
  <1> DEFINE K == {x \in DOMAIN v : x[1] = name}
             f == [k \in K |-> v[k]]
  <1>1. IsFiniteSet(K)
    <2>1. K \in SUBSET DOMAIN v
      OBVIOUS
    <2>2. QED
      BY <2>1, FS_Subset DEF IsBatch
  <1>2. f \in Surjection(K, Values(v, name))
    BY DEF Surjection, Values
  <1>3. QED
    BY <1>1, <1>2, FS_Surjection DEF Values, IsBatch

Cores(v, name) == {r \in Values(v, name) : r > 0}

LEMMA CoresMax ==
    ASSUME NEW v, IsBatch(v), NEW name, Cores(v, name) /= {}
    PROVE  /\ Max(Cores(v, name)) \in Cores(v, name)
           /\ Max(Cores(v, name)) \in Nat \ {0}
           /\ \A r \in Cores(v, name) : Max(Cores(v, name)) >= r
  <1>1. Cores(v, name) \in SUBSET Values(v, name)
    BY DEF Cores
  <1>2. Cores(v, name) \in SUBSET Int /\ IsFiniteSet(Cores(v, name))
    BY <1>1, ValuesFinite, FS_Subset
  <1>3. /\ Max(Cores(v, name)) \in Cores(v, name)
        /\ \A r \in Cores(v, name) : Max(Cores(v, name)) >= r
    BY <1>2, MaxIsGreatest
  <1>4. QED
    BY <1>2, <1>3 DEF Cores

LEMMA LoadLimitIs ==
    ASSUME NEW v, IsBatch(v)
    PROVE  /\ LoadLimit(v) \in Nat
           /\ Cores(v, "core_num") /= {} => LoadLimit(v) = 2 * Max(Cores(v, "core_num"))
           /\ Cores(v, "core_num") = {} /\ Cores(v, "online_core_num") /= {}
                => LoadLimit(v) = 2 * Max(Cores(v, "online_core_num"))
           /\ Cores(v, "core_num") = {} /\ Cores(v, "online_core_num") = {} => LoadLimit(v) = 8
  <1>1. /\ Cores(v, "core_num") /= {} => LoadLimit(v) = 2 * Max(Cores(v, "core_num"))
        /\ Cores(v, "core_num") = {} /\ Cores(v, "online_core_num") /= {}
             => LoadLimit(v) = 2 * Max(Cores(v, "online_core_num"))
        /\ Cores(v, "core_num") = {} /\ Cores(v, "online_core_num") = {} => LoadLimit(v) = 8
    BY DEF LoadLimit, Cores
  <1>2. \A name : Cores(v, name) /= {} => Max(Cores(v, name)) \in Nat
    BY CoresMax
  <1>3. LoadLimit(v) \in Nat
    BY <1>1, <1>2
  <1>4. QED
    BY <1>1, <1>3

LEMMA CoresWorse ==
    ASSUME NEW old, NEW new, IsWorse(old, new), NEW name \in {"core_num", "online_core_num"}
    PROVE  /\ Cores(old, name) = {} <=> Cores(new, name) = {}
           /\ Cores(old, name) /= {} => Max(Cores(new, name)) <= Max(Cores(old, name))
  <1>1. ASSUME NEW k \in DOMAIN old, k[1] = name
        PROVE  old[k] \in Int /\ new[k] \in Int /\ new[k] > 0 /\ new[k] <= old[k]
    BY <1>1 DEF IsWorse, IsBatch, Worse
  <1>2. DOMAIN old = DOMAIN new
    BY DEF IsWorse
  <1>3. ASSUME NEW r \in Cores(new, name) PROVE \E q \in Cores(old, name) : r <= q /\ q \in Int
    <2>1. PICK k \in DOMAIN old : k[1] = name /\ new[k] = r
      BY <1>2 DEF Cores, Values
    <2>2. old[k] \in Int /\ new[k] \in Int /\ new[k] > 0 /\ new[k] <= old[k]
      BY <1>1, <2>1
    <2>3. old[k] > 0
      BY <2>2
    <2>4. old[k] \in Cores(old, name)
      BY <2>1, <2>3 DEF Cores, Values
    <2>5. QED
      BY <2>1, <2>2, <2>4
  <1>4. ASSUME NEW r \in Cores(old, name) PROVE \E q \in Cores(new, name) : TRUE
    <2>1. PICK k \in DOMAIN old : k[1] = name
      BY <1>4 DEF Cores, Values
    <2>2. new[k] > 0
      BY <1>1, <2>1
    <2>3. QED
      BY <1>2, <2>1, <2>2 DEF Cores, Values
  <1>5. Cores(old, name) = {} <=> Cores(new, name) = {}
    BY <1>3, <1>4
  <1>6. ASSUME Cores(old, name) /= {} PROVE Max(Cores(new, name)) <= Max(Cores(old, name))
    <2>1. IsBatch(old) /\ IsBatch(new) /\ Cores(new, name) /= {}
      BY <1>5, <1>6 DEF IsWorse
    <2>2. PICK q \in Cores(old, name) : Max(Cores(new, name)) <= q /\ q \in Int
      BY <1>3, <2>1, CoresMax
    <2>3. Max(Cores(old, name)) >= q /\ Max(Cores(old, name)) \in Nat /\ Max(Cores(new, name)) \in Nat
      BY <1>6, <2>1, <2>2, CoresMax
    <2>4. QED
      BY <2>2, <2>3
  <1>7. QED
    BY <1>5, <1>6

LEMMA LoadLimitWorse ==
    ASSUME NEW old, NEW new, IsWorse(old, new)
    PROVE  LoadLimit(old) \in Nat /\ LoadLimit(new) \in Nat /\ LoadLimit(new) <= LoadLimit(old)
  <1>1. IsBatch(old) /\ IsBatch(new)
    BY DEF IsWorse
  <1>2. LoadLimit(old) \in Nat /\ LoadLimit(new) \in Nat
    BY <1>1, LoadLimitIs
  <1>3. ASSUME NEW v, IsBatch(v), NEW n, Cores(v, n) /= {} PROVE Max(Cores(v, n)) \in Nat
    BY <1>3, CoresMax
  <1>4. CASE Cores(old, "core_num") /= {}
    <2>1. Cores(new, "core_num") /= {} /\ Max(Cores(new, "core_num")) <= Max(Cores(old, "core_num"))
      BY <1>4, CoresWorse
    <2>2. LoadLimit(new) = 2 * Max(Cores(new, "core_num")) /\ LoadLimit(old) = 2 * Max(Cores(old, "core_num"))
      BY <1>1, <1>4, <2>1, LoadLimitIs
    <2>3. Max(Cores(new, "core_num")) \in Nat /\ Max(Cores(old, "core_num")) \in Nat
      BY <1>1, <1>3, <1>4, <2>1
    <2>4. QED
      BY <1>2, <2>1, <2>2, <2>3
  <1>5. CASE Cores(old, "core_num") = {} /\ Cores(old, "online_core_num") /= {}
    <2>1. Cores(new, "core_num") = {} /\ Cores(new, "online_core_num") /= {}
          /\ Max(Cores(new, "online_core_num")) <= Max(Cores(old, "online_core_num"))
      BY <1>5, CoresWorse
    <2>2. /\ LoadLimit(new) = 2 * Max(Cores(new, "online_core_num"))
          /\ LoadLimit(old) = 2 * Max(Cores(old, "online_core_num"))
      BY <1>1, <1>5, <2>1, LoadLimitIs
    <2>3. Max(Cores(new, "online_core_num")) \in Nat /\ Max(Cores(old, "online_core_num")) \in Nat
      BY <1>1, <1>3, <1>5, <2>1
    <2>4. QED
      BY <1>2, <2>1, <2>2, <2>3
  <1>6. CASE Cores(old, "core_num") = {} /\ Cores(old, "online_core_num") = {}
    <2>1. Cores(new, "core_num") = {} /\ Cores(new, "online_core_num") = {}
      BY <1>6, CoresWorse
    <2>2. LoadLimit(new) = 8 /\ LoadLimit(old) = 8
      BY <1>1, <1>6, <2>1, LoadLimitIs
    <2>3. QED
      BY <1>2, <2>2
  <1>7. QED
    BY <1>4, <1>5, <1>6

\* The sources of corrected errors.
Sources(v) == {k \in DOMAIN v : k[1] \in {"cpu_ce_errors", "ecc_ce_errors"} /\ v[k] > 0}

LEMMA OneSource ==
    ASSUME NEW v, IsBatch(v), Cardinality(Sources(v)) <= 1, NEW j \in Sources(v), NEW k \in Sources(v)
    PROVE  j = k
  <1>1. IsFiniteSet(Sources(v))
    <2>1. Sources(v) \in SUBSET DOMAIN v
      BY DEF Sources
    <2>2. QED
      BY <2>1, FS_Subset DEF IsBatch
  <1>2. Cardinality(Sources(v)) \in Nat /\ Cardinality(Sources(v)) /= 0
    BY <1>1, FS_CardinalityType, FS_EmptySet
  <1>3. Cardinality(Sources(v)) = 1
    BY <1>2
  <1>4. QED
    BY <1>1, <1>3, FS_Singleton

LEMMA CorrectedWorse ==
    ASSUME NEW old, NEW new, IsWorse(old, new),
           Cardinality(Sources(old)) <= 1, Cardinality(Sources(new)) <= 1,
           NEW name \in {"cpu_ce_errors", "ecc_ce_errors"},
           NEW f \in FirstPositive(old, name), NEW g \in FirstPositive(new, name)
    PROVE  Corrected(f) <= Corrected(g)
  <1>1. IsBatch(old) /\ IsBatch(new) /\ DOMAIN old = DOMAIN new
    BY DEF IsWorse
  <1>2. \A v, x : IsBatch(v) /\ x \in FirstPositive(v, name)
          => x = 0 \/ \E k \in Sources(v) : k[1] = name /\ v[k] = x /\ x \in Int /\ x > 0
    BY DEF FirstPositive, Values, Sources, IsBatch
  <1>3. \A x \in Int : Corrected(x) \in {0, 5, 10}
    BY DEF Corrected
  <1>4. g = 0 \/ g \in Int
    BY <1>1, <1>2
  <1>5. CASE f = 0
    BY <1>3, <1>4, <1>5 DEF Corrected
  <1>6. CASE f /= 0
    <2>1. PICK k \in Sources(old) : k[1] = name /\ old[k] = f /\ f \in Int /\ f > 0
      BY <1>1, <1>2, <1>6
    <2>2. k \in DOMAIN new /\ new[k] \in Int /\ new[k] >= old[k]
      BY <1>1, <2>1 DEF Sources, IsWorse, Worse, IsBatch
    <2>3. new[k] > 0
      BY <2>1, <2>2
    <2>4. k \in Sources(new) /\ new[k] \in Values(new, name)
      BY <2>1, <2>2, <2>3 DEF Sources, Values
    <2>5. g /= 0
      BY <2>3, <2>4 DEF FirstPositive
    <2>6. PICK j \in Sources(new) : new[j] = g
      BY <1>1, <1>2, <2>5
    <2>7. g = new[k]
      BY <1>1, <2>4, <2>6, OneSource
    <2>8. f \in Int /\ g \in Int /\ f <= g
      BY <2>1, <2>2, <2>7
    <2>9. QED
      BY <2>8 DEF Corrected
  <1>7. QED
    BY <1>5, <1>6

LEMMA AnyOverWorse ==
    ASSUME NEW old, NEW new, IsWorse(old, new), NEW names, names \cap Inverted = {}, NEW t \in Int,
           AnyOver(old, names, t)
    PROVE  AnyOver(new, names, t)
  BY OverWorseAll DEF AnyOver

\* The connections in one state.
StateOnly(v, state) == [k \in DOMAIN v \cap {<<"connection_count", <<state>>>>} |-> v[k]]

LEMMA StateOnlyWorse ==
    ASSUME NEW old, NEW new, IsWorse(old, new), NEW state
    PROVE  IsWorse(StateOnly(old, state), StateOnly(new, state))
  <1> DEFINE x == StateOnly(old, state)
             y == StateOnly(new, state)
             D == DOMAIN old \cap {<<"connection_count", <<state>>>>}
  <1>1. IsBatch(old) /\ IsBatch(new) /\ DOMAIN old = DOMAIN new
    BY DEF IsWorse
  <1>2. IsFiniteSet(D)
    <2>1. D \in SUBSET DOMAIN old
      OBVIOUS
    <2>2. QED
      BY <1>1, <2>1, FS_Subset DEF IsBatch
  <1>3. DOMAIN x = D /\ DOMAIN y = D /\ \A k \in D : x[k] = old[k] /\ y[k] = new[k]
    BY <1>1 DEF StateOnly
  <1>4. QED
    BY <1>1, <1>2, <1>3 DEF IsWorse, IsBatch

LEMMA FullerWorse ==
    ASSUME NEW old, NEW new, IsWorse(old, new), NEW t \in Int
    PROVE  Cardinality(Fuller(old, t)) <= Cardinality(Fuller(new, t))
  <1>1. IsBatch(old) /\ IsBatch(new) /\ DOMAIN old = DOMAIN new
    BY DEF IsWorse
  <1>2. ASSUME NEW k \in Fuller(old, t) PROVE k \in Fuller(new, t)
    <2>1. k \in DOMAIN old /\ k[1] = "space_usage" /\ old[k] > t
      BY DEF Fuller, Mounts
    <2>2. old[k] \in Int /\ new[k] \in Int /\ new[k] >= old[k]
      BY <1>1, <2>1 DEF IsWorse, IsBatch, Worse
    <2>3. new[k] > t
      BY <2>1, <2>2
    <2>4. QED
      BY <1>1, <2>1, <2>3 DEF Fuller, Mounts
  <1>3. Fuller(old, t) \in SUBSET Fuller(new, t)
    BY <1>2
  <1>4. IsFiniteSet(Fuller(new, t))
    BY <1>1, FullerMounts
  <1>5. QED
    BY <1>3, <1>4, FS_Subset

LEMMA DiskWorse ==
    ASSUME NEW old, NEW new, IsWorse(old, new)
    PROVE  evaluateDisk(old) <= evaluateDisk(new)
  <1> DEFINE Ill(v) == \E r \in Values(v, "smart_status") : r < 1
             Rest(v) == Charge(v, "io_wait", 20, 15) + IF Ill(v) THEN 50 ELSE 0
             A(v) == Cardinality(Fuller(v, 90))
             B(v) == Cardinality(Fuller(v, 80))
  <1>1. IsBatch(old) /\ IsBatch(new) /\ DOMAIN old = DOMAIN new
    BY DEF IsWorse
  <1>2. /\ evaluateDisk(old) = 20 * A(old) + 15 * B(old) + Parts(old) * Rest(old)
        /\ evaluateDisk(new) = 20 * A(new) + 15 * B(new) + Parts(new) * Rest(new)
    BY <1>1, DiskCharge
  <1>3. Parts(old) = Parts(new) /\ Parts(old) \in Nat
    <2>1. Mounts(old) = Mounts(new)
      BY <1>1 DEF Mounts
    <2>2. QED
      BY <1>1, <2>1, MountsFinite DEF Parts
  <1>4. /\ A(old) \in Nat /\ A(new) \in Nat /\ A(old) <= A(new)
        /\ B(old) \in Nat /\ B(new) \in Nat /\ B(old) <= B(new)
    <2>1. 90 \in Int /\ 80 \in Int
      OBVIOUS
    <2>2. Cardinality(Fuller(old, 90)) <= Cardinality(Fuller(new, 90))
      BY <2>1, FullerWorse
    <2>3. Cardinality(Fuller(old, 80)) <= Cardinality(Fuller(new, 80))
      BY <2>1, FullerWorse
    <2>4. \A t : Cardinality(Fuller(old, t)) \in Nat /\ Cardinality(Fuller(new, t)) \in Nat
      BY <1>1, FullerMounts
    <2>5. QED
      BY <2>2, <2>3, <2>4
  <1>5. Ill(old) => Ill(new)
    <2>1. SUFFICES ASSUME Ill(old) PROVE Ill(new)
      OBVIOUS
    <2>2. PICK k \in DOMAIN old : k[1] = "smart_status" /\ old[k] < 1
      BY <2>1 DEF Values
    <2>3. old[k] \in Int /\ new[k] \in Int /\ new[k] <= old[k]
      BY <1>1, <2>2 DEF IsWorse, IsBatch, Worse
    <2>4. new[k] \in Values(new, "smart_status") /\ new[k] < 1
      BY <1>1, <2>2, <2>3 DEF Values
    <2>5. QED
      BY <2>4
  <1>6. Over(old, "io_wait", 20) => Over(new, "io_wait", 20)
    BY OverWorseAll DEF Inverted
  <1>7. Rest(old) \in {0, 15, 50, 65} /\ Rest(new) \in {0, 15, 50, 65} /\ Rest(old) <= Rest(new)
    BY <1>5, <1>6 DEF Charge
  <1> DEFINE p == Parts(old)
             r == Rest(old)
             s == Rest(new)
  <1>8. p * r \in Nat /\ p * s \in Nat /\ p * r <= p * s
    <2>1. p \in Nat /\ r \in {0, 15, 50, 65} /\ s \in {0, 15, 50, 65} /\ r <= s
      BY <1>3, <1>7
    <2> HIDE DEF p, r, s
    <2>2. QED
      BY <2>1
  <1>9. evaluateDisk(old) = 20 * A(old) + 15 * B(old) + p * r
        /\ evaluateDisk(new) = 20 * A(new) + 15 * B(new) + p * s
    BY <1>2, <1>3
  <1> DEFINE x == p * r
             y == p * s
  <1>10. evaluateDisk(old) = 20 * A(old) + 15 * B(old) + x
        /\ evaluateDisk(new) = 20 * A(new) + 15 * B(new) + y /\ x \in Nat /\ y \in Nat /\ x <= y
    BY <1>8, <1>9
  <1> HIDE DEF A, B, x, y
  <1>11. QED
    BY <1>4, <1>10

\* A worse host loses at least as much by the rules of every component.
LEMMA LostWorse ==
    ASSUME NEW c \in Components, NEW old, NEW new, IsWorse(old, new),
           Cardinality(Sources(old)) <= 1, Cardinality(Sources(new)) <= 1,
           NEW f \in FirstCorrected(c, old), NEW g \in FirstCorrected(c, new)
    PROVE  Lost(c, old, f) <= Lost(c, new, g)
  <1>1. \A x : Corrected(x) \in {0, 5, 10}
    BY DEF Corrected
  <1>2. CASE c = "cpu"
    <2>1. Corrected(f) <= Corrected(g)
      BY <1>2, CorrectedWorse DEF FirstCorrected
    <2>2. /\ Over(old, "temperature", 85) => Over(new, "temperature", 85)
          /\ Over(old, "temperature", 75) => Over(new, "temperature", 75)
          /\ Over(old, "usage", 90) => Over(new, "usage", 90)
          /\ Over(old, "usage", 80) => Over(new, "usage", 80)
          /\ Over(old, "cpu_uce_errors", 0) => Over(new, "cpu_uce_errors", 0)
      BY OverWorseAll DEF Inverted
    <2>3. Over(old, "load_average", LoadLimit(old)) => Over(new, "load_average", LoadLimit(new))
      BY LoadLimitWorse, OverWorse DEF Inverted
    <2>4. evaluateCPU(old, f) <= evaluateCPU(new, g)
      BY <1>1, <2>1, <2>2, <2>3 DEF evaluateCPU, Graded, Bands, Charge
    <2>5. QED
      BY <1>2, <2>4 DEF Lost
  <1>3. CASE c = "memory"
    <2>1. Corrected(f) <= Corrected(g)
      BY <1>3, CorrectedWorse DEF FirstCorrected
    <2>2. /\ Over(old, "usage", 90) => Over(new, "usage", 90)
          /\ Over(old, "usage", 80) => Over(new, "usage", 80)
          /\ Over(old, "swap_usage", 50) => Over(new, "swap_usage", 50)
          /\ Over(old, "saturation", 80) => Over(new, "saturation", 80)
          /\ Over(old, "fragmentation", 80) => Over(new, "fragmentation", 80)
          /\ Over(old, "ecc_uce_errors", 0) => Over(new, "ecc_uce_errors", 0)
      BY OverWorseAll DEF Inverted
    <2>3. evaluateMemory(old, f) <= evaluateMemory(new, g)
      BY <1>1, <2>1, <2>2 DEF evaluateMemory, Graded, Bands, Charge
    <2>4. QED
      BY <1>3, <2>3 DEF Lost
  <1>4. CASE c = "disk"
    BY <1>4, DiskWorse DEF Lost
  <1>5. CASE c = "gpu"
    <2>1. /\ Over(old, "temperature", 90) => Over(new, "temperature", 90)
          /\ Over(old, "temperature", 80) => Over(new, "temperature", 80)
          /\ Over(old, "memory_usage", 95) => Over(new, "memory_usage", 95)
          /\ Over(old, "utilization", 95) => Over(new, "utilization", 95)
          /\ Over(old, "ecc_errors", 0) => Over(new, "ecc_errors", 0)
      BY OverWorseAll DEF Inverted
    <2>2. evaluateGPU(old) <= evaluateGPU(new)
      BY <2>1 DEF evaluateGPU, Graded, Bands, Charge
    <2>3. QED
      BY <1>5, <2>2 DEF Lost
  <1>6. CASE c = "npu"
    <2>1. /\ Over(old, "card_drop", 0) => Over(new, "card_drop", 0)
          /\ Over(old, "health_status", 2) => Over(new, "health_status", 2)
          /\ Over(old, "health_status", 1) => Over(new, "health_status", 1)
          /\ Over(old, "hbm_double_ecc", 0) => Over(new, "hbm_double_ecc", 0)
          /\ Over(old, "hbm_single_ecc", 0) => Over(new, "hbm_single_ecc", 0)
          /\ Over(old, "ddr_double_ecc", 0) => Over(new, "ddr_double_ecc", 0)
          /\ Over(old, "ddr_single_ecc", 0) => Over(new, "ddr_single_ecc", 0)
          /\ Over(old, "memory_usage", 95) => Over(new, "memory_usage", 95)
          /\ Over(old, "error_code", 0) => Over(new, "error_code", 0)
      BY OverWorseAll DEF Inverted
    <2>2. /\ AnyOver(old, npuTempNames, 90) => AnyOver(new, npuTempNames, 90)
          /\ AnyOver(old, npuTempNames, 80) => AnyOver(new, npuTempNames, 80)
      <3>1. npuTempNames \cap Inverted = {}
        BY DEF npuTempNames, Inverted
      <3>2. QED
        BY <3>1, AnyOverWorse
    <2>3. AnyOver(old, {"utilization", "npu_util"}, 95) => AnyOver(new, {"utilization", "npu_util"}, 95)
      <3>1. {"utilization", "npu_util"} \cap Inverted = {}
        BY DEF Inverted
      <3>2. QED
        BY <3>1, AnyOverWorse
    <2>4. evaluateNPU(old) <= evaluateNPU(new)
      <3> DEFINE T(v) == IF AnyOver(v, npuTempNames, 90) THEN 15 ELSE IF AnyOver(v, npuTempNames, 80) THEN 8 ELSE 0
                 U(v) == IF AnyOver(v, {"utilization", "npu_util"}, 95) THEN 5 ELSE 0
                 H(v) == Graded(v, "health_status", 2, 15, 1, 8)
                 E(v) == Ecc(v, "hbm_double_ecc", "hbm_single_ecc") + Ecc(v, "ddr_double_ecc", "ddr_single_ecc")
                 R(v) == Charge(v, "memory_usage", 95, 8)
                 C(v) == Charge(v, "card_drop", 0, 20)
                 X(v) == Charge(v, "error_code", 0, 7)
      <3>1. /\ T(old) <= T(new) /\ U(old) <= U(new)
            /\ \A v \in {old, new} : T(v) \in Int /\ U(v) \in Int
        BY <2>2, <2>3
      <3>2. /\ H(old) <= H(new) /\ E(old) <= E(new) /\ R(old) <= R(new) /\ C(old) <= C(new) /\ X(old) <= X(new)
            /\ \A v \in {old, new} : H(v) \in Int /\ E(v) \in Int /\ R(v) \in Int /\ C(v) \in Int /\ X(v) \in Int
        BY <2>1 DEF Graded, Bands, Charge, Ecc
      <3>3. \A v \in {old, new} : H(v) \in Int /\ E(v) \in Int /\ R(v) \in Int /\ C(v) \in Int /\ X(v) \in Int
               => evaluateNPU(v) = C(v) + T(v) + H(v) + E(v) + R(v) + U(v) + X(v)
        BY DEF evaluateNPU, Ecc, Charge
      <3> HIDE DEF T, U, H, E, R, C, X
      <3>4. QED
        BY <3>1, <3>2, <3>3
    <2>5. QED
      BY <1>6, <2>4 DEF Lost
  <1>7. CASE c = "network"
    <2>1. /\ Over(old, "error_count", 100) => Over(new, "error_count", 100)
          /\ Over(old, "error_count", 10) => Over(new, "error_count", 10)
      BY OverWorseAll DEF Inverted
    <2> DEFINE x(v) == StateOnly(v, "TIME_WAIT")
               y(v) == StateOnly(v, "ESTABLISHED")
    <2>2. /\ Over(x(old), "connection_count", 2000) => Over(x(new), "connection_count", 2000)
          /\ Over(y(old), "connection_count", 5000) => Over(y(new), "connection_count", 5000)
          /\ Over(y(old), "connection_count", 3000) => Over(y(new), "connection_count", 3000)
      BY StateOnlyWorse, OverWorseAll DEF Inverted
    <2>3. \A v \in {old, new} : evaluateNetwork(v) =
              Graded(v, "error_count", 100, 45, 10, 15)
              + Charge(x(v), "connection_count", 2000, 30)
              + Graded(y(v), "connection_count", 5000, 25, 3000, 10)
      BY DEF evaluateNetwork, StateOnly
    <2> HIDE DEF x, y
    <2>4. evaluateNetwork(old) <= evaluateNetwork(new)
      BY <2>1, <2>2, <2>3 DEF Graded, Bands, Charge
    <2>5. QED
      BY <1>7, <2>4 DEF Lost
  <1>8. CASE c = "chassis"
    <2>1. /\ Over(old, "inlet_temp", 40) => Over(new, "inlet_temp", 40)
          /\ Over(old, "inlet_temp", 35) => Over(new, "inlet_temp", 35)
          /\ Over(old, "outlet_temp", 60) => Over(new, "outlet_temp", 60)
          /\ Over(old, "outlet_temp", 50) => Over(new, "outlet_temp", 50)
      BY OverWorseAll DEF Inverted
    <2>2. evaluateChassis(old) <= evaluateChassis(new)
      BY <2>1 DEF evaluateChassis, Graded, Bands, Charge
    <2>3. QED
      BY <1>8, <2>2 DEF Lost
  <1>9. QED
    BY <1>2, <1>3, <1>4, <1>5, <1>6, <1>7, <1>8 DEF Components

\* ... and therefore keeps no more points.
LEMMA ScoresWorse ==
    ASSUME NEW c \in Components, NEW old, NEW new, IsWorse(old, new),
           Cardinality(Sources(old)) <= 1, Cardinality(Sources(new)) <= 1,
           NEW w \in Nat, NEW p \in Scores(c, w, old), NEW q \in Scores(c, w, new)
    PROVE  q <= p
  <1>1. PICK f \in FirstCorrected(c, old) : p = Points(w, Lost(c, old, f), Parts(old))
    BY DEF Scores
  <1>2. PICK g \in FirstCorrected(c, new) : q = Points(w, Lost(c, new, g), Parts(new))
    BY DEF Scores
  <1>3. IsBatch(old) /\ IsBatch(new) /\ Mounts(old) = Mounts(new)
    BY DEF IsWorse, Mounts
  <1>4. Parts(old) = Parts(new) /\ Parts(old) \in Nat \ {0}
    BY <1>3, MountsFinite DEF Parts
  <1>5. Lost(c, old, f) \in 0..(100 * Parts(old)) /\ Lost(c, new, g) \in 0..(100 * Parts(new))
    BY <1>3, LostInBudget
  <1>6. Lost(c, old, f) <= Lost(c, new, g)
    BY LostWorse
  <1>7. QED
    BY <1>1, <1>2, <1>4, <1>5, <1>6, PointsFall

---------------------------------------------------------------------------
\* A batch that leaves out counts of zero scores like the readings in full.

Countable == {"page_faults", "cpu_ce_errors", "cpu_uce_errors"}
LeavesOutZeros(v, t) ==
    /\ IsBatch(t)
    /\ DOMAIN v \subseteq DOMAIN t
    /\ \A k \in DOMAIN v : v[k] = t[k]
    /\ \A k \in DOMAIN t \ DOMAIN v : t[k] = 0 /\ k[1] \in Countable

LEMMA SameValues ==
    ASSUME NEW v, NEW t, LeavesOutZeros(v, t)
    PROVE  \A name : name \notin Countable => Values(v, name) = Values(t, name)
  <1> TAKE name
  <1> SUFFICES ASSUME name \notin Countable PROVE Values(v, name) = Values(t, name)
    OBVIOUS
  <1>1. {x \in DOMAIN v : x[1] = name} = {x \in DOMAIN t : x[1] = name}
    BY DEF LeavesOutZeros
  <1>2. \A k \in {x \in DOMAIN v : x[1] = name} : v[k] = t[k]
    BY DEF LeavesOutZeros
  <1>3. QED
    BY <1>1, <1>2 DEF Values

LEMMA SameOver ==
    ASSUME NEW v, NEW t, LeavesOutZeros(v, t)
    PROVE  \A name : \A s : name \notin Countable => (Over(v, name, s) <=> Over(t, name, s))
  <1> TAKE name
  <1> TAKE s
  <1> SUFFICES ASSUME name \notin Countable PROVE Over(v, name, s) <=> Over(t, name, s)
    OBVIOUS
  <1>1. Values(v, name) = Values(t, name)
    BY SameValues
  <1>2. QED
    BY <1>1, Zenon DEF Over

LEMMA SamePositives ==
    ASSUME NEW v, NEW t, LeavesOutZeros(v, t), NEW name
    PROVE  /\ FirstPositive(v, name) = FirstPositive(t, name)
           /\ Over(v, name, 0) <=> Over(t, name, 0)
  <1>1. {r \in Values(v, name) : r > 0} = {r \in Values(t, name) : r > 0}
    <2>1. ASSUME NEW r \in Values(v, name) PROVE r \in Values(t, name)
      BY DEF Values, LeavesOutZeros
    <2>2. ASSUME NEW r \in Values(t, name), r > 0 PROVE r \in Values(v, name)
      <3>1. PICK k \in DOMAIN t : k[1] = name /\ t[k] = r
        BY DEF Values
      <3>2. k \in DOMAIN v
        BY <2>2, <3>1 DEF LeavesOutZeros
      <3>3. QED
        BY <3>1, <3>2 DEF Values, LeavesOutZeros
    <2>3. QED
      BY <2>1, <2>2
  <1>2. FirstPositive(v, name) = FirstPositive(t, name)
    BY <1>1 DEF FirstPositive
  <1>3. Over(v, name, 0) <=> Over(t, name, 0)
    BY <1>1 DEF Over
  <1>4. QED
    BY <1>2, <1>3

LEMMA SameCharges ==
    ASSUME NEW v, NEW t, LeavesOutZeros(v, t)
    PROVE  \A name : name \notin Countable =>
             /\ \A s, p : Charge(v, name, s, p) = Charge(t, name, s, p)
             /\ \A s, p, r, q : Graded(v, name, s, p, r, q) = Graded(t, name, s, p, r, q)
  <1> TAKE name
  <1> SUFFICES ASSUME name \notin Countable
               PROVE  /\ \A s, p : Charge(v, name, s, p) = Charge(t, name, s, p)
                      /\ \A s, p, r, q : Graded(v, name, s, p, r, q) = Graded(t, name, s, p, r, q)
    OBVIOUS
  <1>1. \A s : Over(v, name, s) <=> Over(t, name, s)
    BY SameOver
  <1>2. \A s, p : Charge(v, name, s, p) = Charge(t, name, s, p)
    BY <1>1 DEF Charge
  <1>3. \A s, p, r, q : Graded(v, name, s, p, r, q) = Graded(t, name, s, p, r, q)
    BY <1>1, <1>2 DEF Graded, Bands
  <1>4. QED
    BY <1>2, <1>3

LEMMA SameMounts ==
    ASSUME NEW v, NEW t, LeavesOutZeros(v, t)
    PROVE  /\ Mounts(v) = Mounts(t) /\ Parts(v) = Parts(t)
           /\ \A k \in Mounts(v) : v[k] = t[k]
  <1>1. "space_usage" \notin Countable
    BY DEF Countable
  <1>2. Mounts(v) = Mounts(t) /\ \A k \in Mounts(v) : v[k] = t[k]
    BY <1>1 DEF LeavesOutZeros, Mounts
  <1>3. QED
    BY <1>2 DEF Parts

LEMMA SameStates ==
    ASSUME NEW v, NEW t, LeavesOutZeros(v, t), NEW state
    PROVE  StateOnly(v, state) = StateOnly(t, state)
  <1>1. "connection_count" \notin Countable
    BY DEF Countable
  <1>2. <<"connection_count", <<state>>>>[1] = "connection_count"
    OBVIOUS
  <1>3. DOMAIN v \cap {<<"connection_count", <<state>>>>} = DOMAIN t \cap {<<"connection_count", <<state>>>>}
    BY <1>1, <1>2 DEF LeavesOutZeros
  <1>4. \A k \in DOMAIN v : v[k] = t[k]
    BY DEF LeavesOutZeros
  <1>5. QED
    BY <1>3, <1>4 DEF StateOnly

LEMMA SameLimit ==
    ASSUME NEW v, NEW t, LeavesOutZeros(v, t)
    PROVE  LoadLimit(v) = LoadLimit(t)
  <1>1. Values(v, "core_num") = Values(t, "core_num")
        /\ Values(v, "online_core_num") = Values(t, "online_core_num")
    BY SameValues DEF Countable
  <1>2. QED
    BY <1>1, Zenon DEF LoadLimit

LEMMA SameDisk ==
    ASSUME NEW v, NEW t, LeavesOutZeros(v, t)
    PROVE  evaluateDisk(v) = evaluateDisk(t)
  <1>1. Values(v, "smart_status") = Values(t, "smart_status")
        /\ Charge(v, "io_wait", 20, 15) = Charge(t, "io_wait", 20, 15)
    BY SameValues, SameCharges DEF Countable
  <1>2. Parts(v) = Parts(t)
    BY SameMounts
  <1>3. {k \in Mounts(v) : v[k] > 90} = {k \in Mounts(t) : t[k] > 90}
        /\ {k \in Mounts(v) : v[k] > 80 /\ v[k] <= 90} = {k \in Mounts(t) : t[k] > 80 /\ t[k] <= 90}
    BY SameMounts
  <1>4. QED
    BY <1>1, <1>2, <1>3, Zenon DEF evaluateDisk

LEMMA SameScores ==
    ASSUME NEW c \in Components, NEW v, NEW t, LeavesOutZeros(v, t), NEW w
    PROVE  Scores(c, w, v) = Scores(c, w, t)
  <1> DEFINE Alike(n) == /\ \A s, p : Charge(v, n, s, p) = Charge(t, n, s, p)
                         /\ \A s, p, r, q : Graded(v, n, s, p, r, q) = Graded(t, n, s, p, r, q)
  <1>0. \A n : n \notin Countable => Alike(n)
    BY SameCharges
  <1> HIDE DEF Alike
  <1>1. FirstCorrected(c, v) = FirstCorrected(c, t) /\ Parts(v) = Parts(t)
    BY SamePositives, SameMounts DEF FirstCorrected
  <1>2. ASSUME NEW f PROVE Lost(c, v, f) = Lost(c, t, f)
    <2>1. CASE c = "cpu"
      <3>1. Alike("temperature") /\ Alike("usage") /\ Alike("load_average")
        BY <1>0 DEF Countable
      <3>2. Charge(v, "cpu_uce_errors", 0, 20) = Charge(t, "cpu_uce_errors", 0, 20)
        BY SamePositives DEF Charge
      <3>3. LoadLimit(v) = LoadLimit(t)
        BY SameLimit
      <3>4. evaluateCPU(v, f) = evaluateCPU(t, f)
        BY <3>1, <3>2, <3>3 DEF evaluateCPU, Alike
      <3>5. QED
        BY <2>1, <3>4 DEF Lost
    <2>2. CASE c = "memory"
      <3>1. Alike("usage") /\ Alike("swap_usage") /\ Alike("saturation") /\ Alike("fragmentation")
            /\ Alike("ecc_uce_errors")
        BY <1>0 DEF Countable
      <3>2. QED
        BY <2>2, <3>1 DEF Lost, evaluateMemory, Alike
    <2>3. CASE c = "disk"
      BY <2>3, SameDisk DEF Lost
    <2>4. CASE c = "gpu"
      <3>1. Alike("temperature") /\ Alike("memory_usage") /\ Alike("utilization") /\ Alike("ecc_errors")
        BY <1>0 DEF Countable
      <3>2. QED
        BY <2>4, <3>1 DEF Lost, evaluateGPU, Alike
    <2>5. CASE c = "npu"
      <3>1. Alike("card_drop") /\ Alike("health_status") /\ Alike("memory_usage") /\ Alike("error_code")
            /\ Alike("hbm_single_ecc") /\ Alike("ddr_single_ecc")
        BY <1>0 DEF Countable
      <3>2. \A n \in npuTempNames \cup {"utilization", "npu_util", "hbm_double_ecc", "ddr_double_ecc"} :
               \A s : Over(v, n, s) <=> Over(t, n, s)
        <4>1. \A n \in npuTempNames \cup {"utilization", "npu_util", "hbm_double_ecc", "ddr_double_ecc"} :
                 n \notin Countable
          BY DEF npuTempNames, Countable
        <4>2. QED
          BY <4>1, SameOver
      <3>3. /\ \A s : AnyOver(v, npuTempNames, s) <=> AnyOver(t, npuTempNames, s)
            /\ \A s : AnyOver(v, {"utilization", "npu_util"}, s) <=> AnyOver(t, {"utilization", "npu_util"}, s)
        BY <3>2 DEF AnyOver
      <3>4. /\ Ecc(v, "hbm_double_ecc", "hbm_single_ecc") = Ecc(t, "hbm_double_ecc", "hbm_single_ecc")
            /\ Ecc(v, "ddr_double_ecc", "ddr_single_ecc") = Ecc(t, "ddr_double_ecc", "ddr_single_ecc")
        BY <3>1, <3>2 DEF Ecc, Alike
      <3>5. evaluateNPU(v) = evaluateNPU(t)
        BY <3>1, <3>3, <3>4 DEF evaluateNPU, Alike
      <3>6. QED
        BY <2>5, <3>5 DEF Lost
    <2>6. CASE c = "network"
      <3>1. Alike("error_count")
        BY <1>0 DEF Countable
      <3>2. StateOnly(v, "TIME_WAIT") = StateOnly(t, "TIME_WAIT")
            /\ StateOnly(v, "ESTABLISHED") = StateOnly(t, "ESTABLISHED")
        BY SameStates
      <3>3. \A x : evaluateNetwork(x) =
               Graded(x, "error_count", 100, 45, 10, 15)
               + Charge(StateOnly(x, "TIME_WAIT"), "connection_count", 2000, 30)
               + Graded(StateOnly(x, "ESTABLISHED"), "connection_count", 5000, 25, 3000, 10)
        BY Zenon DEF evaluateNetwork, StateOnly
      <3>4. evaluateNetwork(v) = evaluateNetwork(t)
        BY <3>1, <3>2, <3>3 DEF Alike
      <3>5. QED
        BY <2>6, <3>4 DEF Lost
    <2>7. CASE c = "chassis"
      <3>1. Alike("inlet_temp") /\ Alike("outlet_temp")
        BY <1>0 DEF Countable
      <3>2. QED
        BY <2>7, <3>1 DEF Lost, evaluateChassis, Alike
    <2>8. QED
      BY <2>1, <2>2, <2>3, <2>4, <2>5, <2>6, <2>7 DEF Components
  <1>3. \A x : x \in Scores(c, w, v) <=> x \in Scores(c, w, t)
    <2>1. \A y, x : x \in Scores(c, w, y)
              <=> \E f \in FirstCorrected(c, y) : x = Points(w, Lost(c, y, f), Parts(y))
      BY Zenon DEF Scores
    <2>2. \A f : Points(w, Lost(c, v, f), Parts(v)) = Points(w, Lost(c, t, f), Parts(t))
      BY <1>1, <1>2, Zenon
    <2>3. QED
      BY <1>1, <2>1, <2>2
  <1>4. QED
    BY <1>3

---------------------------------------------------------------------------
\* What the invariants say of a start, which no step changes.

\* The counters of a start, the key the collector keeps each under, and the
\* step that reads it.
Growths(s) == {k \in DOMAIN s.host : KindOf(s.comp, k[1]) \in Growing}
Slot(s, k) == IF s.comp = "npu" THEN <<k[1], k[2][1]>> ELSE k
Slots(s) == {Slot(s, k) : k \in Growths(s)}
By(s, k) == Emitter[s.comp][k[1]]

\* No two counters are kept under one key.
Unshared(s) == \A j, k \in Growths(s) : Slot(s, j) = Slot(s, k) => j = k

IsReading(s, h) ==
    /\ h \in [DOMAIN s.host -> Int]
    /\ \A k \in Growths(s) : h[k] \in 0..(Width - 1)

AskedBy(s, n) ==
    /\ \A i \in DOMAIN s.files : s.files[i].state /= "broken"
    /\ \E i \in DOMAIN s.files :
          /\ <<s.comp, n>> \in DOMAIN s.files[i].entries
          /\ \/ s.files[i].entries[<<s.comp, n>>].static
             \/ priorityValue(s.files[i].entries[<<s.comp, n>>].priority) >= priorityValue(s.minPriority)

\* The gates of a step are open to what the features ask for.
Reached(s, step) == s.command = "health" \/ \A g \in Gates(step) : \E n \in g : AskedBy(s, n)

AllAsked(s) ==
    /\ \A k \in DOMAIN s.host : AskedBy(s, k[1]) /\ \A g \in Gates(By(s, k)) : \E n \in g : AskedBy(s, n)
    /\ \E k \in DOMAIN s.host : KindOf(s.comp, k[1]) = "gauge" /\ ~By(s, k).once

\* The truth about a host between its last two Collects.
Grown(now, before) == (now - before) % Width
TruthOf(s, now, before) ==
    [k \in {x \in DOMAIN s.host : ~By(s, x).once} |->
        IF k \notin Growths(s) THEN now[k]
        ELSE IF KindOf(s.comp, k[1]) /= "delta" /\ before[k] = 0 THEN 0
        ELSE Grown(now[k], before[k])]

\* The weights of a batch that has a reading.
FullCards(s) == IF s.comp = "npu"
                THEN npuCardCount(Cardinality({c[1] : c \in s.chips}), Cardinality(s.chips))
                ELSE s.cards
FullWeights(s) == Scheme("gpu" \in s.others \cup {s.comp}, "npu" \in s.others \cup {s.comp}, FullCards(s))

---------------------------------------------------------------------------
\* The invariants.

\* Every variable has its type, the configuration is that of the start, and the
\* cache has readings of metrics in its batch only.
Typed ==
    /\ start \in Starts
    /\ conf = Configured(start.command, start.base, start.files, start.own, start.minPriority)
    /\ IsReading(start, host)
    /\ prev \in [Slots(start) -> 0..(Width - 1)]
    /\ ran \in BOOLEAN /\ blind \in BOOLEAN
    /\ IsReading(start, seen.now) /\ IsReading(start, seen.before)
    /\ seen.clean \in BOOLEAN /\ seen.settled \in BOOLEAN /\ seen.first \in BOOLEAN
    /\ base \in [Growths(start) -> 0..(Width - 1)]
    /\ tally \in [Growths(start) -> Nat]
    /\ DOMAIN cache.val \subseteq {k \in DOMAIN start.host : k[1] \in cache.names}
    /\ \A k \in DOMAIN cache.val : cache.val[k] \in Int
    /\ IsBatch(shown.of) /\ shown.points \in Int

\* After a clean Collect the steps asked for have read, and what they remember
\* of a counter is its value at that Collect.
Readers ==
    seen.clean =>
        /\ ~blind
        /\ \A s \in Steps[start.comp] : ~s.once /\ Reached(start, s) => s.id \in read
        /\ Unshared(start) => \A k \in Growths(start) :
              ~By(start, k).once /\ Reached(start, By(start, k)) => prev[Slot(start, k)] = seen.now[k]

\* A count of events only grows.
EventsGrow ==
    \A k \in Growths(start) : KindOf(start.comp, k[1]) = "event" => prev[Slot(start, k)] <= host[k]

\* After a settled Collect the cache is the truth, but for counts of zero.
Sees ==
    seen.settled /\ AllAsked(start) /\ Unshared(start)
        => LeavesOutZeros(cache.val, TruthOf(start, seen.now, seen.before))

Features ==
    seen.clean => \A s \in Steps[start.comp] : \A n \in DOMAIN s.emits :
        /\ AskedBy(start, n)
        /\ start.command = "health" \/ \A g \in Gates(s) : n \in g
        /\ s.once => seen.first
        /\ s.emits[n] \in {"share", "delta"} => seen.settled
        /\ s.emits[n] \notin {"echo", "quiet", "event"}
        => n \in cache.names

Sums ==
    Unshared(start) => \A k \in Growths(start) :
        Selected(conf, <<start.comp, k[1]>>)
            => tally[k] % Width = (prev[Slot(start, k)] - base[k]) % Width

\* The score shown is one that its batch gets, under the weights in force.
Scored ==
    /\ DOMAIN shown.of /= {} => shown.points \in Scores(start.comp, FullWeights(start)[start.comp], shown.of)
    /\ {"gpu", "npu"} \subseteq start.others \cup {start.comp} \/ shown.total <= 100

CollectionInv == Typed /\ Readers /\ EventsGrow /\ Sees /\ Features /\ Sums /\ Scored

---------------------------------------------------------------------------
\* Arithmetic of counters.

LEMMA ModRange ==
    ASSUME NEW x \in Int
    PROVE  x % Width \in 0..(Width - 1)
  BY CollectionAssumption

LEMMA ModUnique ==
    ASSUME NEW x \in Int, NEW q \in Int, NEW r \in 0..(Width - 1), x = Width * q + r
    PROVE  x % Width = r
  <1> DEFINE w == Width
             m == x % w
             p == x \div w
  <1>1. w \in Nat \ {0}
    BY CollectionAssumption
  <1>2. m \in 0..(w - 1) /\ p \in Int /\ x = w * p + m
    BY <1>1
  <1> HIDE DEF m, p, w
  <1>3. w * q \in Int /\ w * p \in Int /\ x = w * q + r /\ r \in 0..(w - 1)
    BY <1>1, <1>2 DEF w
  <1>4. w * q - w * p = m - r
    BY <1>2, <1>3
  <1>5. ASSUME q >= p + 1 PROVE FALSE
    <2>1. w * q >= w * (p + 1)
      BY <1>1, <1>2, <1>5
    <2>2. w * (p + 1) = w * p + w
      BY <1>1, <1>2
    <2>3. QED
      BY <1>1, <1>2, <1>3, <1>4, <2>1, <2>2
  <1>6. ASSUME p >= q + 1 PROVE FALSE
    <2>1. w * p >= w * (q + 1)
      BY <1>1, <1>2, <1>6
    <2>2. w * (q + 1) = w * q + w
      BY <1>1
    <2>3. QED
      BY <1>1, <1>2, <1>3, <1>4, <2>1, <2>2
  <1>7. p = q
    BY <1>2, <1>5, <1>6
  <1>8. m = r
    BY <1>2, <1>3, <1>4, <1>7
  <1>9. QED
    BY <1>8 DEF m, w

LEMMA ModSmall ==
    ASSUME NEW x \in 0..(Width - 1)
    PROVE  x % Width = x
  <1>1. x \in Int /\ 0 \in Int /\ x = Width * 0 + x
    BY CollectionAssumption
  <1>2. QED
    BY <1>1, ModUnique

LEMMA ModParts ==
    ASSUME NEW x \in Int
    PROVE  \E q \in Int, r \in 0..(Width - 1) : x = (Width * q) + r /\ r = x % Width
  <1> DEFINE w == Width
             m == x % w
             p == x \div w
  <1>1. w \in Nat \ {0}
    BY CollectionAssumption
  <1>2. m \in 0..(w - 1) /\ p \in Int /\ x = w * p + m
    BY <1>1
  <1> HIDE DEF m, p
  <1>3. m = x % Width
    BY DEF m
  <1>4. QED
    BY <1>2, <1>3

\* Growth adds up, whole turns apart.
LEMMA ModAdd ==
    ASSUME NEW a \in Int, NEW d \in Int, NEW e \in Int, a % Width = d % Width
    PROVE  (a + (e % Width)) % Width = (d + e) % Width
  <1>0. Width \in Nat \ {0}
    BY CollectionAssumption
  <1>1. PICK i \in Int, r \in 0..(Width - 1) : a = Width * i + r /\ r = a % Width
    BY ModParts
  <1>2. PICK j \in Int, u \in 0..(Width - 1) : d = Width * j + u /\ u = d % Width
    BY ModParts
  <1>3. PICK k \in Int, g \in 0..(Width - 1) : e = Width * k + g /\ g = e % Width
    BY ModParts
  <1>4. u = r
    BY <1>1, <1>2
  <1>5. r + g \in Int
    BY <1>0
  <1>6. PICK l \in Int, t \in 0..(Width - 1) : r + g = Width * l + t /\ t = (r + g) % Width
    BY <1>5, ModParts
  <1> DEFINE wi == Width * i
             wj == Width * j
             wk == Width * k
             wl == Width * l
  <1>7. wi \in Int /\ wj \in Int /\ wk \in Int /\ wl \in Int
    BY <1>0
  <1>8. a + g = Width * (i + l) + t
    <2>1. Width * (i + l) = wi + wl
      BY <1>0
    <2>2. a = wi + r /\ r + g = wl + t
      BY <1>1, <1>6
    <2> HIDE DEF wi, wl
    <2>3. a + g = (wi + wl) + t
      BY <1>0, <1>7, <2>2
    <2>4. QED
      BY <2>1, <2>3
  <1>9. d + e = Width * (j + k + l) + t
    <2>1. Width * (j + k + l) = wj + wk + wl
      BY <1>0
    <2>2. d = wj + r /\ r + g = wl + t /\ e = wk + g
      BY <1>2, <1>3, <1>4, <1>6
    <2> HIDE DEF wj, wk, wl
    <2>3. d + e = (wj + wk + wl) + t
      BY <1>0, <1>7, <2>2
    <2>4. QED
      BY <2>1, <2>3
  <1>10. (a + g) % Width = t
    <2>1. a + g \in Int /\ i + l \in Int
      BY <1>0
    <2>2. QED
      BY <1>8, <2>1, ModUnique
  <1>11. (d + e) % Width = t
    <2>1. d + e \in Int /\ j + k + l \in Int
      OBVIOUS
    <2>2. QED
      BY <1>9, <2>1, ModUnique
  <1>12. (a + (e % Width)) % Width = (a + g) % Width
    BY <1>3
  <1>13. QED
    BY <1>10, <1>11, <1>12

---------------------------------------------------------------------------
\* Starts and steps.

LEMMA StartTyping ==
    ASSUME NEW s \in Starts
    PROVE  /\ s.comp \in Components
           /\ DOMAIN s.files \subseteq Nat
           /\ IsFiniteSet(DOMAIN s.host) /\ IsFiniteSet(s.chips)
           /\ IsReading(s, s.host)
           /\ s.moving \subseteq DOMAIN s.host
           /\ s.others \subseteq Components \ {s.comp}
  BY StartsAssumption DEF IsReading, Growths

LEMMA KeyTyping ==
    ASSUME NEW s \in Starts, NEW k \in DOMAIN s.host
    PROVE  /\ k = <<k[1], k[2]>>
           /\ s.comp = "npu" => k[2] \in s.chips /\ k[1] \notin DOMAIN collectStatic.emits
           /\ KindOf(s.comp, k[1]) \in Growing \cup {"gauge", "share", "share0"}
           /\ By(s, k) \in Steps[s.comp]
           /\ k[1] \in DOMAIN By(s, k).emits
           /\ By(s, k).emits[k[1]] = KindOf(s.comp, k[1])
  <1>1. s.comp \in Components /\ k[1] \in Names(s.comp)
    BY StartsAssumption
  <1>2. PICK t \in Steps[s.comp] : k[1] \in DOMAIN t.emits
    BY <1>1 DEF Names
  <1>3. Emitter[s.comp][k[1]] = t
    BY <1>1, <1>2, TablesAssumption
  <1>4. By(s, k) = t /\ KindOf(s.comp, k[1]) = t.emits[k[1]]
    BY <1>3 DEF By, KindOf
  <1>5. QED
    BY <1>2, <1>4, StartsAssumption

LEMMA EmitterIs ==
    ASSUME NEW s \in Starts, NEW t \in Steps[s.comp], NEW n \in DOMAIN t.emits
    PROVE  /\ Emitter[s.comp][n] = t
           /\ KindOf(s.comp, n) = t.emits[n]
           /\ t.emits[n] \in Growing \cup {"gauge", "share", "share0", "echo"}
           /\ t.emits[n] \in {"quiet", "event"} => s.comp /= "npu" /\ n \in Countable
  <1>1. s.comp \in Components
    BY StartTyping
  <1>2. QED
    BY <1>1, TablesAssumption DEF KindOf, Growing, Countable

\* The counters and keys of the module are those of its start.
LEMMA SameNames ==
    ASSUME Typed
    PROVE  /\ comp = start.comp
           /\ DOMAIN host = DOMAIN start.host
           /\ Counters = Growths(start)
           /\ \A k \in Counters : PrevKey(k) = Slot(start, k)
           /\ \A k : StepOf(k[1]) = By(start, k) /\ Kind(k[1]) = KindOf(start.comp, k[1])
  <1>1. DOMAIN host = DOMAIN start.host
    BY DEF Typed, IsReading
  <1>2. Counters = Growths(start)
    BY <1>1 DEF Counters, Counts, Kind, Growths, comp
  <1>3. QED
    BY <1>1, <1>2 DEF comp, PrevKey, CardKey, EccKey, Slot, StepOf, By, Kind

\* Outside the NPU every counter has its own key; so it has with one chip a card.
LEMMA KeysUnshared ==
    ASSUME NEW s \in Starts,
           s.comp = "npu" => \A x, y \in s.chips : x[1] = y[1] => x = y
    PROVE  Unshared(s)
  <1> SUFFICES ASSUME NEW j \in Growths(s), NEW k \in Growths(s), Slot(s, j) = Slot(s, k) PROVE j = k
    BY DEF Unshared
  <1>1. j \in DOMAIN s.host /\ k \in DOMAIN s.host
    BY DEF Growths
  <1>2. CASE s.comp /= "npu"
    BY <1>2 DEF Slot
  <1>3. CASE s.comp = "npu"
    <2>1. j = <<j[1], j[2]>> /\ k = <<k[1], k[2]>> /\ j[2] \in s.chips /\ k[2] \in s.chips
      BY <1>1, <1>3, KeyTyping
    <2>2. <<j[1], j[2][1]>> = <<k[1], k[2][1]>>
      BY <1>3 DEF Slot
    <2>3. j[1] = k[1] /\ j[2] = k[2]
      BY <1>3, <2>1, <2>2
    <2>4. QED
      BY <2>1, <2>3
  <1>4. QED
    BY <1>2, <1>3

---------------------------------------------------------------------------
\* Devices in the order they reach the lock.

Place(order, chip) == CHOOSE i \in DOMAIN order : order[i] = chip

LEMMA ChipPlaces ==
    ASSUME Typed, comp = "npu", NEW order \in Orders, NEW chip \in start.chips
    PROVE  Place(order, chip) \in Int /\ order[Place(order, chip)] = chip
  <1> DEFINE D == 1..Cardinality(start.chips)
  <1>1. order \in [D -> start.chips] /\ \A i, j \in D : i /= j => order[i] /= order[j]
    BY DEF Orders, SetToSeqs
  <1>2. IsFiniteSet(start.chips)
    BY StartTyping DEF Typed
  <1>3. Cardinality(start.chips) \in Nat
    BY <1>2, FS_CardinalityType
  <1>4. Cardinality(D) = Cardinality(start.chips)
    <2> DEFINE n == Cardinality(start.chips)
    <2>1. n \in Nat
      BY <1>3
    <2> HIDE DEF n
    <2>2. Cardinality(1..n) = IF 1 > n THEN 0 ELSE n - 1 + 1
      BY <2>1, FS_Interval
    <2>3. Cardinality(1..n) = n
      BY <2>1, <2>2
    <2>4. QED
      BY <2>3 DEF n
  <1>5. order \in Injection(D, start.chips)
    BY <1>1 DEF Injection, IsInjective
  <1>6. order \in Surjection(D, start.chips)
    BY <1>2, <1>4, <1>5, FS_Injection
  <1>7. \E i \in D : order[i] = chip
    BY <1>6 DEF Surjection
  <1>8. DOMAIN order = D /\ D \subseteq Int
    BY <1>1, <1>3
  <1>9. Place(order, chip) \in D /\ order[Place(order, chip)] = chip
    BY <1>7, <1>8 DEF Place
  <1>10. QED
    BY <1>8, <1>9

LEMMA LastPlaced ==
    ASSUME Typed, comp = "npu", NEW order \in Orders, NEW S \in SUBSET Counters, S /= {}
    PROVE  \E x \in S : \A y \in S : Place(order, y[2]) <= Place(order, x[2])
  <1> DEFINE P(y) == Place(order, y[2])
             f == [y \in S |-> P(y)]
             Q == {P(y) : y \in S}
  <1>1. \A y \in S : y \in DOMAIN start.host
    BY SameNames DEF Counters
  <1>2. \A y \in S : y[2] \in start.chips
    BY <1>1, KeyTyping DEF Typed, comp
  <1>3. \A y \in S : P(y) \in Int
    BY <1>2, ChipPlaces
  <1>4. IsFiniteSet(S)
    <2>1. IsFiniteSet(DOMAIN start.host)
      BY StartTyping DEF Typed
    <2>2. S \in SUBSET DOMAIN start.host
      BY <1>1
    <2>3. QED
      BY <2>1, <2>2, FS_Subset
  <1> HIDE DEF P
  <1>5. f \in Surjection(S, Q)
    BY DEF Surjection
  <1>6. IsFiniteSet(Q)
    BY <1>4, <1>5, FS_Surjection
  <1>7. Q \in SUBSET Int /\ Q /= {}
    BY <1>3
  <1>8. PICK m \in Q : \A n \in Q : m >= n
    BY <1>6, <1>7, GreatestElement
  <1>9. PICK x \in S : P(x) = m
    BY <1>8
  <1>10. \A y \in S : P(y) <= P(x)
    BY <1>3, <1>8, <1>9
  <1>11. QED
    BY <1>10 DEF P

---------------------------------------------------------------------------
\* What a counter's growth is measured against, and what is kept of it.

Ahead(k, order) ==
    {x \in Counters \ {k} : /\ comp = "npu" /\ PrevKey(x) = PrevKey(k)
                            /\ Place(order, x[2]) < Place(order, k[2])}

LEMMA BeforeIs ==
    ASSUME NEW k, NEW order
    PROVE  Before(k, order) =
             IF Ahead(k, order) = {} THEN prev[PrevKey(k)]
             ELSE host[CHOOSE x \in Ahead(k, order) :
                         \A y \in Ahead(k, order) : Place(order, y[2]) <= Place(order, x[2])]
  BY Zenon DEF Before, Ahead, Place

LEMMA CounterTyping ==
    ASSUME Typed, NEW k \in Counters
    PROVE  /\ k \in DOMAIN host /\ k \in Growths(start)
           /\ host[k] \in 0..(Width - 1) /\ host[k] \in Nat
           /\ PrevKey(k) = Slot(start, k)
           /\ PrevKey(k) \in DOMAIN prev
           /\ prev[PrevKey(k)] \in 0..(Width - 1) /\ prev[PrevKey(k)] \in Nat
  <1>1. k \in Growths(start) /\ PrevKey(k) = Slot(start, k) /\ k \in DOMAIN host
    BY SameNames DEF Counters
  <1>2. host[k] \in 0..(Width - 1)
    BY <1>1 DEF Typed, IsReading
  <1>3. PrevKey(k) \in Slots(start)
    BY <1>1 DEF Slots
  <1>4. PrevKey(k) \in DOMAIN prev /\ prev[PrevKey(k)] \in 0..(Width - 1)
    BY <1>3 DEF Typed
  <1>5. QED
    BY <1>1, <1>2, <1>4, CollectionAssumption

LEMMA BeforeTyping ==
    ASSUME Typed, NEW order \in Orders, NEW k \in Counters
    PROVE  Before(k, order) \in 0..(Width - 1)
  <1>1. CASE Ahead(k, order) = {}
    BY <1>1, BeforeIs, CounterTyping
  <1>2. CASE Ahead(k, order) /= {}
    <2>1. comp = "npu" /\ Ahead(k, order) \in SUBSET Counters
      BY <1>2 DEF Ahead
    <2>2. \E x \in Ahead(k, order) : \A y \in Ahead(k, order) : Place(order, y[2]) <= Place(order, x[2])
      BY <1>2, <2>1, LastPlaced
    <2>3. PICK x \in Ahead(k, order) : Before(k, order) = host[x]
      <3> DEFINE l == CHOOSE x \in Ahead(k, order) :
                        \A y \in Ahead(k, order) : Place(order, y[2]) <= Place(order, x[2])
      <3>1. l \in Ahead(k, order)
        BY <2>2
      <3>2. Before(k, order) = host[l]
        BY <1>2, BeforeIs
      <3>3. QED
        BY <3>1, <3>2
    <2>4. QED
      BY <2>1, <2>3, CounterTyping
  <1>3. QED
    BY <1>1, <1>2

LEMMA BeforeUnshared ==
    ASSUME Typed, Unshared(start), NEW order, NEW k \in Counters
    PROVE  Before(k, order) = prev[Slot(start, k)]
  <1>1. Ahead(k, order) = {}
    BY SameNames DEF Ahead, Unshared
  <1>2. QED
    BY <1>1, BeforeIs, CounterTyping

KeptKeys(p, taken) == {k \in Counters : PrevKey(k) = p /\ StepOf(k[1]) \in taken}
LastKept(p, taken, order) ==
    CHOOSE k \in KeptKeys(p, taken) :
        \A x \in KeptKeys(p, taken) \ {k} : Place(order, x[2]) < Place(order, k[2])

LEMMA KeptIs ==
    ASSUME NEW p, NEW taken, NEW order
    PROVE  Kept(p, taken, order) =
             IF KeptKeys(p, taken) = {} THEN prev[p] ELSE host[LastKept(p, taken, order)]
  BY Zenon DEF Kept, KeptKeys, LastKept, Place

LEMMA LastIsKept ==
    ASSUME Typed, NEW p, NEW taken, NEW order \in Orders, KeptKeys(p, taken) /= {}
    PROVE  LastKept(p, taken, order) \in KeptKeys(p, taken)
  <1> DEFINE K == KeptKeys(p, taken)
  <1>1. \E k \in K : \A x \in K \ {k} : Place(order, x[2]) < Place(order, k[2])
    <2>1. CASE comp /= "npu"
      <3>1. \A k \in K : k = p
        BY <2>1 DEF KeptKeys, PrevKey
      <3>2. QED
        BY <3>1
    <2>2. CASE comp = "npu"
      <3>1. K \in SUBSET Counters
        BY DEF KeptKeys
      <3>2. PICK k \in K : \A x \in K : Place(order, x[2]) <= Place(order, k[2])
        BY <2>2, <3>1, LastPlaced
      <3>3. ASSUME NEW x \in K \ {k} PROVE Place(order, x[2]) < Place(order, k[2])
        <4>1. x \in DOMAIN start.host /\ k \in DOMAIN start.host
          BY <3>1, SameNames DEF Counters
        <4>2. /\ x = <<x[1], x[2]>> /\ x[2] \in start.chips
              /\ k = <<k[1], k[2]>> /\ k[2] \in start.chips
          BY <2>2, <4>1, KeyTyping DEF Typed, comp
        <4>3. x[1] = k[1]
          BY <2>2 DEF KeptKeys, PrevKey, CardKey, EccKey
        <4>4. x[2] /= k[2]
          BY <4>2, <4>3
        <4>5. /\ Place(order, x[2]) \in Int /\ order[Place(order, x[2])] = x[2]
              /\ Place(order, k[2]) \in Int /\ order[Place(order, k[2])] = k[2]
          BY <2>2, <4>2, ChipPlaces
        <4>6. Place(order, x[2]) /= Place(order, k[2])
          BY <4>4, <4>5
        <4>7. QED
          BY <3>2, <4>5, <4>6
      <3>4. QED
        BY <3>2, <3>3
    <2>3. QED
      BY <2>1, <2>2
  <1>2. QED
    BY <1>1 DEF LastKept

LEMMA KeptTyping ==
    ASSUME Typed, NEW p \in DOMAIN prev, NEW taken, NEW order \in Orders
    PROVE  Kept(p, taken, order) \in 0..(Width - 1)
  <1>1. CASE KeptKeys(p, taken) = {}
    BY <1>1, KeptIs DEF Typed
  <1>2. CASE KeptKeys(p, taken) /= {}
    <2>1. LastKept(p, taken, order) \in Counters
      BY <1>2, LastIsKept DEF KeptKeys
    <2>2. Kept(p, taken, order) = host[LastKept(p, taken, order)]
      BY <1>2, KeptIs
    <2>3. QED
      BY <2>1, <2>2, CounterTyping
  <1>3. QED
    BY <1>1, <1>2

LEMMA KeptUnshared ==
    ASSUME Typed, Unshared(start), NEW taken, NEW order \in Orders, NEW k \in Counters
    PROVE  Kept(Slot(start, k), taken, order) =
             IF By(start, k) \in taken THEN host[k] ELSE prev[Slot(start, k)]
  <1> DEFINE p == Slot(start, k)
  <1>1. KeptKeys(p, taken) = IF By(start, k) \in taken THEN {k} ELSE {}
    BY SameNames DEF KeptKeys, Unshared
  <1>2. CASE By(start, k) \in taken
    <2>1. LastKept(p, taken, order) = k
      BY <1>1, <1>2, LastIsKept
    <2>2. QED
      BY <1>1, <1>2, <2>1, KeptIs
  <1>3. CASE By(start, k) \notin taken
    BY <1>1, <1>3, KeptIs
  <1>4. QED
    BY <1>2, <1>3

---------------------------------------------------------------------------
\* What a Collect takes, and what is in its batch.

LEMMA AskedSelected ==
    ASSUME Typed, NEW n, AskedBy(start, n)
    PROVE  IsWanted(conf, <<comp, n>>) /\ Selected(conf, <<comp, n>>)
  <1> DEFINE k == <<start.comp, n>>
  <1>1. conf = Configured(start.command, start.base, start.files, start.own, start.minPriority)
    BY DEF Typed
  <1>2. DOMAIN start.files \subseteq Nat
    BY StartTyping DEF Typed
  <1>3. \A i \in DOMAIN start.files : start.files[i].state /= "broken"
    BY DEF AskedBy
  <1>4. PICK i \in DOMAIN start.files :
          /\ k \in DOMAIN start.files[i].entries
          /\ \/ start.files[i].entries[k].static
             \/ priorityValue(start.files[i].entries[k].priority) >= priorityValue(start.minPriority)
    BY DEF AskedBy
  <1>5. i \in Lists(start.files, k)
    BY <1>4 DEF Lists
  <1>6. start.files[i].entries[k].static \/ Urgency(start.files, k, i) >= priorityValue(start.minPriority)
    BY <1>4 DEF Urgency
  <1> HIDE DEF k
  <1>7. IsWanted(conf, k) /\ Selected(conf, k)
    BY <1>1, <1>2, <1>3, <1>5, <1>6, AskedIsSelected
  <1>8. QED
    BY <1>7 DEF k, comp

LEMMA ReachedOpen ==
    ASSUME Typed, NEW s, Reached(start, s)
    PROVE  Open(s)
  <1>1. CASE start.command = "health"
    <2>1. conf.gated = FALSE
      BY <1>1 DEF Typed, Configured, loadConfig
    <2>2. QED
      BY <2>1 DEF Open, AnyWanted
  <1>2. CASE start.command /= "health"
    <2>1. ASSUME NEW g \in Gates(s) PROVE AnyWanted(conf, comp, g)
      <3>1. PICK n \in g : AskedBy(start, n)
        BY <1>2 DEF Reached
      <3>2. IsWanted(conf, <<comp, n>>)
        BY <3>1, AskedSelected
      <3>3. QED
        BY <3>2 DEF AnyWanted
    <2>2. QED
      BY <2>1 DEF Open
  <1>3. QED
    BY <1>1, <1>2

LEMMA TakenSteps ==
    ASSUME NEW failing
    PROVE  \A s \in Taken(failing) : s \in Steps[comp] /\ (s.once => ~ran) /\ ~NoDevices(failing)
  BY DEF Taken, Due

\* Without failures a step is taken when a feature reaches it.
LEMMA CleanTaken ==
    ASSUME Typed, ~NoDevices({}), NEW s \in Steps[comp], s.once => ~ran, Reached(start, s)
    PROVE  s \in Taken({})
  <1>1. s \in Due({})
    BY ReachedOpen DEF Due
  <1>2. ~Aborted({})
    BY DEF Aborted
  <1>3. QED
    BY <1>1, <1>2 DEF Taken

LEMMA BatchIs ==
    ASSUME NEW taken, NEW order
    PROVE  /\ \A n : n \in Batch(taken, order).names
                 <=> Selected(conf, <<comp, n>>) /\ \E s \in taken : n \in Emitted(s, taken)
           /\ \A k : k \in DOMAIN Batch(taken, order).val
                 <=> k \in DOMAIN host /\ k[1] \in Batch(taken, order).names /\ Present(k)
           /\ \A k \in DOMAIN Batch(taken, order).val : Batch(taken, order).val[k] = Value(k, order)
  BY DEF Batch, Filter

\* A reading is in the batch only when its step was taken.
LEMMA BatchTaken ==
    ASSUME Typed, NEW taken, taken \subseteq Steps[comp], NEW order,
           NEW k \in DOMAIN Batch(taken, order).val
    PROVE  k \in DOMAIN start.host /\ By(start, k) \in taken /\ k[1] \in Batch(taken, order).names
  <1>1. k \in DOMAIN start.host /\ k[1] \in Batch(taken, order).names
    BY BatchIs, SameNames
  <1>2. PICK s \in taken : k[1] \in Emitted(s, taken)
    BY <1>1, BatchIs
  <1>3. k[1] \in DOMAIN s.emits
    BY <1>2 DEF Emitted
  <1>4. Emitter[start.comp][k[1]] = s
    BY <1>2, <1>3, EmitterIs DEF Typed, comp
  <1>5. QED
    BY <1>1, <1>2, <1>4 DEF By

LEMMA GrowthTyping ==
    ASSUME Typed, NEW order \in Orders, NEW k \in Counters
    PROVE  (host[k] - Before(k, order)) % Width \in 0..(Width - 1)
  <1>1. host[k] \in Int /\ Before(k, order) \in Int
    BY CounterTyping, BeforeTyping, CollectionAssumption
  <1>2. QED
    BY <1>1, ModRange

LEMMA ValueTyping ==
    ASSUME Typed, NEW order \in Orders, NEW k \in DOMAIN host
    PROVE  Value(k, order) \in Int /\ (k \in Counters => Value(k, order) \in Nat)
  <1>1. Kind(k[1]) \in Growing \cup {"gauge", "share", "share0"} /\ host[k] \in Int
    BY SameNames, KeyTyping DEF Typed, IsReading
  <1>2. CASE Kind(k[1]) \in Growing
    <2>1. k \in Counters
      BY <1>2 DEF Counters, Counts
    <2>2. (host[k] - Before(k, order)) % Width \in Nat
      BY <2>1, GrowthTyping, CollectionAssumption
    <2>3. Value(k, order) = IF Kind(k[1]) = "delta" \/ Before(k, order) > 0
                            THEN (host[k] - Before(k, order)) % Width ELSE 0
      BY <1>2 DEF Growing, Value
    <2>4. QED
      BY <2>2, <2>3
  <1>3. CASE Kind(k[1]) \notin Growing
    <2>1. k \notin Counters
      BY <1>3 DEF Counters, Counts
    <2>2. Value(k, order) \in {host[k], 0}
      BY <1>1, <1>3 DEF Value
    <2>3. QED
      BY <1>1, <2>1, <2>2
  <1>4. QED
    BY <1>2, <1>3

\* The effect of a Collect, variable by variable.
First(k, taken) ==
    /\ StepOf(k[1]) \in taken
    /\ IF Kind(k[1]) = "delta" THEN StepOf(k[1]).id \notin read ELSE prev[PrevKey(k)] = 0

PrevAfter(taken, order) == [p \in DOMAIN prev |-> Kept(p, taken, order)]
BaseAfter(taken) == [k \in Counters |-> IF First(k, taken) THEN host[k] ELSE base[k]]
TallyAfter(taken, batch) ==
    [k \in Counters |-> IF First(k, taken) THEN 0
                        ELSE IF k \in DOMAIN batch.val THEN tally[k] + batch.val[k] ELSE tally[k]]

LEMMA CollectIs ==
    ASSUME NEW failing, NEW order, Collect(failing, order)
    PROVE  /\ prev' = PrevAfter(Taken(failing), order)
           /\ read' = read \cup Ids(Taken(failing))
           /\ ran' = TRUE /\ blind' = NoDevices(failing)
           /\ cache' = Stored(Batch(Taken(failing), order))
           /\ base' = BaseAfter(Taken(failing))
           /\ tally' = TallyAfter(Taken(failing), Batch(Taken(failing), order))
           /\ seen'.now = host /\ seen'.before = seen.now /\ seen'.first = ~ran
           /\ seen'.clean = (failing = {} /\ ~blind')
           /\ seen'.settled = (ran /\ seen.clean /\ failing = {})
  BY DEF Collect, Tally, First, PrevAfter, BaseAfter, TallyAfter

\* What a Collect leaves alone.
Around == UNCHANGED <<start, conf, host, shown>>

LEMMA CollectTyped ==
    ASSUME Typed, NEW failing, NEW order \in Orders, Collect(failing, order), Around
    PROVE  Typed'
  <1> DEFINE T == Taken(failing)
             B == Batch(T, order)
  <1>1. /\ start' = start /\ conf' = conf /\ host' = host /\ shown' = shown
    BY DEF Around
  <1>2. start \in Starts /\ IsReading(start, host) /\ IsReading(start, seen.now)
        /\ conf = Configured(start.command, start.base, start.files, start.own, start.minPriority)
    BY DEF Typed
  <1>3. prev' \in [Slots(start) -> 0..(Width - 1)]
    <2>1. DOMAIN prev = Slots(start)
      BY DEF Typed
    <2>2. \A p \in DOMAIN prev : Kept(p, T, order) \in 0..(Width - 1)
      BY KeptTyping
    <2>3. prev' = PrevAfter(T, order)
      BY CollectIs
    <2> HIDE DEF T
    <2>4. QED
      BY <2>1, <2>2, <2>3 DEF PrevAfter
  <1>4. Counters = Growths(start)
    BY SameNames
  <1>5. T \subseteq Steps[comp]
    BY TakenSteps
  <1>6. base' \in [Growths(start) -> 0..(Width - 1)]
    <2>1. \A k \in Counters : host[k] \in 0..(Width - 1)
      BY CounterTyping
    <2>2. \A k \in Counters : base[k] \in 0..(Width - 1)
      BY <1>4 DEF Typed
    <2>3. base' = BaseAfter(T)
      BY CollectIs
    <2> HIDE DEF T
    <2>4. QED
      BY <1>4, <2>1, <2>2, <2>3 DEF BaseAfter
  <1>7. tally' \in [Growths(start) -> Nat]
    <2>1. \A k \in Counters : tally[k] \in Nat
      BY <1>4 DEF Typed
    <2>2. \A k \in Counters : k \in DOMAIN B.val => B.val[k] \in Nat
      BY BatchIs, ValueTyping DEF Counters
    <2>3. tally' = TallyAfter(T, B)
      BY CollectIs
    <2> HIDE DEF T, B
    <2>4. QED
      BY <1>4, <2>1, <2>2, <2>3 DEF TallyAfter
  <1>8. /\ DOMAIN cache'.val \subseteq {k \in DOMAIN start.host : k[1] \in cache'.names}
        /\ \A k \in DOMAIN cache'.val : cache'.val[k] \in Int
    <2>1. cache' = Stored(B)
      BY CollectIs
    <2>2. cache' \in {cache, B}
      BY <2>1 DEF Stored
    <2>3. CASE cache' = cache
      BY <2>3 DEF Typed
    <2>4. CASE cache' = B
      <3>1. \A k \in DOMAIN B.val : k \in DOMAIN start.host /\ k[1] \in B.names /\ B.val[k] \in Int
        BY <1>5, BatchIs, BatchTaken, ValueTyping
      <3> HIDE DEF B
      <3>2. QED
        BY <2>4, <3>1
    <2>5. QED
      BY <2>2, <2>3, <2>4
  <1>9. ran' \in BOOLEAN /\ blind' \in BOOLEAN /\ seen'.clean \in BOOLEAN
        /\ seen'.settled \in BOOLEAN /\ seen'.first \in BOOLEAN
    BY CollectIs DEF NoDevices
  <1>10. seen'.now = host /\ seen'.before = seen.now
    BY CollectIs
  <1>11. IsBatch(shown'.of) /\ shown'.points \in Int
    BY <1>1 DEF Typed
  <1>12. QED
    BY <1>1, <1>2, <1>3, <1>6, <1>7, <1>8, <1>9, <1>10, <1>11 DEF Typed

---------------------------------------------------------------------------
\* A Collect preserves the invariants.

LEMMA PrevAt ==
    ASSUME NEW failing, NEW order, Collect(failing, order), NEW p \in DOMAIN prev
    PROVE  prev'[p] = Kept(p, Taken(failing), order)
  <1>1. prev' = PrevAfter(Taken(failing), order)
    BY CollectIs
  <1>2. PrevAfter(Taken(failing), order)[p] = Kept(p, Taken(failing), order)
    BY DEF PrevAfter
  <1>3. QED
    BY <1>1, <1>2

LEMMA CollectReaders ==
    ASSUME Typed, NEW failing, NEW order \in Orders, Collect(failing, order), Around
    PROVE  Readers'
  <1>1. SUFFICES ASSUME seen'.clean
                 PROVE  /\ ~blind'
                        /\ \A s \in Steps[start.comp] : ~s.once /\ Reached(start, s) => s.id \in read'
                        /\ Unshared(start) => \A k \in Growths(start) :
                              ~By(start, k).once /\ Reached(start, By(start, k))
                                 => prev'[Slot(start, k)] = seen'.now[k]
    BY DEF Readers, Around
  <1>2. failing = {} /\ ~blind' /\ ~NoDevices({})
    BY <1>1, CollectIs
  <1>3. ASSUME NEW s \in Steps[start.comp], ~s.once, Reached(start, s) PROVE s \in Taken(failing)
    <2>1. s \in Steps[comp] /\ (s.once => ~ran)
      BY <1>3 DEF comp
    <2>2. s \in Taken({})
      BY <1>2, <1>3, <2>1, CleanTaken
    <2>3. QED
      BY <1>2, <2>2, Zenon
  <1>4. \A s \in Steps[start.comp] : ~s.once /\ Reached(start, s) => s.id \in read'
    <2>1. read' = read \cup Ids(Taken(failing))
      BY CollectIs
    <2>2. \A s \in Taken(failing) : s.id \in Ids(Taken(failing))
      BY DEF Ids
    <2>3. QED
      BY <1>3, <2>1, <2>2
  <1>5. ASSUME Unshared(start), NEW k \in Growths(start),
               ~By(start, k).once, Reached(start, By(start, k))
        PROVE  prev'[Slot(start, k)] = seen'.now[k]
    <2>1. k \in Counters /\ k \in DOMAIN start.host
      BY SameNames DEF Counters
    <2>2. By(start, k) \in Steps[start.comp]
      BY <2>1, KeyTyping DEF Typed
    <2>3. By(start, k) \in Taken(failing)
      BY <1>3, <1>5, <2>2
    <2>4. Kept(Slot(start, k), Taken(failing), order) = host[k]
      BY <1>5, <2>1, <2>3, KeptUnshared
    <2>5. Slot(start, k) \in DOMAIN prev
      BY <2>1, CounterTyping
    <2>6. prev'[Slot(start, k)] = host[k]
      BY <2>4, <2>5, PrevAt
    <2>7. QED
      BY <2>6, CollectIs
  <1>6. QED
    BY <1>2, <1>4, <1>5

LEMMA EventsUnshared ==
    ASSUME Typed, NEW k \in Growths(start), KindOf(start.comp, k[1]) = "event"
    PROVE  start.comp /= "npu" /\ Unshared(start) /\ k \in Counters
  <1>1. k \in DOMAIN start.host /\ k \in Counters
    BY SameNames DEF Growths
  <1>2. By(start, k) \in Steps[start.comp] /\ k[1] \in DOMAIN By(start, k).emits
        /\ By(start, k).emits[k[1]] = "event"
    BY <1>1, KeyTyping DEF Typed
  <1>3. start.comp /= "npu"
    BY <1>2, EmitterIs DEF Typed
  <1>4. QED
    BY <1>1, <1>3, KeysUnshared DEF Typed

LEMMA CollectEvents ==
    ASSUME Typed, EventsGrow, NEW failing, NEW order \in Orders, Collect(failing, order), Around
    PROVE  EventsGrow'
  <1>1. SUFFICES ASSUME NEW k \in Growths(start), KindOf(start.comp, k[1]) = "event"
                 PROVE  prev'[Slot(start, k)] <= host[k]
    BY DEF EventsGrow, Around
  <1>2. Unshared(start) /\ k \in Counters
    BY <1>1, EventsUnshared
  <1>3. prev'[Slot(start, k)] = Kept(Slot(start, k), Taken(failing), order)
    BY <1>2, CounterTyping, PrevAt
  <1>4. Kept(Slot(start, k), Taken(failing), order) \in {host[k], prev[Slot(start, k)]}
    BY <1>2, KeptUnshared
  <1>5. prev[Slot(start, k)] <= host[k] /\ host[k] \in Nat
    BY <1>1, <1>2, CounterTyping DEF EventsGrow
  <1>6. QED
    BY <1>3, <1>4, <1>5

LEMMA CollectFeatures ==
    ASSUME Typed, Readers, NEW failing, NEW order \in Orders, Collect(failing, order), Around
    PROVE  Features'
  <1>1. SUFFICES ASSUME seen'.clean, NEW s \in Steps[start.comp], NEW n \in DOMAIN s.emits,
                        AskedBy(start, n),
                        start.command = "health" \/ \A g \in Gates(s) : n \in g,
                        s.once => seen'.first,
                        s.emits[n] \in {"share", "delta"} => seen'.settled,
                        s.emits[n] \notin {"echo", "quiet", "event"}
                 PROVE  n \in cache'.names
    BY DEF Features, Around
  <1> DEFINE T == Taken(failing)
             B == Batch(T, order)
  <1>2. failing = {} /\ ~NoDevices({})
    BY <1>1, CollectIs
  <1>3. s.once => ~ran
    BY <1>1, CollectIs
  <1>4. Reached(start, s)
    BY <1>1 DEF Reached
  <1>5. s \in T
    BY <1>2, <1>3, <1>4, CleanTaken DEF comp
  <1>6. s.emits[n] \in {"share", "delta"} => s.id \in read
    <2>1. SUFFICES ASSUME s.emits[n] \in {"share", "delta"} PROVE s.id \in read
      OBVIOUS
    <2>2. ran /\ seen.clean
      BY <1>1, <2>1, CollectIs
    <2>3. QED
      BY <1>3, <1>4, <2>2 DEF Readers
  <1>7. n \in Emitted(s, T)
    <2>1. s.emits[n] \in {"gauge", "share", "share0", "delta", "positive"}
      BY <1>1, EmitterIs DEF Growing, Typed
    <2> HIDE DEF T
    <2>2. QED
      BY <1>6, <2>1 DEF Emitted
  <1>8. Selected(conf, <<comp, n>>)
    BY <1>1, AskedSelected
  <1>9. n \in B.names
    BY <1>5, <1>7, <1>8, BatchIs
  <1>10. cache' = B
    <2>1. cache' = Stored(B)
      BY CollectIs
    <2> HIDE DEF B
    <2>2. QED
      BY <1>9, <2>1 DEF Stored
  <1>11. QED
    BY <1>9, <1>10

\* The batch of a Collect that follows a clean one without failures is the truth,
\* but for counts of zero.
LEMMA SettledBatch ==
    ASSUME Typed, Readers, EventsGrow, NEW order \in Orders,
           ran, seen.clean, ~NoDevices({}), AllAsked(start), Unshared(start)
    PROVE  /\ Batch(Taken({}), order).names /= {}
           /\ LeavesOutZeros(Batch(Taken({}), order).val, TruthOf(start, host, seen.now))
  <1> DEFINE T == Taken({})
             B == Batch(T, order)
             D == {x \in DOMAIN start.host : ~By(start, x).once}
             Y == TruthOf(start, host, seen.now)
  <1>1. \A k \in DOMAIN start.host : Reached(start, By(start, k)) /\ AskedBy(start, k[1])
    BY DEF AllAsked, Reached
  <1>2. ASSUME NEW k \in D
        PROVE  /\ By(start, k) \in T /\ By(start, k).id \in read
               /\ Selected(conf, <<comp, k[1]>>)
    <2>1. By(start, k) \in Steps[comp]
      BY KeyTyping DEF Typed, comp
    <2>2. By(start, k) \in T
      BY <1>1, <2>1, CleanTaken
    <2>3. By(start, k).id \in read
      BY <1>1, <2>1 DEF Readers, comp
    <2>4. Selected(conf, <<comp, k[1]>>)
      BY <1>1, AskedSelected
    <2>5. QED
      BY <2>2, <2>3, <2>4
  <1>3. ASSUME NEW k \in D, k \in Counters
        PROVE  /\ Before(k, order) = seen.now[k] /\ prev[Slot(start, k)] = seen.now[k]
               /\ seen.now[k] \in 0..(Width - 1) /\ host[k] \in 0..(Width - 1)
               /\ (host[k] - seen.now[k]) % Width = Grown(host[k], seen.now[k])
    <2>1. k \in Growths(start)
      BY <1>3, SameNames
    <2>2. Before(k, order) = prev[Slot(start, k)]
      BY <1>3, BeforeUnshared
    <2>3. prev[Slot(start, k)] = seen.now[k]
      BY <1>1, <2>1 DEF Readers
    <2>4. QED
      BY <1>3, <2>1, <2>2, <2>3, CounterTyping DEF Grown, Typed, IsReading
  <1>4. DOMAIN Y = D /\ \A k \in D : Y[k] =
          IF k \notin Growths(start) THEN host[k]
          ELSE IF KindOf(start.comp, k[1]) /= "delta" /\ seen.now[k] = 0 THEN 0
          ELSE Grown(host[k], seen.now[k])
    BY DEF TruthOf
  <1>5. \A k \in D : /\ k \in DOMAIN host /\ host[k] \in Int
                     /\ k \in Counters <=> k \in Growths(start)
                     /\ k \in Counters <=> Kind(k[1]) \in Growing
                     /\ Kind(k[1]) = KindOf(start.comp, k[1])
                     /\ StepOf(k[1]) = By(start, k)
                     /\ Kind(k[1]) \in Growing \cup {"gauge", "share", "share0"}
    BY SameNames, KeyTyping DEF Typed, IsReading, Counters, Counts
  <1>6. ASSUME NEW k \in D PROVE Value(k, order) = Y[k]
    <2>1. CASE k \notin Counters
      <3>1. Kind(k[1]) \in {"gauge", "share", "share0"} /\ StepOf(k[1]).id \in read
        BY <1>2, <1>5, <2>1
      <3>2. Value(k, order) = host[k]
        BY <3>1 DEF Value
      <3>3. QED
        BY <1>4, <1>5, <2>1, <3>2
    <2>2. CASE k \in Counters
      <3> DEFINE g == Grown(host[k], seen.now[k])
                 b == Before(k, order)
      <3>1. Value(k, order) = IF Kind(k[1]) = "delta" \/ b > 0 THEN (host[k] - b) % Width ELSE 0
        BY <1>5, <2>2 DEF Growing, Value
      <3>2. b = seen.now[k] /\ seen.now[k] \in 0..(Width - 1) /\ (host[k] - b) % Width = g
        BY <1>3, <2>2
      <3>3. b > 0 <=> seen.now[k] /= 0
        BY <3>2, CollectionAssumption
      <3> HIDE DEF g, b
      <3>4. Value(k, order) = IF Kind(k[1]) = "delta" \/ seen.now[k] /= 0 THEN g ELSE 0
        BY <3>1, <3>2, <3>3
      <3>5. Y[k] = IF Kind(k[1]) /= "delta" /\ seen.now[k] = 0 THEN 0 ELSE g
        BY <1>4, <1>5, <2>2 DEF g
      <3>6. QED
        BY <3>4, <3>5
    <2>3. QED
      BY <2>1, <2>2
  <1>7. ASSUME NEW k \in D, Present(k) PROVE k[1] \in B.names /\ k \in DOMAIN B.val
    <2> DEFINE s == By(start, k)
    <2>1. s \in T /\ s.id \in read
      BY <1>2
    <2>2. k[1] \in DOMAIN s.emits /\ s.emits[k[1]] = Kind(k[1])
      BY <1>5, KeyTyping DEF Typed
    <2>3. k[1] \in Emitted(s, T)
      <3>1. Kind(k[1]) \in {"quiet", "event"} => \E x \in Counters : x[1] = k[1] /\ Present(x)
        BY <1>5, <1>7 DEF Growing
      <3>2. Kind(k[1]) \in {"gauge", "share", "share0", "delta", "positive", "quiet", "event"}
        BY <1>5 DEF Growing
      <3> HIDE DEF s, T
      <3>3. QED
        BY <2>1, <2>2, <3>1, <3>2 DEF Emitted
    <2>4. k[1] \in B.names
      BY <1>2, <2>1, <2>3, BatchIs
    <2>5. QED
      BY <1>5, <1>7, <2>4, BatchIs
  <1>8. ASSUME NEW k \in DOMAIN B.val PROVE k \in D /\ B.val[k] = Y[k]
    <2>1. k \in DOMAIN start.host /\ By(start, k) \in T
      BY <1>8, TakenSteps, BatchTaken
    <2>2. k \in D
      BY <2>1, TakenSteps
    <2>3. B.val[k] = Value(k, order)
      BY <1>8, BatchIs
    <2>4. QED
      BY <1>6, <2>2, <2>3
  <1>9. ASSUME NEW k \in D \ DOMAIN B.val PROVE Y[k] = 0 /\ k[1] \in Countable
    <2>1. ~Present(k)
      BY <1>7, <1>9
    <2>2. Kind(k[1]) \in {"quiet", "event"}
      BY <2>1 DEF Present
    <2>3. k \in Counters
      BY <1>5, <2>2 DEF Growing
    <2>4. k[1] \in Countable /\ start.comp /= "npu"
      BY <1>5, <2>2, KeyTyping, EmitterIs DEF Typed
    <2>5. Slot(start, k) = k /\ prev[k] = seen.now[k] /\ seen.now[k] \in Nat /\ host[k] \in Nat
      BY <1>3, <2>3, <2>4, CollectionAssumption DEF Slot
    <2>6. seen.now[k] = 0
      <3>1. CASE Kind(k[1]) = "quiet"
        BY <2>1, <2>5, <3>1 DEF Present
      <3>2. CASE Kind(k[1]) = "event"
        <4>1. host[k] = 0
          BY <2>1, <2>5, <3>2 DEF Present
        <4>2. prev[k] <= host[k]
          BY <1>5, <2>3, <2>5, <3>2 DEF EventsGrow
        <4>3. QED
          BY <2>5, <4>1, <4>2
      <3>3. QED
        BY <2>2, <3>1, <3>2
    <2>7. QED
      BY <1>4, <1>5, <2>2, <2>3, <2>4, <2>6
  <1>10. IsBatch(Y)
    <2>1. IsFiniteSet(DOMAIN start.host) /\ D \in SUBSET DOMAIN start.host
      BY StartTyping DEF Typed
    <2>2. IsFiniteSet(D)
      BY <2>1, FS_Subset
    <2>3. \A k \in D : k \in Counters => Grown(host[k], seen.now[k]) \in Int
      BY <1>3, ModRange, CollectionAssumption DEF Grown
    <2>4. \A k \in D : Y[k] \in Int
      BY <1>4, <1>5, <2>3
    <2>5. QED
      BY <1>4, <2>2, <2>4 DEF IsBatch
  <1>11. B.names /= {}
    <2>1. PICK k \in DOMAIN start.host : KindOf(start.comp, k[1]) = "gauge" /\ ~By(start, k).once
      BY DEF AllAsked
    <2>2. Present(k)
      BY <1>5, <2>1 DEF Present
    <2>3. QED
      BY <1>7, <2>1, <2>2
  <1> HIDE DEF T, B, Y
  <1>12. LeavesOutZeros(B.val, Y)
    BY <1>4, <1>8, <1>9, <1>10 DEF LeavesOutZeros
  <1>13. QED
    BY <1>11, <1>12 DEF B, T, Y

LEMMA CollectSees ==
    ASSUME Typed, Readers, EventsGrow, NEW failing, NEW order \in Orders,
           Collect(failing, order), Around
    PROVE  Sees'
  <1>1. SUFFICES ASSUME seen'.settled, AllAsked(start), Unshared(start)
                 PROVE  LeavesOutZeros(cache'.val, TruthOf(start, seen'.now, seen'.before))
    BY DEF Sees, Around
  <1>2. ran /\ seen.clean /\ failing = {}
    BY <1>1, CollectIs
  <1>3. ~NoDevices({})
    BY <1>2 DEF Readers, NoDevices
  <1> DEFINE B == Batch(Taken({}), order)
  <1>4. B.names /= {} /\ LeavesOutZeros(B.val, TruthOf(start, host, seen.now))
    BY <1>1, <1>2, <1>3, SettledBatch
  <1>5. cache' = Stored(Batch(Taken(failing), order)) /\ seen'.now = host /\ seen'.before = seen.now
    BY CollectIs
  <1>6. cache' = Stored(B)
    BY <1>2, <1>5, Zenon
  <1> HIDE DEF B
  <1>7. cache' = B
    BY <1>4, <1>6 DEF Stored
  <1>8. QED
    BY <1>4, <1>5, <1>7, Zenon

LEMMA CollectSums ==
    ASSUME Typed, EventsGrow, Sums, NEW failing, NEW order \in Orders, Collect(failing, order), Around
    PROVE  Sums'
  <1>1. SUFFICES ASSUME Unshared(start), NEW k \in Growths(start), Selected(conf, <<start.comp, k[1]>>)
                 PROVE  tally'[k] % Width = (prev'[Slot(start, k)] - base'[k]) % Width
    BY DEF Sums, Around
  <1> DEFINE T == Taken(failing)
             B == Batch(T, order)
             s == By(start, k)
             p == prev[Slot(start, k)]
  <1>2. /\ k \in Counters /\ k \in DOMAIN host /\ k \in DOMAIN start.host
        /\ StepOf(k[1]) = s /\ Kind(k[1]) = KindOf(start.comp, k[1]) /\ PrevKey(k) = Slot(start, k)
    BY SameNames DEF Counters
  <1>3. p \in 0..(Width - 1) /\ host[k] \in 0..(Width - 1) /\ p \in Nat /\ host[k] \in Nat
    BY <1>2, CounterTyping
  <1>4. tally[k] \in Nat /\ base[k] \in Int /\ tally[k] % Width = (p - base[k]) % Width
    BY <1>1, CollectionAssumption DEF Typed, Sums
  <1>5. prev'[Slot(start, k)] = IF s \in T THEN host[k] ELSE p
    BY <1>1, <1>2, KeptUnshared, CounterTyping, PrevAt
  <1>6. base'[k] = IF First(k, T) THEN host[k] ELSE base[k]
    <2>1. base' = BaseAfter(T)
      BY CollectIs
    <2> HIDE DEF T
    <2>2. QED
      BY <1>2, <2>1 DEF BaseAfter
  <1>7. tally'[k] = IF First(k, T) THEN 0
                    ELSE IF k \in DOMAIN B.val THEN tally[k] + B.val[k] ELSE tally[k]
    <2>1. tally' = TallyAfter(T, B)
      BY CollectIs
    <2> HIDE DEF T, B
    <2>2. QED
      BY <1>2, <2>1 DEF TallyAfter
  <1>8. CASE s \notin T
    <2>1. ~First(k, T)
      BY <1>2, <1>8 DEF First
    <2>2. k \notin DOMAIN B.val
      BY <1>8, TakenSteps, BatchTaken
    <2>3. tally'[k] = tally[k] /\ base'[k] = base[k] /\ prev'[Slot(start, k)] = p
      BY <1>5, <1>6, <1>7, <1>8, <2>1, <2>2
    <2>4. QED
      BY <1>4, <2>3
  <1>9. CASE First(k, T)
    <2>1. s \in T
      BY <1>2, <1>9 DEF First
    <2>2. tally'[k] = 0 /\ base'[k] = host[k] /\ prev'[Slot(start, k)] = host[k]
      BY <1>5, <1>6, <1>7, <1>9, <2>1
    <2>3. host[k] - host[k] = 0
      BY <1>3
    <2>4. QED
      BY <2>2, <2>3
  <1>10. CASE s \in T /\ ~First(k, T)
    <2> DEFINE g == (host[k] - p) % Width
    <2>1. Before(k, order) = p
      BY <1>1, <1>2, BeforeUnshared
    <2>2. Kind(k[1]) \in Growing
      BY <1>2 DEF Counters, Counts
    <2>3. IF Kind(k[1]) = "delta" THEN s.id \in read ELSE p > 0
      BY <1>2, <1>3, <1>10 DEF First
    <2>4. Kind(k[1]) \in {"quiet", "event"} => Present(k)
      <3>1. CASE Kind(k[1]) = "quiet"
        <4>1. start.comp /= "npu"
          <5>1. s \in Steps[start.comp] /\ k[1] \in DOMAIN s.emits /\ s.emits[k[1]] = "quiet"
            BY <1>2, <3>1, KeyTyping DEF Typed
          <5> HIDE DEF s
          <5>2. QED
            BY <5>1, EmitterIs DEF Typed
        <4>2. Slot(start, k) = k
          BY <4>1 DEF Slot
        <4>3. QED
          BY <2>3, <3>1, <4>2 DEF Present
      <3>2. CASE Kind(k[1]) = "event"
        <4>1. p <= host[k]
          BY <1>1, <1>2, <3>2 DEF EventsGrow
        <4>2. QED
          BY <1>3, <2>3, <3>2, <4>1 DEF Present
      <3>3. QED
        BY <3>1, <3>2
    <2>5. Present(k)
      BY <2>2, <2>4 DEF Growing, Present
    <2>6. k[1] \in Emitted(s, T)
      <3>1. k[1] \in DOMAIN s.emits /\ s.emits[k[1]] = Kind(k[1])
        BY <1>2, KeyTyping DEF Typed
      <3> HIDE DEF s, T
      <3>2. QED
        BY <1>2, <2>2, <2>3, <2>5, <3>1 DEF Emitted, Growing
    <2>7. k \in DOMAIN B.val
      <3>1. k[1] \in B.names
        BY <1>1, <1>10, <2>6, BatchIs DEF comp
      <3>2. QED
        BY <1>2, <2>5, <3>1, BatchIs
    <2>8. B.val[k] = g
      <3>1. B.val[k] = Value(k, order)
        BY <2>7, BatchIs
      <3>2. Value(k, order) = IF Kind(k[1]) = "delta" \/ Before(k, order) > 0
                              THEN (host[k] - Before(k, order)) % Width ELSE 0
        BY <2>2 DEF Growing, Value
      <3>3. QED
        BY <2>1, <2>3, <3>1, <3>2
    <2>9. tally'[k] = tally[k] + g /\ base'[k] = base[k] /\ prev'[Slot(start, k)] = host[k]
      BY <1>5, <1>6, <1>7, <1>10, <2>7, <2>8
    <2>10. (tally[k] + g) % Width = ((p - base[k]) + (host[k] - p)) % Width
      <3> DEFINE a == tally[k]
                 d == p - base[k]
                 e == host[k] - p
      <3>1. a \in Int /\ d \in Int /\ e \in Int /\ a % Width = d % Width
        BY <1>3, <1>4
      <3> HIDE DEF a, d, e
      <3>2. (a + (e % Width)) % Width = (d + e) % Width
        BY <3>1, ModAdd
      <3>3. QED
        BY <3>2 DEF a, d, e
    <2>11. (p - base[k]) + (host[k] - p) = host[k] - base[k]
      BY <1>3, <1>4
    <2> HIDE DEF g, p
    <2>12. QED
      BY <2>9, <2>10, <2>11
  <1>11. QED
    BY <1>8, <1>9, <1>10

LEMMA CollectScored ==
    ASSUME Scored, Around
    PROVE  Scored'
  BY DEF Scored, Around

---------------------------------------------------------------------------
\* Readings that move, and publishing.

LEMMA MoveKeeps ==
    ASSUME CollectionInv, NEW k \in start.moving, Move(k)
    PROVE  CollectionInv'
  <1>1. /\ start' = start /\ conf' = conf /\ prev' = prev /\ read' = read /\ ran' = ran /\ blind' = blind
        /\ cache' = cache /\ shown' = shown /\ seen' = seen /\ base' = base /\ tally' = tally
    BY DEF Move
  <1>2. PICK r \in Readings[k[1]] :
          /\ host' = [host EXCEPT ![k] = IF Counts(k) THEN (host[k] + r) % Width ELSE r]
          /\ Counts(k) => host[k] + r < Width \/ MayWrap(k)
    BY DEF Move
  <1>3. k \in DOMAIN start.host /\ k \in DOMAIN host /\ IsReading(start, host) /\ start \in Starts
    BY SameNames, StartTyping DEF CollectionInv, Typed
  <1>4. /\ Counts(k) <=> k \in Growths(start)
        /\ Counts(k) => r \in Nat
        /\ r \in Int
    <2>1. Counts(k) <=> KindOf(start.comp, k[1]) \in Growing
      BY DEF Counts, Kind, comp
    <2>2. Readings[k[1]] \subseteq IF KindOf(start.comp, k[1]) \in Growing THEN Nat ELSE Int
      BY <1>3, StartsAssumption
    <2>3. QED
      BY <1>3, <2>1, <2>2 DEF Growths
  <1>5. Counts(k) => (host[k] + r) % Width \in 0..(Width - 1)
    BY <1>3, <1>4, ModRange, CollectionAssumption DEF IsReading
  <1>6. IsReading(start, host')
    <2> DEFINE x == IF Counts(k) THEN (host[k] + r) % Width ELSE r
    <2>1. x \in Int /\ (k \in Growths(start) => x \in 0..(Width - 1))
      BY <1>4, <1>5, CollectionAssumption
    <2>2. host' = [host EXCEPT ![k] = x]
      BY <1>2
    <2> HIDE DEF x
    <2>3. QED
      BY <1>3, <2>1, <2>2 DEF IsReading
  <1>7. Typed'
    BY <1>1, <1>6 DEF CollectionInv, Typed
  <1>8. EventsGrow'
    <2>1. SUFFICES ASSUME NEW e \in Growths(start), KindOf(start.comp, e[1]) = "event"
                   PROVE  prev[Slot(start, e)] <= host'[e]
      BY <1>1 DEF EventsGrow
    <2>2. e \in Counters /\ prev[Slot(start, e)] \in Nat /\ host[e] \in 0..(Width - 1) /\ host[e] \in Nat
      BY SameNames, CounterTyping DEF CollectionInv
    <2>3. prev[Slot(start, e)] <= host[e]
      BY <2>1 DEF CollectionInv, EventsGrow
    <2>4. CASE e /= k
      BY <1>2, <2>3, <2>4, <2>2 DEF Counters
    <2>5. CASE e = k
      <3>1. Counts(k) /\ ~MayWrap(k)
        BY <2>1, <2>2, <2>5 DEF Counters, MayWrap, Kind, comp
      <3>2. host[k] + r < Width /\ r \in Nat
        BY <1>2, <1>4, <3>1
      <3>3. host[k] + r \in 0..(Width - 1)
        BY <2>2, <2>5, <3>2, CollectionAssumption
      <3>4. host'[k] = host[k] + r
        BY <1>2, <1>3, <3>1, <3>3, ModSmall
      <3>5. QED
        BY <2>2, <2>3, <2>5, <3>2, <3>4
    <2>6. QED
      BY <2>4, <2>5
  <1>9. Readers' /\ Sees' /\ Features' /\ Sums' /\ Scored'
    BY <1>1 DEF CollectionInv, Readers, Sees, Features, Sums, Scored
  <1>10. QED
    BY <1>7, <1>8, <1>9 DEF CollectionInv

\* The points of a batch are within the weight of its component.
LEMMA ScoresWithin ==
    ASSUME NEW c \in Components, NEW v, IsBatch(v), NEW w \in Nat, NEW p \in Scores(c, w, v)
    PROVE  p \in 0..w
  <1>1. PICK f \in FirstCorrected(c, v) : p = Points(w, Lost(c, v, f), Parts(v))
    BY DEF Scores
  <1>2. Lost(c, v, f) \in 0..(100 * Parts(v)) /\ Parts(v) \in Nat \ {0}
    BY LostInBudget, MountsFinite
  <1>3. QED
    BY <1>1, <1>2, PointsAre

LEMMA CachedBatch ==
    ASSUME Typed
    PROVE  /\ IsBatch(cache.val)
           /\ DOMAIN cache.val /= {} => Weights = FullWeights(start)
  <1>1. IsBatch(cache.val)
    <2>1. IsFiniteSet(DOMAIN start.host)
      BY StartTyping DEF Typed
    <2>2. DOMAIN cache.val \in SUBSET DOMAIN start.host
      BY DEF Typed
    <2>3. IsFiniteSet(DOMAIN cache.val)
      BY <2>1, <2>2, FS_Subset
    <2>4. QED
      BY <2>3 DEF IsBatch, Typed
  <1>2. ASSUME DOMAIN cache.val /= {} PROVE Cards = FullCards(start)
    <2>1. PICK k \in DOMAIN cache.val : TRUE
      BY <1>2
    <2>2. k \in DOMAIN start.host /\ k[1] \in cache.names
      BY DEF Typed
    <2>3. comp = "npu" => ~(cache.names \subseteq DOMAIN collectStatic.emits \ {"chip_type"})
      BY <2>2, KeyTyping DEF Typed, comp
    <2>4. QED
      BY <2>3 DEF Cards, FullCards, comp
  <1>3. ASSUME DOMAIN cache.val /= {} PROVE Weights = FullWeights(start)
    <2>1. Cards = FullCards(start)
      BY <1>2, <1>3
    <2>2. QED
      BY <2>1, Zenon DEF Weights, FullWeights, comp
  <1>4. QED
    BY <1>1, <1>3

LEMMA WeightsBalanced ==
    /\ \A c \in Components : Weights[c] \in Nat /\ FullWeights(start)[c] \in Nat
    /\ Balanced(Weights, "gpu" \in start.others \cup {comp})
  <1> DEFINE gpu == "gpu" \in start.others \cup {comp}
             npu == "npu" \in start.others \cup {comp}
  <1>1. gpu \in BOOLEAN /\ npu \in BOOLEAN
    OBVIOUS
  <1>2. \A n : Balanced(Scheme(gpu, npu, n), gpu)
    BY <1>1, SchemesBalanced
  <1>3. Weights = Scheme(gpu, npu, Cards) /\ FullWeights(start) = Scheme(gpu, npu, FullCards(start))
    BY Zenon DEF Weights, FullWeights, comp
  <1>4. Balanced(Weights, gpu) /\ Balanced(FullWeights(start), gpu)
    BY <1>2, <1>3
  <1>5. \A c \in Components : Weights[c] \in Nat /\ FullWeights(start)[c] \in Nat
    BY <1>4 DEF Balanced
  <1>6. QED
    BY <1>4, <1>5

Others == Share("cpu") + Share("memory") + Share("disk") + Share("gpu") + Share("npu")
          + Share("network") + Share("chassis")

\* The whole host has a hundred points, unless it has both accelerators.
LEMMA TotalWithin ==
    ASSUME Typed, NEW p \in 0..Weights[comp]
    PROVE  {"gpu", "npu"} \subseteq start.others \cup {comp} \/ p + Others <= 100
  <1> DEFINE w == Weights
  <1>1. comp \in Components /\ comp \notin start.others
    BY StartTyping DEF Typed, comp
  <1>2. \A c \in Components : w[c] \in Nat
    BY WeightsBalanced
  <1>3. /\ w["cpu"] \in Nat /\ w["memory"] \in Nat /\ w["disk"] \in Nat /\ w["gpu"] \in Nat
        /\ w["npu"] \in Nat /\ w["network"] \in Nat /\ w["chassis"] \in Nat
    BY <1>2 DEF Components
  <1>4. w["cpu"] + w["memory"] + w["disk"] + w["network"] + w["chassis"]
          + (IF "gpu" \in start.others \cup {comp} THEN w["gpu"] ELSE w["npu"]) <= 100
    BY WeightsBalanced DEF Balanced
  <1>5. p \in Nat /\ p <= w[comp]
    BY <1>1, <1>2
  <1>6. \A c \in Components : Share(c) = IF c \in start.others THEN w[c] ELSE 0
    BY DEF Share
  <1>7. /\ Share("cpu") = IF "cpu" \in start.others THEN w["cpu"] ELSE 0
        /\ Share("memory") = IF "memory" \in start.others THEN w["memory"] ELSE 0
        /\ Share("disk") = IF "disk" \in start.others THEN w["disk"] ELSE 0
        /\ Share("gpu") = IF "gpu" \in start.others THEN w["gpu"] ELSE 0
        /\ Share("npu") = IF "npu" \in start.others THEN w["npu"] ELSE 0
        /\ Share("network") = IF "network" \in start.others THEN w["network"] ELSE 0
        /\ Share("chassis") = IF "chassis" \in start.others THEN w["chassis"] ELSE 0
    BY <1>6 DEF Components
  <1>8. comp \in {"cpu", "memory", "disk", "network", "chassis", "gpu", "npu"}
    BY <1>1 DEF Components
  <1> HIDE DEF w
  <1> DEFINE c == comp
             o == start.others
  <1>9. c \in {"cpu", "memory", "disk", "network", "chassis", "gpu", "npu"} /\ c \notin o /\ p <= w[c]
    BY <1>1, <1>5, <1>8
  <1> HIDE DEF c, o
  <1>10. SUFFICES ASSUME ~({"gpu", "npu"} \subseteq o \cup {c}) PROVE p + Others <= 100
    BY DEF c, o
  <1>11. /\ Share("cpu") = IF "cpu" \in o THEN w["cpu"] ELSE 0
         /\ Share("memory") = IF "memory" \in o THEN w["memory"] ELSE 0
         /\ Share("disk") = IF "disk" \in o THEN w["disk"] ELSE 0
         /\ Share("gpu") = IF "gpu" \in o THEN w["gpu"] ELSE 0
         /\ Share("npu") = IF "npu" \in o THEN w["npu"] ELSE 0
         /\ Share("network") = IF "network" \in o THEN w["network"] ELSE 0
         /\ Share("chassis") = IF "chassis" \in o THEN w["chassis"] ELSE 0
    BY <1>7 DEF o
  <1>12. w["cpu"] + w["memory"] + w["disk"] + w["network"] + w["chassis"]
          + (IF "gpu" \in o \cup {c} THEN w["gpu"] ELSE w["npu"]) <= 100
    BY <1>4 DEF o, c
  <1>13. CASE c = "cpu"
    BY <1>3, <1>5, <1>9, <1>10, <1>11, <1>12, <1>13 DEF Others
  <1>14. CASE c = "memory"
    BY <1>3, <1>5, <1>9, <1>10, <1>11, <1>12, <1>14 DEF Others
  <1>15. CASE c = "disk"
    BY <1>3, <1>5, <1>9, <1>10, <1>11, <1>12, <1>15 DEF Others
  <1>16. CASE c = "network"
    BY <1>3, <1>5, <1>9, <1>10, <1>11, <1>12, <1>16 DEF Others
  <1>17. CASE c = "chassis"
    BY <1>3, <1>5, <1>9, <1>10, <1>11, <1>12, <1>17 DEF Others
  <1>18. CASE c = "gpu"
    BY <1>3, <1>5, <1>9, <1>10, <1>11, <1>12, <1>18 DEF Others
  <1>19. CASE c = "npu"
    BY <1>3, <1>5, <1>9, <1>10, <1>11, <1>12, <1>19 DEF Others
  <1>20. QED
    BY <1>9, <1>13, <1>14, <1>15, <1>16, <1>17, <1>18, <1>19

\* What is published: the batch of the cache and one of its scores.
LEMMA PublishIs ==
    ASSUME Publish
    PROVE  /\ UNCHANGED <<start, conf, host, prev, read, ran, blind, cache, seen, base, tally>>
           /\ shown'.points \in Scores(comp, Weights[comp], cache.val)
           /\ shown'.total = shown'.points + Others
           /\ shown'.of = cache.val
  BY DEF Publish, Evaluate, Others

LEMMA PublishKeeps ==
    ASSUME CollectionInv, Publish
    PROVE  CollectionInv'
  <1>1. UNCHANGED <<start, conf, host, prev, read, ran, blind, cache, seen, base, tally>>
    BY PublishIs
  <1>2. Typed
    BY DEF CollectionInv
  <1>3. comp \in Components /\ comp = start.comp
    BY <1>2, StartTyping DEF Typed, comp
  <1>4. IsBatch(cache.val) /\ (DOMAIN cache.val /= {} => Weights = FullWeights(start))
    BY <1>2, CachedBatch
  <1>5. Weights[comp] \in Nat
    BY <1>3, WeightsBalanced
  <1>6. shown'.points \in 0..Weights[comp]
    BY <1>3, <1>4, <1>5, PublishIs, ScoresWithin
  <1>7. shown'.points \in Int /\ IsBatch(shown'.of)
    BY <1>4, <1>5, <1>6, PublishIs
  <1>8. {"gpu", "npu"} \subseteq start.others \cup {start.comp} \/ shown'.total <= 100
    BY <1>2, <1>3, <1>6, PublishIs, TotalWithin
  <1>9. DOMAIN shown'.of /= {}
          => shown'.points \in Scores(start.comp, FullWeights(start)[start.comp], shown'.of)
    <2>1. SUFFICES ASSUME DOMAIN cache.val /= {}
                   PROVE  shown'.points \in Scores(start.comp, FullWeights(start)[start.comp], cache.val)
      BY PublishIs
    <2>2. Weights = FullWeights(start)
      BY <1>4, <2>1
    <2>3. shown'.points \in Scores(comp, Weights[comp], cache.val)
      BY PublishIs
    <2>4. QED
      BY <1>3, <2>2, <2>3
  <1>10. Typed'
    BY <1>1, <1>2, <1>7 DEF Typed
  <1>11. Scored'
    BY <1>1, <1>8, <1>9 DEF Scored
  <1>12. Readers' /\ EventsGrow' /\ Sees' /\ Features' /\ Sums'
    BY <1>1 DEF CollectionInv, Readers, EventsGrow, Sees, Features, Sums
  <1>13. QED
    BY <1>10, <1>11, <1>12 DEF CollectionInv

LEMMA TickKeeps ==
    ASSUME CollectionInv, NEW failing, Tick(failing)
    PROVE  CollectionInv'
  <1>1. PICK order \in Orders : Collect(failing, order)
    BY DEF Tick
  <1>2. Around
    BY DEF Tick, Around
  <1>3. Typed /\ Readers /\ EventsGrow /\ Sees /\ Features /\ Sums /\ Scored
    BY DEF CollectionInv
  <1>4. Typed'
    BY <1>1, <1>2, <1>3, CollectTyped
  <1>5. Readers'
    BY <1>1, <1>2, <1>3, CollectReaders
  <1>6. EventsGrow'
    BY <1>1, <1>2, <1>3, CollectEvents
  <1>7. Sees'
    BY <1>1, <1>2, <1>3, CollectSees
  <1>8. Features'
    BY <1>1, <1>2, <1>3, CollectFeatures
  <1>9. Sums'
    BY <1>1, <1>2, <1>3, CollectSums
  <1>10. Scored'
    BY <1>2, <1>3, CollectScored
  <1>11. QED
    BY <1>4, <1>5, <1>6, <1>7, <1>8, <1>9, <1>10 DEF CollectionInv

LEMMA Starting ==
    ASSUME Init
    PROVE  CollectionInv
  <1>1. /\ start \in Starts /\ host = start.host
        /\ conf = Configured(start.command, start.base, start.files, start.own, start.minPriority)
        /\ prev = [p \in {PrevKey(k) : k \in Counters} |-> 0]
        /\ ran = FALSE /\ blind = FALSE /\ cache = None /\ shown = Unshown
        /\ seen.now = host /\ seen.before = host /\ seen.clean = FALSE
        /\ seen.settled = FALSE /\ seen.first = FALSE
        /\ base = [k \in Counters |-> 0] /\ tally = [k \in Counters |-> 0]
    BY DEF Init
  <1>2. 0 \in 0..(Width - 1) /\ 0 \in Nat
    BY CollectionAssumption
  <1>3. IsReading(start, host)
    BY <1>1, StartTyping
  <1>4. Counters = Growths(start)
    BY <1>1 DEF Counters, Counts, Kind, Growths, comp
  <1>5. {PrevKey(k) : k \in Counters} = Slots(start)
    BY <1>4 DEF PrevKey, CardKey, EccKey, Slots, Slot, comp
  <1>6. prev = [p \in Slots(start) |-> 0]
    BY <1>1, <1>5
  <1>7. \A k \in Growths(start) : prev[Slot(start, k)] = 0 /\ base[k] = 0 /\ tally[k] = 0
    BY <1>1, <1>4, <1>6 DEF Slots
  <1>8. DOMAIN cache.val = {} /\ DOMAIN shown.of = {} /\ shown.points = -1 /\ shown.total = -1
    BY <1>1 DEF None, Unshown
  <1>9. IsBatch(shown.of)
    BY <1>8, FS_EmptySet DEF IsBatch
  <1>10. prev \in [Slots(start) -> 0..(Width - 1)]
    BY <1>2, <1>6
  <1>11. base \in [Growths(start) -> 0..(Width - 1)] /\ tally \in [Growths(start) -> Nat]
    BY <1>1, <1>2, <1>4
  <1>12. Typed
    <2>1. IsReading(start, seen.now) /\ IsReading(start, seen.before)
      BY <1>1, <1>3, Zenon
    <2>2. ran \in BOOLEAN /\ blind \in BOOLEAN
          /\ seen.clean \in BOOLEAN /\ seen.settled \in BOOLEAN /\ seen.first \in BOOLEAN
      BY <1>1
    <2>3. /\ DOMAIN cache.val \subseteq {k \in DOMAIN start.host : k[1] \in cache.names}
          /\ \A k \in DOMAIN cache.val : cache.val[k] \in Int
      BY <1>8
    <2>4. shown.points \in Int
      BY <1>8
    <2>5. QED
      BY <1>1, <1>3, <1>9, <1>10, <1>11, <2>1, <2>2, <2>3, <2>4 DEF Typed
  <1>13. Readers /\ Sees /\ Features
    BY <1>1 DEF Readers, Sees, Features
  <1>14. EventsGrow
    <2>1. \A k \in Growths(start) : host[k] \in 0..(Width - 1)
      BY <1>3 DEF IsReading
    <2>2. QED
      BY <1>7, <2>1 DEF EventsGrow
  <1>15. Sums
    <2>1. 0 - 0 = 0
      OBVIOUS
    <2>2. QED
      BY <1>7, <2>1 DEF Sums
  <1>16. Scored
    BY <1>8 DEF Scored
  <1>17. QED
    BY <1>12, <1>13, <1>14, <1>15, <1>16 DEF CollectionInv

\* The invariants hold in every reachable state, for all starts and readings.
THEOREM CollectionSafety == Spec => []CollectionInv
  <1>1. Init => CollectionInv
    BY Starting
  <1>2. CollectionInv /\ [Next]_vars => CollectionInv'
    <2> SUFFICES ASSUME CollectionInv, [Next]_vars PROVE CollectionInv'
      OBVIOUS
    <2>1. CASE \E k \in start.moving : Move(k)
      BY <2>1, MoveKeeps
    <2>2. CASE \E failing \in {{}} \cup {{f} : f \in start.flaky} : Tick(failing)
      BY <2>2, TickKeeps
    <2>3. CASE Publish
      BY <2>3, PublishKeeps
    <2>4. CASE UNCHANGED vars
      BY <2>4 DEF vars, CollectionInv, Typed, Readers, EventsGrow, Sees, Features, Sums, Scored
    <2>5. QED
      BY <2>1, <2>2, <2>3, <2>4 DEF Next
  <1>3. QED
    BY <1>1, <1>2, PTL DEF Spec

---------------------------------------------------------------------------
\* From the invariants to the properties.

LEMMA AskedIs ==
    \A n : Asked(n) <=> AskedBy(start, n)
  BY Zenon DEF Asked, AskedBy, comp

LEMMA InvGivesFeatures ==
    ASSUME CollectionInv
    PROVE  FeatureGetsItsMetrics
  <1>1. SUFFICES ASSUME seen.clean, NEW s \in Steps[comp], NEW n \in DOMAIN s.emits,
                        Asked(n), InItsGates(n), Ready(n)
                 PROVE  n \in cache.names
    BY DEF FeatureGetsItsMetrics
  <1>2. s \in Steps[start.comp] /\ AskedBy(start, n)
    BY <1>1, AskedIs DEF comp
  <1>3. StepOf(n) = s /\ Kind(n) = s.emits[n]
    BY <1>2, EmitterIs DEF StepOf, Kind, CollectionInv, Typed, comp
  <1>4. start.command = "health" \/ \A g \in Gates(s) : n \in g
    BY <1>1, <1>3 DEF InItsGates
  <1>5. /\ s.once => seen.first
        /\ s.emits[n] \in {"share", "delta"} => seen.settled
        /\ s.emits[n] \notin {"echo", "quiet", "event"}
    BY <1>1, <1>3 DEF Ready
  <1>6. QED
    BY <1>1, <1>2, <1>4, <1>5 DEF CollectionInv, Features

LEMMA SingleChip ==
    ASSUME Typed, OneChipPerCard
    PROVE  Unshared(start)
  BY KeysUnshared DEF OneChipPerCard, Typed, comp

LEMMA InvGivesSums ==
    ASSUME CollectionInv
    PROVE  DeltasAddUp
  <1>1. SUFFICES ASSUME OneChipPerCard, NEW k \in Counters, Selected(conf, <<comp, k[1]>>)
                 PROVE  tally[k] % Width = (prev[PrevKey(k)] - base[k]) % Width
    BY DEF DeltasAddUp
  <1>2. Unshared(start) /\ k \in Growths(start) /\ PrevKey(k) = Slot(start, k)
    BY <1>1, SingleChip, SameNames DEF CollectionInv
  <1>3. tally[k] % Width = (prev[Slot(start, k)] - base[k]) % Width
    BY <1>1, <1>2 DEF CollectionInv, Sums, comp
  <1>4. QED
    BY <1>2, <1>3

LEMMA InvGivesBudgets ==
    ASSUME CollectionInv
    PROVE  BudgetsAddUp
  <1>1. Typed /\ comp \in Components
    BY StartTyping DEF CollectionInv, Typed, comp
  <1>2. IsBatch(cache.val)
    BY <1>1, CachedBatch
  <1>3. Parts(cache.val) \in Nat
    BY <1>2, MountsFinite
  <1>4. ASSUME NEW first \in FirstCorrected(comp, cache.val)
        PROVE  Lost(comp, cache.val, first) <= 100 * Parts(cache.val)
    <2>1. Lost(comp, cache.val, first) \in 0..(100 * Parts(cache.val))
      BY <1>1, <1>2, LostInBudget
    <2>2. QED
      BY <1>3, <2>1
  <1>5. QED
    BY <1>4 DEF BudgetsAddUp, CollectionInv, Scored, comp

LEMMA TruthIs ==
    ASSUME Typed
    PROVE  Truth = TruthOf(start, seen.now, seen.before)
  <1> DEFINE D == {x \in DOMAIN start.host : ~By(start, x).once}
  <1>1. {x \in DOMAIN host : ~StepOf(x[1]).once} = D
    BY SameNames
  <1>2. \A k \in D : /\ Counts(k) <=> k \in Growths(start)
                     /\ Kind(k[1]) = KindOf(start.comp, k[1])
    BY SameNames DEF Growths, Counts
  <1>3. Truth = [k \in D |->
            IF k \notin Growths(start) THEN seen.now[k]
            ELSE IF KindOf(start.comp, k[1]) /= "delta" /\ seen.before[k] = 0 THEN 0
            ELSE (seen.now[k] - seen.before[k]) % Width]
    BY <1>1, <1>2 DEF Truth
  <1>4. QED
    BY <1>3 DEF TruthOf, Grown

\* A published score is that of the truth.
LEMMA PublishSees ==
    ASSUME CollectionInv, Publish, seen.settled, HealthIsAsked, OneChipPerCard
    PROVE  shown'.points \in Scores(comp, Weights[comp], Truth)
  <1>1. Typed /\ Sees /\ comp \in Components
    BY StartTyping DEF CollectionInv, Typed, comp
  <1>2. AllAsked(start)
    BY <1>1, SameNames, AskedIs DEF HealthIsAsked, AllAsked
  <1>3. Unshared(start)
    BY <1>1, SingleChip
  <1>4. LeavesOutZeros(cache.val, TruthOf(start, seen.now, seen.before))
    BY <1>1, <1>2, <1>3 DEF Sees
  <1>5. LeavesOutZeros(cache.val, Truth)
    BY <1>1, <1>4, TruthIs
  <1>6. Scores(comp, Weights[comp], cache.val) = Scores(comp, Weights[comp], Truth)
    BY <1>1, <1>5, SameScores
  <1>7. shown'.points \in Scores(comp, Weights[comp], cache.val)
    BY PublishIs
  <1>8. QED
    BY <1>6, <1>7

\* Only Publish changes what is shown.
LEMMA ShownStands ==
    ASSUME [Next]_vars, ~Publish
    PROVE  shown' = shown
  BY DEF Next, Move, Tick, vars

LEMMA PublishNoBetter ==
    ASSUME CollectionInv, Publish,
           DOMAIN shown.of = DOMAIN shown'.of, DOMAIN shown.of /= {},
           \A k \in DOMAIN shown.of : Worse(k, shown.of[k], shown'.of[k]),
           Cardinality(Sources(shown.of)) <= 1, Cardinality(Sources(shown'.of)) <= 1
    PROVE  shown'.points <= shown.points
  <1>1. Typed /\ comp = start.comp /\ comp \in Components
    BY StartTyping DEF CollectionInv, Typed, comp
  <1>2. shown'.of = cache.val /\ shown'.points \in Scores(comp, Weights[comp], cache.val)
    BY PublishIs
  <1>3. IsBatch(shown.of) /\ IsBatch(cache.val) /\ Weights = FullWeights(start)
    BY <1>1, <1>2, CachedBatch DEF Typed
  <1>4. shown.points \in Scores(comp, Weights[comp], shown.of)
    BY <1>1, <1>3 DEF CollectionInv, Scored
  <1>5. IsWorse(shown.of, cache.val)
    BY <1>2, <1>3 DEF IsWorse
  <1>6. Weights[comp] \in Nat
    BY <1>1, WeightsBalanced
  <1>7. Cardinality(Sources(cache.val)) <= 1
    BY <1>2, Zenon
  <1>8. QED
    BY <1>1, <1>2, <1>4, <1>5, <1>6, <1>7, ScoresWorse

---------------------------------------------------------------------------
\* The theorems.

\* Whatever an enabled feature asks for is in the batch of every Collect whose
\* reads worked, for every set of feature files, defaults and thresholds.
THEOREM FeaturesAreServed == Spec => []FeatureGetsItsMetrics
  <1>1. CollectionInv => FeatureGetsItsMetrics
    BY InvGivesFeatures
  <1>2. QED
    BY <1>1, CollectionSafety, PTL

\* The growth reported for a counter adds up, whatever fails, wraps or comes in
\* whatever order.
THEOREM GrowthAddsUp == Spec => []DeltasAddUp
  <1>1. CollectionInv => DeltasAddUp
    BY InvGivesSums
  <1>2. QED
    BY <1>1, CollectionSafety, PTL

\* No batch is charged more than its component's weight, and no host without
\* both accelerators scores more than a hundred points.
THEOREM BudgetsHold == Spec => []BudgetsAddUp
  <1>1. CollectionInv => BudgetsAddUp
    BY InvGivesBudgets
  <1>2. QED
    BY <1>1, CollectionSafety, PTL

\* The score the daemon publishes is that of the host as last read.
THEOREM PublishedIsTrue == Spec => ScoreSeesTheHost
  <1>1. CollectionInv /\ [Next]_vars =>
          [ shown' /= shown /\ start.command = "daemon" /\ seen.settled /\ HealthIsAsked /\ OneChipPerCard
            => \E v \in {Truth} : shown'.points \in Scores(comp, Weights[comp], v) ]_vars
    BY ShownStands, PublishSees
  <1>2. QED
    BY <1>1, CollectionSafety, PTL DEF Spec, ScoreSeesTheHost

\* A host on which every reading is as bad or worse does not score better.
THEOREM WorseIsNoBetter == Spec => WorseNeverScoresBetter
  <1> DEFINE NoBetter ==
        LET old == shown.of  new == shown'.of
            sources(v) == {k \in DOMAIN v : k[1] \in {"cpu_ce_errors", "ecc_ce_errors"} /\ v[k] > 0}
        IN  /\ shown /= Unshown /\ DOMAIN old = DOMAIN new /\ DOMAIN old /= {}
            /\ \A k \in DOMAIN old : Worse(k, old[k], new[k])
            /\ Cardinality(sources(old)) <= 1 /\ Cardinality(sources(new)) <= 1
            => shown'.points <= shown.points
  <1>1. CollectionInv /\ [Next]_vars => [NoBetter]_vars
    <2>1. SUFFICES ASSUME CollectionInv, [Next]_vars PROVE NoBetter
      OBVIOUS
    <2>2. CASE Publish
      BY <2>1, <2>2, PublishNoBetter DEF Sources
    <2>3. CASE ~Publish
      <3>1. shown' = shown
        BY <2>1, <2>3, ShownStands
      <3>2. shown.points <= shown.points
        BY <2>1 DEF CollectionInv, Typed
      <3>3. QED
        BY <3>1, <3>2
    <2>4. QED
      BY <2>2, <2>3
  <1>2. QED
    BY <1>1, CollectionSafety, PTL DEF Spec, WorseNeverScoresBetter

===========================================================================
