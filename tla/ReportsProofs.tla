--------------------------- MODULE ReportsProofs ---------------------------
(***************************************************************************)
(* The figures of the reports agree whatever the rows, the stores, the     *)
(* period, the length of a day, a week or a month and Korea's offset: a    *)
(* period is split by stores and by buckets, and nothing is lost or        *)
(* counted twice in either way.                                            *)
(***************************************************************************)
EXTENDS Reports, FiniteSetTheorems, TLAPS

----------------------------------------------------------------------------
(* Sums *)

\* The parts of X, one for each key, are disjoint and leave nothing out.
Splits(part, K, X) ==
    /\ part \in [K -> SUBSET X]
    /\ \A x \in X : \E k \in K : x \in part[k]
    /\ \A j, k \in K : j # k => part[j] \intersect part[k] = {}

LEMMA SplitByKey ==
    ASSUME NEW X, NEW K, NEW key \in [X -> K]
    PROVE  Splits([k \in K |-> {x \in X : key[x] = k}], K, X)
BY DEF Splits

LEMMA UnitsFinite ==
    ASSUME NEW S, IsFiniteSet(S), NEW f \in [S -> Nat]
    PROVE  IsFiniteSet(Units(f)) /\ SumOf(f) \in Nat
<1> DEFINE units == {{x} \X (1..f[x]) : x \in S}
           unitsOf == [x \in S |-> {x} \X (1..f[x])]
<1>1. unitsOf \in Surjection(S, units)
  BY DEF Surjection
<1>2. IsFiniteSet(units)
  <2> HIDE DEF units, unitsOf
  <2> QED BY <1>1, FS_Surjection
<1>3. ASSUME NEW x \in S PROVE IsFiniteSet({x} \X (1..f[x]))
  <2>1. f[x] \in Nat
    OBVIOUS
  <2>2. IsFiniteSet(1..f[x])
    BY <2>1, FS_Interval
  <2>3. IsFiniteSet({x})
    BY FS_Singleton
  <2> QED BY <2>2, <2>3, FS_Product
<1>4. \A T \in units : IsFiniteSet(T)
  BY <1>3
<1>5. IsFiniteSet(UNION units)
  <2> HIDE DEF units
  <2> QED BY <1>2, <1>4, FS_UNION
<1>6. Units(f) = UNION units
  BY DEF Units
<1> QED BY <1>5, <1>6, FS_CardinalityType DEF SumOf

\* The sizes of disjoint parts add up to the size of the whole: the units of
\* the sum correspond one to one to the members.
LEMMA WholeCount ==
    ASSUME NEW K, IsFiniteSet(K), NEW X, IsFiniteSet(X),
           NEW part, Splits(part, K, X)
    PROVE  SumOf([k \in K |-> Cardinality(part[k])]) = Cardinality(X)
<1> DEFINE size == [k \in K |-> Cardinality(part[k])]
           nth == [k \in K |-> CHOOSE b : b \in Bijection(1..size[k], part[k])]
           member == [u \in Units(size) |-> nth[u[1]][u[2]]]
<1>1. ASSUME NEW k \in K
      PROVE  IsFiniteSet(part[k]) /\ size[k] \in Nat
             /\ nth[k] \in Bijection(1..size[k], part[k])
  <2>1. part[k] \in SUBSET X
    BY DEF Splits
  <2>2. IsFiniteSet(part[k])
    BY <2>1, FS_Subset
  <2>3. size[k] \in Nat /\ ExistsBijection(1..size[k], part[k])
    BY <2>2, FS_CardinalityType
  <2> QED BY <2>2, <2>3 DEF ExistsBijection
<1>2. size \in [K -> Nat]
  BY <1>1
<1> HIDE DEF size, nth
<1>3. ASSUME NEW u
      PROVE  u \in Units(size) <=>
                \E k \in K : \E i \in 1..size[k] : u = <<k, i>>
  BY <1>2 DEF Units
<1>4. ASSUME NEW k \in K, NEW i \in 1..size[k]
      PROVE  <<k, i>> \in Units(size) /\ member[<<k, i>>] = nth[k][i]
             /\ nth[k][i] \in part[k]
  <2>1. <<k, i>> \in Units(size)
    BY <1>3
  <2>2. nth[k][i] \in part[k]
    BY <1>1 DEF Bijection, Injection
  <2> QED BY <2>1, <2>2
<1>5. member \in [Units(size) -> X]
  <2> SUFFICES ASSUME NEW u \in Units(size) PROVE member[u] \in X
    OBVIOUS
  <2>1. PICK k \in K : \E i \in 1..size[k] : u = <<k, i>>
    BY <1>3
  <2>2. PICK i \in 1..size[k] : u = <<k, i>>
    BY <2>1
  <2>3. member[u] \in part[k]
    BY <1>4, <2>2
  <2> QED BY <2>3 DEF Splits
<1>6. ASSUME NEW u \in Units(size), NEW v \in Units(size), member[u] = member[v]
      PROVE  u = v
  <2>1. PICK j \in K : \E i \in 1..size[j] : u = <<j, i>>
    BY <1>3
  <2>2. PICK i \in 1..size[j] : u = <<j, i>>
    BY <2>1
  <2>3. PICK k \in K : \E h \in 1..size[k] : v = <<k, h>>
    BY <1>3
  <2>4. PICK h \in 1..size[k] : v = <<k, h>>
    BY <2>3
  <2>5. /\ member[u] = nth[j][i] /\ nth[j][i] \in part[j]
        /\ member[v] = nth[k][h] /\ nth[k][h] \in part[k]
    BY <1>4, <2>2, <2>4
  <2>6. j = k
    BY <1>6, <2>5 DEF Splits
  <2>7. i = h
    BY <1>1, <1>6, <2>5, <2>6 DEF Bijection, Injection, IsInjective
  <2> QED BY <2>2, <2>4, <2>6, <2>7
<1>7. ASSUME NEW x \in X
      PROVE  \E u \in Units(size) : member[u] = x
  <2>1. PICK k \in K : x \in part[k]
    BY DEF Splits
  <2>2. PICK i \in 1..size[k] : nth[k][i] = x
    BY <1>1, <2>1 DEF Bijection, Surjection
  <2> QED BY <1>4, <2>2
<1>8. member \in Bijection(Units(size), X)
  <2> HIDE DEF member
  <2> QED BY <1>5, <1>6, <1>7 DEF Bijection, Injection, Surjection, IsInjective
<1>9. IsFiniteSet(Units(size))
  BY <1>2, UnitsFinite
<1>10. Cardinality(X) = Cardinality(Units(size))
  <2>1. ExistsBijection(Units(size), X)
    BY <1>8 DEF ExistsBijection
  <2> QED BY <1>9, <2>1, FS_Bijection
<1> QED BY <1>10 DEF SumOf, size

\* The same of amounts, unit by unit.
LEMMA WholeTotal ==
    ASSUME NEW K, IsFiniteSet(K),
           NEW X \in SUBSET (Reservation \union PaymentId), IsFiniteSet(X),
           NEW part, Splits(part, K, X)
    PROVE  SumOf([k \in K |-> Total(part[k])]) = Total(X)
<1> DEFINE units(ids) == Units([i \in ids |-> Amount[i]])
           unitsOf == [k \in K |-> units(part[k])]
<1>1. ASSUME NEW ids \in SUBSET (Reservation \union PaymentId), NEW u
      PROVE  u \in units(ids) <=> \E i \in ids : \E n \in 1..Amount[i] : u = <<i, n>>
  BY DEF Units
<1>2. [i \in X |-> Amount[i]] \in [X -> Nat]
  BY ReportsAssumption
<1>3. IsFiniteSet(units(X))
  BY <1>2, UnitsFinite
<1>4. \A k \in K : part[k] \in SUBSET X
  BY DEF Splits
<1> HIDE DEF units
<1>5. unitsOf \in [K -> SUBSET units(X)]
  <2> SUFFICES ASSUME NEW k \in K, NEW u \in units(part[k]) PROVE u \in units(X)
    OBVIOUS
  <2>1. part[k] \in SUBSET (Reservation \union PaymentId)
    BY <1>4
  <2>2. PICK i \in part[k] : \E n \in 1..Amount[i] : u = <<i, n>>
    BY <1>1, <2>1
  <2>3. i \in X
    BY <1>4
  <2> QED BY <1>1, <2>2, <2>3
<1>6. ASSUME NEW u \in units(X) PROVE \E k \in K : u \in unitsOf[k]
  <2>1. PICK i \in X : \E n \in 1..Amount[i] : u = <<i, n>>
    BY <1>1
  <2>2. PICK k \in K : i \in part[k]
    BY DEF Splits
  <2>3. part[k] \in SUBSET (Reservation \union PaymentId)
    BY <1>4
  <2> QED BY <1>1, <2>1, <2>2, <2>3
<1>7. ASSUME NEW j \in K, NEW k \in K, NEW u \in unitsOf[j], u \in unitsOf[k]
      PROVE  j = k
  <2>1. /\ part[j] \in SUBSET (Reservation \union PaymentId)
        /\ part[k] \in SUBSET (Reservation \union PaymentId)
    BY <1>4
  <2>2. PICK i \in part[j], n \in Nat : u = <<i, n>>
    BY <1>1, <1>7, <2>1
  <2>3. PICK h \in part[k], l \in Nat : u = <<h, l>>
    BY <1>1, <1>7, <2>1
  <2>4. i = h
    BY <2>2, <2>3
  <2> QED BY <2>4 DEF Splits
<1>8. Splits(unitsOf, K, units(X))
  <2> HIDE DEF unitsOf
  <2> QED BY <1>5, <1>6, <1>7 DEF Splits
<1>9. SumOf([k \in K |-> Cardinality(unitsOf[k])]) = Cardinality(units(X))
  <2> HIDE DEF unitsOf
  <2> QED BY <1>3, <1>8, WholeCount
<1>10. /\ Cardinality(units(X)) = Total(X)
       /\ \A k \in K : Cardinality(unitsOf[k]) = Total(part[k])
  BY DEF units, Total, SumOf
<1>11. [k \in K |-> Cardinality(unitsOf[k])] = [k \in K |-> Total(part[k])]
  BY <1>10
<1> QED BY <1>9, <1>10, <1>11

----------------------------------------------------------------------------
(* Periods *)

LEMMA KstDayBounds ==
    ASSUME NEW t \in Nat
    PROVE  /\ KstDay(t) \in Nat
           /\ KstDay(t) * DAY <= t + KST_OFFSET
           /\ t + KST_OFFSET < (KstDay(t) + 1) * DAY
BY ReportsAssumption DEF KstDay

LEMMA DaysApart ==
    ASSUME NEW a \in Int, NEW b \in Int, a < b
    PROVE  (a + 1) * DAY <= b * DAY
BY ReportsAssumption

\* An instant of a period is on one of its days.
LEMMA DayOfPeriod ==
    ASSUME NEW t \in Nat, NEW from \in Nat, NEW to \in Nat,
           InRange(t, from, to)
    PROVE  KstDay(t) \in from..to
<1>1. PICK d \in Nat : /\ d = KstDay(t)
                       /\ d * DAY <= t + KST_OFFSET
                       /\ t + KST_OFFSET < (d + 1) * DAY
  BY KstDayBounds
<1>2. /\ from * DAY <= t + KST_OFFSET
      /\ t + KST_OFFSET < (to + 1) * DAY
      /\ \A n \in Nat : n * DAY \in Nat
      /\ KST_OFFSET \in Nat
  BY ReportsAssumption DEF InRange
<1>3. ~(d < from)
  <2> SUFFICES ASSUME d < from PROVE FALSE
    OBVIOUS
  <2>1. (d + 1) * DAY <= from * DAY
    BY DaysApart
  <2> QED BY <1>1, <1>2, <2>1
<1>4. ~(to < d)
  <2> SUFFICES ASSUME to < d PROVE FALSE
    OBVIOUS
  <2>1. (to + 1) * DAY <= d * DAY
    BY DaysApart
  <2> QED BY <1>1, <1>2, <2>1
<1> QED BY <1>1, <1>3, <1>4

LEMMA DaysAreNat == Days \in SUBSET Nat
BY DEF Days

\* So it is in one of the buckets of the period.
LEMMA KeyOfPeriod ==
    ASSUME NEW t \in Nat, NEW from \in Days, NEW to \in Days,
           NEW granularity, InRange(t, from, to)
    PROVE  toBucketKey(t, granularity) \in buildBucketKeys(from, to, granularity)
BY DaysAreNat, DayOfPeriod DEF toBucketKey, buildBucketKeys

LEMMA KeysFinite ==
    ASSUME NEW from \in Days, NEW to \in Days, NEW granularity
    PROVE  IsFiniteSet(buildBucketKeys(from, to, granularity))
<1> DEFINE keyOf == [d \in from..to |-> toBucketKeyFromDate(d, granularity)]
<1>1. IsFiniteSet(from..to)
  BY DaysAreNat, FS_Interval
<1>2. keyOf \in Surjection(from..to, buildBucketKeys(from, to, granularity))
  BY DEF Surjection, buildBucketKeys
<1> HIDE DEF keyOf
<1> QED BY <1>1, <1>2, FS_Surjection

----------------------------------------------------------------------------
(* What is summed *)

\* The rows of a period that are paid, and those that are counted as being of
\* some statuses.
PaidRows(S, from, to) == {r \in CreatedIn(S, from, to) : rows[r].paid}

Kind(S, from, to, statuses) ==
    {r \in CreatedIn(S, from, to) :
        isRepresentative(r) /\ coalesceStatus(rows[r].status) \in statuses}

\* How many rows of the period have one of the statuses.
Count(S, from, to, statuses) == Cardinality(Kind(S, from, to, statuses))

LEMMA Members ==
    ASSUME ReportsTypeOK, NEW S, NEW from, NEW to
    PROVE  /\ CreatedIn(S, from, to) \in SUBSET Reservation
           /\ PaidIn(S, from, to) \in SUBSET PaymentId
           /\ RefundedIn(S, from, to) \in SUBSET PaymentId
           /\ IsFiniteSet(CreatedIn(S, from, to))
           /\ IsFiniteSet(PaidIn(S, from, to))
           /\ IsFiniteSet(RefundedIn(S, from, to))
           /\ \A r \in CreatedIn(S, from, to) :
                 /\ rows[r] \in ReservationRow
                 /\ rows[r].store \in S /\ rows[r].created \in Nat
                 /\ InRange(rows[r].created, from, to)
           /\ \A p \in PaidIn(S, from, to) :
                 /\ payments[p].store \in S /\ payments[p].paid \in Nat
                 /\ InRange(payments[p].paid, from, to)
           /\ \A p \in RefundedIn(S, from, to) :
                 /\ payments[p].store \in S /\ payments[p].canceled \in Nat
                 /\ InRange(payments[p].canceled, from, to)
<1>1. MaxTime \in Nat /\ IsFiniteSet(Reservation) /\ IsFiniteSet(PaymentId)
  BY ReportsAssumption
<1>2. /\ \A r \in Reservations : rows[r] \in ReservationRow
      /\ \A p \in PaymentsMade : payments[p] \in PaymentRow
  BY DEF ReportsTypeOK, Reservations, PaymentsMade
<1>3. \A row \in ReservationRow : row.created \in Nat
  BY <1>1 DEF ReservationRow
<1>4. \A row \in PaymentRow : row.paid \in Nat /\ row.canceled \in Nat
  BY <1>1 DEF PaymentRow
<1>5. /\ CreatedIn(S, from, to) \in SUBSET Reservation
      /\ PaidIn(S, from, to) \in SUBSET PaymentId
      /\ RefundedIn(S, from, to) \in SUBSET PaymentId
  BY DEF CreatedIn, PaidIn, RefundedIn, Reservations, PaymentsMade
<1>6. /\ IsFiniteSet(CreatedIn(S, from, to))
      /\ IsFiniteSet(PaidIn(S, from, to))
      /\ IsFiniteSet(RefundedIn(S, from, to))
  BY <1>1, <1>5, FS_Subset
<1>7. /\ \A r \in CreatedIn(S, from, to) :
            r \in Reservations /\ rows[r].store \in S
            /\ InRange(rows[r].created, from, to)
      /\ \A p \in PaidIn(S, from, to) :
            p \in PaymentsMade /\ payments[p].store \in S
            /\ InRange(payments[p].paid, from, to)
      /\ \A p \in RefundedIn(S, from, to) :
            p \in PaymentsMade /\ payments[p].store \in S
            /\ InRange(payments[p].canceled, from, to)
  BY DEF CreatedIn, PaidIn, RefundedIn
<1> QED BY <1>2, <1>3, <1>4, <1>5, <1>6, <1>7

----------------------------------------------------------------------------
(* Store by store *)

LEMMA OfStores ==
    ASSUME ReportsTypeOK, NEW S \in SUBSET Store,
           NEW from, NEW to, NEW statuses
    PROVE  /\ Splits([s \in S |-> PaidRows({s}, from, to)], S, PaidRows(S, from, to))
           /\ Splits([s \in S |-> PaidIn({s}, from, to)], S, PaidIn(S, from, to))
           /\ Splits([s \in S |-> RefundedIn({s}, from, to)], S,
                     RefundedIn(S, from, to))
           /\ Splits([s \in S |-> Kind({s}, from, to, statuses)], S,
                     Kind(S, from, to, statuses))
<1>1. Splits([s \in S |-> PaidRows({s}, from, to)], S, PaidRows(S, from, to))
  <2>1. \A s \in S : PaidRows({s}, from, to) =
           {r \in PaidRows(S, from, to) : rows[r].store = s}
    BY DEF PaidRows, CreatedIn
  <2>2. \A r \in PaidRows(S, from, to) : rows[r].store \in S
    BY DEF PaidRows, CreatedIn
  <2> QED BY <2>1, <2>2 DEF Splits
<1>2. Splits([s \in S |-> PaidIn({s}, from, to)], S, PaidIn(S, from, to))
  <2>1. \A s \in S : PaidIn({s}, from, to) =
           {p \in PaidIn(S, from, to) : payments[p].store = s}
    BY DEF PaidIn
  <2>2. \A p \in PaidIn(S, from, to) : payments[p].store \in S
    BY DEF PaidIn
  <2> QED BY <2>1, <2>2 DEF Splits
<1>3. Splits([s \in S |-> RefundedIn({s}, from, to)], S, RefundedIn(S, from, to))
  <2>1. \A s \in S : RefundedIn({s}, from, to) =
           {p \in RefundedIn(S, from, to) : payments[p].store = s}
    BY DEF RefundedIn
  <2>2. \A p \in RefundedIn(S, from, to) : payments[p].store \in S
    BY DEF RefundedIn
  <2> QED BY <2>1, <2>2 DEF Splits
<1>4. Splits([s \in S |-> Kind({s}, from, to, statuses)], S,
             Kind(S, from, to, statuses))
  <2>1. \A s \in S : Kind({s}, from, to, statuses) =
           {r \in Kind(S, from, to, statuses) : rows[r].store = s}
    BY DEF Kind, CreatedIn
  <2>2. \A r \in Kind(S, from, to, statuses) : rows[r].store \in S
    BY DEF Kind, CreatedIn
  <2> QED BY <2>1, <2>2 DEF Splits
<1> QED BY <1>1, <1>2, <1>3, <1>4

\* The figures of the stores add up to those of all of them.
LEMMA StoresAddUp ==
    ASSUME ReportsTypeOK, NEW S \in SUBSET Store,
           NEW from, NEW to
    PROVE  /\ SumOf([s \in S |-> Total(PaidRows({s}, from, to))])
                 = Total(PaidRows(S, from, to))
           /\ SumOf([s \in S |-> Total(PaidIn({s}, from, to))])
                 = Total(PaidIn(S, from, to))
           /\ SumOf([s \in S |-> Total(RefundedIn({s}, from, to))])
                 = Total(RefundedIn(S, from, to))
<1>1. IsFiniteSet(S)
  BY FS_Subset, ReportsAssumption
<1>2. PaidRows(S, from, to) \in SUBSET CreatedIn(S, from, to)
  BY DEF PaidRows
<1>3. /\ IsFiniteSet(PaidRows(S, from, to))
      /\ PaidRows(S, from, to) \in SUBSET (Reservation \union PaymentId)
      /\ IsFiniteSet(PaidIn(S, from, to))
      /\ PaidIn(S, from, to) \in SUBSET (Reservation \union PaymentId)
      /\ IsFiniteSet(RefundedIn(S, from, to))
      /\ RefundedIn(S, from, to) \in SUBSET (Reservation \union PaymentId)
  BY <1>2, Members, FS_Subset
<1>4. ASSUME NEW part, NEW X \in SUBSET (Reservation \union PaymentId),
             IsFiniteSet(X), Splits(part, S, X)
      PROVE  SumOf([s \in S |-> Total(part[s])]) = Total(X)
  BY <1>1, <1>4, WholeTotal
<1>5. SumOf([s \in S |-> Total(PaidRows({s}, from, to))])
         = Total(PaidRows(S, from, to))
  <2>1. PICK part : part = [s \in S |-> PaidRows({s}, from, to)]
    OBVIOUS
  <2>2. [s \in S |-> Total(part[s])] = [s \in S |-> Total(PaidRows({s}, from, to))]
    BY <2>1
  <2>3. Splits(part, S, PaidRows(S, from, to))
    BY <2>1, OfStores
  <2> QED BY <1>3, <1>4, <2>2, <2>3
<1>6. SumOf([s \in S |-> Total(PaidIn({s}, from, to))])
         = Total(PaidIn(S, from, to))
  <2>1. PICK part : part = [s \in S |-> PaidIn({s}, from, to)]
    OBVIOUS
  <2>2. [s \in S |-> Total(part[s])] = [s \in S |-> Total(PaidIn({s}, from, to))]
    BY <2>1
  <2>3. Splits(part, S, PaidIn(S, from, to))
    BY <2>1, OfStores
  <2> QED BY <1>3, <1>4, <2>2, <2>3
<1>7. SumOf([s \in S |-> Total(RefundedIn({s}, from, to))])
         = Total(RefundedIn(S, from, to))
  <2>1. PICK part : part = [s \in S |-> RefundedIn({s}, from, to)]
    OBVIOUS
  <2>2. [s \in S |-> Total(part[s])] = [s \in S |-> Total(RefundedIn({s}, from, to))]
    BY <2>1
  <2>3. Splits(part, S, RefundedIn(S, from, to))
    BY <2>1, OfStores
  <2> QED BY <1>3, <1>4, <2>2, <2>3
<1> QED BY <1>5, <1>6, <1>7

LEMMA StoresCountUp ==
    ASSUME ReportsTypeOK, NEW S \in SUBSET Store,
           NEW from, NEW to, NEW statuses
    PROVE  SumOf([s \in S |-> Count({s}, from, to, statuses)])
              = Count(S, from, to, statuses)
<1>1. IsFiniteSet(S)
  BY FS_Subset, ReportsAssumption
<1>2. IsFiniteSet(Kind(S, from, to, statuses))
  <2>1. Kind(S, from, to, statuses) \in SUBSET CreatedIn(S, from, to)
    BY DEF Kind
  <2> QED BY <2>1, Members, FS_Subset
<1>3. PICK part : part = [s \in S |-> Kind({s}, from, to, statuses)]
  OBVIOUS
<1>4. [s \in S |-> Cardinality(part[s])] = [s \in S |-> Count({s}, from, to, statuses)]
  BY <1>3 DEF Count
<1>5. Splits(part, S, Kind(S, from, to, statuses))
  BY <1>3, OfStores
<1>6. SumOf([s \in S |-> Cardinality(part[s])]) = Cardinality(Kind(S, from, to, statuses))
  BY <1>1, <1>2, <1>5, WholeCount
<1> QED BY <1>4, <1>6 DEF Count

----------------------------------------------------------------------------
(* Bucket by bucket *)

\* Each member of X is in the bucket of an instant of the period.
LEMMA Keyed ==
    ASSUME NEW from \in Days, NEW to \in Days, NEW granularity,
           NEW X, NEW at \in [X -> Nat], \A x \in X : InRange(at[x], from, to),
           NEW keys, keys = buildBucketKeys(from, to, granularity),
           NEW part \in [keys -> SUBSET X],
           \A k \in keys : \A x \in X :
              x \in part[k] <=> toBucketKey(at[x], granularity) = k
    PROVE  Splits(part, keys, X)
<1>1. \A x \in X : toBucketKey(at[x], granularity) \in keys
  BY KeyOfPeriod
<1> QED BY <1>1 DEF Splits

\* The rows and payments of a bucket.
CreatedAt(X, granularity, k) ==
    {r \in X : toBucketKey(rows[r].created, granularity) = k}

PaidAt(X, granularity, k) ==
    {p \in X : toBucketKey(payments[p].paid, granularity) = k}

RefundedAt(X, granularity, k) ==
    {p \in X : toBucketKey(payments[p].canceled, granularity) = k}

CountAt(S, from, to, statuses, granularity, k) ==
    Cardinality(CreatedAt(Kind(S, from, to, statuses), granularity, k))

\* The figures of the buckets add up to those of the period.
LEMMA BucketsAddUp ==
    ASSUME ReportsTypeOK, NEW S \in SUBSET Store,
           NEW from \in Days, NEW to \in Days, NEW granularity
    PROVE  /\ SumOf([k \in buildBucketKeys(from, to, granularity) |->
                 Total(CreatedAt(PaidRows(S, from, to), granularity, k))])
                 = Total(PaidRows(S, from, to))
           /\ SumOf([k \in buildBucketKeys(from, to, granularity) |->
                 Total(PaidAt(PaidIn(S, from, to), granularity, k))])
                 = Total(PaidIn(S, from, to))
           /\ SumOf([k \in buildBucketKeys(from, to, granularity) |->
                 Total(RefundedAt(RefundedIn(S, from, to), granularity, k))])
                 = Total(RefundedIn(S, from, to))
<1>0. PICK keys : keys = buildBucketKeys(from, to, granularity)
  OBVIOUS
<1>1. SumOf([k \in keys |->
         Total(CreatedAt(PaidRows(S, from, to), granularity, k))])
         = Total(PaidRows(S, from, to))
  <2>1. PICK X : X = PaidRows(S, from, to)
    OBVIOUS
  <2>2. X \in SUBSET CreatedIn(S, from, to)
    BY <2>1 DEF PaidRows
  <2>3. /\ X \in SUBSET (Reservation \union PaymentId) /\ IsFiniteSet(X)
        /\ \A r \in X : rows[r].created \in Nat /\ InRange(rows[r].created, from, to)
    BY <2>2, Members, FS_Subset
  <2>4. PICK at \in [X -> Nat] : \A r \in X : at[r] = rows[r].created
    <3>1. [r \in X |-> rows[r].created] \in [X -> Nat]
      BY <2>3
    <3> QED BY <3>1
  <2>5. PICK part : part = [k \in keys |->
                          {x \in X : toBucketKey(at[x], granularity) = k}]
    OBVIOUS
  <2>6. SumOf([k \in keys |-> Total(part[k])]) = Total(X)
    <3>1. \A x \in X : InRange(at[x], from, to)
      BY <2>3, <2>4
    <3>2. Splits(part, keys, X)
      BY <2>5, <3>1, <1>0, Keyed
    <3> QED BY <2>3, <3>2, <1>0, KeysFinite, WholeTotal
  <2>7. \A k \in keys : part[k]
           = CreatedAt(X, granularity, k)
    BY <2>4, <2>5 DEF CreatedAt
  <2>8. [k \in keys |-> Total(part[k])] = [k \in keys |->
           Total(CreatedAt(X, granularity, k))]
    BY <2>7
  <2> QED BY <2>1, <2>6, <2>8
<1>2. SumOf([k \in keys |->
         Total(PaidAt(PaidIn(S, from, to), granularity, k))])
         = Total(PaidIn(S, from, to))
  <2>1. PICK X : X = PaidIn(S, from, to)
    OBVIOUS
  <2>2. /\ X \in SUBSET (Reservation \union PaymentId) /\ IsFiniteSet(X)
        /\ \A p \in X : payments[p].paid \in Nat /\ InRange(payments[p].paid, from, to)
    BY <2>1, Members
  <2>3. PICK at \in [X -> Nat] : \A p \in X : at[p] = payments[p].paid
    <3>1. [p \in X |-> payments[p].paid] \in [X -> Nat]
      BY <2>2
    <3> QED BY <3>1
  <2>4. PICK part : part = [k \in keys |->
                          {x \in X : toBucketKey(at[x], granularity) = k}]
    OBVIOUS
  <2>5. SumOf([k \in keys |-> Total(part[k])]) = Total(X)
    <3>1. \A x \in X : InRange(at[x], from, to)
      BY <2>2, <2>3
    <3>2. Splits(part, keys, X)
      BY <2>4, <3>1, <1>0, Keyed
    <3> QED BY <2>2, <3>2, <1>0, KeysFinite, WholeTotal
  <2>6. \A k \in keys : part[k]
           = PaidAt(X, granularity, k)
    BY <2>3, <2>4 DEF PaidAt
  <2>7. [k \in keys |-> Total(part[k])] = [k \in keys |->
           Total(PaidAt(X, granularity, k))]
    BY <2>6
  <2> QED BY <2>1, <2>5, <2>7
<1>3. SumOf([k \in keys |->
         Total(RefundedAt(RefundedIn(S, from, to), granularity, k))])
         = Total(RefundedIn(S, from, to))
  <2>1. PICK X : X = RefundedIn(S, from, to)
    OBVIOUS
  <2>2. /\ X \in SUBSET (Reservation \union PaymentId) /\ IsFiniteSet(X)
        /\ \A p \in X : /\ payments[p].canceled \in Nat
                        /\ InRange(payments[p].canceled, from, to)
    BY <2>1, Members
  <2>3. PICK at \in [X -> Nat] : \A p \in X : at[p] = payments[p].canceled
    <3>1. [p \in X |-> payments[p].canceled] \in [X -> Nat]
      BY <2>2
    <3> QED BY <3>1
  <2>4. PICK part : part = [k \in keys |->
                          {x \in X : toBucketKey(at[x], granularity) = k}]
    OBVIOUS
  <2>5. SumOf([k \in keys |-> Total(part[k])]) = Total(X)
    <3>1. \A x \in X : InRange(at[x], from, to)
      BY <2>2, <2>3
    <3>2. Splits(part, keys, X)
      BY <2>4, <3>1, <1>0, Keyed
    <3> QED BY <2>2, <3>2, <1>0, KeysFinite, WholeTotal
  <2>6. \A k \in keys : part[k]
           = RefundedAt(X, granularity, k)
    BY <2>3, <2>4 DEF RefundedAt
  <2>7. [k \in keys |-> Total(part[k])] = [k \in keys |->
           Total(RefundedAt(X, granularity, k))]
    BY <2>6
  <2> QED BY <2>1, <2>5, <2>7
<1> QED BY <1>0, <1>1, <1>2, <1>3

LEMMA BucketsCountUp ==
    ASSUME ReportsTypeOK, NEW S \in SUBSET Store,
           NEW from \in Days, NEW to \in Days, NEW granularity, NEW statuses
    PROVE  SumOf([k \in buildBucketKeys(from, to, granularity) |->
                    CountAt(S, from, to, statuses, granularity, k)])
              = Count(S, from, to, statuses)
<1>0. PICK keys : keys = buildBucketKeys(from, to, granularity)
  OBVIOUS
<1>1. PICK X : X = Kind(S, from, to, statuses)
  OBVIOUS
<1>2. X \in SUBSET CreatedIn(S, from, to)
  BY <1>1 DEF Kind, CreatedAt
<1>3. /\ X \in SUBSET (Reservation \union PaymentId) /\ IsFiniteSet(X)
      /\ \A r \in X : rows[r].created \in Nat /\ InRange(rows[r].created, from, to)
  BY <1>2, Members, FS_Subset
<1>4. PICK at \in [X -> Nat] : \A r \in X : at[r] = rows[r].created
  <2>1. [r \in X |-> rows[r].created] \in [X -> Nat]
    BY <1>3
  <2> QED BY <2>1
<1>5. PICK part : part = [k \in keys |->
                        {x \in X : toBucketKey(at[x], granularity) = k}]
  OBVIOUS
<1>6. SumOf([k \in keys |-> Cardinality(part[k])]) = Cardinality(X)
  <2>1. \A x \in X : InRange(at[x], from, to)
    BY <1>3, <1>4
  <2>2. Splits(part, keys, X)
    BY <1>5, <2>1, <1>0, Keyed
  <2> QED BY <1>3, <2>2, <1>0, KeysFinite, WholeCount
<1>7. \A k \in keys : part[k]
         = CreatedAt(X, granularity, k)
  BY <1>4, <1>5 DEF CreatedAt
<1>8. [k \in keys |-> Cardinality(part[k])] = [k \in keys |->
         CountAt(S, from, to, statuses, granularity, k)]
  BY <1>1, <1>7 DEF CountAt
<1> QED BY <1>0, <1>1, <1>6, <1>8 DEF Count

----------------------------------------------------------------------------
(* Counts by status *)

Pending == {"pending", "pending_approval"}
Ongoing == {"confirmed", "in_progress"}

LEMMA CountIsNat ==
    ASSUME ReportsTypeOK, NEW S, NEW from, NEW to, NEW statuses
    PROVE  IsFiniteSet(Kind(S, from, to, statuses))
           /\ Count(S, from, to, statuses) \in Nat
<1>1. Kind(S, from, to, statuses) \in SUBSET CreatedIn(S, from, to)
  BY DEF Kind
<1>2. IsFiniteSet(Kind(S, from, to, statuses))
  BY <1>1, Members, FS_Subset
<1> QED BY <1>2, FS_CardinalityType DEF Count

LEMMA TwoCounts ==
    ASSUME ReportsTypeOK, NEW S, NEW from, NEW to,
           NEW these, NEW those, these \intersect those = {}
    PROVE  Count(S, from, to, these \union those)
              = Count(S, from, to, these) + Count(S, from, to, those)
<1> DEFINE a == Kind(S, from, to, these)
           b == Kind(S, from, to, those)
<1>1. Kind(S, from, to, these \union those) = a \union b
  BY DEF Kind
<1>2. a \intersect b = {}
  BY DEF Kind
<1>3. /\ IsFiniteSet(a) /\ Cardinality(a) \in Nat
      /\ IsFiniteSet(b) /\ Cardinality(b) \in Nat
  BY CountIsNat DEF Count
<1> HIDE DEF a, b
<1>4. Cardinality(a \union b) = Cardinality(a) + Cardinality(b)
  BY <1>2, <1>3, FS_Union, FS_EmptySet
<1> QED BY <1>1, <1>4 DEF Count, a, b

\* The six counts of the summaries are of all statuses, none twice.
LEMMA SixCounts ==
    ASSUME ReportsTypeOK, NEW S, NEW from, NEW to
    PROVE  Count(S, from, to, Status) =
              Count(S, from, to, Pending) + Count(S, from, to, Ongoing)
              + Count(S, from, to, {"completed"}) + Count(S, from, to, {"cancelled"})
              + Count(S, from, to, {"rejected"}) + Count(S, from, to, {"no_show"})
<1> DEFINE two == Pending \union Ongoing
           three == two \union {"completed"}
           four == three \union {"cancelled"}
           five == four \union {"rejected"}
           n(statuses) == Count(S, from, to, statuses)
<1>1. /\ Pending \intersect Ongoing = {} /\ two \intersect {"completed"} = {}
      /\ three \intersect {"cancelled"} = {} /\ four \intersect {"rejected"} = {}
      /\ five \intersect {"no_show"} = {}
      /\ Status = five \union {"no_show"}
  BY DEF Pending, Ongoing, Status
<1>2. \A statuses : n(statuses) \in Nat
  BY CountIsNat
<1>3. n(two) = n(Pending) + n(Ongoing)
  BY <1>1, TwoCounts
<1> HIDE DEF two
<1>4. n(three) = n(two) + n({"completed"})
  BY <1>1, TwoCounts
<1> HIDE DEF three
<1>5. n(four) = n(three) + n({"cancelled"})
  BY <1>1, TwoCounts
<1> HIDE DEF four
<1>6. n(five) = n(four) + n({"rejected"})
  BY <1>1, TwoCounts
<1> HIDE DEF five
<1>7. n(Status) = n(five) + n({"no_show"})
  BY <1>1, TwoCounts
<1> HIDE DEF n
<1> QED BY <1>2, <1>3, <1>4, <1>5, <1>6, <1>7 DEF n

----------------------------------------------------------------------------
(* The two ways to the figures *)

LEMMA ByStore ==
    ASSUME ReportsTypeOK, NEW S \in SUBSET Store,
           NEW from, NEW to, NEW m, m = sumMetricsInputs(S, from, to)
    PROVE  /\ m["reservationRevenue"] = Total(PaidRows(S, from, to))
           /\ m["paymentRevenue"] = Total(PaidIn(S, from, to))
           /\ m["refundedAmount"] = Total(RefundedIn(S, from, to))
           /\ m["pendingCount"] = Count(S, from, to, Pending)
           /\ m["activeCount"] = Count(S, from, to, Ongoing)
           /\ m["completedCount"] = Count(S, from, to, {"completed"})
           /\ m["cancelledCount"] = Count(S, from, to, {"cancelled"})
           /\ m["rejectedCount"] = Count(S, from, to, {"rejected"})
           /\ m["noShowCount"] = Count(S, from, to, {"no_show"})
<1> DEFINE metrics == [s \in S |-> Metrics(s, from, to)]
<1>1. ASSUME NEW f \in Figure
      PROVE  m[f] = SumOf([s \in S |-> metrics[s][f]])
  BY Zenon DEF sumMetricsInputs
<1>2. ASSUME NEW s \in S
      PROVE  /\ metrics[s]["reservationRevenue"] = Total(PaidRows({s}, from, to))
             /\ metrics[s]["paymentRevenue"] = Total(PaidIn({s}, from, to))
             /\ metrics[s]["refundedAmount"] = Total(RefundedIn({s}, from, to))
             /\ metrics[s]["pendingCount"] = Count({s}, from, to, Pending)
             /\ metrics[s]["activeCount"] = Count({s}, from, to, Ongoing)
             /\ metrics[s]["completedCount"]
                   = Count({s}, from, to, {"completed"})
             /\ metrics[s]["cancelledCount"]
                   = Count({s}, from, to, {"cancelled"})
             /\ metrics[s]["rejectedCount"]
                   = Count({s}, from, to, {"rejected"})
             /\ metrics[s]["noShowCount"]
                   = Count({s}, from, to, {"no_show"})
  BY DEF Metrics, PaidRows, Counted, Count, Kind, Pending, Ongoing
<1> HIDE DEF metrics
<1>3. m["reservationRevenue"] = Total(PaidRows(S, from, to))
  <2>1. [s \in S |-> metrics[s]["reservationRevenue"]]
           = [s \in S |-> Total(PaidRows({s}, from, to))]
    BY <1>2
  <2>2. SumOf([s \in S |-> Total(PaidRows({s}, from, to))]) = Total(PaidRows(S, from, to))
    BY StoresAddUp, Zenon
  <2>3. m["reservationRevenue"] = SumOf([s \in S |-> metrics[s]["reservationRevenue"]])
    BY <1>1, Zenon DEF Figure
  <2> QED BY <2>1, <2>2, <2>3
<1>4. m["paymentRevenue"] = Total(PaidIn(S, from, to))
  <2>1. [s \in S |-> metrics[s]["paymentRevenue"]]
           = [s \in S |-> Total(PaidIn({s}, from, to))]
    BY <1>2
  <2>2. SumOf([s \in S |-> Total(PaidIn({s}, from, to))]) = Total(PaidIn(S, from, to))
    BY StoresAddUp, Zenon
  <2>3. m["paymentRevenue"] = SumOf([s \in S |-> metrics[s]["paymentRevenue"]])
    BY <1>1, Zenon DEF Figure
  <2> QED BY <2>1, <2>2, <2>3
<1>5. m["refundedAmount"] = Total(RefundedIn(S, from, to))
  <2>1. [s \in S |-> metrics[s]["refundedAmount"]]
           = [s \in S |-> Total(RefundedIn({s}, from, to))]
    BY <1>2
  <2>2. SumOf([s \in S |-> Total(RefundedIn({s}, from, to))]) = Total(RefundedIn(S, from, to))
    BY StoresAddUp, Zenon
  <2>3. m["refundedAmount"] = SumOf([s \in S |-> metrics[s]["refundedAmount"]])
    BY <1>1, Zenon DEF Figure
  <2> QED BY <2>1, <2>2, <2>3
<1>6. ASSUME NEW f \in Figure, NEW statuses,
             \A s \in S : metrics[s][f] = Count({s}, from, to, statuses)
      PROVE  m[f] = Count(S, from, to, statuses)
  <2>1. [s \in S |-> metrics[s][f]]
           = [s \in S |-> Count({s}, from, to, statuses)]
    BY <1>6
  <2>2. SumOf([s \in S |-> Count({s}, from, to, statuses)])
           = Count(S, from, to, statuses)
    BY StoresCountUp, Zenon
  <2>3. m[f] = SumOf([s \in S |-> metrics[s][f]])
    BY <1>1, Zenon
  <2> QED BY <2>1, <2>2, <2>3
<1> QED BY <1>2, <1>3, <1>4, <1>5, <1>6 DEF Figure

\* What a bucket of a series says.
LEMMA BucketFigures ==
    ASSUME ReportsTypeOK, NEW S, NEW from, NEW to, NEW granularity, NEW k,
           NEW figures, figures = Bucket(S, from, to, granularity, k)
    PROVE  /\ figures["reservationRevenue"]
                 = Total(CreatedAt(PaidRows(S, from, to), granularity, k))
           /\ figures["paymentRevenue"]
                 = Total(PaidAt(PaidIn(S, from, to), granularity, k))
           /\ figures["refundedAmount"]
                 = Total(RefundedAt(RefundedIn(S, from, to), granularity, k))
           /\ figures["reservationCount"]
                 = CountAt(S, from, to, Status, granularity, k)
           /\ figures["completedCount"]
                 = CountAt(S, from, to, {"completed"}, granularity, k)
           /\ figures["cancelledCount"]
                 = CountAt(S, from, to, {"cancelled"}, granularity, k)
           /\ figures["rejectedCount"]
                 = CountAt(S, from, to, {"rejected"}, granularity, k)
           /\ figures["noShowCount"]
                 = CountAt(S, from, to, {"no_show"}, granularity, k)
<1> DEFINE created == CreatedAt(CreatedIn(S, from, to), granularity, k)
           counted == {r \in created : isRepresentative(r)}
           are(one) == {r \in counted : coalesceStatus(rows[r].status) = one}
           paidRows == Total({r \in created : rows[r].paid})
           paid == Total(PaidAt(PaidIn(S, from, to), granularity, k))
           refunded == Total(RefundedAt(RefundedIn(S, from, to), granularity, k))
           all == Cardinality(counted)
           n(one) == Cardinality(are(one))
<1>1. figures = [reservationRevenue |-> paidRows, paymentRevenue |-> paid,
                 refundedAmount |-> refunded, reservationCount |-> all,
                 completedCount |-> n("completed"), cancelledCount |-> n("cancelled"),
                 rejectedCount |-> n("rejected"), noShowCount |-> n("no_show")]
  BY Zenon DEF Bucket, CreatedAt, PaidAt, RefundedAt
<1>2. CreatedAt(PaidRows(S, from, to), granularity, k) = {r \in created : rows[r].paid}
  BY DEF PaidRows, CreatedAt
<1>3. CreatedAt(Kind(S, from, to, Status), granularity, k) = counted
  <2>1. \A r \in CreatedIn(S, from, to) : coalesceStatus(rows[r].status) \in Status
    BY DEF CreatedIn, Reservations, ReportsTypeOK, ReservationRow, coalesceStatus, Status
  <2> QED BY <2>1 DEF Kind, CreatedAt
<1>4. ASSUME NEW one
      PROVE  CreatedAt(Kind(S, from, to, {one}), granularity, k) = are(one)
  BY DEF Kind, CreatedAt
<1> HIDE DEF are, counted, created
<1>5. /\ CountAt(S, from, to, Status, granularity, k) = all
      /\ \A one : CountAt(S, from, to, {one}, granularity, k) = n(one)
  BY <1>3, <1>4 DEF CountAt
<1>6. Total(CreatedAt(PaidRows(S, from, to), granularity, k)) = paidRows
  BY <1>2
<1> HIDE DEF paidRows, paid, refunded, all, n
<1>7. /\ figures["reservationRevenue"] = paidRows
      /\ figures["paymentRevenue"] = paid
      /\ figures["refundedAmount"] = refunded
      /\ figures["reservationCount"] = all
      /\ figures["completedCount"] = n("completed")
      /\ figures["cancelledCount"] = n("cancelled")
      /\ figures["rejectedCount"] = n("rejected")
      /\ figures["noShowCount"] = n("no_show")
  BY <1>1
<1> QED BY <1>5, <1>6, <1>7 DEF paid, refunded

\* The sum of a figure over the buckets of a series.
Over(series, f) == SumOf([k \in DOMAIN series |-> series[k][f]])

LEMMA ByBucket ==
    ASSUME ReportsTypeOK, NEW S \in SUBSET Store,
           NEW from \in Days, NEW to \in Days, NEW granularity,
           NEW series, series = buildTimeseries(S, from, to, granularity)
    PROVE  /\ Over(series, "reservationRevenue") = Total(PaidRows(S, from, to))
           /\ Over(series, "paymentRevenue") = Total(PaidIn(S, from, to))
           /\ Over(series, "refundedAmount") = Total(RefundedIn(S, from, to))
           /\ Over(series, "reservationCount") = Count(S, from, to, Status)
           /\ Over(series, "completedCount") = Count(S, from, to, {"completed"})
           /\ Over(series, "cancelledCount") = Count(S, from, to, {"cancelled"})
           /\ Over(series, "rejectedCount") = Count(S, from, to, {"rejected"})
           /\ Over(series, "noShowCount") = Count(S, from, to, {"no_show"})
<1> DEFINE In(statuses, k) == CountAt(S, from, to, statuses, granularity, k)
           keys == buildBucketKeys(from, to, granularity)
<1>2. /\ DOMAIN series = keys
      /\ \A k \in keys : series[k] = Bucket(S, from, to, granularity, k)
  BY DEF buildTimeseries
<1>3. ASSUME NEW k \in keys
      PROVE  /\ series[k]["reservationRevenue"]
                   = Total(CreatedAt(PaidRows(S, from, to), granularity, k))
             /\ series[k]["paymentRevenue"]
                   = Total(PaidAt(PaidIn(S, from, to), granularity, k))
             /\ series[k]["refundedAmount"]
                   = Total(RefundedAt(RefundedIn(S, from, to), granularity, k))
             /\ series[k]["reservationCount"] = In(Status, k)
             /\ series[k]["completedCount"] = In({"completed"}, k)
             /\ series[k]["cancelledCount"] = In({"cancelled"}, k)
             /\ series[k]["rejectedCount"] = In({"rejected"}, k)
             /\ series[k]["noShowCount"] = In({"no_show"}, k)
  BY <1>2, BucketFigures
<1>5. Over(series, "reservationRevenue") = Total(PaidRows(S, from, to))
  <2>1. [k \in DOMAIN series |-> series[k]["reservationRevenue"]]
           = [k \in keys |-> Total(CreatedAt(PaidRows(S, from, to), granularity, k))]
    BY <1>2, <1>3
  <2>2. SumOf([k \in keys |-> Total(CreatedAt(PaidRows(S, from, to), granularity, k))])
           = Total(PaidRows(S, from, to))
    BY BucketsAddUp, Zenon
  <2> QED BY <2>1, <2>2 DEF Over
<1>6. Over(series, "paymentRevenue") = Total(PaidIn(S, from, to))
  <2>1. [k \in DOMAIN series |-> series[k]["paymentRevenue"]]
           = [k \in keys |-> Total(PaidAt(PaidIn(S, from, to), granularity, k))]
    BY <1>2, <1>3
  <2>2. SumOf([k \in keys |-> Total(PaidAt(PaidIn(S, from, to), granularity, k))])
           = Total(PaidIn(S, from, to))
    BY BucketsAddUp, Zenon
  <2> QED BY <2>1, <2>2 DEF Over
<1>7. Over(series, "refundedAmount") = Total(RefundedIn(S, from, to))
  <2>1. [k \in DOMAIN series |-> series[k]["refundedAmount"]]
           = [k \in keys |-> Total(RefundedAt(RefundedIn(S, from, to), granularity, k))]
    BY <1>2, <1>3
  <2>2. SumOf([k \in keys |-> Total(RefundedAt(RefundedIn(S, from, to), granularity, k))])
           = Total(RefundedIn(S, from, to))
    BY BucketsAddUp, Zenon
  <2> QED BY <2>1, <2>2 DEF Over
<1>8. ASSUME NEW f, NEW statuses,
             \A k \in keys : series[k][f] = In(statuses, k)
      PROVE  Over(series, f) = Count(S, from, to, statuses)
  <2>1. [k \in DOMAIN series |-> series[k][f]]
           = [k \in keys |-> CountAt(S, from, to, statuses, granularity, k)]
    BY <1>2, <1>8
  <2>2. SumOf([k \in buildBucketKeys(from, to, granularity) |->
                 CountAt(S, from, to, statuses, granularity, k)])
           = Count(S, from, to, statuses)
    BY BucketsCountUp
  <2> QED BY <2>1, <2>2 DEF Over
<1> HIDE DEF In
<1>9. /\ Over(series, "reservationCount") = Count(S, from, to, Status)
      /\ Over(series, "completedCount") = Count(S, from, to, {"completed"})
      /\ Over(series, "cancelledCount") = Count(S, from, to, {"cancelled"})
      /\ Over(series, "rejectedCount") = Count(S, from, to, {"rejected"})
      /\ Over(series, "noShowCount") = Count(S, from, to, {"no_show"})
  BY <1>3, <1>8
<1> QED BY <1>5, <1>6, <1>7, <1>9

----------------------------------------------------------------------------
(* The reports *)

\* The last report is what its endpoint computes from the rows as they stand.
AnswerIsCurrent ==
    answer # NoAnswer =>
        /\ answer.endpoint = "series" =>
              /\ answer.stores \in SUBSET Store
              /\ answer.from \in Days /\ answer.to \in Days
              /\ answer.body = buildTimeseries(answer.stores, answer.from, answer.to,
                                               answer.granularity)
        /\ answer.endpoint = "stats" => \E s \in Store :
              /\ answer.stores = {s}
              /\ answer.body = DashboardRevenue(s, answer.from, answer.to)
        /\ answer.endpoint = "list" /\ closed = {} =>
              /\ answer.stores \in SUBSET Store
              /\ answer.body =
                    [totals |-> sumMetricsInputs(answer.stores, answer.from, answer.to),
                     locales |-> Counted(answer.stores, answer.from, answer.to, Status)]

ReportsInv == ReportsTypeOK /\ AnswerIsCurrent

LEMMA ReportsStart == ReportsInit => ReportsInv
BY ReportsAssumption DEF ReportsInit, ReportsInv, ReportsTypeOK, AnswerIsCurrent

\* What happens to the rows keeps their types and drops the report.
LEMMA RowsStep ==
    ASSUME ReportsTypeOK,
           \/ InstantPasses
           \/ \E s \in Store, r \in Reservation, g \in Reservation \union {NoRow},
                 arrival \in Arrivals : Reserve(r, s, g, arrival[1], arrival[2])
           \/ \E s \in Store, p \in PaymentId : Pay(p, s)
           \/ \E s \in Store : CloseStore(s)
           \/ \E r \in Reservation : MarkPaid(r)
           \/ \E r \in Reservation, to \in {"confirmed", "no_show"} : ChangeStatus(r, to)
           \/ \E p \in PaymentId, status \in PAYMENT_REFUND_STATUSES : Refund(p, status)
    PROVE  ReportsInv'
<1>1. ReportsTypeOK'
  <2>1. CASE InstantPasses
    BY <2>1, ReportsAssumption DEF ReportsTypeOK, InstantPasses
  <2>2. ASSUME NEW s \in Store, NEW r \in Reservation,
               NEW g \in Reservation \union {NoRow}, NEW arrival \in Arrivals,
               Reserve(r, s, g, arrival[1], arrival[2])
        PROVE  ReportsTypeOK'
    <3>1. /\ arrival[1] \in Status \union {"none"} /\ arrival[2] \in BOOLEAN
      <4>1. CASE arrival = <<"pending", FALSE>>
        BY <4>1 DEF Status
      <4>2. CASE arrival = <<"pending", TRUE>>
        BY <4>2 DEF Status
      <4>3. CASE arrival = <<"none", FALSE>>
        BY <4>3
      <4> QED BY <4>1, <4>2, <4>3 DEF Arrivals
    <3>2. [store |-> s, group |-> g, created |-> instant, status |-> arrival[1],
           paid |-> arrival[2]] \in ReservationRow
      BY <3>1 DEF ReportsTypeOK, ReservationRow
    <3> QED BY <2>2, <3>2, ReportsAssumption DEF ReportsTypeOK, Reserve, Happens
  <2>3. ASSUME NEW s \in Store, NEW p \in PaymentId, Pay(p, s)
        PROVE  ReportsTypeOK'
    <3>1. [store |-> s, status |-> "SUCCESS", paid |-> instant,
           canceled |-> NotCanceled] \in PaymentRow
      BY ReportsAssumption DEF ReportsTypeOK, PaymentRow, NotCanceled
    <3> QED BY <2>3, <3>1, ReportsAssumption DEF ReportsTypeOK, Pay, Happens
  <2>4. ASSUME NEW s \in Store, CloseStore(s)
        PROVE  ReportsTypeOK'
    BY <2>4, ReportsAssumption DEF ReportsTypeOK, CloseStore, Happens
  <2>5. ASSUME NEW r \in Reservation, MarkPaid(r)
        PROVE  ReportsTypeOK'
    <3>1. rows[r] \in ReservationRow
      BY <2>5 DEF ReportsTypeOK, MarkPaid
    <3>2. [rows[r] EXCEPT !.paid = TRUE] \in ReservationRow
      BY <3>1 DEF ReservationRow
    <3> QED BY <2>5, <3>2, ReportsAssumption DEF ReportsTypeOK, MarkPaid, Happens
  <2>6. ASSUME NEW r \in Reservation, NEW to \in {"confirmed", "no_show"},
               ChangeStatus(r, to)
        PROVE  ReportsTypeOK'
    <3>1. rows[r] \in ReservationRow
      BY <2>6 DEF ReportsTypeOK, ChangeStatus
    <3>2. [rows[r] EXCEPT !.status = to] \in ReservationRow
      BY <3>1 DEF ReservationRow, Status
    <3> QED BY <2>6, <3>2, ReportsAssumption DEF ReportsTypeOK, ChangeStatus, Happens
  <2>7. ASSUME NEW p \in PaymentId, NEW status \in PAYMENT_REFUND_STATUSES,
               Refund(p, status)
        PROVE  ReportsTypeOK'
    <3>1. payments[p] \in PaymentRow
      BY <2>7 DEF ReportsTypeOK, Refund
    <3>2. instant \in 0..MaxTime + 1
      BY ReportsAssumption DEF ReportsTypeOK
    <3>3. [payments[p] EXCEPT !.status = status, !.canceled = instant] \in PaymentRow
      BY <3>1, <3>2 DEF PaymentRow, PAYMENT_REFUND_STATUSES
    <3> QED BY <2>7, <3>3, ReportsAssumption DEF ReportsTypeOK, Refund, Happens
  <2> QED BY <2>1, <2>2, <2>3, <2>4, <2>5, <2>6, <2>7
<1>2. answer' = NoAnswer
  BY DEF InstantPasses, Reserve, Pay, CloseStore, MarkPaid, ChangeStatus, Refund, Happens
<1>3. AnswerIsCurrent'
  BY <1>2 DEF AnswerIsCurrent
<1> QED BY <1>1, <1>3 DEF ReportsInv

\* A report changes nothing it is about.
LEMMA SameFigures ==
    ASSUME rows' = rows, payments' = payments, NEW S, NEW from, NEW to
    PROVE  /\ sumMetricsInputs(S, from, to)' = sumMetricsInputs(S, from, to)
           /\ Counted(S, from, to, Status)' = Counted(S, from, to, Status)
           /\ \A s : DashboardRevenue(s, from, to)' = DashboardRevenue(s, from, to)
           /\ \A granularity : buildTimeseries(S, from, to, granularity)'
                                  = buildTimeseries(S, from, to, granularity)
BY DEF sumMetricsInputs, Metrics, Counted, CreatedIn, PaidIn, RefundedIn,
       Reservations, PaymentsMade, isRepresentative, DashboardRevenue,
       buildTimeseries, Bucket

LEMMA ListStep ==
    ASSUME ReportsInv, NEW from \in Days, NEW to \in Days,
           NEW filter \in SUBSET Store, listStores(from, to, filter)
    PROVE  ReportsInv'
<1>1. UNCHANGED <<rows, payments, closed, instant, events>>
  BY DEF listStores, Answer
<1>2. ReportsTypeOK'
  BY <1>1 DEF ReportsInv, ReportsTypeOK
<1>3. PICK listed \in SUBSET Store, scope \in SUBSET Store :
         /\ answer' = [endpoint |-> "list", stores |-> listed, from |-> from,
                       to |-> to, granularity |-> "day",
                       body |-> [totals |-> sumMetricsInputs(listed, from, to),
                                 locales |-> Counted(scope, from, to, Status)]]
         /\ closed = {} => listed = scope
  <2> DEFINE listed == filter \ closed
             scope == IF filter = Store THEN Store ELSE listed
  <2>1. listed \in SUBSET Store /\ scope \in SUBSET Store
    OBVIOUS
  <2>2. closed = {} => listed = scope
    OBVIOUS
  <2>3. answer' = [endpoint |-> "list", stores |-> listed, from |-> from,
                   to |-> to, granularity |-> "day",
                   body |-> [totals |-> sumMetricsInputs(listed, from, to),
                             locales |-> Counted(scope, from, to, Status)]]
    BY Zenon DEF listStores, Answer
  <2> HIDE DEF listed, scope
  <2> QED BY <2>1, <2>2, <2>3
<1>4. AnswerIsCurrent'
  <2> SUFFICES ASSUME closed' = {}
               PROVE  answer'.body =
                         [totals |-> sumMetricsInputs(listed, from, to)',
                          locales |-> Counted(listed, from, to, Status)']
    BY <1>3 DEF AnswerIsCurrent
  <2> QED BY <1>1, <1>3, SameFigures
<1> QED BY <1>2, <1>4 DEF ReportsInv

LEMMA SummaryStep ==
    ASSUME ReportsInv, NEW from, NEW to, NEW s, getStoreSummary(s, from, to)
    PROVE  ReportsInv'
<1>1. UNCHANGED <<rows, payments, closed, instant, events>>
  BY DEF getStoreSummary, Answer
<1>2. answer'.endpoint = "summary"
  BY DEF getStoreSummary, Answer
<1> QED BY <1>1, <1>2 DEF ReportsInv, ReportsTypeOK, AnswerIsCurrent

LEMMA SeriesStep ==
    ASSUME ReportsInv, NEW from \in Days, NEW to \in Days, NEW granularity,
           NEW S \in SUBSET Store,
           Answer("series", S, from, to, granularity,
                  buildTimeseries(S, from, to, granularity))
    PROVE  ReportsInv'
<1>1. UNCHANGED <<rows, payments, closed, instant, events>>
  BY DEF Answer
<1>2. answer' = [endpoint |-> "series", stores |-> S, from |-> from, to |-> to,
                 granularity |-> granularity,
                 body |-> buildTimeseries(S, from, to, granularity)]
  BY DEF Answer
<1>3. from \in Days' /\ to \in Days'
  BY DEF Days, KstDay
<1>4. buildTimeseries(S, from, to, granularity)' = buildTimeseries(S, from, to, granularity)
  BY <1>1, SameFigures
<1> QED BY <1>1, <1>2, <1>3, <1>4 DEF ReportsInv, ReportsTypeOK, AnswerIsCurrent

LEMMA StatsStep ==
    ASSUME ReportsInv, NEW from, NEW s \in Store, getStats(s, from)
    PROVE  ReportsInv'
<1>1. UNCHANGED <<rows, payments, closed, instant, events>>
  BY DEF getStats, Answer
<1>2. PICK to : answer' = [endpoint |-> "stats", stores |-> {s}, from |-> from,
                           to |-> to, granularity |-> "day",
                           body |-> DashboardRevenue(s, from, to)]
  BY DEF getStats, Answer
<1>3. DashboardRevenue(s, from, to)' = DashboardRevenue(s, from, to)
  BY <1>1, SameFigures
<1> QED BY <1>1, <1>2, <1>3 DEF ReportsInv, ReportsTypeOK, AnswerIsCurrent

LEMMA StutterStep == ASSUME ReportsInv, UNCHANGED reportVars PROVE ReportsInv'
<1>1. UNCHANGED <<rows, payments, closed, answer, instant, events>>
  BY DEF reportVars
<1>2. ReportsTypeOK'
  BY <1>1 DEF ReportsInv, ReportsTypeOK
<1>3. ASSUME answer # NoAnswer, answer.endpoint = "series"
      PROVE  /\ answer.stores \in SUBSET Store
             /\ answer.from \in Days /\ answer.to \in Days
             /\ answer.body = buildTimeseries(answer.stores, answer.from, answer.to,
                                              answer.granularity)'
  BY <1>1, <1>3, SameFigures DEF ReportsInv, AnswerIsCurrent
<1>4. ASSUME answer # NoAnswer, answer.endpoint = "stats"
      PROVE  \E s \in Store : /\ answer.stores = {s}
                              /\ answer.body = DashboardRevenue(s, answer.from, answer.to)'
  BY <1>1, <1>4, SameFigures DEF ReportsInv, AnswerIsCurrent
<1>5. ASSUME answer # NoAnswer, answer.endpoint = "list", closed = {}
      PROVE  /\ answer.stores \in SUBSET Store
             /\ answer.body =
                   [totals |-> sumMetricsInputs(answer.stores, answer.from, answer.to)',
                    locales |-> Counted(answer.stores, answer.from, answer.to, Status)']
  BY <1>1, <1>5, SameFigures DEF ReportsInv, AnswerIsCurrent
<1>6. AnswerIsCurrent'
  BY <1>1, <1>3, <1>4, <1>5 DEF AnswerIsCurrent, Days, KstDay
<1> QED BY <1>2, <1>6 DEF ReportsInv

LEMMA ReportsStep ==
    ASSUME ReportsInv, [ReportsNext]_reportVars
    PROVE  ReportsInv'
<1>1. CASE UNCHANGED reportVars
  BY <1>1, StutterStep
<1>2. ASSUME NEW from \in Days, NEW to \in Days, NEW filter \in SUBSET Store,
             listStores(from, to, filter)
      PROVE  ReportsInv'
  BY <1>2, ListStep
<1>3. ASSUME NEW from \in Days, NEW to \in Days, NEW s \in Store,
             getStoreSummary(s, from, to)
      PROVE  ReportsInv'
  BY <1>3, SummaryStep
<1>4. ASSUME NEW from \in Days, NEW to \in Days, NEW granularity \in Granularity,
             NEW S \in SUBSET Store,
             Answer("series", S, from, to, granularity,
                    buildTimeseries(S, from, to, granularity))
      PROVE  ReportsInv'
  BY <1>4, SeriesStep
<1>5. ASSUME NEW s \in Store, NEW from \in Days, getStats(s, from)
      PROVE  ReportsInv'
  BY <1>5, StatsStep
<1>6. ASSUME NEW from \in Days, NEW to \in Days, NEW granularity \in Granularity,
             \/ \E s \in Store : getStoreTimeseries(s, from, to, granularity)
             \/ getPlatformTimeseries(from, to, granularity)
      PROVE  ReportsInv'
  <2>1. \E S \in SUBSET Store :
           Answer("series", S, from, to, granularity,
                  buildTimeseries(S, from, to, granularity))
    BY <1>6, Zenon DEF getStoreTimeseries, getPlatformTimeseries
  <2> QED BY <1>4, <2>1
<1>7. ASSUME \/ InstantPasses
             \/ \E s \in Store, r \in Reservation, g \in Reservation \union {NoRow},
                   arrival \in Arrivals : Reserve(r, s, g, arrival[1], arrival[2])
             \/ \E s \in Store, p \in PaymentId : Pay(p, s)
             \/ \E s \in Store : CloseStore(s)
             \/ \E r \in Reservation : MarkPaid(r)
             \/ \E r \in Reservation, to \in {"confirmed", "no_show"} :
                   ChangeStatus(r, to)
             \/ \E p \in PaymentId, status \in PAYMENT_REFUND_STATUSES : Refund(p, status)
      PROVE  ReportsInv'
  BY <1>7, RowsStep DEF ReportsInv
<1> QED BY <1>1, <1>2, <1>3, <1>5, <1>6, <1>7 DEF ReportsNext

\* The types of the reports' state, whatever is asked and whatever happens to the
\* rows and the payments.
THEOREM ReportsTypeCorrect ==
    ReportsSpec => []ReportsTypeOK
<1>1. ReportsInit => ReportsInv
  BY ReportsStart
<1>2. ReportsInv /\ [ReportsNext]_reportVars => ReportsInv'
  BY ReportsStep
<1>3. ReportsInv => ReportsTypeOK
  BY DEF ReportsInv
<1> QED BY <1>1, <1>2, <1>3, PTL DEF ReportsSpec

----------------------------------------------------------------------------
(* What a current report says *)

LEMMA SeriesAgrees == ASSUME ReportsInv PROVE SeriesAddsUp
<1> SUFFICES ASSUME Answered("series")
             PROVE  SeriesIs(sumMetricsInputs(answer.stores, answer.from, answer.to))
  BY DEF SeriesAddsUp
<1>a. PICK S \in SUBSET Store, from \in Days, to \in Days :
         /\ S = answer.stores /\ from = answer.from /\ to = answer.to
         /\ \E granularity : answer.body = buildTimeseries(S, from, to, granularity)
  BY DEF ReportsInv, AnswerIsCurrent, Answered
<1>1. PICK granularity, series :
         /\ S = answer.stores /\ from = answer.from /\ to = answer.to
         /\ series = answer.body
         /\ series = buildTimeseries(S, from, to, granularity)
  BY <1>a
<1>2. PICK m : m = sumMetricsInputs(S, from, to)
  OBVIOUS
<1>3. /\ Over(series, "reservationRevenue") = Total(PaidRows(S, from, to))
      /\ Over(series, "paymentRevenue") = Total(PaidIn(S, from, to))
      /\ Over(series, "refundedAmount") = Total(RefundedIn(S, from, to))
      /\ Over(series, "reservationCount") = Count(S, from, to, Status)
      /\ Over(series, "completedCount") = Count(S, from, to, {"completed"})
      /\ Over(series, "cancelledCount") = Count(S, from, to, {"cancelled"})
      /\ Over(series, "rejectedCount") = Count(S, from, to, {"rejected"})
      /\ Over(series, "noShowCount") = Count(S, from, to, {"no_show"})
  <2>1. ReportsTypeOK /\ series = buildTimeseries(S, from, to, granularity)
    BY <1>1 DEF ReportsInv
  <2> QED BY <2>1, ByBucket
<1>4. \A f : OverBuckets(f) = Over(series, f)
  BY <1>1 DEF OverBuckets, Over
<1>5. \A f \in SeriesFigure : OverBuckets(f) = m[f]
  BY <1>2, <1>3, <1>4, ByStore DEF ReportsInv, SeriesFigure
<1>6. OverBuckets("reservationCount") = reservationCount(m)
  BY <1>2, <1>3, <1>4, ByStore, SixCounts DEF ReportsInv, reservationCount
<1> QED BY <1>1, <1>2, <1>5, <1>6 DEF SeriesIs

LEMMA StatsAgree == ASSUME ReportsInv PROVE SameRevenue
<1>1. \A s, from, to : DashboardRevenue(s, from, to).total
                          = Metrics(s, from, to).reservationRevenue
  BY DEF DashboardRevenue, Metrics
<1> QED BY <1>1 DEF ReportsInv, AnswerIsCurrent, SameRevenue, Answered

LEMMA ListAgrees == ASSUME ReportsInv PROVE LocalesAddUp
<1> SUFFICES ASSUME Answered("list"), closed = {}
             PROVE  answer.body.locales = reservationCount(answer.body.totals)
  BY DEF LocalesAddUp
<1>a. PICK S \in SUBSET Store :
         \E from, to :
            answer.body = [totals |-> sumMetricsInputs(S, from, to),
                           locales |-> Counted(S, from, to, Status)]
  BY DEF ReportsInv, AnswerIsCurrent, Answered
<1>1. PICK from, to, m :
         /\ m = sumMetricsInputs(S, from, to)
         /\ answer.body = [totals |-> m, locales |-> Counted(S, from, to, Status)]
  BY <1>a
<1>2. Counted(S, from, to, Status) = Count(S, from, to, Status)
  BY DEF Counted, Count, Kind
<1>3. Count(S, from, to, Status) = reservationCount(m)
  BY <1>1, ByStore, SixCounts DEF ReportsInv, reservationCount
<1> QED BY <1>1, <1>2, <1>3

\* Every series adds up to the summaries of its stores, the dashboard and the
\* administrators' pages show the same revenue, and the locales of the list count
\* what its totals count: for any number of stores, rows and payments, any length
\* of a period, and wherever the days of Korea begin.
THEOREM PagesAgree ==
    ReportsSpec => []FiguresAgree
<1>1. ReportsInit => ReportsInv
  BY ReportsStart
<1>2. ReportsInv /\ [ReportsNext]_reportVars => ReportsInv'
  BY ReportsStep
<1>3. ReportsInv => FiguresAgree
  BY SeriesAgrees, StatsAgree, ListAgrees DEF FiguresAgree
<1> QED BY <1>1, <1>2, <1>3, PTL DEF ReportsSpec
=============================================================================
