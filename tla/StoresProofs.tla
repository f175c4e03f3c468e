---------------------------- MODULE StoresProofs ----------------------------
(***************************************************************************)
(* Proofs about the behaviours of MCLocks, for any ids, customers and      *)
(* seats of AsyncSeatBooking, and for any threads, stock and operations of *)
(* the four LockedStores.                                                  *)
(***************************************************************************)
EXTENDS MCLocks, FiniteSetTheorems, SequenceTheorems, WellFoundedInduction, TLAPS

(* The run takes the steps of its components.                              *)
LEMMA RunTakesTheirSteps ==
  MCSpec => Spec /\ Store!Init /\ [][Store!Next]_Store!storeVars
<1>1. MCInit => Init /\ Store!Init
  BY DEF MCInit
<1>2. [MCNext]_<<component, trackerVars, cleanupVars, vars, storeVars>> =>
        [Next]_vars /\ [Store!Next]_Store!storeVars
  <2>1. CASE MCNext
    BY <2>1 DEF MCNext, storeVars, Store!storeVars
  <2>2. CASE UNCHANGED <<component, trackerVars, cleanupVars, vars, storeVars>>
    BY <2>2 DEF storeVars, Store!storeVars
  <2>3. QED BY <2>1, <2>2
<1>3. QED BY <1>1, <1>2, PTL DEF MCSpec, Spec

-----------------------------------------------------------------------------
(* AsyncSeatBooking.                                                       *)

(* The maps are inverse, which each map alone cannot tell: cancel deletes  *)
(* the right entry of the second map because of it.                        *)
IInv == TypeOK /\ MapsAreInverse

LEMMA InitIInv == Init => IInv
  BY BookingAssumption DEF Init, IInv, TypeOK, MapsAreInverse

LEMMA BookIInv ==
  ASSUME IInv, NEW b \in Bookings, NEW c \in Customers, NEW s \in Seats, Book(b, c, s)
  PROVE  IInv'
  <1>1. TypeOK'
    BY DEF IInv, TypeOK, Book
  <1>2. ASSUME NEW d \in Bookings, NEW r \in Seats
        PROVE  seatOf'[d] = r <=> ownerOf'[r] = d
    BY BookingAssumption DEF IInv, TypeOK, MapsAreInverse, Book
  <1>3. ASSUME NEW d \in Bookings
        PROVE  seatOf'[d] = Nothing <=> customerOf'[d] = Nothing
    BY BookingAssumption DEF IInv, TypeOK, MapsAreInverse, Book
  <1> QED
    BY <1>1, <1>2, <1>3 DEF IInv, MapsAreInverse

LEMMA CancelIInv ==
  ASSUME IInv, NEW b \in Bookings, Cancel(b)
  PROVE  IInv'
  <1>0. seatOf[b] \in Seats /\ ownerOf[seatOf[b]] = b
    BY DEF IInv, TypeOK, MapsAreInverse, Cancel
  <1>1. TypeOK'
    BY <1>0 DEF IInv, TypeOK, Cancel
  <1>2. ASSUME NEW d \in Bookings, NEW r \in Seats
        PROVE  seatOf'[d] = r <=> ownerOf'[r] = d
    BY <1>0, BookingAssumption DEF IInv, TypeOK, MapsAreInverse, Cancel
  <1>3. ASSUME NEW d \in Bookings
        PROVE  seatOf'[d] = Nothing <=> customerOf'[d] = Nothing
    BY BookingAssumption DEF IInv, TypeOK, MapsAreInverse, Cancel
  <1> QED
    BY <1>1, <1>2, <1>3 DEF IInv, MapsAreInverse

LEMMA NextIInv == IInv /\ [Next]_vars => IInv'
  <1> SUFFICES ASSUME IInv, [Next]_vars
               PROVE  IInv'
    OBVIOUS
  <1>1. CASE \E b \in Bookings : Cancel(b)
    BY <1>1, CancelIInv
  <1>2. CASE \E b \in Bookings, c \in Customers, s \in Seats : Book(b, c, s)
    BY <1>2, BookIInv
  <1>3. CASE UNCHANGED vars
    BY <1>3 DEF IInv, TypeOK, MapsAreInverse, vars
  <1> QED
    BY <1>1, <1>2, <1>3 DEF Next

LEMMA Invariance == Spec => []IInv
  BY InitIInv, NextIInv, PTL DEF Spec

(* The maps stay inverse, however bookings and cancellations follow one    *)
(* another, ids used again after their cancellation included.              *)
THEOREM MapsStayInverse == Spec => []MapsAreInverse
  <1>1. IInv => MapsAreInverse
    BY DEF IInv
  <1> QED
    BY <1>1, Invariance, PTL

-----------------------------------------------------------------------------
Holder == [s \in Seats |-> BookingForSeat(s)]

LEMMA InitLedger == Init => Ledger!Init
  BY DEF Init, Ledger!Init, Ledger!Free, BookingForSeat

(* A booking holds a seat in the ledger only if its own map says so.       *)
LEMMA HeldMeansBooked ==
  ASSUME IInv, NEW b \in Bookings, NEW s \in Seats, Ledger!Holds(b, s)
  PROVE  seatOf[b] = s
  <1>1. PICK c \in Customers : BookingForSeat(s) = <<b, c>>
    BY DEF Ledger!Holds
  <1>2. ownerOf[s] # Nothing
    BY <1>1 DEF BookingForSeat
  <1>3. ownerOf[s] = b
    BY <1>1, <1>2 DEF BookingForSeat
  <1> QED
    BY <1>3 DEF IInv, MapsAreInverse

LEMMA BookIsReserve ==
  ASSUME IInv, NEW b \in Bookings, NEW c \in Customers, NEW s \in Seats, Book(b, c, s)
  PROVE  Ledger!Reserve(b, c, s)
  <1>1. Holder[s] = <<>>
    BY DEF Book, BookingForSeat, Holder
  <1>2. \A r \in Seats : ~Ledger!Holds(b, r)
    BY HeldMeansBooked, BookingAssumption DEF Book
  <1>3. ASSUME NEW r \in Seats
        PROVE  BookingForSeat(r)' = IF r = s THEN <<b, c>> ELSE BookingForSeat(r)
    <2>1. CASE r = s
      BY <2>1, BookingAssumption DEF Book, BookingForSeat, IInv, TypeOK
    <2>2. CASE r # s /\ ownerOf[r] = Nothing
      BY <2>2 DEF Book, BookingForSeat, IInv, TypeOK
    <2>3. CASE r # s /\ ownerOf[r] # Nothing
      <3>1. ownerOf[r] \in Bookings /\ ownerOf[r] # b
        BY <2>3, BookingAssumption DEF Book, IInv, TypeOK, MapsAreInverse
      <3> QED
        BY <2>3, <3>1 DEF Book, BookingForSeat, IInv, TypeOK
    <2> QED
      BY <2>1, <2>2, <2>3
  <1>4. Holder' = [Holder EXCEPT ![s] = <<b, c>>]
    BY <1>3 DEF Holder
  <1> QED
    BY <1>1, <1>2, <1>4 DEF Ledger!Reserve, Ledger!Free, Holder

LEMMA CancelIsVacate ==
  ASSUME IInv, NEW b \in Bookings, Cancel(b)
  PROVE  \E s \in Seats : Ledger!Vacate(b, s)
  <1> DEFINE s == seatOf[b]
  <1>0. s \in Seats /\ ownerOf[s] = b /\ customerOf[b] \in Customers
    BY DEF IInv, TypeOK, MapsAreInverse, Cancel
  <1>1. Ledger!Holds(b, s)
    BY <1>0, BookingAssumption DEF Ledger!Holds, BookingForSeat
  <1>2. ASSUME NEW r \in Seats
        PROVE  BookingForSeat(r)' = IF r = s THEN <<>> ELSE BookingForSeat(r)
    <2>1. CASE r = s
      BY <1>0, <2>1 DEF Cancel, BookingForSeat, IInv, TypeOK
    <2>2. CASE r # s /\ ownerOf[r] = Nothing
      BY <1>0, <2>2 DEF Cancel, BookingForSeat, IInv, TypeOK
    <2>3. CASE r # s /\ ownerOf[r] # Nothing
      <3>1. ownerOf[r] \in Bookings /\ ownerOf[r] # b
        BY <2>3 DEF IInv, TypeOK, MapsAreInverse
      <3> QED
        BY <1>0, <2>3, <3>1 DEF Cancel, BookingForSeat, IInv, TypeOK
    <2> QED
      BY <2>1, <2>2, <2>3
  <1>3. Holder' = [Holder EXCEPT ![s] = <<>>]
    BY <1>2 DEF Holder
  <1>4. Ledger!Vacate(b, s)
    BY <1>1, <1>3 DEF Ledger!Vacate, Ledger!Free, Holder
  <1> QED
    BY <1>0, <1>4

LEMMA NextLedger == IInv /\ [Next]_vars => [Ledger!Next]_Holder
  <1> SUFFICES ASSUME IInv, [Next]_vars
               PROVE  [Ledger!Next]_Holder
    OBVIOUS
  <1>1. CASE \E b \in Bookings : Cancel(b)
    BY <1>1, CancelIsVacate DEF Ledger!Next
  <1>2. CASE \E b \in Bookings, c \in Customers, s \in Seats : Book(b, c, s)
    BY <1>2, BookIsReserve DEF Ledger!Next
  <1>3. CASE UNCHANGED vars
    BY <1>3 DEF vars, Holder, BookingForSeat
  <1> QED
    BY <1>1, <1>2, <1>3 DEF Next

(* No seat changes hands but through a cancellation, and no booking has    *)
(* two seats: what booking_for_seat answers implements SeatLedger.         *)
THEOREM BookingImplementsLedger == Spec => ImplementsLedger
  <1>1. IInv /\ [Next]_vars => [Ledger!Next]_[s \in Seats |-> BookingForSeat(s)]
    BY NextLedger DEF Holder
  <1> QED
    BY <1>1, InitLedger, Invariance, PTL DEF Spec, ImplementsLedger, Ledger!Spec

LEMMA RunIInv == MCSpec => []IInv
  BY RunTakesTheirSteps, Invariance, PTL

-----------------------------------------------------------------------------
(* LockedStores.  Their totals are folds over sets: a fold is a recursive  *)
(* function whose every step CHOOSEs an element, so first what it computes.*)

LEMMA SameCardinality == \A S : Store!Cardinality(S) = Cardinality(S)
  BY DEF Store!Cardinality, Cardinality

(* Every finite set of sets has a smallest member outside of any given set.*)
LEMMA SmallestSubset ==
  ASSUME NEW D, IsFiniteSet(D), NEW T, T \subseteq SUBSET D, T # {}
  PROVE  \E s \in T : \A x \in s : s \ {x} \notin T
<1>1. PICK s \in T : \A U \in T : <<U, s>> \notin StrictSubsetOrdering(D)
  <2>1. T \subseteq FiniteSubsetsOf(D)
    BY FS_FiniteSubsetsOfFinite
  <2>2. QED BY <2>1, FS_StrictSubsetOrderingWellFounded, WFMin
<1>2. ASSUME NEW x \in s, s \ {x} \in T PROVE FALSE
  <2>1. <<s \ {x}, s>> \in StrictSubsetOrdering(D)
    BY <1>2 DEF StrictSubsetOrdering
  <2>2. QED BY <1>1, <1>2, <2>1
<1>3. QED BY <1>2

LEMMA NaturalsIn ==
  ASSUME NEW S, 0 \in S, \A n \in Nat : n \in S => n + 1 \in S
  PROVE  Nat \subseteq S
<1> SUFFICES ASSUME Nat \ S # {} PROVE FALSE
  OBVIOUS
<1>1. PICK x \in Nat \ S : \A y \in Nat \ S : <<y, x>> \notin OpToRel(<, Nat)
  <2>1. Nat \ S \subseteq Nat
    OBVIOUS
  <2>2. QED BY <2>1, NatLessThanWellFounded, WFMin
<1>2. \A y \in Nat \ S : ~(y < x)
  BY <1>1 DEF OpToRel
<1>3. x \in Nat /\ x # 0 /\ x \notin S
  OBVIOUS
<1>4. x - 1 \in Nat /\ x - 1 < x
  BY <1>3
<1>5. x - 1 \in S
  BY <1>2, <1>4
<1>6. (x - 1) + 1 \in S
  BY <1>4, <1>5
<1>7. QED BY <1>3, <1>6

Some(s) == CHOOSE x \in s : TRUE

(* g sums f over each of a family of sets, one element after the other.    *)
SumsOver(f, F, g) ==
  g = [s \in F |-> IF s = {} THEN 0 ELSE f[Some(s)] + g[s \ {Some(s)}]]

(* There is such a g. *)
LEMMA SumExists ==
  ASSUME NEW S, IsFiniteSet(S), NEW f PROVE \E g : SumsOver(f, SUBSET S, g)
<1> DEFINE Upto(n) == {s \in SUBSET S : Cardinality(s) <= n}
           N == {n \in Nat : \E g : SumsOver(f, Upto(n), g)}
<1>0. \A s \in SUBSET S : IsFiniteSet(s) /\ Cardinality(s) \in Nat
  BY FS_Subset, FS_CardinalityType
<1>1. 0 \in N
  <2> DEFINE g == [s \in Upto(0) |-> 0]
  <2>1. \A s \in Upto(0) : s = {}
    BY <1>0, FS_EmptySet
  <2>2. g = [s \in Upto(0) |-> IF s = {} THEN 0 ELSE f[Some(s)] + g[s \ {Some(s)}]]
    BY <2>1
  <2> HIDE DEF g
  <2>3. QED BY <2>2 DEF SumsOver
<1>2. ASSUME NEW n \in Nat, n \in N PROVE n + 1 \in N
  <2>1. PICK g : SumsOver(f, Upto(n), g)
    BY <1>2
  <2> DEFINE h == [s \in Upto(n + 1) |->
                     IF s = {} THEN 0 ELSE f[Some(s)] + g[s \ {Some(s)}]]
  <2>2. \A s \in Upto(n + 1) : s # {} => s \ {Some(s)} \in Upto(n)
    <3> SUFFICES ASSUME NEW s \in Upto(n + 1), s # {} PROVE s \ {Some(s)} \in Upto(n)
      OBVIOUS
    <3>1. Some(s) \in s
      BY DEF Some
    <3>2. Cardinality(s \ {Some(s)}) = Cardinality(s) - 1
      BY <1>0, <3>1, FS_RemoveElement
    <3>3. Cardinality(s) \in Nat /\ Cardinality(s) <= n + 1 /\ s \ {Some(s)} \in SUBSET S
      BY <1>0
    <3>4. QED BY <3>2, <3>3
  <2>3. \A s \in Upto(n) : s \in Upto(n + 1)
    BY <1>0
  <2> HIDE DEF Upto
  <2>4. \A s \in Upto(n) : h[s] = g[s]
    BY <2>1, <2>3 DEF SumsOver
  <2>5. h = [s \in Upto(n + 1) |->
               IF s = {} THEN 0 ELSE f[Some(s)] + h[s \ {Some(s)}]]
    BY <2>2, <2>4
  <2> HIDE DEF h
  <2>6. QED BY <1>2, <2>5 DEF SumsOver
<1>3. Cardinality(S) \in N
  <2> HIDE DEF N
  <2>1. QED BY <1>0, <1>1, <1>2, NaturalsIn
<1>4. Upto(Cardinality(S)) = SUBSET S
  BY <1>0, FS_Subset
<1>5. QED BY <1>3, <1>4

(* g sums f over every subset of S, whichever element comes first.         *)
AnyOrder(f, S, g) ==
  /\ g[{}] = 0
  /\ \A s \in SUBSET S : g[s] \in Int
  /\ \A s \in SUBSET S : \A x \in s : g[s] = f[x] + g[s \ {x}]

(* It does not matter in which order the elements are taken.               *)
LEMMA SumTakesAny ==
  ASSUME NEW S, IsFiniteSet(S), NEW f, \A x \in S : f[x] \in Int,
         NEW g, SumsOver(f, SUBSET S, g)
  PROVE  AnyOrder(f, S, g)
<1>1. /\ g[{}] = 0
      /\ \A s \in SUBSET S : s # {} => /\ g[s] = f[Some(s)] + g[s \ {Some(s)}]
                                       /\ Some(s) \in s
  BY DEF SumsOver, Some
<1> DEFINE B == {s \in SUBSET S : g[s] \notin Int}
           C == {s \in SUBSET S : \E x \in s : g[s] # f[x] + g[s \ {x}]}
<1>2. B = {}
  <2> SUFFICES ASSUME B # {} PROVE FALSE
    OBVIOUS
  <2>1. B \subseteq SUBSET S
    OBVIOUS
  <2>2. PICK s \in B : \A x \in s : s \ {x} \notin B
    <3> HIDE DEF B
    <3>1. QED BY <2>1, SmallestSubset
  <2>3. s # {} /\ s \in SUBSET S
    <3>1. s \in SUBSET S /\ g[s] \notin Int
      BY <2>2
    <3>2. 0 \in Int
      OBVIOUS
    <3>3. QED BY <1>1, <3>1, <3>2, Zenon
  <2>4. g[s] = f[Some(s)] + g[s \ {Some(s)}] /\ Some(s) \in s
    BY <1>1, <2>3
  <2> DEFINE c == Some(s)
  <2>5. c \in s /\ g[s] = f[c] + g[s \ {c}]
    BY <2>4
  <2> HIDE DEF c
  <2>6. f[c] \in Int /\ s \ {c} \in SUBSET S
    BY <2>3, <2>5
  <2>7. g[s \ {c}] \in Int
    BY <2>2, <2>5, <2>6
  <2>8. g[s] \in Int
    BY <2>5, <2>6, <2>7
  <2>9. QED BY <2>2, <2>8
<1>3. C = {}
  <2> SUFFICES ASSUME C # {} PROVE FALSE
    OBVIOUS
  <2>1. C \subseteq SUBSET S
    OBVIOUS
  <2>2. PICK s \in C : \A x \in s : s \ {x} \notin C
    <3> HIDE DEF C
    <3>1. QED BY <2>1, SmallestSubset
  <2>3. PICK x \in s : g[s] # f[x] + g[s \ {x}]
    OBVIOUS
  <2> DEFINE c == Some(s)
  <2>4. c \in s /\ g[s] = f[c] + g[s \ {c}] /\ s \in SUBSET S
    BY <1>1, <2>3
  <2> HIDE DEF c
  <2>5. c # x
    BY <2>3, <2>4
  <2>6. x \in s \ {c} /\ c \in s \ {x} /\ s \ {c} \in SUBSET S /\ s \ {x} \in SUBSET S
    BY <2>3, <2>4, <2>5
  <2>7. /\ g[s \ {c}] = f[x] + g[(s \ {c}) \ {x}]
        /\ g[s \ {x}] = f[c] + g[(s \ {x}) \ {c}]
    BY <2>2, <2>3, <2>4, <2>6
  <2>8. (s \ {c}) \ {x} = (s \ {x}) \ {c} /\ (s \ {x}) \ {c} \in SUBSET S
    BY <2>4
  <2>9. g[(s \ {x}) \ {c}] \in Int /\ f[x] \in Int /\ f[c] \in Int
    BY <1>2, <2>4, <2>6, <2>8
  <2> DEFINE r == g[(s \ {x}) \ {c}]
  <2>10. g[s \ {c}] = f[x] + r /\ g[s \ {x}] = f[c] + r
    BY <2>7, <2>8
  <2> HIDE DEF r
  <2>11. r \in Int
    BY <2>9 DEF r
  <2>12. QED BY <2>3, <2>4, <2>9, <2>10, <2>11
<1>4. QED BY <1>1, <1>2, <1>3 DEF AnyOrder

(* Nor what f is elsewhere.                                                *)
SumsTo(f, S, g) ==
  IsFiniteSet(S) /\ (\A x \in S : f[x] \in Int) /\ SumsOver(f, SUBSET S, g)

LEMMA SumsAgree ==
  ASSUME NEW f, NEW S, NEW g, SumsTo(f, S, g), NEW e, NEW R, NEW h, SumsTo(e, R, h),
         NEW T, T \subseteq S, T \subseteq R, \A x \in T : f[x] = e[x]
  PROVE  g[T] = h[T]
<1> SUFFICES ASSUME g[T] # h[T] PROVE FALSE
  OBVIOUS
<1> USE DEF SumsTo
<1> DEFINE B == {s \in SUBSET T : g[s] # h[s]}
<1>1. B \subseteq SUBSET T /\ B # {} /\ IsFiniteSet(T)
  BY FS_Subset
<1>2. PICK s \in B : \A x \in s : s \ {x} \notin B
  <2> HIDE DEF B
  <2>1. QED BY <1>1, SmallestSubset
<1>3. /\ g[{}] = 0 /\ \A u \in SUBSET S : g[u] \in Int
      /\ \A u \in SUBSET S : \A x \in u : g[u] = f[x] + g[u \ {x}]
  <2>1. AnyOrder(f, S, g)
    BY SumTakesAny
  <2>2. QED BY <2>1 DEF AnyOrder
<1>4. /\ h[{}] = 0 /\ \A u \in SUBSET R : h[u] \in Int
      /\ \A u \in SUBSET R : \A x \in u : h[u] = e[x] + h[u \ {x}]
  <2>1. AnyOrder(e, R, h)
    BY SumTakesAny
  <2>2. QED BY <2>1 DEF AnyOrder
<1>5. PICK x \in s : TRUE
  BY <1>2, <1>3, <1>4
<1>6. g[s \ {x}] = h[s \ {x}]
  BY <1>2, <1>5
<1>7. s \in SUBSET S /\ s \in SUBSET R /\ f[x] = e[x]
  BY <1>5
<1>8. QED BY <1>2, <1>3, <1>4, <1>5, <1>6, <1>7

-----------------------------------------------------------------------------
(* MapThenSumSet and SumSet add in an order that CHOOSE picks, by a        *)
(* function that is chosen as well: they compute what any order gives.     *)
Sum(f, S) == Store!MapThenSumSet(LAMBDA x : f[x], S)

LEMMA SumIsOver ==
  ASSUME NEW f, NEW S, IsFiniteSet(S)
  PROVE  \E g : SumsOver(f, SUBSET S, g) /\ Sum(f, S) = g[S]
<1>1. \E g : SumsOver(f, SUBSET S, g)
  BY SumExists
<1>2. QED BY <1>1, Zenon DEF Sum, Store!MapThenSumSet, Store!MapThenFoldSet, SumsOver, Some

LEMMA SumSetIsOver ==
  ASSUME NEW S, IsFiniteSet(S)
  PROVE  \E g : SumsOver([x \in S |-> x], SUBSET S, g) /\ Store!SumSet(S) = g[S]
<1> DEFINE f == [x \in S |-> x]
           P(g) == g = [s \in SUBSET S |-> IF s = {} THEN 0
                                           ELSE Some(s) + g[s \ {Some(s)}]]
<1>1. PICK g : SumsOver(f, SUBSET S, g)
  BY SumExists
<1>2. \A s \in SUBSET S : s # {} => f[Some(s)] = Some(s)
  BY DEF Some
<1> HIDE DEF f
<1>3. ASSUME NEW h PROVE SumsOver(f, SUBSET S, h) <=> P(h)
  BY <1>2 DEF SumsOver
<1>4. P(g)
  BY <1>1, <1>3
<1>5. \E h : P(h) /\ Store!SumSet(S) = h[S]
  BY <1>4, Zenon DEF Store!SumSet, Store!FoldSet, Store!MapThenFoldSet, Some
<1> HIDE DEF P
<1>6. QED BY <1>3, <1>5 DEF f

LEMMA SumFacts ==
  ASSUME NEW S, IsFiniteSet(S), NEW f, \A x \in S : f[x] \in Int
  PROVE  /\ Sum(f, {}) = 0
         /\ Sum(f, S) \in Int
         /\ \A x \in S : Sum(f, S) = f[x] + Sum(f, S \ {x})
<1>1. PICK g : SumsOver(f, SUBSET S, g) /\ Sum(f, S) = g[S]
  BY SumIsOver
<1>2. /\ g[{}] = 0 /\ \A s \in SUBSET S : g[s] \in Int
      /\ \A s \in SUBSET S : \A x \in s : g[s] = f[x] + g[s \ {x}]
  <2>1. AnyOrder(f, S, g)
    BY <1>1, SumTakesAny
  <2>2. QED BY <2>1 DEF AnyOrder
<1>3. ASSUME NEW s \in SUBSET S PROVE Sum(f, s) = g[s]
  <2>1. IsFiniteSet(s)
    BY FS_Subset
  <2>2. PICK h : SumsOver(f, SUBSET s, h) /\ Sum(f, s) = h[s]
    BY <2>1, SumIsOver
  <2>3. SumsTo(f, S, g) /\ SumsTo(f, s, h)
    BY <1>1, <2>1, <2>2 DEF SumsTo
  <2>4. g[s] = h[s]
    BY <2>3, SumsAgree
  <2>5. QED BY <2>2, <2>4
<1>4. QED BY <1>1, <1>2, <1>3

(* The sum is that of the values on the set.                               *)
LEMMA SumOfValues ==
  ASSUME NEW S, IsFiniteSet(S), NEW f, NEW e, \A x \in S : f[x] \in Int /\ e[x] = f[x]
  PROVE  Sum(e, S) = Sum(f, S)
<1>1. PICK g : SumsOver(f, SUBSET S, g) /\ Sum(f, S) = g[S]
  BY SumIsOver
<1>2. PICK h : SumsOver(e, SUBSET S, h) /\ Sum(e, S) = h[S]
  BY SumIsOver
<1>3. SumsTo(f, S, g) /\ SumsTo(e, S, h)
  BY <1>1, <1>2 DEF SumsTo
<1>4. QED BY <1>1, <1>2, <1>3, SumsAgree

LEMMA SumSetFacts ==
  ASSUME NEW S \in SUBSET Int, IsFiniteSet(S), NEW x \in Int, x \notin S
  PROVE  /\ Store!SumSet({}) = 0 /\ Store!SumSet(S) \in Int
         /\ Store!SumSet(S \cup {x}) = Store!SumSet(S) + x
<1> DEFINE D == S \cup {x}
           f == [y \in D |-> y]
<1>0. IsFiniteSet(D) /\ D \in SUBSET Int
  BY FS_AddElement
<1>1. PICK g : SumsOver(f, SUBSET D, g) /\ Store!SumSet(D) = g[D]
  BY <1>0, SumSetIsOver
<1>2. \A y \in D : f[y] \in Int /\ f[y] = y
  BY <1>0
<1> HIDE DEF f
<1>3. /\ g[{}] = 0 /\ \A s \in SUBSET D : g[s] \in Int
      /\ \A s \in SUBSET D : \A y \in s : g[s] = f[y] + g[s \ {y}]
  <2>1. AnyOrder(f, D, g)
    BY <1>0, <1>1, <1>2, SumTakesAny
  <2>2. QED BY <2>1 DEF AnyOrder
<1>4. ASSUME NEW s \in SUBSET D PROVE Store!SumSet(s) = g[s]
  <2>1. IsFiniteSet(s)
    BY <1>0, FS_Subset
  <2> DEFINE e == [y \in s |-> y]
  <2>2. PICK h : SumsOver(e, SUBSET s, h) /\ Store!SumSet(s) = h[s]
    BY <2>1, SumSetIsOver
  <2>3. \A y \in s : e[y] \in Int /\ f[y] = e[y]
    BY <1>0, <1>2
  <2> HIDE DEF e
  <2>4. g[s] = h[s]
    <3>1. /\ \A y \in D : f[y] \in Int
          /\ \A y \in s : e[y] \in Int
          /\ \A y \in s : f[y] = e[y]
          /\ s \subseteq D /\ s \subseteq s
      BY <1>2, <2>3
    <3> HIDE DEF D
    <3>2. SumsOver(f, SUBSET D, g) /\ SumsOver(e, SUBSET s, h) /\ IsFiniteSet(D)
      BY <1>0, <1>1, <2>2
    <3>3. SumsTo(f, D, g) /\ SumsTo(e, s, h)
      BY <2>1, <3>1, <3>2 DEF SumsTo
    <3>4. QED BY <3>1, <3>3, SumsAgree
  <2>5. QED BY <2>2, <2>4
<1>5. {} \in SUBSET D /\ S \in SUBSET D /\ D \in SUBSET D /\ x \in D /\ D \ {x} = S
  OBVIOUS
<1>6. g[D] = x + g[S] /\ g[S] \in Int
  BY <1>2, <1>3, <1>5
<1>7. Store!SumSet(S) = g[S] /\ Store!SumSet({}) = 0
  BY <1>3, <1>4, <1>5
<1>8. QED BY <1>1, <1>6, <1>7

LEMMA SumSetEmpty == Store!SumSet({}) = 0
<1>1. IsFiniteSet({})
  BY FS_EmptySet
<1>2. {} \in SUBSET Int /\ 0 \in Int /\ 0 \notin {}
  OBVIOUS
<1>3. QED BY <1>1, <1>2, SumSetFacts


(* A thread is in its critical section exactly while it has the lock.      *)
Locking ==
  /\ \A t \in Threads : thread[t] \in {"locked", "checked", "writing"} <=> owner = t
  /\ \A t \in Threads : thread[t] = "idle" => seen[t] = <<>>
  /\ \A t \in Threads :
       thread[t] \in {"locked", "checked"} /\ kind # "flags" => seen[t] = <<>>
  /\ accepted \subseteq Store!Done /\ IsFiniteSet(accepted)

(* What a writing thread has read is still there.                          *)
Inventory ==
  /\ \A t \in Threads : thread[t] = "writing" => seen[t] = <<stock>>
  /\ stock = Stock - Sum(op, accepted)
  /\ \A t \in Store!Done \ accepted : stock < op[t]

(* A delivery that has noted its event and not yet added its amount.       *)
Adding(t) == thread[t] = "writing" /\ op[t] # Store!Read

(* The total is that of the noted events, but for one being added; an      *)
(* accepted event is noted, once, a checked one is still not noted, and a  *)
(* summary read one set of events.                                         *)
Webhook ==
  /\ IsFiniteSet(events)
  /\ \A t \in accepted : op[t] \in events
  /\ \A t, u \in accepted : t # u => op[t] # op[u]
  /\ (\A t \in Threads : ~Adding(t)) => total = Store!SumSet(events)
  /\ \A t \in Threads : Adding(t) =>
       /\ op[t] \in events /\ seen[t] = <<total>>
       /\ total = Store!SumSet(events \ {op[t]})
       /\ \A u \in accepted : op[u] # op[t]
  /\ \A t \in Threads : thread[t] = "checked" => op[t] # Store!Read /\ op[t] \notin events
  /\ \A t \in Threads : thread[t] = "writing" /\ op[t] = Store!Read =>
       seen[t] = <<Store!Cardinality(events)>>
  /\ \A t \in Store!Done : op[t] = Store!Read =>
       \E S \in SUBSET Operations : seen[t] = <<Store!Cardinality(S), Store!SumSet(S)>>

(* The best score is no lower than any recorded.                           *)
Board ==
  /\ \A t \in Threads : thread[t] = "writing" => seen[t] = <<best>>
  /\ \A t \in Store!Done : best >= op[t]

(* What enabled_flags has read so far agrees with the snapshot in place.   *)
Flags ==
  /\ \A t \in Threads : thread[t] # "writing"
  /\ \A t \in Threads : thread[t] = "locked" =>
       /\ Len(seen[t]) <= 2
       /\ \A k \in 1 .. Len(seen[t]) : seen[t][k] = flags[k]
       /\ depth = 2 => Len(seen[t]) < 2
  /\ \A t \in Store!Done : op[t] = Store!Read =>
       seen[t] \in {Store!Snapshot(0), Store!Snapshot(1)}

(* The inductive invariant: each class adds its own to the locking.        *)
StoresInv ==
  /\ Store!TypeOK /\ Locking
  /\ kind = "inventory" => Inventory
  /\ kind = "webhook" => Webhook
  /\ kind = "leaderboard" => Board
  /\ kind = "flags" => Flags

LEMMA SnapshotIs ==
  /\ Store!Snapshot(0) = <<0, 1>> /\ Store!Snapshot(1) = <<1, 0>>
  /\ \A n \in Nat : Store!Snapshot(n) \in {Store!Snapshot(0), Store!Snapshot(1)}
<1>1. 0 % 2 = 0 /\ 1 % 2 = 1
  OBVIOUS
<1>2. QED BY <1>1 DEF Store!Snapshot

LEMMA StoresInit == Store!Init => StoresInv
<1> SUFFICES ASSUME Store!Init PROVE StoresInv
  OBVIOUS
<1> USE StoresAssumption DEF Store!Init, Store!StoresAssumption, Store!Read
<1>1. IsFiniteSet({}) /\ Store!Cardinality({}) = 0
  BY SameCardinality, FS_EmptySet
<1>2. Store!SumSet({}) = 0 /\ Sum(op, {}) = 0
  BY <1>1, SumFacts, SumSetEmpty
<1>3. Store!Done = {}
  BY DEF Store!Done
<1>4. Store!TypeOK
  <2>1. /\ flags \in {Store!Snapshot(0), Store!Snapshot(1)}
        /\ best \in Int /\ stock \in Nat /\ total \in Nat
    OBVIOUS
  <2>2. seen \in [Threads -> Seq(Int)]
    OBVIOUS
  <2>3. QED BY <2>1, <2>2 DEF Store!TypeOK
<1>5. Locking
  BY <1>1, <1>3 DEF Locking
<1>6. Inventory
  BY <1>2, <1>3 DEF Inventory
<1>7. Webhook
  BY <1>1, <1>2, <1>3 DEF Webhook, Adding
<1>8. Board /\ Flags
  BY <1>3 DEF Board, Flags
<1>9. QED BY <1>4, <1>5, <1>6, <1>7, <1>8 DEF StoresInv

LEMMA NumbersAre ==
  ASSUME Store!TypeOK
  PROVE  /\ \A u \in Threads : op[u] \in Nat /\ op[u] \in Int
         /\ stock \in Nat /\ total \in Nat /\ best \in Int
         /\ stock \in Int /\ total \in Int
<1>1. Operations \cup {Store!Read} \subseteq Nat
  BY StoresAssumption DEF Store!StoresAssumption, Store!Read
<1>2. \A u \in Threads : op[u] \in Operations \cup {Store!Read}
  BY DEF Store!TypeOK
<1>3. QED BY <1>1, <1>2 DEF Store!TypeOK

(* Only the thread that has the lock is in its critical section.           *)
LEMMA Alone ==
  ASSUME StoresInv, NEW t \in Threads, thread[t] \in {"locked", "checked", "writing"}
  PROVE  /\ owner = t
         /\ \A u \in Threads : u # t => thread[u] \notin {"locked", "checked", "writing"}
  BY DEF StoresInv, Locking

-----------------------------------------------------------------------------
(* A step that notes what it read.                                         *)
LEMMA NoteSteps ==
  ASSUME StoresInv, NEW t \in Threads, thread[t] \in {"locked", "checked"}, kind # "flags",
         NEW v \in Int, Store!Note(t, v)
  PROVE  /\ Locking' /\ Store!Done' = Store!Done
         /\ thread'[t] = "writing" /\ seen'[t] = <<v>>
         /\ \A u \in Threads : u # t => thread'[u] = thread[u] /\ seen'[u] = seen[u]
         /\ \A u \in Threads : u # t => thread'[u] \notin {"locked", "checked", "writing"}
         /\ thread' \in [Threads -> {"idle", "locked", "checked", "writing", "done"}]
         /\ seen' \in [Threads -> Seq(Int)]
         /\ UNCHANGED <<kind, owner, depth, op, accepted>>
<1> USE DEF StoresInv
<1>1. seen[t] = <<>> /\ Append(<<>>, v) = <<v>> /\ <<v>> \in Seq(Int)
  BY DEF Locking
<1>2. /\ thread'[t] = "writing" /\ seen'[t] = <<v>>
      /\ \A u \in Threads : u # t => thread'[u] = thread[u] /\ seen'[u] = seen[u]
      /\ thread' \in [Threads -> {"idle", "locked", "checked", "writing", "done"}]
      /\ seen' \in [Threads -> Seq(Int)]
      /\ UNCHANGED <<kind, owner, depth, op, accepted>>
  BY <1>1 DEF Store!Note, Store!TypeOK
<1>3. Store!Done' = Store!Done
  BY <1>2 DEF Store!Done
<1>4. Locking'
  BY <1>2, <1>3 DEF Locking
<1>5. \A u \in Threads : u # t => thread'[u] \notin {"locked", "checked", "writing"}
  BY <1>2, Alone
<1>6. QED BY <1>2, <1>3, <1>4, <1>5

(* A step that ends an operation. *)
LEMMA ReleaseSteps ==
  ASSUME StoresInv, NEW t \in Threads, thread[t] \in {"locked", "checked", "writing"},
         NEW answer \in BOOLEAN, Store!Release(t, answer),
         \A u \in Threads : u # t => seen'[u] = seen[u]
  PROVE  /\ Locking' /\ Store!Done' = Store!Done \cup {t} /\ t \notin Store!Done
         /\ thread'[t] = "done"
         /\ \A u \in Threads : u # t => thread'[u] = thread[u]
         /\ \A u \in Threads : thread'[u] \notin {"locked", "checked", "writing"}
         /\ thread' \in [Threads -> {"idle", "locked", "checked", "writing", "done"}]
         /\ accepted' = (IF answer THEN accepted \cup {t} ELSE accepted)
         /\ t \notin accepted /\ accepted \subseteq Threads /\ accepted' \subseteq Threads
         /\ owner' = Store!NoThread /\ depth' = 0
         /\ UNCHANGED <<kind, op>>
<1> USE StoresAssumption DEF StoresInv, Store!StoresAssumption
<1>1. /\ thread'[t] = "done"
      /\ \A u \in Threads : u # t => thread'[u] = thread[u]
      /\ thread' \in [Threads -> {"idle", "locked", "checked", "writing", "done"}]
      /\ owner' = Store!NoThread /\ depth' = 0
      /\ accepted' = (IF answer THEN accepted \cup {t} ELSE accepted)
      /\ UNCHANGED <<kind, op>>
  BY DEF Store!Release, Store!TypeOK
<1>2. Store!Done' = Store!Done \cup {t} /\ t \notin Store!Done
  BY <1>1 DEF Store!Done
<1>3. \A u \in Threads : thread'[u] \notin {"locked", "checked", "writing"}
  BY <1>1, Alone
<1>4. t \notin accepted /\ accepted \subseteq Threads /\ accepted' \subseteq Threads
  BY <1>1, <1>2 DEF Locking, Store!Done
<1>5. Locking'
  <2>1. IsFiniteSet(accepted')
    BY <1>1, FS_AddElement DEF Locking
  <2>2. accepted' \subseteq Store!Done'
    BY <1>1, <1>2 DEF Locking
  <2>3. \A u \in Threads : thread'[u] = "idle" => seen'[u] = <<>>
    BY <1>1 DEF Locking
  <2>4. QED BY <1>1, <1>3, <2>1, <2>2, <2>3 DEF Locking
<1>6. QED BY <1>1, <1>2, <1>3, <1>4, <1>5

-----------------------------------------------------------------------------
LEMMA AcquireStores ==
  ASSUME StoresInv, NEW t \in Threads, NEW n \in Operations \cup {Store!Read}, Store!Acquire(t, n)
  PROVE  StoresInv'
<1> USE StoresAssumption DEF StoresInv, Store!StoresAssumption
<1>1. /\ thread[t] = "idle" /\ owner = Store!NoThread /\ owner' = t /\ depth' = 1
      /\ thread'[t] = "locked" /\ op'[t] = n
      /\ \A u \in Threads : u # t => thread'[u] = thread[u] /\ op'[u] = op[u]
      /\ UNCHANGED <<kind, seen, accepted, stock, events, total, best, flags>>
  BY DEF Store!Acquire, Store!content, Store!TypeOK
<1>2. Store!TypeOK'
  BY <1>1 DEF Store!Acquire, Store!TypeOK
<1>3. Store!Done' = Store!Done /\ t \notin Store!Done /\ accepted \subseteq Store!Done
  BY <1>1 DEF Store!Done, Locking
<1>4. \A u \in Threads : thread[u] \notin {"locked", "checked", "writing"}
  BY <1>1 DEF Locking
<1>5. Locking'
  BY <1>1, <1>3, <1>4 DEF Locking
<1>6. ASSUME Inventory PROVE Inventory'
  <2>1. Sum(op', accepted) = Sum(op, accepted)
    <3>1. \A u \in accepted : op[u] \in Int /\ op'[u] = op[u]
      BY <1>1, <1>3, NumbersAre DEF Store!Done
    <3>2. QED BY <3>1, SumOfValues DEF Locking
  <2>2. QED BY <1>1, <1>3, <1>4, <1>6, <2>1 DEF Inventory, Store!Done
<1>7. ASSUME Webhook PROVE Webhook'
  <2>1. \A u \in Threads : ~Adding(u) /\ ~Adding(u)'
    BY <1>1, <1>4 DEF Adding
  <2>2. \A u \in accepted : op'[u] = op[u]
    BY <1>1, <1>3 DEF Store!Done
  <2>3. \A u \in Store!Done : op'[u] = op[u] /\ seen'[u] = seen[u]
    BY <1>1, <1>3 DEF Store!Done
  <2>4. /\ UNCHANGED <<accepted, events, total>>
        /\ \A u \in Threads : thread'[u] \notin {"checked", "writing"}
    BY <1>1, <1>4
  <2>5. QED BY <1>3, <1>7, <2>1, <2>2, <2>3, <2>4 DEF Webhook
<1>8. ASSUME Board PROVE Board'
  BY <1>1, <1>3, <1>4, <1>8 DEF Board, Store!Done
<1>9. ASSUME Flags PROVE Flags'
  <2>1. seen[t] = <<>> /\ seen' = seen /\ flags' = flags
    BY <1>1 DEF Locking
  <2>2. \A u \in Threads : thread'[u] = "locked" => u = t
    BY <1>1, <1>4
  <2>3. \A u \in Store!Done : op'[u] = op[u] /\ seen'[u] = seen[u]
    BY <1>1, <1>3 DEF Store!Done
  <2>4. \A u \in Threads : thread'[u] # "writing"
    BY <1>1, <1>9 DEF Flags
  <2>5. \A u \in Threads : thread'[u] = "locked" =>
          /\ Len(seen'[u]) <= 2
          /\ \A k \in 1 .. Len(seen'[u]) : seen'[u][k] = flags'[k]
          /\ depth' = 2 => Len(seen'[u]) < 2
    BY <1>1, <2>1, <2>2
  <2>6. QED BY <1>3, <1>9, <2>3, <2>4, <2>5, <2>1 DEF Flags
<1>10. QED BY <1>1, <1>2, <1>5, <1>6, <1>7, <1>8, <1>9

LEMMA StockStores ==
  ASSUME StoresInv, NEW t \in Threads, Store!ReadStock(t) \/ Store!Reserve(t) PROVE StoresInv'
<1> USE StoresAssumption DEF StoresInv, Store!StoresAssumption
<1>0. kind = "inventory" /\ Inventory
  BY DEF Store!ReadStock, Store!Reserve, Store!At
<1>1. CASE Store!ReadStock(t)
  <2>1. /\ thread[t] = "locked" /\ Store!Note(t, stock)
        /\ UNCHANGED <<stock, events, total, best, flags>>
    BY <1>1 DEF Store!ReadStock, Store!At, Store!content
  <2>2. /\ Locking' /\ Store!Done' = Store!Done /\ seen'[t] = <<stock>>
        /\ \A u \in Threads : u # t => thread'[u] \notin {"locked", "checked", "writing"}
        /\ thread' \in [Threads -> {"idle", "locked", "checked", "writing", "done"}]
        /\ seen' \in [Threads -> Seq(Int)]
        /\ UNCHANGED <<kind, owner, depth, op, accepted>>
    <3>1. stock \in Int /\ kind # "flags"
      BY <1>0 DEF Store!TypeOK
    <3>2. QED BY <2>1, <3>1, NoteSteps
  <2>3. Store!TypeOK'
    BY <2>1, <2>2 DEF Store!TypeOK
  <2>4. Inventory'
    BY <1>0, <2>1, <2>2 DEF Inventory
  <2>5. QED BY <1>0, <2>2, <2>3, <2>4
<1>2. CASE Store!Reserve(t)
  <2>1. /\ thread[t] = "writing" /\ seen' = seen /\ seen[t][1] = stock
        /\ UNCHANGED <<events, total, best, flags>>
        /\ \/ stock < op[t] /\ Store!Release(t, FALSE) /\ stock' = stock
           \/ ~(stock < op[t]) /\ Store!Release(t, TRUE) /\ stock' = stock - op[t]
    <3>1. thread[t] = "writing" /\ seen' = seen /\ UNCHANGED <<events, total, best, flags>>
      BY <1>2 DEF Store!Reserve, Store!At
    <3>2. seen[t] = <<stock>>
      BY <1>0, <3>1 DEF Inventory
    <3>3. \/ seen[t][1] < op[t] /\ Store!Release(t, FALSE) /\ stock' = stock
          \/ ~(seen[t][1] < op[t]) /\ Store!Release(t, TRUE) /\ stock' = seen[t][1] - op[t]
      BY <1>2, Zenon DEF Store!Reserve
    <3>4. seen[t][1] = stock
      BY <3>2
    <3>5. QED BY <3>1, <3>3, <3>4
  <2>2. op[t] \in Nat /\ stock \in Nat
    BY NumbersAre
  <2>3. PICK answer \in BOOLEAN :
          /\ Store!Release(t, answer)
          /\ answer = TRUE => op[t] <= stock /\ stock' = stock - op[t]
          /\ answer = FALSE => stock < op[t] /\ stock' = stock
    <3>1. CASE stock < op[t] /\ Store!Release(t, FALSE) /\ stock' = stock
      BY <3>1
    <3>2. CASE ~(stock < op[t]) /\ Store!Release(t, TRUE) /\ stock' = stock - op[t]
      <4>1. op[t] <= stock
        BY <2>2, <3>2
      <4>2. QED BY <3>2, <4>1
    <3>3. QED BY <2>1, <3>1, <3>2
  <2>4. /\ Locking' /\ Store!Done' = Store!Done \cup {t} /\ t \notin Store!Done
        /\ \A u \in Threads : thread'[u] \notin {"locked", "checked", "writing"}
        /\ thread' \in [Threads -> {"idle", "locked", "checked", "writing", "done"}]
        /\ accepted' = (IF answer THEN accepted \cup {t} ELSE accepted)
        /\ t \notin accepted /\ accepted \subseteq Threads /\ accepted' \subseteq Threads
        /\ owner' = Store!NoThread /\ depth' = 0
        /\ UNCHANGED <<kind, op>>
    BY <2>1, <2>3, ReleaseSteps
  <2>5. Store!TypeOK'
    <3>1. stock' \in Nat
      BY <2>2, <2>3
    <3>2. QED BY <2>1, <2>4, <3>1 DEF Store!TypeOK
  <2>6. Sum(op, accepted \cup {t}) = Sum(op, accepted) + op[t]
    <3>1. /\ \A u \in accepted \cup {t} : op[u] \in Int
          /\ \A u \in accepted : op[u] \in Int
          /\ IsFiniteSet(accepted) /\ IsFiniteSet(accepted \cup {t})
          /\ (accepted \cup {t}) \ {t} = accepted
      BY <2>4, NumbersAre, FS_AddElement DEF Locking
    <3>2. Sum(op, accepted) \in Int
      BY <3>1, SumFacts
    <3>3. Sum(op, accepted \cup {t}) = op[t] + Sum(op, (accepted \cup {t}) \ {t})
      BY <3>1, SumFacts
    <3>4. QED BY <2>2, <3>1, <3>2, <3>3
  <2>7. Sum(op, accepted) \in Int
    BY <2>4, NumbersAre, SumFacts DEF Locking
  <2>8. stock' = Stock - Sum(op, accepted')
    <3>1. stock = Stock - Sum(op, accepted)
      BY <1>0 DEF Inventory
    <3>2. CASE answer = TRUE
      BY <2>2, <2>3, <2>4, <2>6, <2>7, <3>1, <3>2
    <3>3. CASE answer = FALSE
      BY <2>3, <2>4, <3>1, <3>3
    <3>4. QED BY <3>2, <3>3
  <2>9. \A u \in Store!Done' \ accepted' : stock' < op[u]
    <3>1. stock' \in Nat /\ stock' <= stock /\ \A u \in Threads : op[u] \in Nat
      BY <2>2, <2>3, NumbersAre
    <3>2. \A u \in Store!Done \ accepted : stock < op[u]
      BY <1>0 DEF Inventory
    <3>3. answer = FALSE => stock' < op[t]
      BY <2>3
    <3>4. \A u \in Store!Done' \ accepted' :
            /\ u \in Threads
            /\ u \in Store!Done \ accepted \/ (u = t /\ answer = FALSE)
      BY <2>4 DEF Store!Done
    <3>5. QED BY <2>2, <3>1, <3>2, <3>3, <3>4
  <2>10. Inventory'
    BY <2>4, <2>8, <2>9 DEF Inventory
  <2>11. QED BY <1>0, <2>4, <2>5, <2>10
<1>3. QED BY <1>1, <1>2

LEMMA EventStores ==
  ASSUME StoresInv, NEW t \in Threads,
         Store!CheckEvent(t) \/ Store!NoteEvent(t) \/ Store!AddAmount(t)
  PROVE  StoresInv'
<1> USE StoresAssumption DEF StoresInv, Store!StoresAssumption
<1>0. /\ kind = "webhook" /\ Webhook /\ op[t] # Store!Read /\ op[t] \in Operations
      /\ op[t] \in Nat /\ thread[t] \in {"locked", "checked", "writing"}
      /\ UNCHANGED <<stock, best, flags>>
  <2>1. /\ kind = "webhook" /\ thread[t] \in {"locked", "checked", "writing"}
        /\ UNCHANGED <<stock, best, flags>>
    BY DEF Store!CheckEvent, Store!NoteEvent, Store!AddAmount, Store!At, Store!content
  <2>2. op[t] # Store!Read
    BY <2>1 DEF Webhook, Store!CheckEvent, Store!NoteEvent, Store!AddAmount, Store!At
  <2>3. op[t] \in Operations /\ op[t] \in Nat
    BY <2>2, NumbersAre DEF Store!TypeOK
  <2>4. QED BY <2>1, <2>2, <2>3
<1>00. /\ \A u \in Threads : u # t => ~Adding(u) /\ thread[u] # "writing"
       /\ accepted \subseteq Threads
  BY <1>0, Alone DEF Adding, Store!TypeOK
<1>000. \A u \in Store!Done : op[u] = Store!Read =>
         \E S \in SUBSET Operations : seen[u] = <<Store!Cardinality(S), Store!SumSet(S)>>
  BY <1>0 DEF Webhook
<1>1. CASE Store!CheckEvent(t) /\ op[t] \in events
  <2>1. Store!Release(t, FALSE) /\ UNCHANGED <<seen, events, total>> /\ thread[t] = "locked"
    BY <1>1 DEF Store!CheckEvent, Store!At, Store!content
  <2>2. /\ Locking' /\ Store!Done' = Store!Done \cup {t} /\ t \notin Store!Done
        /\ \A u \in Threads : thread'[u] \notin {"locked", "checked", "writing"}
        /\ thread' \in [Threads -> {"idle", "locked", "checked", "writing", "done"}]
        /\ accepted' = accepted
        /\ owner' = Store!NoThread /\ depth' = 0
        /\ UNCHANGED <<kind, op>>
    BY <2>1, ReleaseSteps
  <2>3. Store!TypeOK'
    BY <1>0, <2>1, <2>2 DEF Store!TypeOK
  <2>4. \A u \in Threads : ~Adding(u) /\ ~Adding(u)'
    BY <1>00, <2>1, <2>2 DEF Adding
  <2>5. Webhook'
    BY <1>0, <2>1, <2>2, <2>4 DEF Webhook
  <2>6. QED BY <1>0, <2>2, <2>3, <2>5
<1>2. CASE Store!CheckEvent(t) /\ op[t] \notin events
  <2>1. /\ thread[t] = "locked" /\ seen[t] = <<>>
        /\ UNCHANGED <<kind, owner, depth, op, accepted, seen, events, total>>
    BY <1>0, <1>2 DEF Store!CheckEvent, Store!At, Store!content, Locking
  <2>2. /\ thread'[t] = "checked"
        /\ \A u \in Threads : u # t =>
             thread'[u] = thread[u] /\ thread'[u] \notin {"locked", "checked", "writing"}
        /\ thread' \in [Threads -> {"idle", "locked", "checked", "writing", "done"}]
    BY <1>0, <1>2, Alone DEF Store!CheckEvent, Store!TypeOK
  <2>3. Store!Done' = Store!Done
    BY <2>1, <2>2 DEF Store!Done
  <2>4. Locking'
    BY <2>1, <2>2, <2>3 DEF Locking
  <2>5. Store!TypeOK'
    BY <1>0, <2>1, <2>2 DEF Store!TypeOK
  <2>6. \A u \in Threads : ~Adding(u) /\ ~Adding(u)'
    BY <1>00, <2>1, <2>2 DEF Adding
  <2>7. /\ \A u \in Threads : thread'[u] # "writing"
        /\ \A u \in Threads : thread'[u] = "checked" => u = t
    BY <2>2
  <2>8. Webhook'
    BY <1>0, <1>2, <2>1, <2>3, <2>6, <2>7 DEF Webhook
  <2>9. QED BY <1>0, <2>1, <2>4, <2>5, <2>8
<1>3. CASE Store!NoteEvent(t)
  <2>1. /\ Store!Note(t, total) /\ events' = events \cup {op[t]} /\ UNCHANGED total
        /\ thread[t] = "checked" /\ op[t] \notin events
    BY <1>0, <1>3 DEF Store!NoteEvent, Store!At, Webhook
  <2>2. /\ Locking' /\ Store!Done' = Store!Done /\ thread'[t] = "writing" /\ seen'[t] = <<total>>
        /\ \A u \in Threads : u # t => thread'[u] \notin {"locked", "checked", "writing"}
        /\ \A u \in Threads : u # t => thread'[u] = thread[u] /\ seen'[u] = seen[u]
        /\ thread' \in [Threads -> {"idle", "locked", "checked", "writing", "done"}]
        /\ seen' \in [Threads -> Seq(Int)]
        /\ UNCHANGED <<kind, owner, depth, op, accepted>>
    <3>1. total \in Int /\ kind # "flags"
      BY <1>0, NumbersAre
    <3>2. QED BY <2>1, <3>1, NoteSteps
  <2>3. Store!TypeOK'
    BY <1>0, <2>1, <2>2 DEF Store!TypeOK
  <2>4. /\ Adding(t)' /\ \A u \in Threads : u # t => ~Adding(u)'
        /\ \A u \in Threads : ~Adding(u)
    BY <1>0, <1>00, <2>1, <2>2 DEF Adding
  <2>5. events' \ {op[t]} = events /\ total = Store!SumSet(events) /\ IsFiniteSet(events')
    BY <1>0, <2>1, <2>4, FS_AddElement DEF Webhook
  <2>6. \A u \in accepted : op[u] # op[t] /\ op[u] \in events'
    BY <1>0, <2>1 DEF Webhook
  <2>7. \A u \in Store!Done : seen'[u] = seen[u] /\ op'[u] = op[u] /\ u \in Threads
    BY <2>1, <2>2 DEF Store!Done
  <2>8. /\ \A u \in Threads : thread'[u] = "writing" => u = t
        /\ \A u \in Threads : thread'[u] # "checked"
    BY <2>2
  <2>9. \A u \in Threads : Adding(u)' =>
          /\ op'[u] \in events' /\ seen'[u] = <<total'>>
          /\ total' = Store!SumSet(events' \ {op'[u]})
          /\ \A v \in accepted' : op'[v] # op'[u]
    BY <2>1, <2>2, <2>4, <2>5, <2>6
  <2>10. /\ \A u \in accepted' : op'[u] \in events'
         /\ \A u, v \in accepted' : u # v => op'[u] # op'[v]
    BY <1>0, <2>2, <2>6 DEF Webhook
  <2>11. \A u \in Threads : thread'[u] = "writing" /\ op'[u] = Store!Read =>
           seen'[u] = <<Store!Cardinality(events')>>
    BY <1>0, <2>2, <2>8
  <2>12. \A u \in Store!Done' : op'[u] = Store!Read =>
           \E S \in SUBSET Operations : seen'[u] = <<Store!Cardinality(S), Store!SumSet(S)>>
    BY <1>000, <2>2, <2>7
  <2>13. ~(\A u \in Threads : ~Adding(u)')
    BY <2>4
  <2>14. Webhook'
    BY <2>5, <2>8, <2>9, <2>10, <2>11, <2>12, <2>13 DEF Webhook
  <2>15. QED BY <1>0, <2>2, <2>3, <2>14
<1>4. CASE Store!AddAmount(t)
  <2>1. /\ thread[t] = "writing" /\ total' = seen[t][1] + op[t] /\ Store!Release(t, TRUE)
        /\ UNCHANGED <<seen, events>>
    BY <1>4 DEF Store!AddAmount, Store!At
  <2>2. /\ Locking' /\ Store!Done' = Store!Done \cup {t} /\ t \notin Store!Done
        /\ \A u \in Threads : thread'[u] \notin {"locked", "checked", "writing"}
        /\ thread' \in [Threads -> {"idle", "locked", "checked", "writing", "done"}]
        /\ accepted' = accepted \cup {t} /\ accepted' \subseteq Threads
        /\ owner' = Store!NoThread /\ depth' = 0
        /\ UNCHANGED <<kind, op>>
    BY <2>1, ReleaseSteps
  <2>3. /\ op[t] \in events /\ seen[t] = <<total>>
        /\ total = Store!SumSet(events \ {op[t]})
        /\ \A u \in accepted : op[u] # op[t] /\ op[u] \in events
    BY <1>0, <2>1 DEF Webhook, Adding
  <2>4. total' = total + op[t] /\ total \in Nat
    <3>1. seen[t][1] = total
      BY <2>3
    <3>2. QED BY <2>1, <3>1, NumbersAre
  <2>5. total' = Store!SumSet(events)
    <3>1. /\ events \ {op[t]} \in SUBSET Int /\ IsFiniteSet(events \ {op[t]})
          /\ op[t] \in Int /\ op[t] \notin events \ {op[t]}
          /\ (events \ {op[t]}) \cup {op[t]} = events
      <4>1. events \in SUBSET Int
        BY DEF Store!TypeOK, Store!Read
      <4>2. IsFiniteSet(events)
        BY <1>0 DEF Webhook
      <4>3. IsFiniteSet(events \ {op[t]})
        BY <4>2, FS_Subset
      <4>4. QED BY <1>0, <2>3, <4>1, <4>3
    <3>2. Store!SumSet((events \ {op[t]}) \cup {op[t]}) = Store!SumSet(events \ {op[t]}) + op[t]
      BY <3>1, SumSetFacts
    <3>3. QED BY <2>3, <2>4, <3>1, <3>2
  <2>6. Store!TypeOK'
    <3>1. total' \in Nat
      BY <1>0, <2>4
    <3>2. QED BY <1>0, <2>1, <2>2, <3>1 DEF Store!TypeOK
  <2>7. \A u \in Threads : ~Adding(u)'
    BY <2>2 DEF Adding
  <2>8. /\ \A u \in accepted' : op[u] \in events
        /\ \A u, v \in accepted' : u # v => op[u] # op[v]
    BY <1>0, <2>2, <2>3 DEF Webhook
  <2>9. \A u \in Store!Done' : op[u] = Store!Read =>
          \E S \in SUBSET Operations : seen[u] = <<Store!Cardinality(S), Store!SumSet(S)>>
    BY <1>0, <1>000, <2>2
  <2>10. Webhook'
    BY <1>0, <2>1, <2>2, <2>5, <2>7, <2>8, <2>9 DEF Webhook
  <2>11. QED BY <1>0, <2>2, <2>6, <2>10
<1>5. QED
  <2>1. Store!CheckEvent(t) \/ Store!NoteEvent(t) \/ Store!AddAmount(t)
    OBVIOUS
  <2>2. QED BY <1>1, <1>2, <1>3, <1>4, <2>1

LEMMA SummaryStores ==
  ASSUME StoresInv, NEW t \in Threads, Store!CountEvents(t) \/ Store!ReadTotal(t) PROVE StoresInv'
<1> USE StoresAssumption DEF StoresInv, Store!StoresAssumption
<1>0. /\ kind = "webhook" /\ Webhook /\ op[t] = Store!Read
      /\ thread[t] \in {"locked", "checked", "writing"}
      /\ UNCHANGED <<stock, events, total, best, flags>>
  BY DEF Store!CountEvents, Store!ReadTotal, Store!At, Store!content
<1>00. \A u \in Threads : ~Adding(u)
  BY <1>0, Alone DEF Adding
<1>000. Store!Cardinality(events) \in Int
  BY <1>0, SameCardinality, FS_CardinalityType DEF Webhook
<1>0a. \A u \in Store!Done : op[u] = Store!Read =>
         \E S \in SUBSET Operations : seen[u] = <<Store!Cardinality(S), Store!SumSet(S)>>
  BY <1>0 DEF Webhook
<1>1. CASE Store!CountEvents(t)
  <2>1. Store!Note(t, Store!Cardinality(events)) /\ thread[t] = "locked"
    BY <1>1 DEF Store!CountEvents, Store!At
  <2>2. /\ Locking' /\ Store!Done' = Store!Done /\ thread'[t] = "writing"
        /\ seen'[t] = <<Store!Cardinality(events)>>
        /\ \A u \in Threads : u # t => thread'[u] \notin {"locked", "checked", "writing"}
        /\ \A u \in Threads : u # t => thread'[u] = thread[u] /\ seen'[u] = seen[u]
        /\ thread' \in [Threads -> {"idle", "locked", "checked", "writing", "done"}]
        /\ seen' \in [Threads -> Seq(Int)]
        /\ UNCHANGED <<kind, owner, depth, op, accepted>>
    <3>1. kind # "flags"
      BY <1>0
    <3>2. QED BY <1>000, <2>1, <3>1, NoteSteps
  <2>3. Store!TypeOK'
    BY <1>0, <2>2 DEF Store!TypeOK
  <2>4. \A u \in Threads : ~Adding(u)'
    BY <1>0, <2>2 DEF Adding
  <2>4a. \A u \in Threads : thread'[u] # "checked"
    BY <2>2
  <2>5. \A u \in Store!Done : u # t /\ u \in Threads
    BY <2>1 DEF Store!Done
  <2>6. \A u \in Threads : thread'[u] = "writing" /\ op'[u] = Store!Read =>
          seen'[u] = <<Store!Cardinality(events')>>
    BY <1>0, <2>2
  <2>7. \A u \in Store!Done' : op'[u] = Store!Read =>
          \E S \in SUBSET Operations : seen'[u] = <<Store!Cardinality(S), Store!SumSet(S)>>
    BY <1>0, <1>0a, <2>2, <2>5
  <2>8. Webhook'
    BY <1>0, <1>00, <2>2, <2>4, <2>4a, <2>6, <2>7 DEF Webhook
  <2>9. QED BY <1>0, <2>2, <2>3, <2>8
<1>2. CASE Store!ReadTotal(t)
  <2>1. /\ thread[t] = "writing" /\ Store!Release(t, FALSE)
        /\ seen' = [seen EXCEPT ![t] = Append(@, total)]
    BY <1>2 DEF Store!ReadTotal, Store!At
  <2>2. /\ \A u \in Threads : u # t => seen'[u] = seen[u]
        /\ seen' \in [Threads -> Seq(Int)]
        /\ seen'[t] = <<Store!Cardinality(events), Store!SumSet(events)>>
    <3>1. seen[t] = <<Store!Cardinality(events)>> /\ total = Store!SumSet(events)
      BY <1>0, <1>00, <2>1 DEF Webhook
    <3>2. total \in Int
      BY NumbersAre
    <3>3. seen'[t] = Append(seen[t], total) /\ seen[t] \in Seq(Int)
      BY <2>1 DEF Store!TypeOK
    <3>4. Append(seen[t], total) \in Seq(Int)
      BY <3>2, <3>3
    <3>5. seen'[t] = <<Store!Cardinality(events), Store!SumSet(events)>>
      <4> DEFINE c == Store!Cardinality(events)
                 a == Store!SumSet(events)
      <4>1. c \in Int /\ a \in Int /\ seen'[t] = Append(<<c>>, a)
        BY <1>000, <3>1, <3>2, <3>3
      <4> HIDE DEF c, a
      <4> DEFINE s == Append(<<c>>, a)
                 z == <<c, a>>
      <4>2. /\ s \in Seq(Int) /\ z \in Seq(Int)
            /\ Len(s) = 2 /\ Len(z) = 2
            /\ s[1] = z[1] /\ s[2] = z[2]
        BY <4>1
      <4> HIDE DEF s, z
      <4>3. s = z
        BY <4>2, SeqEqual
      <4>4. QED BY <4>1, <4>3 DEF c, a, s, z
    <3>6. QED BY <2>1, <3>3, <3>4, <3>5 DEF Store!TypeOK
  <2>3. /\ Locking' /\ Store!Done' = Store!Done \cup {t} /\ t \notin Store!Done
        /\ \A u \in Threads : thread'[u] \notin {"locked", "checked", "writing"}
        /\ thread' \in [Threads -> {"idle", "locked", "checked", "writing", "done"}]
        /\ accepted' = accepted
        /\ owner' = Store!NoThread /\ depth' = 0
        /\ UNCHANGED <<kind, op>>
    BY <2>1, <2>2, ReleaseSteps
  <2>4. Store!TypeOK'
    BY <1>0, <2>2, <2>3 DEF Store!TypeOK
  <2>5. \A u \in Threads : ~Adding(u)'
    BY <2>3 DEF Adding
  <2>6. \A u \in Store!Done' : op'[u] = Store!Read =>
          \E S \in SUBSET Operations : seen'[u] = <<Store!Cardinality(S), Store!SumSet(S)>>
    <3>1. events \in SUBSET Operations
      BY DEF Store!TypeOK
    <3>2. \A u \in Store!Done : u # t /\ u \in Threads
      BY <2>3 DEF Store!Done
    <3>3. QED BY <1>0, <1>0a, <2>2, <2>3, <3>1, <3>2
  <2>7. Webhook'
    BY <1>0, <1>00, <2>3, <2>5, <2>6 DEF Webhook
  <2>8. QED BY <1>0, <2>3, <2>4, <2>7
<1>3. QED BY <1>1, <1>2

LEMMA ScoreStores ==
  ASSUME StoresInv, NEW t \in Threads, Store!ReadScore(t) \/ Store!RecordScore(t) PROVE StoresInv'
<1> USE StoresAssumption DEF StoresInv, Store!StoresAssumption
<1>0. kind = "leaderboard" /\ Board
  BY DEF Store!ReadScore, Store!RecordScore, Store!At
<1>1. CASE Store!ReadScore(t)
  <2>1. /\ thread[t] = "locked" /\ Store!Note(t, best)
        /\ UNCHANGED <<stock, events, total, best, flags>>
    BY <1>1 DEF Store!ReadScore, Store!At, Store!content
  <2>2. /\ Locking' /\ Store!Done' = Store!Done /\ seen'[t] = <<best>>
        /\ \A u \in Threads : u # t => thread'[u] \notin {"locked", "checked", "writing"}
        /\ thread' \in [Threads -> {"idle", "locked", "checked", "writing", "done"}]
        /\ seen' \in [Threads -> Seq(Int)]
        /\ UNCHANGED <<kind, owner, depth, op, accepted>>
    <3>1. best \in Int /\ kind # "flags"
      BY <1>0, NumbersAre
    <3>2. QED BY <2>1, <3>1, NoteSteps
  <2>3. Store!TypeOK'
    BY <2>1, <2>2 DEF Store!TypeOK
  <2>4. Board'
    BY <1>0, <2>1, <2>2 DEF Board
  <2>5. QED BY <1>0, <2>2, <2>3, <2>4
<1>2. CASE Store!RecordScore(t)
  <2>1. /\ thread[t] = "writing" /\ Store!Release(t, FALSE)
        /\ best' = (IF op[t] > seen[t][1] THEN op[t] ELSE best)
        /\ UNCHANGED <<seen, stock, events, total, flags>>
    BY <1>2 DEF Store!RecordScore, Store!At
  <2>2. seen[t][1] = best
    BY <1>0, <2>1 DEF Board
  <2>3. best' \in Int /\ best' >= best /\ best' >= op[t]
    BY <2>1, <2>2, NumbersAre
  <2>4. /\ Locking' /\ Store!Done' = Store!Done \cup {t} /\ t \notin Store!Done
        /\ \A u \in Threads : thread'[u] \notin {"locked", "checked", "writing"}
        /\ thread' \in [Threads -> {"idle", "locked", "checked", "writing", "done"}]
        /\ accepted' = accepted
        /\ owner' = Store!NoThread /\ depth' = 0
        /\ UNCHANGED <<kind, op>>
    BY <2>1, ReleaseSteps
  <2>5. Store!TypeOK'
    BY <2>1, <2>3, <2>4 DEF Store!TypeOK
  <2>6. \A u \in Store!Done' : best' >= op[u]
    <3>1. \A u \in Store!Done : u \in Threads /\ best >= op[u] /\ op[u] \in Int
      BY <1>0, NumbersAre DEF Board, Store!Done
    <3>2. QED BY <2>3, <2>4, <3>1, NumbersAre
  <2>7. Board'
    BY <2>4, <2>6 DEF Board
  <2>8. QED BY <1>0, <2>4, <2>5, <2>7
<1>3. QED BY <1>1, <1>2

LEMMA FlagsStores ==
  ASSUME StoresInv, NEW t \in Threads,
         Store!ReplaceAll(t) \/ Store!AcquireAgain(t) \/ Store!IsEnabled(t) \/ Store!EnabledFlags(t)
  PROVE  StoresInv'
<1> USE StoresAssumption DEF StoresInv, Store!StoresAssumption
<1>0. /\ kind = "flags" /\ Flags /\ thread[t] = "locked"
      /\ UNCHANGED <<stock, events, total, best>>
  BY DEF Store!ReplaceAll, Store!AcquireAgain, Store!IsEnabled,
         Store!EnabledFlags, Store!Reading, Store!At, Store!content
<1>00. /\ \A u \in Threads : u # t => thread[u] # "locked"
       /\ t \notin Store!Done /\ seen[t] \in Seq(Int) /\ Len(seen[t]) \in Nat
  BY <1>0, Alone DEF Store!Done, Store!TypeOK
<1>000. flags \in {<<0, 1>>, <<1, 0>>} /\ Len(flags) = 2
  BY SnapshotIs DEF Store!TypeOK
<1>1. ASSUME Store!Release(t, FALSE), UNCHANGED seen,
             flags' \in {Store!Snapshot(0), Store!Snapshot(1)},
             op[t] = Store!Read => seen[t] \in {Store!Snapshot(0), Store!Snapshot(1)}
      PROVE  StoresInv'
  <2>1. /\ Locking' /\ Store!Done' = Store!Done \cup {t} /\ t \notin Store!Done
        /\ \A u \in Threads : thread'[u] \notin {"locked", "checked", "writing"}
        /\ thread' \in [Threads -> {"idle", "locked", "checked", "writing", "done"}]
        /\ accepted' = accepted
        /\ owner' = Store!NoThread /\ depth' = 0
        /\ UNCHANGED <<kind, op>>
    BY <1>0, <1>1, ReleaseSteps
  <2>2. Store!TypeOK'
    BY <1>0, <1>1, <2>1 DEF Store!TypeOK
  <2>3. Flags'
    BY <1>0, <1>1, <2>1 DEF Flags
  <2>4. QED BY <1>0, <2>1, <2>2, <2>3
<1>2. CASE Store!ReplaceAll(t)
  <2>1. op[t] \in Nat /\ op[t] # Store!Read /\ flags' = Store!Snapshot(op[t])
    BY <1>2, NumbersAre DEF Store!ReplaceAll
  <2>2. QED BY <1>1, <1>2, <2>1, SnapshotIs DEF Store!ReplaceAll
<1>3. CASE Store!EnabledFlags(t)
  <2>1. /\ Len(seen[t]) = 2 /\ Store!Release(t, FALSE) /\ UNCHANGED <<seen, flags>>
    BY <1>000, <1>3 DEF Store!EnabledFlags, Store!content
  <2>2. \A k \in 1 .. 2 : seen[t][k] = flags[k]
    BY <1>0, <2>1 DEF Flags
  <2>3. seen[t] = flags
    BY <1>00, <1>000, <2>1, <2>2
  <2>4. QED BY <1>1, <2>1, <2>3 DEF Store!TypeOK
<1>4. CASE Store!AcquireAgain(t)
  <2>1. /\ Len(seen[t]) < 2 /\ depth' = 2
        /\ UNCHANGED <<kind, owner, thread, op, seen, accepted, flags>>
    BY <1>000, <1>4 DEF Store!AcquireAgain, Store!content
  <2>2. Store!TypeOK'
    BY <1>0, <2>1 DEF Store!TypeOK
  <2>3. Locking'
    BY <2>1 DEF Locking, Store!Done
  <2>4. Flags'
    BY <1>0, <1>00, <2>1 DEF Flags, Store!Done
  <2>5. QED BY <1>0, <2>1, <2>2, <2>3, <2>4
<1>5. CASE Store!IsEnabled(t)
  <2>1. /\ depth = 2 /\ depth' = 1
        /\ seen' = [seen EXCEPT ![t] = Append(@, flags[Len(@) + 1])]
        /\ UNCHANGED <<kind, owner, thread, op, accepted, flags>>
    BY <1>5 DEF Store!IsEnabled, Store!content
  <2>2. /\ Len(seen[t]) < 2 /\ \A k \in 1 .. Len(seen[t]) : seen[t][k] = flags[k]
    BY <1>0, <2>1 DEF Flags
  <2> DEFINE s == seen[t]
             x == flags[Len(s) + 1]
  <2>3. x \in Int /\ s \in Seq(Int) /\ Len(s) < 2 /\ seen'[t] = Append(s, x)
    BY <1>00, <1>000, <2>1, <2>2 DEF Store!TypeOK
  <2>4. \A u \in Threads : u # t => seen'[u] = seen[u]
    BY <2>1 DEF Store!TypeOK
  <2>5. /\ Append(s, x) \in Seq(Int) /\ Len(Append(s, x)) = Len(s) + 1
        /\ \A k \in 1 .. Len(s) : Append(s, x)[k] = s[k]
        /\ Append(s, x)[Len(s) + 1] = x
    BY <2>3
  <2>6. /\ Len(seen'[t]) <= 2
        /\ \A k \in 1 .. Len(seen'[t]) : seen'[t][k] = flags[k]
    <3>1. \A k \in 1 .. (Len(s) + 1) : k \in 1 .. Len(s) \/ k = Len(s) + 1
      BY <1>00
    <3>2. \A k \in 1 .. (Len(s) + 1) : Append(s, x)[k] = flags[k]
      BY <2>2, <2>5, <3>1
    <3>3. Len(s) + 1 <= 2
      BY <1>00, <2>2
    <3>4. QED BY <2>3, <2>5, <3>2, <3>3
  <2>7. Store!TypeOK'
    BY <1>0, <2>1, <2>3, <2>5 DEF Store!TypeOK
  <2>8. Locking'
    <3>1. thread[t] # "idle" /\ kind = "flags"
      BY <1>0
    <3>2. QED BY <2>1, <2>4, <3>1 DEF Locking, Store!Done
  <2>9. Flags'
    <3>1. \A u \in Threads : thread'[u] = "locked" => u = t
      BY <1>00, <2>1
    <3>2. \A u \in Threads : thread'[u] = "locked" =>
            /\ Len(seen'[u]) <= 2
            /\ \A k \in 1 .. Len(seen'[u]) : seen'[u][k] = flags'[k]
            /\ depth' = 2 => Len(seen'[u]) < 2
      BY <2>1, <2>6, <3>1
    <3>3. \A u \in Store!Done' : u \in Store!Done /\ seen'[u] = seen[u] /\ op'[u] = op[u]
      BY <1>00, <2>1, <2>4 DEF Store!Done
    <3>4. \A u \in Threads : thread'[u] # "writing"
      BY <1>0, <2>1 DEF Flags
    <3>5. \A u \in Store!Done' : op'[u] = Store!Read =>
            seen'[u] \in {Store!Snapshot(0), Store!Snapshot(1)}
      BY <1>0, <3>3 DEF Flags
    <3>6. QED BY <3>2, <3>4, <3>5 DEF Flags
  <2>10. QED BY <1>0, <2>1, <2>7, <2>8, <2>9
<1>6. QED BY <1>2, <1>3, <1>4, <1>5

LEMMA StoresNext == StoresInv /\ [Store!Next]_Store!storeVars => StoresInv'
<1> SUFFICES ASSUME StoresInv, [Store!Next]_Store!storeVars PROVE StoresInv'
  OBVIOUS
<1>1. ASSUME NEW t \in Threads, Store!Operate(t) PROVE StoresInv'
  BY <1>1, StockStores, EventStores, SummaryStores, ScoreStores, FlagsStores DEF
       Store!Operate
<1>2. CASE UNCHANGED Store!storeVars
  <2>1. UNCHANGED <<kind, owner, depth, thread, op, seen, accepted, stock, events,
                    total, best, flags>>
    BY <1>2 DEF Store!storeVars
  <2>2. Store!TypeOK' /\ Locking'
    BY <2>1 DEF StoresInv, Store!TypeOK, Locking, Store!Done
  <2>3. Store!Done' = Store!Done /\ \A t \in Threads : Adding(t)' <=> Adding(t)
    BY <2>1 DEF Store!Done, Adding
  <2>4. Inventory => Inventory'
    BY <2>1, <2>3 DEF Inventory
  <2>5. Webhook => Webhook'
    BY <2>1, <2>3 DEF Webhook
  <2>6. (Board => Board') /\ (Flags => Flags')
    BY <2>1, <2>3 DEF Board, Flags
  <2>7. QED BY <2>1, <2>2, <2>4, <2>5, <2>6 DEF StoresInv
<1>3. QED BY <1>1, <1>2, AcquireStores DEF Store!Next

LEMMA StoresInvLooksAtomic == StoresInv => Store!LooksAtomic
<1> SUFFICES ASSUME StoresInv PROVE Store!LooksAtomic
  OBVIOUS
<1> USE StoresAssumption DEF StoresInv, Store!StoresAssumption
<1>1. CASE kind = "inventory"
  BY <1>1 DEF Store!LooksAtomic, Inventory, Store!StockIsExact, Sum
<1>2. CASE kind = "webhook"
  <2>1. owner = Store!NoThread => \A t \in Threads : ~Adding(t)
    BY DEF Locking, Adding
  <2>2. Store!EventsCountOnce
    BY <1>2, <2>1 DEF Webhook, Store!EventsCountOnce
  <2>3. QED BY <1>2, <2>2 DEF Store!LooksAtomic
<1>3. CASE kind = "leaderboard"
  BY <1>3 DEF Store!LooksAtomic, Board, Store!BestIsKept
<1>4. CASE kind = "flags"
  BY <1>4 DEF Store!LooksAtomic, Flags, Store!SnapshotIsOne
<1>5. QED BY <1>1, <1>2, <1>3, <1>4 DEF Store!TypeOK, Store!Kinds

(* Every store looks as if its operations happened one after the other,    *)
(* each at once: nothing oversold, no event counted twice or missing from a*)
(* summary, no score lost to a lower one, no mixture of two snapshots.     *)
THEOREM StoresAreAtomic == MCSpec => []StoresLookAtomic
<1>1. IInv /\ StoresInv => StoresLookAtomic
  BY StoresInvLooksAtomic DEF StoresLookAtomic, TypesOK, IInv, StoresInv
<1>2. QED
  BY <1>1, RunIInv, RunTakesTheirSteps, StoresInit, StoresNext, PTL
=============================================================================
