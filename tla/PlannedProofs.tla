---------------------------- MODULE PlannedProofs ----------------------------
(***************************************************************************)
(* What a plan does with the stops, for any problems: the best solution of *)
(* the search serves every stop that can be carried, and an answered plan  *)
(* visits no stop twice.                                                   *)
(***************************************************************************)
EXTENDS PlanningProofs

----------------------------------------------------------------------------
(* The places of a solution *)

\* The places in the plans of all vehicles but those in V, and in all plans.
OtherSlots(plans, V) == UNION {{w} \X (DOMAIN plans[w]) : w \in Vehicles \ V}

Slots(plans) == OtherSlots(plans, {})

LEMMA SlotPairs ==
    ASSUME NEW plans \in Plans, NEW V
    PROVE  /\ \A x \in OtherSlots(plans, V) :
                 /\ x[1] \in Vehicles \ V /\ x[2] \in 1 .. Len(plans[x[1]])
                 /\ x = <<x[1], x[2]>>
           /\ \A v \in Vehicles \ V : \A i \in 1 .. Len(plans[v]) :
                 <<v, i>> \in OtherSlots(plans, V)
<1>1. \A v \in Vehicles : DOMAIN plans[v] = 1 .. Len(plans[v])
  <2>1. \A v \in Vehicles : plans[v] \in Seq(Stops)
    BY DEF Plans
  <2> QED BY <2>1, Places
<1> QED BY <1>1 DEF OtherSlots

LEMMA PairsOf ==
    ASSUME NEW v, NEW n \in Nat
    PROVE  /\ IsFiniteSet({v} \X (1 .. n))
           /\ Cardinality({v} \X (1 .. n)) = n
<1>1. n \in Int /\ 1 \in Int
  OBVIOUS
<1>2. /\ IsFiniteSet(1 .. n)
      /\ Cardinality(1 .. n) = IF 1 > n THEN 0 ELSE n - 1 + 1
  BY <1>1, FS_Interval
<1>3. IsFiniteSet({v}) /\ Cardinality({v}) = 1
  BY FS_Singleton
<1>4. /\ IsFiniteSet({v} \X (1 .. n))
      /\ Cardinality({v} \X (1 .. n)) = Cardinality({v}) * Cardinality(1 .. n)
  BY <1>2, <1>3, FS_Product
<1>5. Cardinality(1 .. n) = n
  BY <1>2
<1> QED BY <1>3, <1>4, <1>5

LEMMA SlotsFinite ==
    ASSUME prob \in Problems, NEW plans \in Plans, NEW V
    PROVE  IsFiniteSet(OtherSlots(plans, V)) /\ Cardinality(OtherSlots(plans, V)) \in Nat
<1> DEFINE part == [v \in Vehicles \ V |-> {v} \X (DOMAIN plans[v])]
           P == {part[v] : v \in Vehicles \ V}
<1>1. OtherSlots(plans, V) = UNION P
  BY DEF OtherSlots
<1>2. IsFiniteSet(P)
  <2>1. IsFiniteSet(Vehicles \ V)
    BY FiniteProblem, FS_Subset
  <2>2. part \in Surjection(Vehicles \ V, P)
    BY DEF Surjection
  <2> HIDE DEF part, P
  <2> QED BY <2>1, <2>2, FS_Surjection
<1>3. ASSUME NEW v \in Vehicles \ V PROVE IsFiniteSet(part[v])
  <2>1. plans[v] \in Seq(Stops)
    BY DEF Plans
  <2>2. Len(plans[v]) \in Nat /\ DOMAIN plans[v] = 1 .. Len(plans[v])
    BY <2>1, Places
  <2>3. IsFiniteSet({v} \X (1 .. Len(plans[v])))
    BY <2>2, PairsOf
  <2> QED BY <2>2, <2>3
<1>4. IsFiniteSet(UNION P)
  <2>1. \A T \in P : IsFiniteSet(T)
    BY <1>3
  <2> HIDE DEF P
  <2> QED BY <1>2, <2>1, FS_UNION
<1> QED BY <1>1, <1>4, FS_CardinalityType

\* The places of one more plan come on top of the others.
LEMMA SlotsOfOne ==
    ASSUME prob \in Problems, NEW plans \in Plans, NEW V, NEW v \in Vehicles \ V
    PROVE  Cardinality(OtherSlots(plans, V))
             = Cardinality(OtherSlots(plans, V \union {v})) + Len(plans[v])
<1> DEFINE here == {v} \X (1 .. Len(plans[v]))
           rest == OtherSlots(plans, V \union {v})
<1>1. plans[v] \in Seq(Stops)
  BY DEF Plans
<1>2. Len(plans[v]) \in Nat /\ DOMAIN plans[v] = 1 .. Len(plans[v])
  BY <1>1, Places
<1>3. OtherSlots(plans, V) = rest \union here
  <2>1. \A x \in OtherSlots(plans, V) : x \in rest \/ x \in here
    BY <1>2 DEF OtherSlots
  <2>2. \A x \in rest : x \in OtherSlots(plans, V)
    BY DEF OtherSlots
  <2>3. \A x \in here : x \in OtherSlots(plans, V)
    BY <1>2 DEF OtherSlots
  <2> QED BY <2>1, <2>2, <2>3
<1>4. rest \cap here = {}
  <2>1. \A x \in rest : x[1] \notin V \union {v}
    BY SlotPairs
  <2>2. \A x \in here : x[1] = v
    OBVIOUS
  <2> QED BY <2>1, <2>2
<1>5. IsFiniteSet(here) /\ Cardinality(here) = Len(plans[v])
  BY <1>2, PairsOf
<1>6. IsFiniteSet(rest) /\ Cardinality(rest) \in Nat
  BY SlotsFinite
<1> HIDE DEF here, rest
<1>7. Cardinality(rest \union here)
        = Cardinality(rest) + Cardinality(here) - Cardinality(rest \cap here)
  BY <1>5, <1>6, FS_Union
<1>8. Cardinality(rest \cap here) = 0
  BY <1>4, FS_EmptySet
<1> QED BY <1>2, <1>3, <1>5, <1>6, <1>7, <1>8 DEF rest

LEMMA SlotsPut ==
    ASSUME prob \in Problems, NEW plans \in Plans, NEW v \in Vehicles, NEW o \in Seq(Stops)
    PROVE  /\ Len(plans[v]) \in Nat /\ Len(o) \in Nat
           /\ Cardinality(Slots(plans)) \in Nat
           /\ Cardinality(Slots([plans EXCEPT ![v] = o]))
                = Cardinality(Slots(plans)) - Len(plans[v]) + Len(o)
<1> DEFINE new == [plans EXCEPT ![v] = o]
<1>1. new \in Plans /\ new[v] = o /\ \A w \in Vehicles \ {v} : new[w] = plans[w]
  BY DEF Plans
<1>2. plans[v] \in Seq(Stops)
  BY DEF Plans
<1>3. Len(plans[v]) \in Nat /\ Len(o) \in Nat
  BY <1>2, Places
<1> HIDE DEF new
<1>4. OtherSlots(new, {v}) = OtherSlots(plans, {v})
  <2>1. ASSUME NEW w \in Vehicles \ {v} PROVE {w} \X (DOMAIN new[w]) = {w} \X (DOMAIN plans[w])
    BY <1>1
  <2> QED BY <2>1 DEF OtherSlots
<1>5. {} \union {v} = {v} /\ v \in Vehicles \ {}
  OBVIOUS
<1>6. Cardinality(Slots(plans)) = Cardinality(OtherSlots(plans, {v})) + Len(plans[v])
  BY <1>5, SlotsOfOne DEF Slots
<1>7. Cardinality(Slots(new)) = Cardinality(OtherSlots(new, {v})) + Len(new[v])
  BY <1>1, <1>5, SlotsOfOne, ZenonT(40) DEF Slots
<1>8. Cardinality(OtherSlots(plans, {v})) \in Nat
  BY SlotsFinite
<1>9. Cardinality(Slots(new)) = Cardinality(Slots(plans)) - Len(plans[v]) + Len(o)
  BY <1>1, <1>3, <1>4, <1>6, <1>7, <1>8
<1>10. Cardinality(Slots(plans)) \in Nat
  BY <1>3, <1>6, <1>8
<1> QED BY <1>3, <1>9, <1>10 DEF new

LEMMA SlotsPutTwo ==
    ASSUME prob \in Problems, NEW plans \in Plans, NEW a \in Vehicles, NEW b \in Vehicles,
           a # b, NEW o \in Seq(Stops), NEW p \in Seq(Stops)
    PROVE  Cardinality(Slots([plans EXCEPT ![a] = o, ![b] = p]))
             = Cardinality(Slots(plans)) - Len(plans[a]) - Len(plans[b]) + Len(o) + Len(p)
<1> DEFINE mid == [plans EXCEPT ![a] = o]
<1>1. mid \in Plans /\ mid[b] = plans[b]
  BY DEF Plans
<1>2. [plans EXCEPT ![a] = o, ![b] = p] = [mid EXCEPT ![b] = p]
  OBVIOUS
<1>3. /\ Len(plans[a]) \in Nat /\ Len(o) \in Nat /\ Cardinality(Slots(plans)) \in Nat
      /\ Cardinality(Slots(mid)) = Cardinality(Slots(plans)) - Len(plans[a]) + Len(o)
  BY SlotsPut
<1> HIDE DEF mid
<1>4. /\ Len(mid[b]) \in Nat /\ Len(p) \in Nat
      /\ Cardinality(Slots([mid EXCEPT ![b] = p]))
           = Cardinality(Slots(mid)) - Len(mid[b]) + Len(p)
  BY <1>1, SlotsPut
<1> QED BY <1>1, <1>2, <1>3, <1>4

\* The stop at a place.
StopAt(plans, x) == plans[x[1]][x[2]]

LEMMA ServedSlots ==
    ASSUME NEW plans \in Plans
    PROVE  /\ \A x \in Slots(plans) : StopAt(plans, x) \in Served(plans)
           /\ \A n \in Served(plans) : \E x \in Slots(plans) : StopAt(plans, x) = n
<1>0. \A v \in Vehicles : plans[v] \in Seq(Stops)
  BY DEF Plans
<1>1. ASSUME NEW x \in Slots(plans) PROVE StopAt(plans, x) \in Served(plans)
  <2>1. x[1] \in Vehicles /\ x[2] \in 1 .. Len(plans[x[1]])
    BY SlotPairs DEF Slots
  <2>2. plans[x[1]][x[2]] \in ToSet(plans[x[1]])
    BY <1>0, <2>1, Places
  <2> QED BY <2>1, <2>2 DEF Served, StopAt
<1>2. ASSUME NEW n \in Served(plans) PROVE \E x \in Slots(plans) : StopAt(plans, x) = n
  <2>1. PICK v \in Vehicles : n \in ToSet(plans[v])
    BY DEF Served
  <2>2. PICK i \in 1 .. Len(plans[v]) : plans[v][i] = n
    BY <1>0, <2>1, Places
  <2>3. <<v, i>> \in Slots(plans) /\ StopAt(plans, <<v, i>>) = n
    BY <2>2, SlotPairs DEF Slots, StopAt
  <2> QED BY <2>3
<1> QED BY <1>1, <1>2

\* A solution with no more places than stops it serves holds none of them twice.
LEMMA OnceByCount ==
    ASSUME prob \in Problems, NEW plans \in Plans,
           Cardinality(Slots(plans)) <= Cardinality(Served(plans))
    PROVE  NoneTwice(plans)
<1> DEFINE f == [x \in Slots(plans) |-> StopAt(plans, x)]
<1>1. IsFiniteSet(Slots(plans)) /\ Cardinality(Slots(plans)) \in Nat
  BY SlotsFinite DEF Slots
<1>2. f \in Surjection(Slots(plans), Served(plans))
  BY ServedSlots DEF Surjection
<1>3. /\ Cardinality(Served(plans)) <= Cardinality(Slots(plans))
      /\ Cardinality(Served(plans)) = Cardinality(Slots(plans))
           <=> f \in Injection(Slots(plans), Served(plans))
  <2> HIDE DEF f
  <2> QED BY <1>1, <1>2, FS_Surjection
<1>4. Cardinality(Served(plans)) \in Nat
  BY ServedStops, FS_CardinalityType
<1>5. f \in Injection(Slots(plans), Served(plans))
  BY <1>1, <1>3, <1>4
<1>6. \A x, y \in Slots(plans) : StopAt(plans, x) = StopAt(plans, y) => x = y
  BY <1>5 DEF Injection, IsInjective
<1>7. ASSUME NEW v \in Vehicles, NEW w \in Vehicles,
             NEW i \in 1 .. Len(plans[v]), NEW j \in 1 .. Len(plans[w]),
             plans[v][i] = plans[w][j]
      PROVE  v = w /\ i = j
  <2>1. <<v, i>> \in Slots(plans) /\ <<w, j>> \in Slots(plans)
    BY SlotPairs DEF Slots
  <2>2. StopAt(plans, <<v, i>>) = StopAt(plans, <<w, j>>)
    BY <1>7 DEF StopAt
  <2>3. <<v, i>> = <<w, j>>
    BY <1>6, <2>1, <2>2
  <2> QED BY <2>3
<1>8. DOMAIN plans = Vehicles /\ \A v \in Vehicles : DOMAIN plans[v] = 1 .. Len(plans[v])
  <2>1. DOMAIN plans = Vehicles /\ \A v \in Vehicles : plans[v] \in Seq(Stops)
    BY DEF Plans
  <2> QED BY <2>1, Places
<1> QED BY <1>7, <1>8 DEF NoneTwice

\* A solution that holds no stop twice has as many places as stops it serves.
LEMMA CountOfOnce ==
    ASSUME prob \in Problems, NEW plans \in Plans, NoneTwice(plans)
    PROVE  Cardinality(Slots(plans)) = Cardinality(Served(plans))
<1> DEFINE f == [x \in Slots(plans) |-> StopAt(plans, x)]
<1>1. IsFiniteSet(Slots(plans))
  BY SlotsFinite DEF Slots
<1>2. f \in Surjection(Slots(plans), Served(plans))
  BY ServedSlots DEF Surjection
<1>3. f \in Injection(Slots(plans), Served(plans))
  <2>1. DOMAIN plans = Vehicles /\ \A v \in Vehicles : DOMAIN plans[v] = 1 .. Len(plans[v])
    <3>1. DOMAIN plans = Vehicles /\ \A v \in Vehicles : plans[v] \in Seq(Stops)
      BY DEF Plans
    <3> QED BY <3>1, Places
  <2>2. ASSUME NEW x \in Slots(plans), NEW y \in Slots(plans), f[x] = f[y] PROVE x = y
    <3>1. /\ x[1] \in Vehicles /\ x[2] \in DOMAIN plans[x[1]] /\ x = <<x[1], x[2]>>
          /\ y[1] \in Vehicles /\ y[2] \in DOMAIN plans[y[1]] /\ y = <<y[1], y[2]>>
      BY <2>1, SlotPairs DEF Slots
    <3>2. plans[x[1]][x[2]] = plans[y[1]][y[2]]
      BY <2>2 DEF StopAt
    <3>3. x[1] = y[1] /\ x[2] = y[2]
      BY <2>1, <3>1, <3>2 DEF NoneTwice
    <3> QED BY <3>1, <3>3
  <2> QED BY <2>2, ServedSlots DEF Injection, IsInjective
<1> HIDE DEF f
<1> QED BY <1>1, <1>2, <1>3, FS_Surjection

----------------------------------------------------------------------------
(* What a removal takes out *)

\* The places that hold a stop of S.
Taken(plans, S) == {x \in Slots(plans) : StopAt(plans, x) \in S}

\* The places that are left when stops are taken out are places that did not hold them.
LEMMA KeptSlots ==
    ASSUME prob \in Problems, NEW plans \in Plans, NEW S
    PROVE  LET new == [v \in Vehicles |-> Without(plans[v], S)] IN
           /\ new \in Plans
           /\ Cardinality(Slots(new)) + Cardinality(Taken(plans, S)) <= Cardinality(Slots(plans))
           /\ Cardinality(Taken(plans, S)) \in Nat /\ IsFiniteSet(Taken(plans, S))
           /\ Cardinality(Slots(new)) \in Nat
<1> DEFINE new == [v \in Vehicles |-> Without(plans[v], S)]
           I(v) == {i \in DOMAIN plans[v] : plans[v][i] \notin S}
           Kept == Slots(plans) \ Taken(plans, S)
           back == [x \in Slots(new) |-> <<x[1], Place(I(x[1]), x[2])>>]
<1>0. \A v \in Vehicles : plans[v] \in Seq(Stops)
  BY DEF Plans
<1>1. new \in Plans
  BY <1>0, WithoutPlaces DEF Plans
<1>2. ASSUME NEW v \in Vehicles
      PROVE  /\ Len(new[v]) = Cardinality(I(v))
             /\ \A k \in 1 .. Len(new[v]) :
                   /\ Place(I(v), k) \in 1 .. Len(plans[v])
                   /\ plans[v][Place(I(v), k)] \notin S
             /\ \A k, l \in 1 .. Len(new[v]) : k < l => Place(I(v), k) < Place(I(v), l)
  <2>1. new[v] = Subsequence(plans[v], I(v))
    BY DEF Without
  <2>2. I(v) \in SUBSET DOMAIN plans[v] /\ \A i \in I(v) : plans[v][i] \notin S
    OBVIOUS
  <2> HIDE DEF I, new
  <2>3. /\ Len(Subsequence(plans[v], I(v))) = Cardinality(I(v))
        /\ \A k \in 1 .. Cardinality(I(v)) : Place(I(v), k) \in I(v)
        /\ \A k, l \in 1 .. Cardinality(I(v)) : k < l => Place(I(v), k) < Place(I(v), l)
    BY <1>0, <2>2, SubsequenceFacts
  <2>4. DOMAIN plans[v] = 1 .. Len(plans[v])
    BY <1>0, Places
  <2> QED BY <2>1, <2>2, <2>3, <2>4
<1>3. ASSUME NEW x \in Slots(new)
      PROVE  x[1] \in Vehicles /\ x[2] \in 1 .. Len(new[x[1]]) /\ x = <<x[1], x[2]>>
  BY <1>1, SlotPairs DEF Slots
<1> HIDE DEF I, new
<1>4. ASSUME NEW x \in Slots(new) PROVE back[x] \in Kept
  <2>1. /\ x[1] \in Vehicles /\ Place(I(x[1]), x[2]) \in 1 .. Len(plans[x[1]])
        /\ plans[x[1]][Place(I(x[1]), x[2])] \notin S
    BY <1>2, <1>3
  <2>2. <<x[1], Place(I(x[1]), x[2])>> \in Slots(plans)
    BY <2>1, SlotPairs DEF Slots
  <2> QED BY <2>1, <2>2 DEF Taken, StopAt
<1>5. ASSUME NEW x \in Slots(new), NEW y \in Slots(new), back[x] = back[y] PROVE x = y
  <2>1. x[1] = y[1] /\ Place(I(x[1]), x[2]) = Place(I(x[1]), y[2])
    BY <1>5
  <2>2. x[2] \in 1 .. Len(new[x[1]]) /\ y[2] \in 1 .. Len(new[x[1]]) /\ x[1] \in Vehicles
    BY <1>3, <2>1
  <2>3. Place(I(x[1]), x[2]) \in Int /\ Place(I(x[1]), y[2]) \in Int
    BY <1>2, <2>2
  <2>4. ~(x[2] < y[2]) /\ ~(y[2] < x[2])
    BY <1>2, <2>1, <2>2, <2>3
  <2>5. x[2] = y[2]
    BY <2>2, <2>4
  <2> QED BY <1>3, <2>1, <2>5
<1>6. back \in Injection(Slots(new), Kept)
  BY <1>4, <1>5 DEF Injection, IsInjective
<1>7. IsFiniteSet(Slots(plans)) /\ Cardinality(Slots(plans)) \in Nat
  BY SlotsFinite DEF Slots
<1>8. /\ Taken(plans, S) \subseteq Slots(plans) /\ IsFiniteSet(Taken(plans, S))
      /\ Cardinality(Taken(plans, S)) \in Nat
  <2>1. Taken(plans, S) \subseteq Slots(plans)
    BY DEF Taken
  <2> QED BY <1>7, <2>1, FS_Subset, FS_CardinalityType
<1>9. IsFiniteSet(Kept) /\ Cardinality(Kept) = Cardinality(Slots(plans)) - Cardinality(Taken(plans, S))
  <2>1. Slots(plans) \cap Taken(plans, S) = Taken(plans, S)
    BY <1>8
  <2> QED BY <1>7, <2>1, FS_Difference
<1>10. Cardinality(Slots(new)) <= Cardinality(Kept)
  <2> HIDE DEF back, Kept
  <2> QED BY <1>6, <1>9, FS_Injection
<1>11. Cardinality(Slots(new)) \in Nat
  BY <1>1, SlotsFinite DEF Slots
<1>12. Cardinality(Slots(new)) + Cardinality(Taken(plans, S)) <= Cardinality(Slots(plans))
  BY <1>7, <1>8, <1>9, <1>10, <1>11
<1> QED BY <1>1, <1>8, <1>11, <1>12 DEF new

\* A list of places, each of them in some set, is no longer than the set is large.
LEMMA PlacesCounted ==
    ASSUME NEW n \in Nat, NEW T, IsFiniteSet(T), NEW h \in [1 .. n -> T],
           \A i, j \in 1 .. n : h[i] = h[j] => i = j
    PROVE  n <= Cardinality(T)
<1>1. h \in Injection(1 .. n, T)
  BY DEF Injection, IsInjective
<1>2. Cardinality(1 .. n) <= Cardinality(T)
  BY <1>1, FS_Injection
<1>3. Cardinality(1 .. n) = n
  <2>1. n \in Int /\ 1 \in Int
    OBVIOUS
  <2>2. Cardinality(1 .. n) = IF 1 > n THEN 0 ELSE n - 1 + 1
    BY <2>1, FS_Interval
  <2> QED BY <2>2
<1> QED BY <1>2, <1>3

\* The removal operators list no more stops than there are places that hold them.
LEMMA RandomTaken ==
    ASSUME prob \in Problems, curr \in Plans, NEW k, NEW S \in PickRandomNodes(k)
    PROVE  Len(S) \in Nat /\ Len(S) <= Cardinality(Taken(curr, ToSet(S)))
<1>1. PICK T \in kSubset(Min({k, Cardinality(Served(curr))}), Served(curr)) : S \in SetToSeqs(T)
  BY Zenon DEF PickRandomNodes
<1>2. IsFiniteSet(T) /\ T \subseteq Served(curr)
  <2>1. T \subseteq Served(curr)
    BY DEF kSubset
  <2> QED BY <2>1, ServedStops, FS_Subset
<1>3. /\ S \in Seq(T) /\ Len(S) = Cardinality(T) /\ Len(S) \in Nat
      /\ \A i, j \in 1 .. Len(S) : S[i] = S[j] => i = j
  BY <1>1, <1>2, OrderPlaces
<1> DEFINE place(n) == CHOOSE x \in Slots(curr) : StopAt(curr, x) = n
           h == [i \in 1 .. Len(S) |-> place(S[i])]
<1>4. ASSUME NEW i \in 1 .. Len(S)
      PROVE  StopAt(curr, h[i]) = S[i] /\ h[i] \in Taken(curr, ToSet(S))
  <2>1. S[i] \in Served(curr) /\ S[i] \in ToSet(S)
    BY <1>2, <1>3, Places
  <2>2. place(S[i]) \in Slots(curr) /\ StopAt(curr, place(S[i])) = S[i]
    BY <2>1, ServedSlots
  <2> HIDE DEF place
  <2> QED BY <2>1, <2>2 DEF Taken
<1>5. IsFiniteSet(Taken(curr, ToSet(S)))
  BY KeptSlots
<1>6. h \in [1 .. Len(S) -> Taken(curr, ToSet(S))]
  BY <1>4
<1>7. \A i, j \in 1 .. Len(S) : h[i] = h[j] => i = j
  BY <1>3, <1>4
<1> HIDE DEF h
<1> QED BY <1>3, <1>5, <1>6, <1>7, PlacesCounted

LEMMA ShawTaken ==
    ASSUME prob \in Problems, curr \in Plans, NEW k, NEW S \in ShawRemoval(k)
    PROVE  Len(S) \in Nat /\ Len(S) <= Cardinality(Taken(curr, ToSet(S)))
<1>0. Slots(curr) = Assigned
  <2>1. Vehicles \ {} = Vehicles
    OBVIOUS
  <2> QED BY <2>1 DEF Slots, OtherSlots, Assigned
<1>1. PICK s \in Served(curr), R \in SUBSET Slots(curr) :
          /\ \A x \in R : StopAt(curr, x) # s
          /\ \E q \in SetToSeqs(R) : S = SeedFirst(s, q)
  <2>1. PICK s \in Served(curr), R \in SUBSET Assigned :
            /\ \A x \in R : curr[x[1]][x[2]] # s
            /\ \E q \in SetToSeqs(R) : S = SeedFirst(s, q)
    BY ShawPicks
  <2> QED BY <1>0, <2>1 DEF StopAt
<1>a. PICK q \in SetToSeqs(R) : S = SeedFirst(s, q)
  BY <1>1
<1> DEFINE rest == [i \in DOMAIN q |-> StopAt(curr, q[i])]
<1>2. IsFiniteSet(R)
  <2>1. R \subseteq Slots(curr) /\ IsFiniteSet(Slots(curr))
    BY SlotsFinite DEF Slots
  <2> QED BY <2>1, FS_Subset
<1>3. /\ q \in Seq(R) /\ Len(q) = Cardinality(R) /\ Cardinality(R) \in Nat
      /\ DOMAIN q = 1 .. Cardinality(R)
      /\ \A i, j \in 1 .. Cardinality(R) : q[i] = q[j] => i = j
  BY <1>2, OrderPlaces
<1>4. ASSUME NEW i \in 1 .. Cardinality(R)
      PROVE  q[i] \in Slots(curr) /\ StopAt(curr, q[i]) # s /\ StopAt(curr, q[i]) \in Served(curr)
  <2>1. q[i] \in R
    BY <1>3, Places
  <2> QED BY <1>1, <2>1, ServedSlots
<1>5. rest \in Seq(Served(curr)) /\ Len(rest) = Cardinality(R)
  BY <1>3, <1>4
<1>6. \A i \in 1 .. Cardinality(R) : rest[i] = StopAt(curr, q[i])
  BY <1>3
<1>7. S = <<s>> \o rest
  BY <1>a DEF SeedFirst, StopAt
<1> HIDE DEF rest
<1>8. /\ S \in Seq(Served(curr)) /\ Len(S) = 1 + Cardinality(R) /\ S[1] = s
      /\ \A i \in 1 .. Cardinality(R) : S[1 + i] = rest[i]
  <2>1. <<s>> \in Seq(Served(curr)) /\ Len(<<s>>) = 1 /\ <<s>>[1] = s /\ 1 \in 1 .. 1
    OBVIOUS
  <2> QED BY <1>5, <1>7, <2>1, ConcatPlaces
<1>9. PICK y \in Slots(curr) : StopAt(curr, y) = s
  BY ServedSlots
<1> DEFINE h == [i \in 1 .. Len(S) |-> IF i = 1 THEN y ELSE q[i - 1]]
<1>10. ASSUME NEW i \in 1 .. Len(S)
       PROVE  /\ h[i] \in Taken(curr, ToSet(S)) /\ (StopAt(curr, h[i]) = s <=> i = 1)
              /\ i # 1 => i - 1 \in 1 .. Cardinality(R) /\ h[i] = q[i - 1]
  <2>0. \A j \in 1 .. Len(S) : S[j] \in ToSet(S)
    BY <1>8, Places
  <2>1. CASE i = 1
    BY <1>8, <1>9, <2>0, <2>1 DEF Taken
  <2>2. CASE i # 1
    <3>1. i - 1 \in 1 .. Cardinality(R) /\ 1 + (i - 1) = i
      BY <1>3, <1>8, <2>2
    <3>2. S[i] = StopAt(curr, q[i - 1]) /\ h[i] = q[i - 1]
      BY <1>6, <1>8, <2>2, <3>1
    <3> QED BY <1>4, <2>0, <2>2, <3>1, <3>2 DEF Taken
  <2> QED BY <2>1, <2>2
<1>11. Len(S) \in Nat
  BY <1>3, <1>8
<1>12. h \in [1 .. Len(S) -> Taken(curr, ToSet(S))]
  BY <1>10
<1>13. ASSUME NEW i \in 1 .. Len(S), NEW j \in 1 .. Len(S), h[i] = h[j] PROVE i = j
  <2>1. CASE i = 1 \/ j = 1
    BY <1>10, <1>13, <2>1
  <2>2. CASE i # 1 /\ j # 1
    <3>1. q[i - 1] = q[j - 1] /\ i - 1 \in 1 .. Cardinality(R) /\ j - 1 \in 1 .. Cardinality(R)
      BY <1>10, <1>13, <2>2
    <3>2. i - 1 = j - 1
      BY <1>3, <3>1
    <3> QED BY <1>11, <3>2
  <2> QED BY <2>1, <2>2
<1>14. IsFiniteSet(Taken(curr, ToSet(S)))
  BY KeptSlots
<1> HIDE DEF h
<1> QED BY <1>11, <1>12, <1>13, <1>14, PlacesCounted

----------------------------------------------------------------------------
(* What solutions cost *)

\* A set of integers that is bounded has a largest element.
LEMMA MaxOfBounded ==
    ASSUME NEW T \in SUBSET Int, T # {}, NEW b \in Int, \A x \in T : x <= b
    PROVE  Max(T) \in T /\ \A x \in T : x <= Max(T)
<1> DEFINE D == {b - x : x \in T}
<1>1. D \in SUBSET Nat /\ D # {}
  <2>1. \A x \in T : x \in Int /\ x <= b
    OBVIOUS
  <2>2. \A x \in T : b - x \in Nat
    BY <2>1
  <2> QED BY <2>2
<1>2. PICK d \in D : \A e \in D : d <= e
  <2> HIDE DEF D
  <2> QED BY <1>1, LeastNatural
<1>3. PICK m \in T : d = b - m
  OBVIOUS
<1>4. \A x \in T : m >= x
  <2> TAKE x \in T
  <2>1. b - x \in D
    OBVIOUS
  <2>2. b - m <= b - x /\ m \in Int /\ x \in Int
    BY <1>2, <1>3, <2>1
  <2> QED BY <2>2
<1>5. Max(T) \in T /\ \A y \in T : Max(T) >= y
  BY <1>3, <1>4 DEF Max
<1> QED BY <1>5

\* The numbers of a list are bounded.
LEMMA ListBounded ==
    ASSUME NEW s \in Seq(Nat)
    PROVE  \E b \in Nat : \A i \in 1 .. Len(s) : s[i] <= b
<1> DEFINE T == {k \in Nat : k <= Len(s) => \E b \in Nat : \A i \in 1 .. k : s[i] <= b}
<1>0. Len(s) \in Nat /\ \A i \in 1 .. Len(s) : s[i] \in Nat
  OBVIOUS
<1>1. 0 \in T
  <2>1. \A i \in 1 .. 0 : s[i] <= 0
    OBVIOUS
  <2> QED BY <2>1
<1>2. ASSUME NEW k \in 0 .. Len(s) - 1, k \in T PROVE k + 1 \in T
  <2>1. k \in Nat /\ k <= Len(s) /\ k + 1 \in 1 .. Len(s) /\ k + 1 \in Nat
    BY <1>0
  <2>2. PICK b \in Nat : \A i \in 1 .. k : s[i] <= b
    BY <1>2, <2>1
  <2>3. s[k + 1] \in Nat
    BY <1>0, <2>1
  <2> DEFINE c == IF s[k + 1] <= b THEN b ELSE s[k + 1]
  <2>4. c \in Nat /\ b <= c /\ s[k + 1] <= c
    BY <2>3
  <2> HIDE DEF c
  <2>5. ASSUME NEW i \in 1 .. k + 1 PROVE s[i] <= c
    <3>1. CASE i = k + 1
      BY <2>4, <3>1
    <3>2. CASE i # k + 1
      <4>1. i \in 1 .. k /\ s[i] \in Nat /\ s[i] <= b
        BY <1>0, <2>1, <2>2, <3>2
      <4> QED BY <2>4, <4>1
    <3> QED BY <3>1, <3>2
  <2> QED BY <2>1, <2>4, <2>5
<1>3. \A k \in 0 .. Len(s) : k \in T
  <2> HIDE DEF T
  <2> QED BY <1>0, <1>1, <1>2, IntervalInduction
<1>4. Len(s) \in 0 .. Len(s) /\ Len(s) <= Len(s)
  BY <1>0
<1>5. Len(s) \in T
  BY <1>3, <1>4
<1> QED BY <1>4, <1>5

LEMMA TotalNat ==
    ASSUME NEW s \in Seq(Nat) PROVE Total(s) \in Nat
BY ListBounded, TotalEach

LEMMA TimesMonotone ==
    ASSUME NEW a \in Nat, NEW b \in Nat, NEW c \in Nat, a <= b
    PROVE  a * c <= b * c /\ a * c \in Nat /\ b * c \in Nat
<1>1. PICK d \in Nat : b = a + d
  OBVIOUS
<1>2. d * c \in Nat /\ a * c \in Nat
  OBVIOUS
<1>3. b * c = a * c + d * c
  BY <1>1
<1> QED BY <1>2, <1>3

\* A function on 1 .. n is a list of n elements.
LEMMA ListOf ==
    ASSUME NEW n \in Nat, NEW X, NEW f \in [1 .. n -> X]
    PROVE  f \in Seq(X) /\ Len(f) = n
OBVIOUS

LEMMA CostFacts ==
    ASSUME prob \in Problems
    PROVE  /\ prob.at \in Seq(Nat) /\ Len(prob.at) = prob.n
           /\ prob.service \in Seq(Nat) /\ Len(prob.service) = prob.n
           /\ prob.closes \in [Stops -> Nat] /\ prob.depots \in Seq(Nat)
           /\ prob.fail \in Nat /\ prob.late \in Nat /\ prob.n \in Nat
<1>1. /\ prob.n \in Nat /\ prob.at \in [1 .. prob.n -> Nat]
      /\ prob.service \in [1 .. prob.n -> Nat] /\ prob.closes \in [1 .. prob.n -> Nat]
      /\ prob.fail \in Nat /\ prob.late \in Nat /\ prob.depots \in Seq(Nat)
  BY ProblemFacts, ProblemAssumption
<1>2. /\ prob.at \in Seq(Nat) /\ Len(prob.at) = prob.n
      /\ prob.service \in Seq(Nat) /\ Len(prob.service) = prob.n
  BY <1>1, ListOf
<1> QED BY <1>1, <1>2 DEF Stops

\* far bounds the places, busy the service times, and delay how late a stop can be
\* served that at most n hops and n services lead to.
Bounds(far, busy, delay) ==
    /\ far \in Nat /\ busy \in Nat /\ delay \in Nat
    /\ \A n \in Stops : At(n) <= far /\ prob.service[n] <= busy
    /\ \A d \in 1 .. Len(prob.depots) : prob.depots[d] <= far
    /\ \A n \in Stops : prob.n * (far + busy) - prob.closes[n] <= delay

\* MissingIsWorst compares with such bounds.
LEMMA WorstCase ==
    ASSUME prob \in Problems, MissingIsWorst
    PROVE  \E far, busy, delay \in Nat :
              Bounds(far, busy, delay) /\ prob.fail > prob.n * (far + prob.late * delay)
<1> DEFINE Spots == {0} \union Range(prob.at) \union Range(prob.depots)
           Times == {0} \union Range(prob.service)
           far == Max(Spots)
           busy == Max(Times)
           Delays == {0} \union {prob.n * (far + busy) - prob.closes[i] : i \in Stops}
           delay == Max(Delays)
<1>0. /\ prob.at \in Seq(Nat) /\ Len(prob.at) = prob.n
      /\ prob.service \in Seq(Nat) /\ Len(prob.service) = prob.n
      /\ prob.closes \in [Stops -> Nat] /\ prob.depots \in Seq(Nat)
      /\ prob.fail \in Nat /\ prob.late \in Nat /\ prob.n \in Nat
  BY CostFacts
<1>1. prob.fail > prob.n * (far + prob.late * delay)
  BY DEF MissingIsWorst
<1>2. /\ Range(prob.at) = {prob.at[i] : i \in 1 .. prob.n}
      /\ Range(prob.service) = {prob.service[i] : i \in 1 .. prob.n}
      /\ Range(prob.depots) = {prob.depots[i] : i \in 1 .. Len(prob.depots)}
  BY <1>0 DEF Range
<1>3. far \in Nat /\ \A x \in Spots : x <= far
  <2>1. PICK b \in Nat : \A i \in 1 .. prob.n : prob.at[i] <= b
    BY <1>0, ListBounded
  <2>2. PICK c \in Nat : \A i \in 1 .. Len(prob.depots) : prob.depots[i] <= c
    BY <1>0, ListBounded
  <2>3. /\ \A i \in 1 .. prob.n : prob.at[i] \in Nat
        /\ \A i \in 1 .. Len(prob.depots) : prob.depots[i] \in Nat
    BY <1>0, SMTT(30)
  <2>4. \A x \in Spots : x \in Nat /\ x <= b + c
    BY <1>2, <2>1, <2>2, <2>3
  <2>5. 0 \in Spots
    OBVIOUS
  <2> HIDE DEF Spots
  <2>6. Spots \in SUBSET Int /\ Spots # {} /\ b + c \in Int
    BY <2>4, <2>5
  <2>7. Max(Spots) \in Spots /\ \A x \in Spots : x <= Max(Spots)
    BY <2>4, <2>6, MaxOfBounded
  <2> QED BY <2>4, <2>7
<1>4. busy \in Nat /\ \A x \in Times : x <= busy
  <2>1. PICK b \in Nat : \A i \in 1 .. prob.n : prob.service[i] <= b
    BY <1>0, ListBounded
  <2>2. \A i \in 1 .. prob.n : prob.service[i] \in Nat
    BY <1>0, SMTT(30)
  <2>3. \A x \in Times : x \in Nat /\ x <= b
    BY <1>2, <2>1, <2>2
  <2>4. 0 \in Times
    OBVIOUS
  <2> HIDE DEF Times
  <2>5. Times \in SUBSET Int /\ Times # {} /\ b \in Int
    BY <2>3, <2>4
  <2>6. Max(Times) \in Times /\ \A x \in Times : x <= Max(Times)
    BY <2>3, <2>5, MaxOfBounded
  <2> QED BY <2>3, <2>6
<1>5. /\ \A i \in Stops : At(i) <= far /\ prob.service[i] <= busy
      /\ \A d \in 1 .. Len(prob.depots) : prob.depots[d] <= far
  <2>1. /\ \A i \in Stops : At(i) \in Spots /\ prob.service[i] \in Times
        /\ \A d \in 1 .. Len(prob.depots) : prob.depots[d] \in Spots
    BY <1>2 DEF Stops, At
  <2> HIDE DEF Spots, Times
  <2> QED BY <1>3, <1>4, <2>1
<1> HIDE DEF far, busy
<1>6. delay \in Nat /\ \A x \in Delays : x <= delay
  <2> DEFINE b == prob.n * (far + busy)
  <2>1. b \in Nat
    BY <1>0, <1>3, <1>4
  <2>2. \A i \in Stops : prob.closes[i] \in Nat
    BY <1>0
  <2>3. Delays = {0} \union {b - prob.closes[i] : i \in Stops}
    OBVIOUS
  <2> HIDE DEF b, Delays
  <2>4. \A x \in Delays : x \in Int /\ x <= b
    BY <2>1, <2>2, <2>3
  <2>5. Delays \in SUBSET Int /\ 0 \in Delays
    BY <2>3, <2>4
  <2>6. Max(Delays) \in Delays /\ \A x \in Delays : x <= Max(Delays)
    BY <2>1, <2>4, <2>5, MaxOfBounded
  <2>7. Max(Delays) \in Int /\ 0 <= Max(Delays)
    BY <2>5, <2>6
  <2>8. Max(Delays) \in Nat
    BY <2>7
  <2> QED BY <2>6, <2>8
<1>7. \A i \in Stops : prob.n * (far + busy) - prob.closes[i] <= delay
  <2>1. \A i \in Stops : prob.n * (far + busy) - prob.closes[i] \in Delays
    OBVIOUS
  <2> HIDE DEF Delays
  <2> QED BY <1>6, <2>1
<1> HIDE DEF delay
<1>8. Bounds(far, busy, delay)
  BY <1>3, <1>4, <1>5, <1>6, <1>7 DEF Bounds
<1> QED BY <1>1, <1>3, <1>4, <1>6, <1>8

LEMMA HopFacts ==
    ASSUME prob \in Problems, NEW o \in Seq(Stops), NEW i \in 1 .. Len(o)
    PROVE  /\ Hop(o, i) \in Nat
           /\ \A far, busy, delay \in Nat : Bounds(far, busy, delay) => Hop(o, i) <= far
<1>0. Len(o) \in Nat /\ \A j \in 1 .. Len(o) : o[j] \in Stops
  BY Places
<1>1. \A j \in 1 .. Len(o) : At(o[j]) \in Nat
  BY <1>0, StopFacts
<1>2. prob.depots \in Seq(Nat)
  BY ProblemFacts
<1>3. CASE i > 1
  <2>1. i - 1 \in 1 .. Len(o)
    BY <1>0, <1>3
  <2>2. /\ Hop(o, i) = Dist(At(o[i - 1]), At(o[i]))
        /\ At(o[i - 1]) \in Nat /\ At(o[i]) \in Nat
    BY <1>1, <1>3, <2>1 DEF Hop
  <2>3. ASSUME NEW far \in Nat, NEW busy \in Nat, NEW delay \in Nat, Bounds(far, busy, delay)
        PROVE  Hop(o, i) <= far
    <3>1. At(o[i - 1]) <= far /\ At(o[i]) <= far
      BY <1>0, <2>1, <2>3 DEF Bounds
    <3> QED BY <2>2, <3>1 DEF Dist
  <2> QED BY <2>2, <2>3, DistNat
<1>4. CASE ~(i > 1) /\ prob.depots = <<>>
  BY <1>4 DEF Hop
<1>5. CASE ~(i > 1) /\ prob.depots # <<>>
  <2>1. i = 1 /\ 1 \in 1 .. Len(prob.depots)
    BY <1>0, <1>2, <1>5
  <2>2. /\ Hop(o, i) = Dist(prob.depots[1], At(o[1]))
        /\ prob.depots[1] \in Nat /\ At(o[1]) \in Nat
    BY <1>1, <1>2, <1>5, <2>1 DEF Hop
  <2>3. ASSUME NEW far \in Nat, NEW busy \in Nat, NEW delay \in Nat, Bounds(far, busy, delay)
        PROVE  Hop(o, i) <= far
    <3>1. prob.depots[1] <= far /\ At(o[1]) <= far
      BY <1>0, <2>1, <2>3 DEF Bounds
    <3> QED BY <2>2, <3>1 DEF Dist
  <2> QED BY <2>2, <2>3, DistNat
<1> QED BY <1>3, <1>4, <1>5

LEMMA LatenessFacts ==
    ASSUME prob \in Problems, NEW o \in Seq(Stops), NEW i \in 1 .. Len(o)
    PROVE  /\ Lateness(o, i) \in Nat
           /\ \A far, busy, delay \in Nat :
                 Bounds(far, busy, delay) /\ Len(o) <= prob.n => Lateness(o, i) <= delay
<1> DEFINE hops == [j \in 1 .. i |-> Hop(o, j)]
           services == [j \in 1 .. i - 1 |-> prob.service[o[j]]]
           arrival == Total(hops) + Total(services)
           close == prob.closes[o[i]]
<1>0. /\ Len(o) \in Nat /\ i \in Nat /\ i - 1 \in Nat /\ i <= Len(o)
      /\ \A j \in 1 .. Len(o) : o[j] \in Stops
  BY Places
<1>1. hops \in Seq(Nat) /\ Len(hops) = i /\ \A j \in 1 .. i : hops[j] = Hop(o, j)
  <2>1. \A j \in 1 .. i : j \in 1 .. Len(o)
    BY <1>0
  <2>2. hops \in [1 .. i -> Nat]
    BY <2>1, HopFacts
  <2>3. \A j \in 1 .. i : hops[j] = Hop(o, j)
    OBVIOUS
  <2> HIDE DEF hops
  <2> QED BY <1>0, <2>2, <2>3, ListOf
<1>2. /\ services \in Seq(Nat) /\ Len(services) = i - 1
      /\ \A j \in 1 .. i - 1 : services[j] = prob.service[o[j]]
  <2>1. \A j \in 1 .. i - 1 : j \in 1 .. Len(o)
    BY <1>0
  <2>2. \A j \in 1 .. i - 1 : prob.service[o[j]] \in Nat
    BY <1>0, <2>1, StopFacts
  <2>3. services \in [1 .. i - 1 -> Nat]
    BY <2>2
  <2>4. \A j \in 1 .. i - 1 : services[j] = prob.service[o[j]]
    OBVIOUS
  <2> HIDE DEF services
  <2> QED BY <1>0, <2>3, <2>4, ListOf
<1>3. close \in Nat
  BY <1>0, CostFacts
<1>4. Lateness(o, i) = Max({0, arrival - close})
  BY DEF Lateness
<1> HIDE DEF hops, services
<1>5. Total(hops) \in Nat /\ Total(services) \in Nat
  BY <1>1, <1>2, TotalNat
<1>6. /\ Lateness(o, i) \in {0, arrival - close} /\ Lateness(o, i) >= 0
  <2>1. arrival - close \in Int
    BY <1>3, <1>5
  <2> HIDE DEF arrival, close
  <2> DEFINE T == {0, arrival - close}
  <2>2. T \in SUBSET Int /\ T # {} /\ 0 \in T
    BY <2>1
  <2>3. PICK b \in Int : \A x \in T : x <= b
    <3>1. CASE arrival - close >= 0
      BY <2>1, <3>1
    <3>2. CASE ~(arrival - close >= 0)
      <4>1. \A x \in T : x <= 0
        BY <2>1, <3>2
      <4> QED BY <4>1
    <3> QED BY <3>1, <3>2
  <2> HIDE DEF T
  <2>4. Max(T) \in T /\ \A x \in T : x <= Max(T)
    BY <2>2, <2>3, MaxOfBounded
  <2>5. Max(T) >= 0
    BY <2>2, <2>4
  <2> QED BY <1>4, <2>4, <2>5 DEF T
<1>7. Lateness(o, i) \in Nat
  BY <1>3, <1>5, <1>6
<1>8. ASSUME NEW far \in Nat, NEW busy \in Nat, NEW delay \in Nat, Bounds(far, busy, delay),
             Len(o) <= prob.n
      PROVE  Lateness(o, i) <= delay
  <2>0. prob.n \in Nat /\ i <= prob.n /\ i - 1 <= prob.n
    <3>1. prob.n \in Nat
      BY CostFacts
    <3>2. Len(o) <= prob.n
      BY <1>8
    <3> QED BY <1>0, <3>1, <3>2
  <2>1. Total(hops) <= i * far
    <3>1. \A j \in 1 .. i : j \in 1 .. Len(o)
      BY <1>0
    <3>2. \A j \in 1 .. i : hops[j] <= far
      BY <1>1, <1>8, <3>1, HopFacts
    <3> QED BY <1>1, <3>2, TotalEach
  <2>2. Total(services) <= (i - 1) * busy
    <3>1. \A j \in 1 .. i - 1 : o[j] \in Stops
      BY <1>0
    <3>2. \A j \in 1 .. i - 1 : services[j] <= busy
      BY <1>2, <1>8, <3>1 DEF Bounds
    <3>3. \A j \in 1 .. Len(services) : services[j] <= busy
      BY <1>2, <3>2
    <3>4. Total(services) <= Len(services) * busy
      BY <1>2, <3>3, TotalEach
    <3> QED BY <1>2, <3>4
  <2>3. i * far <= prob.n * far /\ i * far \in Nat /\ prob.n * far \in Nat
    BY <1>0, <2>0, TimesMonotone
  <2>a. PICK k \in Nat : k = i - 1
    BY <1>0
  <2>b. k * busy <= prob.n * busy /\ k * busy \in Nat /\ prob.n * busy \in Nat
    BY <2>0, <2>a, TimesMonotone
  <2>4. /\ (i - 1) * busy <= prob.n * busy /\ (i - 1) * busy \in Nat
        /\ prob.n * busy \in Nat
    BY <2>a, <2>b
  <2>5. prob.n * (far + busy) = prob.n * far + prob.n * busy
    BY <2>0
  <2>6. arrival <= prob.n * (far + busy)
    BY <1>5, <2>1, <2>2, <2>3, <2>4, <2>5
  <2>7. prob.n * (far + busy) - close <= delay
    BY <1>0, <1>8 DEF Bounds
  <2>8. prob.n * (far + busy) \in Nat
    BY <2>3, <2>4, <2>5
  <2>9. arrival - close <= delay
    <3>1. arrival \in Nat
      BY <1>5
    <3> HIDE DEF arrival, close
    <3> QED BY <1>3, <2>6, <2>7, <2>8, <3>1
  <2> QED BY <1>6, <2>9
<1> QED BY <1>7, <1>8

LEMMA PlanCostFacts ==
    ASSUME prob \in Problems, NEW o \in Seq(Stops)
    PROVE  /\ PlanCost(o) \in Nat
           /\ \A far, busy, delay \in Nat :
                 Bounds(far, busy, delay) /\ Len(o) <= prob.n =>
                    PlanCost(o) <= Len(o) * (far + prob.late * delay)
<1> DEFINE c == [i \in DOMAIN o |-> Hop(o, i) + prob.late * Lateness(o, i)]
<1>0. Len(o) \in Nat /\ DOMAIN o = 1 .. Len(o) /\ prob.late \in Nat
  BY Places, CostFacts
<1>1. ASSUME NEW i \in 1 .. Len(o)
      PROVE  Hop(o, i) \in Nat /\ Lateness(o, i) \in Nat
             /\ prob.late * Lateness(o, i) \in Nat
  <2>1. Hop(o, i) \in Nat /\ Lateness(o, i) \in Nat
    BY HopFacts, LatenessFacts
  <2> QED BY <1>0, <2>1
<1>2. /\ c \in Seq(Nat) /\ Len(c) = Len(o)
      /\ \A i \in 1 .. Len(o) : c[i] = Hop(o, i) + prob.late * Lateness(o, i)
  <2>1. \A i \in 1 .. Len(o) : Hop(o, i) + prob.late * Lateness(o, i) \in Nat
    BY <1>1
  <2>2. c \in [1 .. Len(o) -> Nat]
    BY <1>0, <2>1
  <2>3. \A i \in 1 .. Len(o) : c[i] = Hop(o, i) + prob.late * Lateness(o, i)
    BY <1>0
  <2> HIDE DEF c
  <2> QED BY <1>0, <2>2, <2>3, ListOf
<1>3. PlanCost(o) = Total(c)
  BY DEF PlanCost
<1> HIDE DEF c
<1>4. PlanCost(o) \in Nat
  BY <1>2, <1>3, TotalNat
<1>5. ASSUME NEW far \in Nat, NEW busy \in Nat, NEW delay \in Nat, Bounds(far, busy, delay),
             Len(o) <= prob.n
      PROVE  PlanCost(o) <= Len(o) * (far + prob.late * delay)
  <2>1. ASSUME NEW i \in 1 .. Len(o) PROVE c[i] <= far + prob.late * delay
    <3>1. Hop(o, i) <= far /\ Lateness(o, i) <= delay
      BY <1>5, HopFacts, LatenessFacts
    <3>2. /\ Lateness(o, i) * prob.late <= delay * prob.late
          /\ Lateness(o, i) * prob.late \in Nat /\ delay * prob.late \in Nat
      BY <1>0, <1>1, <3>1, TimesMonotone
    <3>3. /\ prob.late * Lateness(o, i) = Lateness(o, i) * prob.late
          /\ prob.late * delay = delay * prob.late
      BY <1>0, <1>1
    <3>4. PICK a, b, h : /\ a = prob.late * Lateness(o, i) /\ b = prob.late * delay
                         /\ h = Hop(o, i)
      OBVIOUS
    <3>5. a \in Nat /\ b \in Nat /\ a <= b
      BY <3>2, <3>3, <3>4
    <3>6. c[i] = h + a /\ h \in Nat /\ h <= far /\ far \in Nat
      BY <1>1, <1>2, <3>1, <3>4
    <3>7. h + a <= far + b
      BY <3>5, <3>6
    <3> QED BY <3>4, <3>6, <3>7
  <2>2. far + prob.late * delay \in Nat
    BY <1>0
  <2> QED BY <1>2, <1>3, <2>1, <2>2, TotalEach
<1> QED BY <1>4, <1>5

\* What the driving and the delays of a solution cost.
Effort(plans) == Total([v \in Vehicles |-> PlanCost(plans[v])])

LEMMA EffortFacts ==
    ASSUME prob \in Problems, NEW plans \in Plans
    PROVE  /\ Effort(plans) \in Nat
           /\ \A far, busy, delay \in Nat :
                 Bounds(far, busy, delay) /\ Cardinality(Slots(plans)) <= prob.n =>
                    Effort(plans) <= Cardinality(Slots(plans)) * (far + prob.late * delay)
<1> DEFINE V == prob.vehicles
           c == [v \in Vehicles |-> PlanCost(plans[v])]
<1>0. V \in Nat /\ Vehicles = 1 .. V /\ prob.late \in Nat /\ prob.n \in Nat
  BY ProblemFacts, CostFacts DEF Vehicles
<1>1. \A v \in Vehicles : plans[v] \in Seq(Stops) /\ PlanCost(plans[v]) \in Nat
  BY PlanCostFacts DEF Plans
<1>2. c \in Seq(Nat) /\ Len(c) = V /\ \A v \in 1 .. V : c[v] = PlanCost(plans[v])
  <2>1. c \in [1 .. V -> Nat]
    BY <1>0, <1>1
  <2>2. \A v \in 1 .. V : c[v] = PlanCost(plans[v])
    BY <1>0
  <2> HIDE DEF c, V
  <2> QED BY <1>0, <2>1, <2>2, ListOf
<1>3. Effort(plans) = Total(c)
  BY DEF Effort
<1> HIDE DEF c, V
<1>4. Effort(plans) \in Nat
  BY <1>2, <1>3, TotalNat
<1>5. ASSUME NEW far \in Nat, NEW busy \in Nat, NEW delay \in Nat, Bounds(far, busy, delay),
             Cardinality(Slots(plans)) <= prob.n
      PROVE  Effort(plans) <= Cardinality(Slots(plans)) * (far + prob.late * delay)
  <2> DEFINE B == far + prob.late * delay
             size(v) == Cardinality(OtherSlots(plans, v + 1 .. V))
             w == [v \in 0 .. V |-> size(v) * B]
  <2>1. B \in Nat
    BY <1>0
  <2>2. \A v \in 0 .. V : size(v) \in Nat
    BY SlotsFinite
  <2>3. ASSUME NEW v \in 1 .. V PROVE size(v) = size(v - 1) + Len(plans[v])
    <3>1. (v + 1 .. V) \union {v} = v - 1 + 1 .. V /\ v \in Vehicles \ (v + 1 .. V)
      BY <1>0
    <3>2. v \in Vehicles \ (v + 1 .. V)
      BY <3>1
    <3> QED BY <3>1, <3>2, SlotsOfOne
  <2>4. size(V) = Cardinality(Slots(plans))
    <3>1. V + 1 .. V = {}
      BY <1>0
    <3> QED BY <3>1 DEF Slots
  <2> HIDE DEF size, B
  <2>5. w \in [0 .. V -> Nat]
    BY <2>1, <2>2
  <2>6. ASSUME NEW v \in 1 .. V PROVE w[v - 1] + c[v] <= w[v]
    <3>1. /\ v \in 0 .. V /\ v - 1 \in 0 .. V /\ v \in Vehicles
          /\ plans[v] \in Seq(Stops) /\ Len(plans[v]) \in Nat
      <4>1. v \in 0 .. V /\ v - 1 \in 0 .. V /\ v \in Vehicles
        BY <1>0
      <4> QED BY <1>1, <4>1, Places
    <3>2. Len(plans[v]) <= prob.n
      <4>1. {} \union {v} = {v} /\ v \in Vehicles \ {}
        BY <3>1
      <4>2. /\ Cardinality(Slots(plans)) = Cardinality(OtherSlots(plans, {v})) + Len(plans[v])
            /\ Cardinality(OtherSlots(plans, {v})) \in Nat
        BY <4>1, SlotsOfOne, SlotsFinite DEF Slots
      <4> QED BY <1>0, <1>5, <3>1, <4>2
    <3>3. c[v] <= Len(plans[v]) * B /\ c[v] \in Nat
      <4>1. PlanCost(plans[v]) <= Len(plans[v]) * (far + prob.late * delay)
        BY <1>5, <3>1, <3>2, PlanCostFacts
      <4> QED BY <1>1, <1>2, <3>1, <4>1 DEF B
    <3>4. size(v) = size(v - 1) + Len(plans[v]) /\ size(v - 1) \in Nat
      BY <2>2, <2>3, <3>1
    <3>5. size(v) * B = size(v - 1) * B + Len(plans[v]) * B
      BY <2>1, <3>1, <3>4
    <3>6. size(v - 1) * B \in Nat /\ Len(plans[v]) * B \in Nat
      BY <2>1, <3>1, <3>4
    <3>7. w[v] = size(v) * B /\ w[v - 1] = size(v - 1) * B
      BY <3>1
    <3> QED BY <3>3, <3>5, <3>6, <3>7
  <2>7. w[V] = Cardinality(Slots(plans)) * B
    BY <1>0, <2>4
  <2> HIDE DEF w
  <2>8. Total(c) <= w[V]
    BY <1>2, <2>5, <2>6, TotalBound
  <2> QED BY <1>3, <2>7, <2>8 DEF B
<1> QED BY <1>4, <1>5

LEMMA CarriableFinite ==
    ASSUME prob \in Problems
    PROVE  /\ Carriable \subseteq Stops /\ IsFiniteSet(Carriable)
           /\ Cardinality(Carriable) \in Nat /\ Cardinality(Carriable) <= prob.n
<1>1. Carriable \subseteq Stops
  BY DEF Carriable
<1>2. prob.n \in Nat /\ prob.n \in Int /\ 1 \in Int
  BY ProblemFacts
<1>3. IsFiniteSet(1 .. prob.n) /\ Cardinality(1 .. prob.n) = prob.n
  <2>1. /\ IsFiniteSet(1 .. prob.n)
        /\ Cardinality(1 .. prob.n) = IF 1 > prob.n THEN 0 ELSE prob.n - 1 + 1
    BY <1>2, FS_Interval
  <2> QED BY <1>2, <2>1
<1> QED BY <1>1, <1>3, FS_Subset, FS_CardinalityType DEF Stops

\* A solution serves every stop that can be carried, each once.
Whole(plans) == Served(plans) = Carriable /\ NoneTwice(plans)

\* If a missing stop costs more than all driving and delay, a whole solution is cheaper
\* than one that misses a stop.
LEMMA WholeIsCheaper ==
    ASSUME prob \in Problems, MissingIsWorst, NEW plans \in Plans, NEW other \in Plans,
           Whole(plans), Served(other) \subseteq Carriable, Cost(other) < Cost(plans)
    PROVE  Served(other) = Carriable
<1> SUFFICES ASSUME Served(other) # Carriable PROVE FALSE
  OBVIOUS
<1>1. PICK far \in Nat, busy \in Nat, delay \in Nat :
          Bounds(far, busy, delay) /\ prob.fail > prob.n * (far + prob.late * delay)
  BY WorstCase
<1> DEFINE B == far + prob.late * delay
           k == Cardinality(Carriable)
           missed == Cardinality(Stops \ Served(other))
           left == Cardinality(Stops \ Carriable)
<1>2. /\ Carriable \subseteq Stops /\ IsFiniteSet(Carriable) /\ k \in Nat /\ k <= prob.n
      /\ IsFiniteSet(Stops)
  BY CarriableFinite, FiniteProblem
<1>3. prob.n \in Nat /\ prob.fail \in Nat /\ prob.late \in Nat /\ B \in Nat
  <2>1. prob.n \in Nat /\ prob.fail \in Nat /\ prob.late \in Nat
    BY CostFacts
  <2> QED BY <2>1
<1>4. Cardinality(Slots(plans)) = k
  BY CountOfOnce DEF Whole
<1>5. Effort(plans) <= k * B /\ Effort(plans) \in Nat /\ Effort(other) \in Nat
  <2>1. Cardinality(Slots(plans)) <= prob.n
    BY <1>2, <1>4
  <2>2. Effort(plans) <= Cardinality(Slots(plans)) * (far + prob.late * delay)
    BY <1>1, <2>1, EffortFacts
  <2>3. Effort(plans) \in Nat /\ Effort(other) \in Nat
    BY EffortFacts
  <2> QED BY <1>4, <2>2, <2>3
<1>6. k * B <= prob.n * B /\ k * B \in Nat /\ prob.n * B \in Nat
  <2> HIDE DEF B, k
  <2> QED BY <1>2, <1>3, TimesMonotone
<1>7. left \in Nat /\ missed \in Nat /\ left + 1 <= missed
  <2>1. IsFiniteSet(Stops \ Served(other)) /\ IsFiniteSet(Stops \ Carriable)
    BY <1>2, FS_Subset
  <2>2. PICK n \in Carriable : n \notin Served(other)
    OBVIOUS
  <2>3. n \notin Stops \ Carriable
        /\ (Stops \ Carriable) \union {n} \subseteq Stops \ Served(other)
    BY <1>2, <2>2
  <2>4. Cardinality((Stops \ Carriable) \union {n}) = left + 1
    BY <2>1, <2>3, FS_AddElement
  <2>5. Cardinality((Stops \ Carriable) \union {n}) <= missed
    BY <2>1, <2>3, FS_Subset
  <2> QED BY <2>1, <2>4, <2>5, FS_CardinalityType
<1>8. /\ Cost(plans) = Effort(plans) + prob.fail * left
      /\ Cost(other) = Effort(other) + prob.fail * missed
  BY DEF Cost, Effort, Whole
<1> HIDE DEF B, k, missed, left
<1>9. /\ (left + 1) * prob.fail <= missed * prob.fail
      /\ (left + 1) * prob.fail \in Nat /\ missed * prob.fail \in Nat
  <2>1. left + 1 \in Nat
    BY <1>7
  <2> QED BY <1>3, <1>7, <2>1, TimesMonotone
<1>10. /\ (left + 1) * prob.fail = prob.fail * left + prob.fail
       /\ missed * prob.fail = prob.fail * missed /\ prob.fail * left \in Nat
  BY <1>3, <1>7
<1>11. prob.n * B < prob.fail
  BY <1>1, <1>3, <1>6 DEF B
<1>12. Effort(plans) < prob.fail
  BY <1>3, <1>5, <1>6, <1>11
<1>13. ~(Cost(other) < Cost(plans))
  BY <1>3, <1>5, <1>8, <1>9, <1>10, <1>12
<1> QED BY <1>13

----------------------------------------------------------------------------
(* The search holds no more stops than can be carried *)

\* The places taken, by stops in the plans and by stops to be put back.
Load == Cardinality(Slots(curr)) + Len(removed)

LoadNext == Cardinality(Slots(curr')) + Len(removed')

\* From the seed on, the solution and the stops taken out of it are stops that can be
\* carried, in no more places than there are such stops: the segment exchange may double
\* one stop only where it loses another.  The best solution is whole.
BestInv ==
    /\ pc = "request" => curr = NoPlans /\ removed = <<>>
    /\ pc \in {"seed"} \union Searching =>
          InPlay \subseteq Carriable /\ Load <= Cardinality(Carriable)
    /\ pc = "seed" => Cardinality(Slots(curr)) = Cardinality(Served(curr))
    /\ pc \in Searching /\ MissingIsWorst => Whole(best)

\* The problem does not change, and what depends on it alone does not either.
LEMMA SameProblem ==
    ASSUME prob' = prob
    PROVE  /\ Stops' = Stops /\ Vehicles' = Vehicles /\ Carriable' = Carriable
           /\ MissingIsWorst' = MissingIsWorst /\ NoPlans' = NoPlans
           /\ InPlay' = Served(curr') \union ToSet(removed') /\ Load' = LoadNext
           /\ Served(curr)' = Served(curr') /\ Slots(curr)' = Slots(curr')
           /\ Whole(best)' = Whole(best')
<1>1. Stops' = Stops /\ Vehicles' = Vehicles
  BY DEF Stops, Vehicles
<1>2. Carriable' = Carriable
  BY <1>1 DEF Carriable, FeasibleAdd
<1>3. MissingIsWorst' = MissingIsWorst
  BY <1>1 DEF MissingIsWorst
<1>4. /\ Served(curr)' = Served(curr') /\ Slots(curr)' = Slots(curr')
      /\ Served(best)' = Served(best')
  BY <1>1 DEF Served, Slots, OtherSlots
<1>5. InPlay' = Served(curr') \union ToSet(removed') /\ Load' = LoadNext
  BY <1>4 DEF InPlay, Load, LoadNext
<1>6. Whole(best)' = Whole(best')
  BY <1>2, <1>4 DEF Whole, NoneTwice
<1>7. NoPlans' = NoPlans
  BY <1>1 DEF NoPlans
<1> QED BY <1>1, <1>2, <1>3, <1>4, <1>5, <1>6, <1>7

LEMMA LoadNat ==
    ASSUME SearchInv
    PROVE  Load \in Nat /\ Cardinality(Slots(curr)) \in Nat /\ Len(removed) \in Nat
<1>1. prob \in Problems /\ curr \in Plans /\ removed \in Seq(Stops)
  BY DEF SearchInv
<1>2. Cardinality(Slots(curr)) \in Nat
  BY <1>1, SlotsFinite DEF Slots
<1>3. Len(removed) \in Nat
  BY <1>1, Places
<1> QED BY <1>2, <1>3 DEF Load

\* A step of the search that brings in no stop and takes no more places.
LEMMA BestKept ==
    ASSUME SearchInv, BestInv, SearchInv', prob' = prob, best' = best,
           pc \in Searching, pc' \in Searching,
           Served(curr') \union ToSet(removed') \subseteq InPlay, LoadNext <= Load
    PROVE  BestInv'
<1>1. InPlay \subseteq Carriable /\ Load <= Cardinality(Carriable)
  BY DEF BestInv
<1>2. MissingIsWorst => Whole(best)
  BY DEF BestInv
<1>3. Cardinality(Carriable) \in Nat /\ Load \in Nat /\ LoadNext \in Nat
  <2>1. prob \in Problems /\ curr' \in Plans /\ removed' \in Seq(Stops)
    BY DEF SearchInv, Plans, Vehicles, Stops
  <2>2. Cardinality(Slots(curr')) \in Nat
    BY <2>1, SlotsFinite DEF Slots
  <2>3. Len(removed') \in Nat
    BY <2>1, Places
  <2> QED BY <2>1, <2>2, <2>3, CarriableFinite, LoadNat DEF LoadNext
<1>4. LoadNext <= Cardinality(Carriable)
  BY <1>1, <1>3
<1>5. pc' # "request" /\ pc' # "seed"
  BY DEF Searching
<1> QED BY <1>1, <1>2, <1>4, <1>5, SameProblem DEF BestInv

LEMMA BestSeed ==
    ASSUME SearchInv, BestInv, GreedySeed PROVE BestInv'
<1>0. /\ prob \in Problems /\ curr \in Plans /\ scan.v \in Vehicles
      /\ curr[scan.v] \in Seq(Stops) /\ removed = <<>> /\ pc = "seed" /\ pc' = "seed"
      /\ removed' = removed /\ prob' = prob
  BY DEF SearchInv, ScanInv, Plans, GreedySeed
<1>1. /\ Served(curr) \subseteq Carriable /\ Load <= Cardinality(Carriable)
      /\ Cardinality(Slots(curr)) = Cardinality(Served(curr))
  BY <1>0 DEF BestInv, InPlay
<1> DEFINE C == SeedCandidates(scan.v)
           cost == [m \in C |-> AppendCost(scan.v, m)]
<1>2. CASE C = {}
  <2>1. curr' = curr
    BY <1>2 DEF GreedySeed
  <2>2. Served(curr') = Served(curr) /\ Slots(curr') = Slots(curr) /\ LoadNext = Load
    BY <1>0, <2>1 DEF Load, LoadNext
  <2>3. Served(curr') \union ToSet(removed') = InPlay
    BY <1>0, <2>2 DEF InPlay
  <2>4. InPlay \subseteq Carriable
    BY <1>0 DEF BestInv
  <2> QED BY <1>0, <1>1, <2>2, <2>3, <2>4, SameProblem DEF BestInv, Searching
<1>3. CASE C # {}
  <2>1. C \subseteq Stops /\ C \in SUBSET (1 .. prob.n) /\ prob.n \in Nat
    BY <1>0, ProblemFacts DEF SeedCandidates, Stops
  <2>2. ASSUME NEW m \in C PROVE AppendCost(scan.v, m) \in Int
    <3>1. CASE curr[scan.v] = <<>>
      BY <3>1 DEF AppendCost
    <3>2. CASE curr[scan.v] # <<>>
      <4>1. Last(curr[scan.v]) \in Stops
        BY <1>0, <3>2 DEF Last
      <4>2. At(Last(curr[scan.v])) \in Nat /\ At(m) \in Nat
        BY <1>0, <2>1, <4>1, StopFacts
      <4> QED BY <3>2, <4>2, DistNat DEF AppendCost
    <3> QED BY <3>1, <3>2
  <2>3. cost \in [C -> Int]
    BY <2>2
  <2>4. \E x \in C : \A y \in C : cost[x] < cost[y] \/ (cost[x] = cost[y] /\ x <= y)
    <3> HIDE DEF cost, C
    <3> QED BY <1>3, <2>1, <2>3, FirstLeastExists
  <2>5. FirstLeast(C, LAMBDA m : AppendCost(scan.v, m)) \in C
    <3>1. \E x \in C : \A y \in C : AppendCost(scan.v, x) < AppendCost(scan.v, y)
                \/ (AppendCost(scan.v, x) = AppendCost(scan.v, y) /\ x <= y)
      BY <2>4
    <3> HIDE DEF C
    <3> QED BY <3>1 DEF FirstLeast
  <2>6. PICK m \in C : curr' = [curr EXCEPT ![scan.v] = Append(@, m)]
    BY <1>3, <2>5 DEF GreedySeed
  <2>7. PICK v \in Vehicles : v = scan.v
    BY <1>0
  <2>8. /\ m \in Stops /\ m \notin Served(curr) /\ m \in Carriable
    BY <2>7 DEF SeedCandidates, Carriable
  <2> DEFINE t == Append(curr[v], m)
  <2>9. t \in Seq(Stops) /\ Len(t) = Len(curr[v]) + 1 /\ ToSet(t) = ToSet(curr[v]) \union {m}
    BY <1>0, <2>7, <2>8, AppendPlaces
  <2>10. curr' = [curr EXCEPT ![v] = t]
    BY <2>6, <2>7
  <2> HIDE DEF t
  <2>11. Served(curr') = Served(curr) \union {m}
    <3>1. /\ Served(curr) = Others(curr, {v}) \union ToSet(curr[v])
          /\ Served(curr') = Others(curr, {v}) \union ToSet(t)
      BY <1>0, <2>10, ServedPut, ZenonT(40)
    <3> QED BY <2>9, <3>1
  <2>12. /\ Cardinality(Slots(curr')) = Cardinality(Slots(curr)) - Len(curr[v]) + Len(t)
         /\ Cardinality(Slots(curr)) \in Nat /\ Len(curr[v]) \in Nat
    BY <1>0, <2>9, <2>10, SlotsPut
  <2>13. Cardinality(Slots(curr')) = Cardinality(Slots(curr)) + 1
    BY <2>9, <2>12
  <2>14. Cardinality(Served(curr')) = Cardinality(Served(curr)) + 1
    BY <1>0, <2>8, <2>11, ServedStops, FS_AddElement
  <2>15. ToSet(<<>>) = {} /\ Len(<<>>) = 0
    BY DEF ToSet
  <2>16. Served(curr') \union ToSet(removed') \subseteq Carriable
    BY <1>0, <1>1, <2>8, <2>11, <2>15
  <2>17. LoadNext <= Cardinality(Carriable)
    <3>1. Cardinality(Served(curr')) <= Cardinality(Carriable)
      BY <1>0, <2>16, CarriableFinite, FS_Subset
    <3>2. Cardinality(Slots(curr')) = Cardinality(Served(curr'))
      BY <1>1, <2>13, <2>14
    <3>3. Cardinality(Slots(curr')) \in Nat
      BY <2>12, <2>13
    <3> QED BY <1>0, <2>15, <3>1, <3>2, <3>3 DEF LoadNext
  <2> QED BY <1>0, <1>1, <2>13, <2>14, <2>16, <2>17, SameProblem DEF BestInv, Searching
<1> QED BY <1>2, <1>3

\* The seed ends when no vehicle can carry any of the stops left.
LEMMA BestSeedEnds ==
    ASSUME SearchInv, BestInv, SeedEnds PROVE BestInv'
<1>0. /\ prob \in Problems /\ curr \in Plans /\ removed = <<>> /\ pc = "seed"
      /\ removed' = removed /\ prob' = prob /\ curr' = curr /\ best' = curr /\ pc' = "head"
  BY DEF SearchInv, SeedEnds
<1>1. /\ InPlay \subseteq Carriable /\ Load <= Cardinality(Carriable)
      /\ Cardinality(Slots(curr)) = Cardinality(Served(curr))
  BY <1>0 DEF BestInv
<1>2. Served(curr) = Carriable
  <2>1. Served(curr) \subseteq Carriable
    BY <1>1 DEF InPlay
  <2>2. ASSUME NEW n \in Carriable PROVE n \in Served(curr)
    <3>1. PICK v \in Vehicles : FeasibleAdd(v, n)
      BY DEF Carriable
    <3>2. SeedCandidates(v) = {} /\ n \in Stops
      BY DEF SeedEnds, Carriable
    <3> QED BY <3>1, <3>2 DEF SeedCandidates
  <2> QED BY <2>1, <2>2
<1>3. Cardinality(Slots(curr)) <= Cardinality(Served(curr))
  <2>1. Cardinality(Slots(curr)) \in Nat
    BY <1>0, SlotsFinite DEF Slots
  <2> QED BY <1>1, <2>1
<1>4. Whole(best')
  BY <1>0, <1>2, <1>3, OnceByCount DEF Whole
<1>5. LoadNext = Load /\ Served(curr') \union ToSet(removed') = InPlay
  BY <1>0 DEF Load, LoadNext, InPlay
<1> QED BY <1>0, <1>1, <1>4, <1>5, SameProblem DEF BestInv, Searching

LEMMA BestRemove ==
    ASSUME SearchInv, BestInv, RemoveNodes PROVE BestInv'
<1>0. prob \in Problems /\ curr \in Plans /\ removed = <<>> /\ Cardinality(Slots(curr)) \in Nat
  BY LoadNat DEF SearchInv, RemoveNodes
<1>1. PICK k \in 1 .. 3 : \E S \in PickRandomNodes(k) \union ShawRemoval(k) :
          /\ removed' = S
          /\ curr' = [v \in Vehicles |-> Without(curr[v], ToSet(S))]
  BY DEF RemoveNodes
<1>2. PICK S \in PickRandomNodes(k) \union ShawRemoval(k) :
          /\ removed' = S
          /\ curr' = [v \in Vehicles |-> Without(curr[v], ToSet(S))]
  BY <1>1
<1>3. Len(S) \in Nat /\ Len(S) <= Cardinality(Taken(curr, ToSet(S)))
  BY <1>0, RandomTaken, ShawTaken
<1>4. /\ Cardinality(Slots(curr')) + Cardinality(Taken(curr, ToSet(S))) <= Cardinality(Slots(curr))
      /\ Cardinality(Taken(curr, ToSet(S))) \in Nat /\ Cardinality(Slots(curr')) \in Nat
  BY <1>0, <1>2, KeptSlots
<1>5. LoadNext <= Load
  <2>1. Len(removed) = 0
    BY <1>0
  <2> QED BY <1>0, <1>2, <1>3, <1>4, <2>1 DEF Load, LoadNext
<1>6. SearchInv' /\ Served(curr') \union ToSet(removed') = InPlay
  BY RemoveNodesStep
<1>7. /\ prob' = prob /\ best' = best /\ pc \in Searching /\ pc' \in Searching
  BY DEF RemoveNodes, Searching
<1> QED BY <1>5, <1>6, <1>7, BestKept

LEMMA BestInsertCheapest ==
    ASSUME SearchInv, BestInv, InsertCheapest PROVE BestInv'
<1>0. prob \in Problems /\ curr \in Plans /\ removed \in Seq(Stops)
  BY DEF SearchInv
<1>1. PICK x \in NextToInsert : \E o \in Options(x) :
          /\ curr' = [curr EXCEPT ![o[1]] = InsertAt(@, o[2], removed[x])]
          /\ removed' = RemoveAt(removed, x)
  BY DEF InsertCheapest
<1>2. PICK o \in Options(x) :
          /\ curr' = [curr EXCEPT ![o[1]] = InsertAt(@, o[2], removed[x])]
          /\ removed' = RemoveAt(removed, x)
  BY <1>1
<1>3. x \in 1 .. Len(removed) /\ removed[x] \in Stops
  <2>1. x \in DOMAIN removed
    BY DEF NextToInsert
  <2> QED BY <1>0, <2>1, Places
<1>4. PICK v \in Vehicles : \E p \in 1 .. Len(curr[v]) + 1 : o = <<v, p>>
  BY DEF Options
<1>5. PICK p \in 1 .. Len(curr[v]) + 1 : o = <<v, p>>
  BY <1>4
<1>6. curr[v] \in Seq(Stops)
  BY <1>0 DEF Plans
<1> DEFINE t == InsertAt(curr[v], p, removed[x])
<1>7. t \in Seq(Stops) /\ Len(t) = Len(curr[v]) + 1
  BY <1>3, <1>6, InsertAtPlaces
<1>8. curr' = [curr EXCEPT ![v] = t]
  BY <1>2, <1>5
<1> HIDE DEF t
<1>9. Len(removed') = Len(removed) - 1
  BY <1>0, <1>2, <1>3, RemoveAtPlaces
<1>10. LoadNext <= Load
  <2>1. /\ Cardinality(Slots(curr')) = Cardinality(Slots(curr)) - Len(curr[v]) + Len(t)
        /\ Len(curr[v]) \in Nat
    BY <1>0, <1>7, <1>8, SlotsPut
  <2>2. Cardinality(Slots(curr)) \in Nat /\ Len(removed) \in Nat
    BY LoadNat
  <2> QED BY <1>7, <1>9, <2>1, <2>2 DEF Load, LoadNext
<1>11. SearchInv' /\ Served(curr') \union ToSet(removed') = InPlay
  BY InsertCheapestStep
<1>12. /\ prob' = prob /\ best' = best /\ pc \in Searching /\ pc' \in Searching
  BY DEF InsertCheapest, Searching
<1> QED BY <1>10, <1>11, <1>12, BestKept

LEMMA BestInsertAnyway ==
    ASSUME SearchInv, BestInv, InsertAnyway PROVE BestInv'
<1>0. prob \in Problems /\ curr \in Plans /\ removed \in Seq(Stops) /\ removed # <<>>
  BY DEF SearchInv, InsertAnyway
<1>1. PICK v \in Vehicles : curr' = [curr EXCEPT ![v] = Append(@, Head(removed))]
  <2> DEFINE length == [w \in Vehicles |-> Len(curr[w])]
  <2>1. length \in [Vehicles -> Int]
    BY <1>0 DEF Plans
  <2>2. Vehicles \in SUBSET (1 .. prob.vehicles) /\ Vehicles # {} /\ prob.vehicles \in Nat
    BY <1>0, ProblemFacts DEF Vehicles
  <2>3. \E x \in Vehicles : \A y \in Vehicles :
            length[x] < length[y] \/ (length[x] = length[y] /\ x <= y)
    <3> HIDE DEF length
    <3> QED BY <2>1, <2>2, FirstLeastExists
  <2>4. \E x \in Vehicles : \A y \in Vehicles :
            Len(curr[x]) < Len(curr[y]) \/ (Len(curr[x]) = Len(curr[y]) /\ x <= y)
    BY <2>3
  <2> QED BY <2>4 DEF InsertAnyway, FirstLeast
<1>2. curr[v] \in Seq(Stops) /\ Head(removed) \in Stops
  BY <1>0 DEF Plans
<1> DEFINE t == Append(curr[v], Head(removed))
<1>3. t \in Seq(Stops) /\ Len(t) = Len(curr[v]) + 1
  BY <1>2, AppendPlaces
<1>4. curr' = [curr EXCEPT ![v] = t]
  BY <1>1
<1> HIDE DEF t
<1>5. Len(removed') = Len(removed) - 1
  <2>1. removed' = Tail(removed)
    BY DEF InsertAnyway
  <2>2. Len(Tail(removed)) = Len(removed) - 1
    BY <1>0
  <2> QED BY <2>1, <2>2
<1>6. LoadNext <= Load
  <2>1. /\ Cardinality(Slots(curr')) = Cardinality(Slots(curr)) - Len(curr[v]) + Len(t)
        /\ Len(curr[v]) \in Nat
    BY <1>0, <1>3, <1>4, SlotsPut
  <2>2. Cardinality(Slots(curr)) \in Nat /\ Len(removed) \in Nat
    BY LoadNat
  <2> QED BY <1>3, <1>5, <2>1, <2>2 DEF Load, LoadNext
<1>7. SearchInv' /\ Served(curr') \union ToSet(removed') = InPlay
  BY InsertAnywayStep
<1>8. /\ prob' = prob /\ best' = best /\ pc \in Searching /\ pc' \in Searching
  BY DEF InsertAnyway, Searching
<1> QED BY <1>6, <1>7, <1>8, BestKept

\* The steps that leave the plans as they are.
LEMMA BestElse ==
    ASSUME SearchInv, BestInv, SearchEnds \/ InsertEnds \/ OrOptTry \/ OrOptNext PROVE BestInv'
<1>1. SearchInv' /\ Served(curr') \union ToSet(removed') = InPlay
  BY SearchEndsStep, InsertEndsStep, OrOptTryStep, OrOptNextStep
<1>2. /\ prob' = prob /\ best' = best /\ curr' = curr /\ removed' = removed
      /\ pc \in Searching /\ pc' \in Searching
  BY DEF SearchEnds, InsertEnds, OrOptTry, OrOptNext, Searching
<1>3. LoadNext <= Load
  <2>1. LoadNext = Load
    BY <1>2 DEF Load, LoadNext
  <2> QED BY <2>1, LoadNat
<1> QED BY <1>1, <1>2, <1>3, BestKept

LEMMA BestOrOptOuter ==
    ASSUME SearchInv, BestInv, OrOptOuter PROVE BestInv'
<1>0. /\ prob \in Problems /\ curr \in Plans /\ scan.v \in Vehicles
      /\ scan.found \in Seq(Stops) /\ pc = "oropt" /\ SearchInv'
      /\ prob' = prob /\ best' = best /\ removed' = removed
  BY OrOptOuterStep DEF SearchInv, ScanInv, OrOptOuter
<1>1. curr' = curr \/ curr' = [curr EXCEPT ![scan.v] = scan.found]
  BY DEF OrOptOuter
<1>2. pc \in Searching /\ pc' \in Searching
  BY DEF OrOptOuter, Searching
<1>3. Served(curr') \subseteq Served(curr) /\ LoadNext <= Load
  <2>1. CASE curr' = curr
    <3>1. LoadNext = Load
      BY <1>0, <2>1 DEF Load, LoadNext
    <3> QED BY <2>1, <3>1, LoadNat
  <2>2. CASE curr' = [curr EXCEPT ![scan.v] = scan.found]
    <3>1. PICK w \in Vehicles : w = scan.v
      BY <1>0
    <3>2. PICK o \in Seq(Stops) : o = scan.found
      BY <1>0
    <3>3. curr[w] \in Seq(Stops) /\ Len(curr[w]) \in Nat /\ Len(o) \in Nat
      <4>1. curr[w] \in Seq(Stops)
        BY <1>0 DEF Plans
      <4> QED BY <4>1, Places
    <3>4. ToSet(o) \subseteq ToSet(curr[w]) /\ Len(o) <= Len(curr[w])
      <4>1. CASE o = <<>>
        <5>1. ToSet(o) = {} /\ Len(o) = 0
          BY <4>1 DEF ToSet
        <5> QED BY <3>3, <5>1
      <4>2. CASE o # <<>>
        <5>1. ToSet(o) = ToSet(curr[w]) /\ Len(o) = Len(curr[w])
          BY <1>0, <3>1, <3>2, <4>2 DEF SearchInv, ScanInv
        <5> QED BY <3>3, <5>1
      <4> QED BY <4>1, <4>2
    <3>5. curr' = [curr EXCEPT ![w] = o]
      BY <2>2, <3>1, <3>2
    <3>6. /\ Served(curr) = Others(curr, {w}) \union ToSet(curr[w])
          /\ Served([curr EXCEPT ![w] = o]) = Others(curr, {w}) \union ToSet(o)
      <4>1. curr \in Plans
        BY <1>0
      <4> QED BY <4>1, ServedPut, ZenonT(30)
    <3>7. Cardinality(Slots(curr')) = Cardinality(Slots(curr)) - Len(curr[w]) + Len(o)
      BY <1>0, <3>5, SlotsPut
    <3>8. LoadNext <= Load
      <4>1. Cardinality(Slots(curr)) \in Nat /\ Len(removed) \in Nat
        BY LoadNat
      <4> QED BY <1>0, <3>3, <3>4, <3>7, <4>1 DEF Load, LoadNext
    <3> QED BY <3>4, <3>5, <3>6, <3>8
  <2> QED BY <1>1, <2>1, <2>2
<1>4. Served(curr') \union ToSet(removed') \subseteq InPlay
  BY <1>0, <1>3 DEF InPlay
<1> QED BY <1>0, <1>2, <1>3, <1>4, BestKept

LEMMA BestTwoOpt ==
    ASSUME SearchInv, BestInv, TwoOptImprove PROVE BestInv'
<1>0. curr \in Plans /\ prob \in Problems /\ removed' = removed
  BY DEF SearchInv, TwoOptImprove, Improve
<1>1. LoadNext <= Load
  <2>1. CASE curr' \in TwoOptBetter
    <3>1. PICK v \in Vehicles : \E d \in TwoOptMoves(v) : curr' = [curr EXCEPT ![v] = d]
      BY <2>1 DEF TwoOptBetter
    <3>2. PICK d \in TwoOptMoves(v) : curr' = [curr EXCEPT ![v] = d]
      BY <3>1
    <3>3. curr[v] \in Seq(Stops)
      BY <1>0 DEF Plans
    <3>4. PICK i \in 2 .. Len(curr[v]) - 2 : \E k \in i + 1 .. Len(curr[v]) - 1 :
              d = Reversed(curr[v], i, k)
      BY DEF TwoOptMoves
    <3>5. PICK k \in i + 1 .. Len(curr[v]) - 1 : d = Reversed(curr[v], i, k)
      BY <3>4
    <3>6. i \in 1 .. Len(curr[v]) /\ k \in 1 .. Len(curr[v]) /\ i <= k
      <4>1. Len(curr[v]) \in Nat
        BY <3>3
      <4> QED BY <4>1
    <3>7. d \in Seq(Stops) /\ Len(d) = Len(curr[v])
      BY <3>3, <3>5, <3>6, ReversedPlaces
    <3>8. /\ Cardinality(Slots(curr')) = Cardinality(Slots(curr)) - Len(curr[v]) + Len(d)
          /\ Len(curr[v]) \in Nat
      BY <1>0, <3>2, <3>7, SlotsPut
    <3>9. Cardinality(Slots(curr)) \in Nat /\ Len(removed) \in Nat
      BY LoadNat
    <3> QED BY <1>0, <3>7, <3>8, <3>9 DEF Load, LoadNext
  <2>2. CASE curr' = curr
    <3>1. LoadNext = Load
      BY <1>0, <2>2 DEF Load, LoadNext
    <3> QED BY <3>1, LoadNat
  <2> QED BY <2>1, <2>2 DEF TwoOptImprove, Improve
<1>2. SearchInv' /\ Served(curr') \union ToSet(removed') = InPlay
  BY TwoOptStep
<1>3. prob' = prob /\ best' = best /\ pc \in Searching /\ pc' \in Searching
  BY DEF TwoOptImprove, Improve, Searching
<1> QED BY <1>1, <1>2, <1>3, BestKept

\* Two plans that are exchanged for two others of the same length together.
LEMMA LoadOfTwo ==
    ASSUME SearchInv, NEW a \in Vehicles, NEW b \in Vehicles, a # b,
           NEW p \in Seq(Stops), NEW q \in Seq(Stops), removed' = removed,
           curr' = [curr EXCEPT ![a] = p, ![b] = q],
           Len(p) + Len(q) = Len(curr[a]) + Len(curr[b])
    PROVE  LoadNext <= Load
<1>1. /\ prob \in Problems /\ curr \in Plans
      /\ Cardinality(Slots(curr)) \in Nat /\ Len(removed) \in Nat
  BY LoadNat DEF SearchInv
<1>2. /\ Len(p) \in Nat /\ Len(q) \in Nat /\ Len(curr[a]) \in Nat /\ Len(curr[b]) \in Nat
  <2>1. curr[a] \in Seq(Stops) /\ curr[b] \in Seq(Stops)
    BY <1>1 DEF Plans
  <2> QED BY <2>1, Places
<1>3. Cardinality(Slots([curr EXCEPT ![a] = p, ![b] = q]))
        = Cardinality(Slots(curr)) - Len(curr[a]) - Len(curr[b]) + Len(p) + Len(q)
  BY <1>1, SlotsPutTwo, ZenonT(40)
<1>4. Cardinality(Slots(curr')) = Cardinality(Slots(curr))
  <2>1. Cardinality(Slots(curr'))
          = Cardinality(Slots(curr)) - Len(curr[a]) - Len(curr[b]) + Len(p) + Len(q)
    BY <1>3, Zenon
  <2>2. Len(p) + Len(q) = Len(curr[a]) + Len(curr[b])
    OBVIOUS
  <2> DEFINE c == Cardinality(Slots(curr))
             lp == Len(p)
             lq == Len(q)
             la == Len(curr[a])
             lb == Len(curr[b])
  <2>3. /\ c \in Nat /\ lp \in Nat /\ lq \in Nat /\ la \in Nat /\ lb \in Nat
        /\ lp + lq = la + lb
    BY <1>1, <1>2, <2>2, Zenon
  <2>4. Cardinality(Slots(curr')) = c - la - lb + lp + lq
    BY <2>1, Zenon
  <2> HIDE DEF c, lp, lq, la, lb
  <2>5. c - la - lb + lp + lq = c
    BY <2>3
  <2>6. Cardinality(Slots(curr')) = c
    BY <2>4, <2>5, Zenon
  <2> QED BY <2>6 DEF c
<1> QED BY <1>1, <1>4 DEF Load, LoadNext

LEMMA BestCross ==
    ASSUME SearchInv, BestInv, CrossExchangeImprove PROVE BestInv'
<1>0. curr \in Plans /\ prob \in Problems /\ removed' = removed
  BY DEF SearchInv, CrossExchangeImprove, Improve
<1>1. LoadNext <= Load
  <2>1. CASE curr' \in Exchanged(CrossMoves)
    <3>1. PICK a \in Vehicles, b \in Vehicles : \E m \in CrossMoves(a, b) :
              a < b /\ curr' = [curr EXCEPT ![a] = m[1], ![b] = m[2]]
      BY <2>1 DEF Exchanged
    <3>2. PICK m \in CrossMoves(a, b) : a < b /\ curr' = [curr EXCEPT ![a] = m[1], ![b] = m[2]]
      BY <3>1
    <3>3. PICK i \in DOMAIN curr[a], j \in DOMAIN curr[b] :
              m = <<ReplaceAt(curr[a], i, curr[b][j]), ReplaceAt(curr[b], j, curr[a][i])>>
      BY DEF CrossMoves
    <3>4. curr[a] \in Seq(Stops) /\ curr[b] \in Seq(Stops) /\ a # b
      <4>1. a \in Int /\ b \in Int
        BY DEF Vehicles
      <4> QED BY <1>0, <3>2, <4>1 DEF Plans
    <3>5. i \in 1 .. Len(curr[a]) /\ j \in 1 .. Len(curr[b])
      BY <3>4, Places
    <3> DEFINE p == ReplaceAt(curr[a], i, curr[b][j])
               q == ReplaceAt(curr[b], j, curr[a][i])
    <3>6. p \in Seq(Stops) /\ q \in Seq(Stops)
      BY <3>4, <3>5, ReplacePlaces
    <3>7. Len(p) = Len(curr[a]) /\ Len(q) = Len(curr[b])
      <4>1. /\ Len(curr[a]) \in Nat /\ DOMAIN p = 1 .. Len(curr[a])
            /\ Len(curr[b]) \in Nat /\ DOMAIN q = 1 .. Len(curr[b])
        BY <3>4 DEF ReplaceAt
      <4> HIDE DEF p, q
      <4> QED BY <3>6, <4>1
    <3>8. curr' = [curr EXCEPT ![a] = p, ![b] = q]
      BY <3>2, <3>3
    <3> HIDE DEF p, q
    <3> QED BY <1>0, <3>4, <3>6, <3>7, <3>8, LoadOfTwo
  <2>2. CASE curr' = curr
    <3>1. LoadNext = Load
      BY <1>0, <2>2 DEF Load, LoadNext
    <3> QED BY <3>1, LoadNat
  <2> QED BY <2>1, <2>2 DEF CrossExchangeImprove, Improve
<1>2. SearchInv' /\ Served(curr') \union ToSet(removed') = InPlay
  BY CrossStep
<1>3. prob' = prob /\ best' = best /\ pc \in Searching /\ pc' \in Searching
  BY DEF CrossExchangeImprove, Improve, Searching
<1> QED BY <1>1, <1>2, <1>3, BestKept

\* The len places of o from i on, and their stops seg.
IsStretch(o, i, len) ==
    o \in Seq(Stops) /\ i \in 1 .. Len(o) /\ len \in 1 .. 2 /\ i + len - 1 <= Len(o)

IsSegment(o, i, len, seg) == IsStretch(o, i, len) /\ seg \in Seq(Stops) /\ Len(seg) = len

LEMMA SegmentOf ==
    ASSUME NEW o, NEW i, NEW len, IsStretch(o, i, len)
    PROVE  IsSegment(o, i, len, SubSeq(o, i, i + len - 1))
<1>1. /\ o \in Seq(Stops) /\ Len(o) \in Nat /\ i \in Nat /\ i >= 1 /\ len \in Nat
      /\ i + len - 1 <= Len(o) /\ len >= 1
  BY DEF IsStretch
<1>2. PICK k \in Nat : k = i + len - 1
  BY <1>1
<1>3. SubSeq(o, i, k) \in Seq(Stops) /\ Len(SubSeq(o, i, k)) = k - i + 1
  BY <1>1, <1>2
<1>4. k - i + 1 = len
  BY <1>1, <1>2
<1> QED BY <1>2, <1>3, <1>4 DEF IsSegment

\* Two sequences that exchange segments have the length they had, together.
LEMMA SplicedSegment ==
    ASSUME NEW o, NEW i, NEW len, NEW seg, IsSegment(o, i, len, seg), NEW other \in Seq(Stops)
    PROVE  /\ Spliced(o, i, len, other) \in Seq(Stops)
           /\ Len(Spliced(o, i, len, other)) = Len(o) - Len(seg) + Len(other)
<1>1. /\ o \in Seq(Stops) /\ i \in 1 .. Len(o) /\ len \in 1 .. 2 /\ i + len - 1 <= Len(o)
      /\ len = Len(seg)
  BY DEF IsSegment, IsStretch
<1>2. /\ Spliced(o, i, len, other) \in Seq(Stops)
      /\ Len(Spliced(o, i, len, other)) = Len(o) - len + Len(other)
  BY <1>1, SplicedPlaces, ZenonT(40)
<1> QED BY <1>1, <1>2, Zenon

\* What a segment exchange loses in one plan it has too many of in the other.
LEMMA BestStar ==
    ASSUME SearchInv, BestInv, TwoOptStarImprove PROVE BestInv'
<1>0. curr \in Plans /\ prob \in Problems /\ removed' = removed
  BY DEF SearchInv, TwoOptStarImprove, Improve
<1>1. LoadNext <= Load
  <2>1. CASE curr' \in Exchanged(StarMoves)
    <3>1. PICK a \in Vehicles, b \in Vehicles : \E m \in StarMoves(a, b) :
              a < b /\ curr' = [curr EXCEPT ![a] = m[1], ![b] = m[2]]
      BY <2>1 DEF Exchanged
    <3>2. PICK m \in StarMoves(a, b) : a < b /\ curr' = [curr EXCEPT ![a] = m[1], ![b] = m[2]]
      BY <3>1
    <3>3. a # b /\ curr[a] \in Seq(Stops) /\ curr[b] \in Seq(Stops)
      <4>1. a \in Int /\ b \in Int
        BY DEF Vehicles
      <4> QED BY <1>0, <3>2, <4>1 DEF Plans
    <3>4. PICK A \in Seq(Stops), B \in Seq(Stops) : A = curr[a] /\ B = curr[b]
      BY <3>3
    <3> DEFINE Segment(o) == {s \in (DOMAIN o) \X {1, 2} : s[1] + s[2] - 1 <= Len(o)}
               seg(o, s) == SubSeq(o, s[1], s[1] + s[2] - 1)
    <3>5. PICK s \in Segment(A), t \in Segment(B) :
              m = <<Spliced(A, s[1], s[2], seg(B, t)), Spliced(B, t[1], t[2], seg(A, s))>>
      BY <3>4 DEF StarMoves
    <3>12. DOMAIN A = 1 .. Len(A) /\ DOMAIN B = 1 .. Len(B)
      BY Places
    <3>6. PICK i \in 1 .. Len(A), len \in 1 .. 2 : s = <<i, len>> /\ i + len - 1 <= Len(A)
      <4>1. s \in (DOMAIN A) \X {1, 2} /\ s[1] + s[2] - 1 <= Len(A)
        OBVIOUS
      <4>2. s = <<s[1], s[2]>> /\ s[1] \in DOMAIN A /\ s[2] \in {1, 2}
        BY <4>1
      <4>3. s[2] \in 1 .. 2
        BY <4>2
      <4> QED BY <3>12, <4>1, <4>2, <4>3, Zenon
    <3>7. PICK j \in 1 .. Len(B), num \in 1 .. 2 : t = <<j, num>> /\ j + num - 1 <= Len(B)
      <4>1. t \in (DOMAIN B) \X {1, 2} /\ t[1] + t[2] - 1 <= Len(B)
        OBVIOUS
      <4>2. t = <<t[1], t[2]>> /\ t[1] \in DOMAIN B /\ t[2] \in {1, 2}
        BY <4>1
      <4>3. t[2] \in 1 .. 2
        BY <4>2
      <4> QED BY <3>12, <4>1, <4>2, <4>3, Zenon
    <3> DEFINE sa == SubSeq(A, i, i + len - 1)
               sb == SubSeq(B, j, j + num - 1)
               p == Spliced(A, i, len, sb)
               q == Spliced(B, j, num, sa)
    <3>8. m = <<p, q>>
      BY <3>5, <3>6, <3>7
    <3> HIDE DEF Segment, seg
    <3>9. p \in Seq(Stops) /\ q \in Seq(Stops) /\ Len(p) + Len(q) = Len(A) + Len(B)
      <4>1. IsStretch(A, i, len) /\ IsStretch(B, j, num)
        BY <3>6, <3>7 DEF IsStretch
      <4>2. IsSegment(A, i, len, sa) /\ IsSegment(B, j, num, sb)
        BY <4>1, SegmentOf, Zenon
      <4> HIDE DEF sa, sb
      <4>3. sa \in Seq(Stops) /\ sb \in Seq(Stops)
        BY <4>2 DEF IsSegment
      <4>4. p \in Seq(Stops) /\ Len(p) = Len(A) - Len(sa) + Len(sb)
        BY <4>2, <4>3, SplicedSegment
      <4>5. q \in Seq(Stops) /\ Len(q) = Len(B) - Len(sb) + Len(sa)
        BY <4>2, <4>3, SplicedSegment
      <4> HIDE DEF p, q
      <4>6. Len(A) \in Nat /\ Len(B) \in Nat /\ Len(sa) \in Nat /\ Len(sb) \in Nat
        BY <4>3, Places
      <4> QED BY <4>4, <4>5, <4>6
    <3> HIDE DEF p, q, sa, sb
    <3>10. curr' = [curr EXCEPT ![a] = p, ![b] = q]
      BY <3>2, <3>8
    <3>11. Len(p) + Len(q) = Len(curr[a]) + Len(curr[b])
      BY <3>4, <3>9
    <3> QED BY <1>0, <3>3, <3>9, <3>10, <3>11, LoadOfTwo
  <2>2. CASE curr' = curr
    <3>1. LoadNext = Load
      BY <1>0, <2>2 DEF Load, LoadNext
    <3> QED BY <3>1, LoadNat
  <2> QED BY <2>1, <2>2 DEF TwoOptStarImprove, Improve
<1>2. SearchInv' /\ Served(curr') \union ToSet(removed') \subseteq InPlay
  BY StarStep
<1>3. prob' = prob /\ best' = best /\ pc \in Searching /\ pc' \in Searching
  BY DEF TwoOptStarImprove, Improve, Searching
<1> QED BY <1>1, <1>2, <1>3, BestKept

\* A solution that is cheaper than a whole one is whole.
LEMMA BestAccept ==
    ASSUME SearchInv, BestInv, Accept PROVE BestInv'
<1>0. /\ prob \in Problems /\ curr \in Plans /\ best \in Plans /\ removed = <<>> /\ pc = "accept"
      /\ removed' = removed /\ prob' = prob /\ curr' = curr /\ pc' = "head"
      /\ best' = IF Cost(curr) < Cost(best) THEN curr ELSE best
  BY DEF SearchInv, Accept
<1>1. /\ InPlay \subseteq Carriable /\ Load <= Cardinality(Carriable)
      /\ MissingIsWorst => Whole(best)
  BY <1>0 DEF BestInv, Searching
<1>2. ASSUME MissingIsWorst PROVE Whole(best')
  <2>1. CASE Cost(curr) < Cost(best)
    <3>1. Served(curr) \subseteq Carriable
      BY <1>1 DEF InPlay
    <3>2. Served(curr) = Carriable
      BY <1>0, <1>1, <1>2, <2>1, <3>1, WholeIsCheaper
    <3>3. Cardinality(Slots(curr)) <= Cardinality(Served(curr))
      <4>1. Len(removed) = 0 /\ Cardinality(Slots(curr)) \in Nat
        BY <1>0, LoadNat
      <4> QED BY <1>1, <3>2, <4>1 DEF Load
    <3>4. Whole(curr)
      BY <1>0, <3>2, <3>3, OnceByCount DEF Whole
    <3> QED BY <1>0, <2>1, <3>4
  <2>2. CASE ~(Cost(curr) < Cost(best))
    BY <1>0, <1>1, <1>2, <2>2
  <2> QED BY <2>1, <2>2
<1>3. LoadNext = Load /\ Served(curr') \union ToSet(removed') = InPlay
  BY <1>0 DEF Load, LoadNext, InPlay
<1> QED BY <1>0, <1>1, <1>2, <1>3, SameProblem DEF BestInv, Searching

\* Before the search the solution is empty.
LEMMA NothingPlanned ==
    ASSUME prob \in Problems
    PROVE  Served(NoPlans) = {} /\ Slots(NoPlans) = {}
<1>1. \A v \in Vehicles : NoPlans[v] = <<>>
  BY DEF NoPlans
<1>2. \A v \in Vehicles : ToSet(NoPlans[v]) = {} /\ DOMAIN NoPlans[v] = {}
  <2>1. ToSet(<<>>) = {} /\ DOMAIN <<>> = {}
    BY DEF ToSet
  <2> QED BY <1>1, <2>1
<1>3. Served(NoPlans) = {}
  BY <1>2 DEF Served
<1>4. Slots(NoPlans) = {}
  BY <1>2 DEF Slots, OtherSlots
<1> QED BY <1>3, <1>4

LEMMA BestBegins ==
    ASSUME SearchInv, BestInv, PlanAlns PROVE BestInv'
<1>1. /\ prob \in Problems /\ pc' = "seed" /\ prob' = prob
      /\ curr' = NoPlans /\ removed' = <<>>
  BY DEF SearchInv, BestInv, PlanAlns, solver
<1>2. Served(curr') \union ToSet(removed') = {} /\ Slots(curr') = {}
  <2>1. ToSet(<<>>) = {}
    BY DEF ToSet
  <2> QED BY <1>1, <2>1, NothingPlanned
<1>3. Cardinality(Carriable) \in Nat /\ Cardinality({}) = 0 /\ Len(<<>>) = 0
  BY <1>1, CarriableFinite, FS_EmptySet
<1>4. LoadNext = 0
  BY <1>1, <1>2, <1>3 DEF LoadNext
<1>5. InPlay' \subseteq Carriable' /\ Load' <= Cardinality(Carriable')
  BY <1>1, <1>2, <1>3, <1>4, SameProblem
<1>6. Cardinality(Slots(curr)') = Cardinality(Served(curr)')
  <2>1. Served(curr') = {}
    BY <1>2
  <2> QED BY <1>1, <1>2, <2>1, SameProblem
<1> QED BY <1>1, <1>5, <1>6 DEF BestInv, Searching

\* A step outside the search.
LEMMA BestElsewhere ==
    ASSUME pc' \notin {"request", "seed"} \union Searching PROVE BestInv'
BY DEF BestInv

LEMMA BestNext ==
    ASSUME SearchInv, BestInv, [Next]_vars PROVE BestInv'
<1>1. ASSUME Solve PROVE BestInv'
  BY <1>1, BestSeed, BestSeedEnds, BestRemove, BestInsertCheapest, BestInsertAnyway,
     BestElse, BestOrOptOuter, BestTwoOpt, BestCross, BestStar, BestAccept DEF Solve
<1>2. ASSUME TakeSolution \/ PlanEmpty \/ PlanGreedy PROVE BestInv'
  BY <1>2, BestElsewhere DEF TakeSolution, PlanEmpty, PlanGreedy, Searching
<1>3. ASSUME PlanAlns PROVE BestInv'
  BY <1>3, BestBegins
<1>4. ASSUME InsertRoute PROVE BestInv'
  BY <1>4, BestElsewhere DEF InsertRoute, Searching
<1>5. ASSUME InsertDepotLeg \/ InsertBreak \/ InsertLeg \/ InsertReturnLeg PROVE BestInv'
  <2>1. pc' \in {"hops", "drive", "read"}
    BY <1>5 DEF InsertDepotLeg, InsertBreak, InsertLeg, InsertReturnLeg
  <2> QED BY <2>1, BestElsewhere DEF Searching
<1>6. ASSUME NoReturnLeg \/ ReadRoute \/ Respond \/ StatementFails PROVE BestInv'
  <2>1. pc' \in {"read", "route", "failed", "answered"}
    BY <1>6 DEF NoReturnLeg, ReadRoute, Respond, StatementFails
  <2> QED BY <2>1, BestElsewhere DEF Searching
<1>7. ASSUME (\E r \in DOMAIN db : Advance(r)) \/ UNCHANGED vars PROVE BestInv'
  <2>1. prob' = prob /\ pc' = pc /\ curr' = curr /\ best' = best /\ removed' = removed
    BY <1>7 DEF Advance, vars, solver
  <2>2. Load' = Load /\ InPlay' = InPlay /\ Served(curr)' = Served(curr)
        /\ Slots(curr)' = Slots(curr) /\ Whole(best)' = Whole(best)
    BY <2>1, SameProblem DEF Load, LoadNext, InPlay
  <2>3. Carriable' = Carriable /\ MissingIsWorst' = MissingIsWorst /\ NoPlans' = NoPlans
    BY <2>1, SameProblem
  <2> QED BY <2>1, <2>2, <2>3 DEF BestInv
<1> QED BY <1>1, <1>2, <1>3, <1>4, <1>5, <1>6, <1>7 DEF Next, Planner, Done

LEMMA BestAlways == Spec => [](SearchInv /\ BestInv)
<1>1. Init => BestInv
  BY DEF Init, BestInv, Searching
<1>2. SearchInv /\ BestInv /\ [Next]_vars => BestInv'
  BY BestNext
<1> QED BY <1>1, <1>2, SearchAlways, PTL DEF Spec

\* If a missing stop costs more than all driving and delay, the best solution Solve has
\* at any time of the search serves every stop that some vehicle may carry, each once,
\* although the segment exchange may lose and double stops of the current one.
THEOREM BestIsWhole == Spec => []BestServesAll
<1>1. BestInv => BestServesAll
  BY DEF BestInv, BestServesAll, Whole
<1> QED BY <1>1, BestAlways, PTL

----------------------------------------------------------------------------
(* The greedy planner divides the stops *)

\* A sequence with no element twice, place by place.
LEMMA OncePlaces ==
    ASSUME NEW X, NEW o \in Seq(X), Once(o)
    PROVE  \A i, j \in 1 .. Len(o) : o[i] = o[j] => i = j
<1>1. IsFiniteSet(1 .. Len(o)) /\ Cardinality(1 .. Len(o)) = Len(o)
  <2>1. Len(o) \in Nat /\ Len(o) \in Int /\ 1 \in Int
    BY Places
  <2>2. /\ IsFiniteSet(1 .. Len(o))
        /\ Cardinality(1 .. Len(o)) = IF 1 > Len(o) THEN 0 ELSE Len(o) - 1 + 1
    BY <2>1, FS_Interval
  <2> QED BY <2>1, <2>2
<1>2. o \in Surjection(1 .. Len(o), ToSet(o))
  <2>1. o = [i \in 1 .. Len(o) |-> o[i]]
    OBVIOUS
  <2>2. o \in [1 .. Len(o) -> ToSet(o)]
    BY <2>1, Places
  <2> QED BY <2>2, Places DEF Surjection
<1>3. Cardinality(ToSet(o)) = Cardinality(1 .. Len(o))
  BY <1>1 DEF Once
<1>4. o \in Injection(1 .. Len(o), ToSet(o))
  BY <1>1, <1>2, <1>3, FS_Surjection
<1> QED BY <1>4 DEF Injection, IsInjective

\* The cluster a stop belongs to.
Nearest(i) == FirstLeast(DOMAIN Seeds, LAMBDA d : Dist(At(i), At(Seeds[d])))

LEMMA NearestFacts ==
    ASSUME prob \in Problems, prob.n >= 1, NEW i \in Stops
    PROVE  /\ Nearest(i) \in DOMAIN Seeds
           /\ \A d \in DOMAIN Seeds :
                 \/ Dist(At(i), At(Seeds[Nearest(i)])) < Dist(At(i), At(Seeds[d]))
                 \/ /\ Dist(At(i), At(Seeds[Nearest(i)])) = Dist(At(i), At(Seeds[d]))
                    /\ Nearest(i) <= d
<1> DEFINE n == Len(Seeds)
           far == [d \in 1 .. n |-> Dist(At(i), At(Seeds[d]))]
<1>1. Seeds \in Seq(Stops) /\ n \in Nat /\ n >= 1 /\ DOMAIN Seeds = 1 .. n
  <2>1. Seeds \in Seq(Stops) /\ Len(Seeds) >= 1
    BY SeedsType
  <2>2. Len(Seeds) \in Nat /\ DOMAIN Seeds = 1 .. Len(Seeds)
    BY <2>1, Places
  <2> QED BY <2>1, <2>2
<1>2. \A d \in 1 .. n : Dist(At(i), At(Seeds[d])) \in Int
  <2>1. \A d \in 1 .. n : Seeds[d] \in Stops
    BY <1>1, Places
  <2>2. At(i) \in Nat /\ \A d \in 1 .. n : At(Seeds[d]) \in Nat
    BY <2>1, StopFacts
  <2>3. \A d \in 1 .. n : Dist(At(i), At(Seeds[d])) \in Nat
    BY <2>2, DistNat
  <2> HIDE DEF n
  <2> QED BY <2>3
<1>3. far \in [1 .. n -> Int] /\ 1 .. n \in SUBSET (1 .. n) /\ 1 .. n # {}
  BY <1>1, <1>2
<1>4. \E x \in 1 .. n : \A y \in 1 .. n : far[x] < far[y] \/ (far[x] = far[y] /\ x <= y)
  <2> HIDE DEF far, n
  <2> QED BY <1>1, <1>3, FirstLeastExists
<1>5. \E x \in DOMAIN Seeds : \A y \in DOMAIN Seeds :
          \/ Dist(At(i), At(Seeds[x])) < Dist(At(i), At(Seeds[y]))
          \/ Dist(At(i), At(Seeds[x])) = Dist(At(i), At(Seeds[y])) /\ x <= y
  BY <1>1, <1>4
<1> QED BY <1>5 DEF Nearest, FirstLeast

LEMMA ClusterOf ==
    ASSUME NEW c PROVE Cluster(c) = {i \in Stops : c = Nearest(i)}
BY DEF Cluster, Nearest

\* The seed of a cluster that is not empty belongs to it: a seed at the place of an
\* earlier one leaves all stops to that one.
LEMMA SeedInCluster ==
    ASSUME prob \in Problems, prob.n >= 1, NEW c \in DOMAIN Seeds, Cluster(c) # {}
    PROVE  Seeds[c] \in Cluster(c)
<1>1. Seeds \in Seq(Stops)
  BY SeedsType
<1>2. Seeds[c] \in Stops /\ \A d \in DOMAIN Seeds : d \in Nat /\ Seeds[d] \in Stops
  BY <1>1, Places
<1>3. PICK i \in Stops : c = Nearest(i)
  BY ClusterOf
<1>4. PICK e : e = Nearest(Seeds[c])
  OBVIOUS
<1>5. /\ e \in DOMAIN Seeds
      /\ \/ Dist(At(Seeds[c]), At(Seeds[e])) < Dist(At(Seeds[c]), At(Seeds[c]))
         \/ /\ Dist(At(Seeds[c]), At(Seeds[e])) = Dist(At(Seeds[c]), At(Seeds[c]))
            /\ e <= c
  BY <1>2, <1>4, NearestFacts
<1>6. \/ Dist(At(i), At(Seeds[c])) < Dist(At(i), At(Seeds[e]))
      \/ Dist(At(i), At(Seeds[c])) = Dist(At(i), At(Seeds[e])) /\ c <= e
  BY <1>3, <1>5, NearestFacts
<1>7. PICK x \in Nat, y \in Nat, z \in Nat : x = At(Seeds[c]) /\ y = At(Seeds[e]) /\ z = At(i)
  BY <1>2, <1>5, StopFacts
<1>8. x = y /\ e <= c
  <2>1. Dist(x, x) = 0 /\ Dist(x, y) \in Nat /\ (Dist(x, y) = 0 => x = y)
    BY DEF Dist
  <2>2. Dist(x, y) < Dist(x, x) \/ (Dist(x, y) = Dist(x, x) /\ e <= c)
    BY <1>5, <1>7
  <2> QED BY <2>1, <2>2
<1>9. c <= e
  <2>1. Dist(z, x) < Dist(z, y) \/ (Dist(z, x) = Dist(z, y) /\ c <= e)
    BY <1>6, <1>7
  <2>2. Dist(z, x) \in Nat /\ Dist(z, x) = Dist(z, y)
    BY <1>8, DistNat
  <2> QED BY <2>1, <2>2
<1>10. c = e
  <2>1. c \in Nat /\ e \in Nat
    BY <1>2, <1>5
  <2> QED BY <1>8, <1>9, <2>1
<1> QED BY <1>2, <1>4, <1>10, ClusterOf

\* The order of a cluster visits each of its stops once, if there are at least two.
LEMMA GreedyOrderFacts ==
    ASSUME prob \in Problems, prob.n >= 1, NEW c \in DOMAIN Seeds
    PROVE  /\ GreedyOrder(c) \in Seq(Stops)
           /\ Cardinality(Cluster(c)) < 2 => GreedyOrder(c) = <<>>
           /\ ~(Cardinality(Cluster(c)) < 2) =>
                 Once(GreedyOrder(c)) /\ ToSet(GreedyOrder(c)) = Cluster(c)
<1> DEFINE C == Cluster(c)
           o == NearestNeighbour(Seeds[c], C)
<1>1. C \in SUBSET Stops /\ IsFiniteSet(C) /\ Cardinality(C) \in Nat
  <2>1. C \in SUBSET Stops
    BY DEF Cluster
  <2> QED BY <2>1, FiniteProblem, FS_Subset, FS_CardinalityType
<1>2. GreedyOrder(c) = IF Cardinality(C) < 2 THEN <<>> ELSE ImproveOrder2Opt(o)
  BY DEF GreedyOrder
<1>3. CASE Cardinality(C) < 2
  BY <1>2, <1>3
<1>4. CASE ~(Cardinality(C) < 2)
  <2>1. Cardinality(C) >= 1 /\ C # {}
    <3>1. Cardinality({}) = 0
      BY FS_EmptySet
    <3> QED BY <1>1, <1>4, <3>1
  <2>2. Seeds[c] \in C
    BY <2>1, SeedInCluster
  <2> HIDE DEF C
  <2>3. Seeds[c] \in Stops
    BY <1>1, <2>2
  <2>4. /\ o \in Seq(Stops) /\ Len(o) = Cardinality(C) /\ Once(o)
        /\ ToSet(o) \subseteq C \union {Seeds[c]}
    BY <1>1, <2>1, <2>3, NearestNeighbourType
  <2> HIDE DEF o
  <2>5. ToSet(o) = C
    <3>1. ToSet(o) \subseteq C
      BY <2>2, <2>4
    <3>2. Cardinality(ToSet(o)) = Cardinality(C)
      BY <2>4 DEF Once
    <3> QED BY <1>1, <3>1, <3>2, FS_Subset
  <2>6. /\ ImproveOrder2Opt(o) \in Seq(Stops) /\ Len(ImproveOrder2Opt(o)) = Len(o)
        /\ ToSet(ImproveOrder2Opt(o)) = ToSet(o)
    BY <2>4, ImproveType
  <2>7. Once(ImproveOrder2Opt(o))
    BY <2>4, <2>6 DEF Once
  <2> QED BY <1>2, <1>4, <2>5, <2>6, <2>7 DEF C
<1> QED BY <1>3, <1>4

----------------------------------------------------------------------------
(* The orders divide the stops *)

\* The stops that are to be planned.
Carried == IF prob.algorithm = "alns" THEN Carriable ELSE Stops

\* Every stop of C has an order it is in, or an empty one of its own.
Owned(C, P, own) ==
    \A n \in C :
        \/ n \in ToSet(P[own[n]])
        \/ P[own[n]] = <<>> /\ \A m \in C : own[m] = own[n] => m = n

Divides(C, P) == NoneTwice(P) /\ \E own \in [C -> DOMAIN P] : Owned(C, P, own)

\* A set with fewer than two elements.
LEMMA FewerThanTwo ==
    ASSUME NEW S, IsFiniteSet(S), Cardinality(S) < 2, NEW m \in S, NEW n \in S
    PROVE  m = n
<1> SUFFICES ASSUME m # n PROVE FALSE
  OBVIOUS
<1>1. IsFiniteSet({m}) /\ Cardinality({m}) = 1
  BY FS_Singleton
<1>2. Cardinality({m} \union {n}) = 2
  BY <1>1, FS_AddElement
<1>3. Cardinality({m} \union {n}) <= Cardinality(S)
  BY FS_Subset
<1>4. Cardinality(S) \in Nat
  BY FS_CardinalityType
<1> QED BY <1>2, <1>3, <1>4

LEMMA GreedyDivides ==
    ASSUME prob \in Problems, prob.n >= 1
    PROVE  Divides(Stops, [c \in DOMAIN Seeds |-> GreedyOrder(c)])
<1> DEFINE P == [c \in DOMAIN Seeds |-> GreedyOrder(c)]
           own == [n \in Stops |-> Nearest(n)]
<1>1. ASSUME NEW c \in DOMAIN Seeds
      PROVE  /\ P[c] \in Seq(Stops) /\ DOMAIN P[c] = 1 .. Len(P[c])
             /\ Cardinality(Cluster(c)) < 2 => P[c] = <<>>
             /\ ~(Cardinality(Cluster(c)) < 2) => Once(P[c]) /\ ToSet(P[c]) = Cluster(c)
  <2>1. P[c] = GreedyOrder(c)
    OBVIOUS
  <2>2. P[c] \in Seq(Stops)
    BY <2>1, GreedyOrderFacts
  <2> QED BY <2>1, <2>2, GreedyOrderFacts, Places
<1>2. DOMAIN P = DOMAIN Seeds
  OBVIOUS
<1> HIDE DEF P
<1>3. NoneTwice(P)
  <2> SUFFICES ASSUME NEW v \in DOMAIN Seeds, NEW w \in DOMAIN Seeds,
                      NEW i \in DOMAIN P[v], NEW j \in DOMAIN P[w], P[v][i] = P[w][j]
               PROVE  v = w /\ i = j
    BY <1>2 DEF NoneTwice
  <2>1. i \in 1 .. Len(P[v]) /\ j \in 1 .. Len(P[w])
    BY <1>1
  <2>2. P[v] # <<>> /\ P[w] # <<>>
    OBVIOUS
  <2>3. Once(P[v]) /\ ToSet(P[v]) = Cluster(v) /\ ToSet(P[w]) = Cluster(w)
    BY <1>1, <2>2
  <2>4. P[v] \in Seq(Stops) /\ P[w] \in Seq(Stops)
    BY <1>1
  <2>5. P[v][i] \in Cluster(v) /\ P[w][j] \in Cluster(w)
    BY <2>1, <2>3, <2>4, Places
  <2>6. v = w
    BY <2>5, ClusterOf
  <2> QED BY <2>1, <2>3, <2>4, <2>6, OncePlaces
<1>4. own \in [Stops -> DOMAIN P]
  BY <1>2, NearestFacts
<1>5. Owned(Stops, P, own)
  <2> SUFFICES ASSUME NEW n \in Stops
               PROVE  \/ n \in ToSet(P[own[n]])
                      \/ P[own[n]] = <<>> /\ \A m \in Stops : own[m] = own[n] => m = n
    BY DEF Owned
  <2>1. PICK c \in DOMAIN Seeds : c = Nearest(n)
    BY NearestFacts
  <2>2. n \in Cluster(c) /\ own[n] = c
    BY <2>1, ClusterOf
  <2>3. CASE Cardinality(Cluster(c)) < 2
    <3>1. IsFiniteSet(Cluster(c))
      <4>1. Cluster(c) \subseteq Stops
        BY DEF Cluster
      <4> QED BY <4>1, FiniteProblem, FS_Subset
    <3>2. ASSUME NEW m \in Stops, own[m] = own[n] PROVE m = n
      <4>1. m \in Cluster(c)
        BY <2>2, <3>2, ClusterOf
      <4> QED BY <2>2, <2>3, <3>1, <4>1, FewerThanTwo
    <3> QED BY <1>1, <2>2, <2>3, <3>2
  <2>4. CASE ~(Cardinality(Cluster(c)) < 2)
    BY <1>1, <2>2, <2>4
  <2> QED BY <2>3, <2>4
<1> HIDE DEF own
<1>6. Divides(Stops, P)
  BY <1>3, <1>4, <1>5 DEF Divides
<1> QED BY <1>6 DEF P

LEMMA TakenDivides ==
    ASSUME SearchInv, Whole(best)
    PROVE  Divides(Carriable, Subsequence([v \in Vehicles |-> best[v]],
                                          {v \in Vehicles : best[v] # <<>>}))
<1>0. prob \in Problems /\ best \in Plans /\ prob.vehicles \in Nat
  BY ProblemFacts DEF SearchInv
<1>1. PICK X : X = Seq(Stops)
  OBVIOUS
<1>2. PICK s : s = [v \in Vehicles |-> best[v]]
  OBVIOUS
<1>3. s \in Seq(X) /\ DOMAIN s = Vehicles /\ s = best
  <2>1. \A v \in Vehicles : best[v] \in X
    BY <1>0, <1>1 DEF Plans
  <2>2. s = best
    BY <1>0, <1>2 DEF Plans
  <2> QED BY <1>0, <1>2, <2>1, <2>2 DEF Vehicles
<1>4. PICK S \in SUBSET DOMAIN s : S = {v \in Vehicles : best[v] # <<>>}
  BY <1>3
<1>5. PICK P : P = Subsequence(s, S)
  OBVIOUS
<1>6. PICK k \in Nat : k = Cardinality(S)
  BY <1>3, SubsequenceFacts
<1>7. /\ P \in Seq(X) /\ Len(P) = k
      /\ \A a \in 1 .. k : Place(S, a) \in S /\ P[a] = s[Place(S, a)]
      /\ \A a, b \in 1 .. k : a < b => Place(S, a) < Place(S, b)
      /\ \A i \in S : \E a \in 1 .. k : P[a] = s[i]
  BY <1>3, <1>5, <1>6, SubsequenceFacts
<1>8. DOMAIN P = 1 .. k
  BY <1>7
<1>9. Served(best) = Carriable /\ NoneTwice(best) /\ DOMAIN best = Vehicles
  BY <1>2, <1>3 DEF Whole
<1>10. NoneTwice(P)
  <2> SUFFICES ASSUME NEW a \in 1 .. k, NEW b \in 1 .. k,
                      NEW i \in DOMAIN P[a], NEW j \in DOMAIN P[b], P[a][i] = P[b][j]
               PROVE  a = b /\ i = j
    BY <1>8 DEF NoneTwice
  <2>1. PICK v \in Vehicles, w \in Vehicles : v = Place(S, a) /\ w = Place(S, b)
    BY <1>3, <1>7
  <2>2. P[a] = best[v] /\ P[b] = best[w]
    BY <1>3, <1>7, <2>1
  <2>3. v = w /\ i = j
    BY <1>9, <2>2 DEF NoneTwice
  <2>4. ~(a < b) /\ ~(b < a)
    <3>1. v \in Int
      BY DEF Vehicles
    <3>2. ~(v < v)
      BY <3>1
    <3> QED BY <1>7, <2>1, <2>3, <3>2
  <2> QED BY <2>3, <2>4
<1>11. \A n \in Carriable : \E a \in 1 .. k : n \in ToSet(P[a])
  <2> SUFFICES ASSUME NEW n \in Carriable PROVE \E a \in 1 .. k : n \in ToSet(P[a])
    OBVIOUS
  <2>1. PICK v \in Vehicles : n \in ToSet(best[v])
    BY <1>9 DEF Served
  <2>2. best[v] # <<>>
    <3>1. ToSet(<<>>) = {}
      BY DEF ToSet
    <3> QED BY <2>1, <3>1
  <2>3. v \in S
    BY <1>4, <2>2
  <2> QED BY <1>3, <1>7, <2>1, <2>3
<1> DEFINE own == [n \in Carriable |-> CHOOSE a \in 1 .. k : n \in ToSet(P[a])]
<1>12. \A n \in Carriable : own[n] \in 1 .. k /\ n \in ToSet(P[own[n]])
  BY <1>11
<1>13. own \in [Carriable -> DOMAIN P]
  BY <1>8, <1>12
<1> HIDE DEF own
<1>14. Owned(Carriable, P, own)
  BY <1>12 DEF Owned
<1> QED BY <1>2, <1>4, <1>5, <1>10, <1>13, <1>14 DEF Divides

\* A single stop is left to the empty order.
LEMMA EmptyDivides ==
    ASSUME prob \in Problems, prob.n < 2, NEW C \in SUBSET Stops
    PROVE  Divides(C, << <<>> >>)
<1>1. \A m, n \in C : m = n
  <2>1. prob.n \in Nat
    BY ProblemFacts
  <2> QED BY <2>1 DEF Stops
<1> DEFINE P == << <<>> >>
           own == [n \in C |-> 1]
<1>2. DOMAIN P = {1} /\ P[1] = <<>> /\ DOMAIN <<>> = {}
  OBVIOUS
<1> HIDE DEF P
<1>3. NoneTwice(P)
  BY <1>2 DEF NoneTwice
<1>4. own \in [C -> DOMAIN P] /\ \A n \in C : own[n] = 1
  BY <1>2
<1> HIDE DEF own
<1>5. Owned(C, P, own)
  BY <1>1, <1>2, <1>4 DEF Owned
<1> QED BY <1>3, <1>4, <1>5 DEF Divides, P

----------------------------------------------------------------------------
(* The legs lead to the stops of the orders *)

\* The legs l lead to the places f .. k of the order o, to each once, and nowhere else.
Leads(o, l, f, k) ==
    /\ \A s \in 1 .. Len(l) : l[s].to # 0 => \E j \in f .. Len(o) : j <= k /\ l[s].to = o[j]
    /\ \A j \in f .. Len(o) : j <= k => \E s \in 1 .. Len(l) : l[s].to = o[j]
    /\ \A s, t \in 1 .. Len(l) : l[s].to # 0 /\ l[s].to = l[t].to => s = t

\* A leg that leads to no stop.
LEMMA LeadsNowhere ==
    ASSUME NEW o, Len(o) \in Nat, NEW l \in Seq(LegType), NEW leg \in LegType, leg.to = 0,
           NEW f \in Nat, NEW k \in Nat, NEW m \in Nat, Leads(o, l, f, k),
           m = k \/ (m = k + 1 /\ k = Len(o))
    PROVE  Leads(o, Append(l, leg), f, m)
<1> DEFINE h == Append(l, leg)
           n == Len(l)
<1>1. /\ n \in Nat /\ Len(h) = n + 1 /\ h[n + 1] = leg /\ \A s \in 1 .. n : h[s] = l[s]
  BY AppendLegs
<1>2. \A s \in 1 .. n + 1 : s = n + 1 \/ s \in 1 .. n
  BY <1>1
<1>3. \A s \in 1 .. n : s \in 1 .. n + 1
  BY <1>1
<1>4. \A j \in f .. Len(o) : j <= k <=> j <= m
  OBVIOUS
<1>5. /\ \A s \in 1 .. n : l[s].to # 0 => \E j \in f .. Len(o) : j <= k /\ l[s].to = o[j]
      /\ \A j \in f .. Len(o) : j <= k => \E s \in 1 .. n : l[s].to = o[j]
      /\ \A s, t \in 1 .. n : l[s].to # 0 /\ l[s].to = l[t].to => s = t
  BY DEF Leads
<1> HIDE DEF h, n
<1>6. ASSUME NEW s \in 1 .. n + 1, h[s].to # 0
      PROVE  \E j \in f .. Len(o) : j <= m /\ h[s].to = o[j]
  <2>1. s \in 1 .. n /\ h[s] = l[s]
    BY <1>1, <1>2, <1>6
  <2> QED BY <1>4, <1>5, <1>6, <2>1
<1>7. ASSUME NEW j \in f .. Len(o), j <= m PROVE \E s \in 1 .. n + 1 : h[s].to = o[j]
  <2>1. PICK s \in 1 .. n : l[s].to = o[j]
    BY <1>4, <1>5, <1>7
  <2> QED BY <1>1, <1>3, <2>1
<1>8. ASSUME NEW s \in 1 .. n + 1, NEW t \in 1 .. n + 1, h[s].to # 0, h[s].to = h[t].to
      PROVE  s = t
  <2>1. s \in 1 .. n /\ t \in 1 .. n /\ h[s] = l[s] /\ h[t] = l[t]
    BY <1>1, <1>2, <1>8
  <2> QED BY <1>5, <1>8, <2>1
<1>9. Leads(o, h, f, m)
  BY <1>1, <1>6, <1>7, <1>8 DEF Leads
<1> QED BY <1>9 DEF h

\* A leg that leads to the next place.
LEMMA LeadsOn ==
    ASSUME NEW o, Len(o) \in Nat, NEW l \in Seq(LegType), NEW leg \in LegType,
           NEW f \in Nat, NEW k \in Nat, NEW m \in Nat, Leads(o, l, f, k),
           m = k + 1, m \in f .. Len(o), leg.to = o[m], f >= 1,
           \A i, j \in 1 .. Len(o) : o[i] = o[j] => i = j
    PROVE  Leads(o, Append(l, leg), f, m)
<1> DEFINE h == Append(l, leg)
           n == Len(l)
<1>1. /\ n \in Nat /\ Len(h) = n + 1 /\ h[n + 1] = leg /\ \A s \in 1 .. n : h[s] = l[s]
  BY AppendLegs
<1>2. \A s \in 1 .. n + 1 : s = n + 1 \/ s \in 1 .. n
  BY <1>1
<1>3. n + 1 \in 1 .. n + 1 /\ \A s \in 1 .. n : s \in 1 .. n + 1
  BY <1>1
<1>4. /\ \A j \in f .. Len(o) : j <= m <=> (j <= k \/ j = m)
      /\ \A j \in f .. Len(o) : j \in 1 .. Len(o) /\ (j <= k => j # m)
  OBVIOUS
<1>5. /\ \A s \in 1 .. n : l[s].to # 0 => \E j \in f .. Len(o) : j <= k /\ l[s].to = o[j]
      /\ \A j \in f .. Len(o) : j <= k => \E s \in 1 .. n : l[s].to = o[j]
      /\ \A s, t \in 1 .. n : l[s].to # 0 /\ l[s].to = l[t].to => s = t
  BY DEF Leads
<1> HIDE DEF h, n
<1>6. ASSUME NEW s \in 1 .. n, l[s].to # 0 PROVE l[s].to # o[m]
  <2>1. PICK j \in f .. Len(o) : j <= k /\ l[s].to = o[j]
    BY <1>5, <1>6
  <2> QED BY <1>4, <2>1
<1>7. ASSUME NEW s \in 1 .. n + 1, h[s].to # 0
      PROVE  \E j \in f .. Len(o) : j <= m /\ h[s].to = o[j]
  <2>1. CASE s = n + 1
    BY <1>1, <1>4, <2>1
  <2>2. CASE s \in 1 .. n
    BY <1>1, <1>4, <1>5, <1>7, <2>2
  <2> QED BY <1>2, <2>1, <2>2
<1>8. ASSUME NEW j \in f .. Len(o), j <= m PROVE \E s \in 1 .. n + 1 : h[s].to = o[j]
  <2>1. CASE j = m
    BY <1>1, <1>3, <2>1
  <2>2. CASE j <= k
    <3>1. PICK s \in 1 .. n : l[s].to = o[j]
      BY <1>5, <2>2
    <3> QED BY <1>1, <1>3, <3>1
  <2> QED BY <1>4, <1>8, <2>1, <2>2
<1>9. ASSUME NEW s \in 1 .. n + 1, NEW t \in 1 .. n + 1, h[s].to # 0, h[s].to = h[t].to
      PROVE  s = t
  <2>1. CASE s \in 1 .. n /\ t \in 1 .. n
    BY <1>1, <1>5, <1>9, <2>1
  <2>2. CASE s = n + 1 /\ t \in 1 .. n
    BY <1>1, <1>6, <1>9, <2>2
  <2>3. CASE t = n + 1 /\ s \in 1 .. n
    BY <1>1, <1>6, <1>9, <2>3
  <2> QED BY <1>2, <2>1, <2>2, <2>3
<1>10. Leads(o, h, f, m)
  BY <1>1, <1>7, <1>8, <1>9 DEF Leads
<1> QED BY <1>10 DEF h

\* The place of the order that the first leg leads to; without a depot a route begins at
\* its first stop.
FirstPlace(p) == IF p.depots = <<>> THEN 2 ELSE 1

\* The legs of row x lead from place to place of its order.
Laid(p, x) ==
    /\ Leads(x.order, x.legs, FirstPlace(p), NextPlace(p, x))
    /\ x.legs # <<>> =>
          x.order # <<>> /\ x.legs[1].from = IF p.depots = <<>> THEN x.order[1] ELSE 0
    /\ x.legs = <<>> => x.laid = 0

Complete(p, x) == x.order # <<>> => NextPlace(p, x) >= Len(x.order)

\* The rows of table d follow the plan P, and the orders t are what is left of it.
Follows(P, t, d) ==
    /\ P \in Seq(Seq(Stops)) /\ Len(P) = Len(d) + Len(t)
    /\ \A r \in 1 .. Len(d) : d[r].order = P[r]
    /\ \A k \in 1 .. Len(t) : t[k] = P[Len(d) + k]

RowsLaid(p, d, phase) ==
    \A r \in 1 .. Len(d) :
        Laid(p, d[r]) /\ (r < Len(d) \/ phase \notin Laying => Complete(p, d[r]))

After == Laying \union {"route", "read", "answered"}

Counted == prob.algorithm = "alns" => MissingIsWorst

\* From planning to the answer the orders divide the stops and every row but the one
\* being laid out is complete.
VisitInv ==
    /\ pc \notin After \union {"failed"} => db = <<>> /\ todo = <<>>
    /\ pc \in {"seed"} \union Searching => prob.algorithm = "alns"
    /\ pc \in After /\ Counted =>
          (\E P : Divides(Carried, P) /\ Follows(P, todo, db)) /\ RowsLaid(prob, db, pc)

LEMMA VisitConstants ==
    ASSUME prob' = prob
    PROVE  Carried' = Carried /\ Counted' = Counted /\ Stops' = Stops
BY SameProblem DEF Carried, Counted

LEMMA VisitKept ==
    ASSUME prob' = prob, pc' \in After,
           Counted => /\ \E P : Divides(Carried, P) /\ Follows(P, todo', db')
                      /\ RowsLaid(prob, db', pc')
    PROVE  VisitInv'
<1>1. pc' \notin {"seed"} \union Searching
  BY DEF After, Laying, Searching
<1>2. Laying' = Laying /\ After' = After /\ Searching' = Searching
  BY DEF Laying, After, Searching
<1>3. (Counted => (\E P : Divides(Carried, P) /\ Follows(P, todo, db)) /\ RowsLaid(prob, db, pc))'
  <2> SUFFICES ASSUME Counted'
               PROVE  /\ (\E P : Divides(Carried, P) /\ Follows(P, todo, db))'
                      /\ RowsLaid(prob, db, pc)'
    OBVIOUS
  <2>1. Counted /\ Carried' = Carried /\ Stops' = Stops
    BY VisitConstants
  <2>2. PICK P : Divides(Carried, P) /\ Follows(P, todo', db')
    BY <2>1
  <2>3. Divides(Carried, P)'
    BY <2>1, <2>2
  <2>4. Follows(P, todo, db)'
    BY <2>1, <2>2 DEF Follows
  <2>5. RowsLaid(prob, db, pc)'
    BY <2>1 DEF RowsLaid
  <2> QED BY <2>3, <2>4, <2>5
<1> QED BY <1>1, <1>2, <1>3 DEF VisitInv

\* A row is replaced by one with the same order.
LEMMA VisitPut ==
    ASSUME LayInv, VisitInv, pc \in After, pc' \in After, prob' = prob, todo' = todo,
           NEW i \in 1 .. Len(db), NEW y \in Rows(prob), y.order = db[i].order,
           db' = [db EXCEPT ![i] = y],
           Counted => Laid(prob, y) /\ (i < Len(db) \/ pc' \notin Laying => Complete(prob, y)),
           i = Len(db) \/ pc' = pc
    PROVE  VisitInv'
<1>1. db \in Seq(Rows(prob))
  BY DEF LayInv
<1>2. PICK n \in Nat : n = Len(db)
  <2> HIDE DEF Rows
  <2> QED BY <1>1
<1>3. /\ Len(db') = n /\ db'[i] = y /\ \A r \in 1 .. n : r # i => db'[r] = db[r]
  <2> HIDE DEF Rows
  <2> QED BY <1>1, <1>2
<1>4. ASSUME Counted
      PROVE  (\E P : Divides(Carried, P) /\ Follows(P, todo', db')) /\ RowsLaid(prob, db', pc')
  <2>1. PICK P : Divides(Carried, P) /\ Follows(P, todo, db)
    BY <1>4 DEF VisitInv
  <2>2. RowsLaid(prob, db, pc)
    BY <1>4 DEF VisitInv
  <2>3. Follows(P, todo', db')
    <3>1. \A r \in 1 .. n : db'[r].order = db[r].order
      BY <1>2, <1>3
    <3> QED BY <1>2, <1>3, <2>1, <3>1 DEF Follows
  <2>4. ASSUME NEW r \in 1 .. n
        PROVE  Laid(prob, db'[r]) /\ (r < n \/ pc' \notin Laying => Complete(prob, db'[r]))
    <3>1. CASE r = i
      BY <1>2, <1>3, <1>4, <3>1
    <3>2. CASE r # i
      <4>1. Laid(prob, db[r]) /\ (r < n \/ pc \notin Laying => Complete(prob, db[r]))
        BY <1>2, <2>2 DEF RowsLaid
      <4>2. r < n \/ pc' = pc
        BY <1>2, <3>2
      <4> QED BY <1>3, <3>2, <4>1, <4>2
    <3> QED BY <3>1, <3>2
  <2>5. RowsLaid(prob, db', pc')
    BY <1>3, <2>4 DEF RowsLaid
  <2> QED BY <2>1, <2>3, <2>5
<1> QED BY <1>4, VisitKept

\* A leg is written behind the others: to the next place, for a break, or back.
LEMMA VisitAddLeg ==
    ASSUME LayInv, VisitInv, pc \in Laying, NEW leg \in LegType, AddLeg(leg),
           pc' \in {"hops", "drive", "read"},
           Counted /\ legs = <<>> => leg.from = IF prob.depots = <<>> THEN order[1] ELSE 0,
           NEW place \in Nat, place = from,
           NEW next \in Nat, next = IF leg.kind = "drive" THEN place + 1 ELSE place,
           leg.to = 0 => leg.kind # "drive" \/ place = Len(order),
           leg.to # 0 => leg.kind = "drive" /\ next \in 1 .. Len(order) /\ leg.to = order[next],
           pc' = "read" => next >= Len(order)
    PROVE  VisitInv'
<1>1. PICK n \in Nat : n = Len(db) /\ n \in 1 .. n
  <2>1. db \in Seq(Rows(prob)) /\ db # <<>>
    BY DEF LayInv
  <2> HIDE DEF Rows
  <2> QED BY <2>1
<1>2. db \in Seq(Rows(prob)) /\ DOMAIN db = 1 .. n
  <2>1. db \in Seq(Rows(prob))
    BY DEF LayInv
  <2> HIDE DEF Rows
  <2> QED BY <1>1, <2>1
<1>3. PICK x \in Rows(prob) : x = db[n]
  <2> HIDE DEF Rows
  <2> QED BY <1>1, <1>2
<1>4. /\ x.order \in Seq(1 .. prob.n) /\ x.legs \in Seq(LegType) /\ x.laid \in Nat
      /\ order = x.order /\ legs = x.legs /\ hop = x.laid
  BY <1>1, <1>3, RowFields DEF order, legs, hop, route
<1>5. x.order # <<>>
  BY <1>1, <1>3 DEF LayInv, LayRow
<1> DEFINE l == x.legs
           o == x.order
           laid == IF leg.kind = "drive" THEN x.laid + 1 ELSE x.laid
           h == Append(l, leg)
           y == [x EXCEPT !.legs = h, !.laid = laid]
           f == FirstPlace(prob)
<1>6. db' = [db EXCEPT ![n] = y] /\ prob' = prob /\ todo' = todo
  <2>1. db' = [db EXCEPT ![n] = [x EXCEPT !.legs = Append(x.legs, leg),
                                          !.laid = IF leg.kind = "drive" THEN x.laid + 1 ELSE x.laid]]
    BY <1>1, <1>2, <1>3 DEF AddLeg, route
  <2> QED BY <2>1 DEF AddLeg
<1>7. /\ h \in Seq(LegType) /\ h # <<>> /\ Len(l) \in Nat
      /\ l = <<>> => h[1] = leg
      /\ l # <<>> => h[1] = l[1]
  <2>1. l \in Seq(LegType)
    BY <1>4
  <2>2. /\ h \in Seq(LegType) /\ Len(h) = Len(l) + 1 /\ Len(l) \in Nat /\ h # <<>>
        /\ h[Len(l) + 1] = leg /\ \A s \in 1 .. Len(l) : h[s] = l[s]
    BY <2>1, AppendLegs
  <2>3. l = <<>> => Len(l) = 0
    OBVIOUS
  <2>4. l # <<>> => 1 \in 1 .. Len(l)
    BY <2>1
  <2> HIDE DEF h, l
  <2> QED BY <2>2, <2>3, <2>4
<1>8. y \in Rows(prob) /\ y.order = o /\ y.legs = h /\ y.laid = laid
  <2>1. laid \in Nat
    BY <1>4
  <2> HIDE DEF h, laid
  <2> QED BY <1>7, <2>1 DEF Rows
<1>9. NextPlace(prob, x) = place /\ NextPlace(prob, y) = next
  BY <1>4, <1>8 DEF NextPlace, from
<1>10. ASSUME Counted
       PROVE  Laid(prob, y) /\ (pc' \notin Laying => Complete(prob, y))
  <2>1. Laid(prob, x)
    BY <1>1, <1>3, <1>10 DEF VisitInv, RowsLaid, After
  <2>2. PICK P : Divides(Carried, P) /\ Follows(P, todo, db)
    BY <1>10 DEF VisitInv, After
  <2>3. \A i, j \in 1 .. Len(o) : o[i] = o[j] => i = j
    <3>1. NoneTwice(P) /\ P[n] = o
      BY <1>1, <1>3, <2>2 DEF Divides, Follows
    <3>2. n \in DOMAIN P
      <4>1. P \in Seq(Seq(Stops)) /\ Len(P) = n + Len(todo) /\ todo \in Seq(Seq(Stops))
        BY <1>1, <2>2 DEF Follows, LayInv, TableInv
      <4>2. PICK X : X = Seq(Stops)
        OBVIOUS
      <4>3. P \in Seq(X) /\ todo \in Seq(X)
        BY <4>1, <4>2
      <4>4. DOMAIN P = 1 .. Len(P) /\ Len(todo) \in Nat
        BY <4>3
      <4> QED BY <1>1, <4>1, <4>4
    <3>3. DOMAIN o = 1 .. Len(o)
      BY <1>4
    <3> HIDE DEF o
    <3> QED BY <3>1, <3>2, <3>3 DEF NoneTwice
  <2>4. Leads(o, l, f, place)
    BY <1>9, <2>1 DEF Laid
  <2>5. l \in Seq(LegType) /\ Len(o) \in Nat /\ f \in {1, 2} /\ f \in Nat /\ f >= 1
    BY <1>4 DEF FirstPlace
  <2>6. place + 1 >= f
    BY <1>4 DEF FirstPlace, from
  <2>7. Leads(o, h, f, next)
    <3>1. CASE leg.to = 0
      <4>1. next = place \/ (next = place + 1 /\ place = Len(o))
        BY <1>4, <3>1
      <4> HIDE DEF l, o, f
      <4> QED BY <2>4, <2>5, <3>1, <4>1, LeadsNowhere
    <3>2. CASE leg.to # 0
      <4>1. next = place + 1 /\ next \in f .. Len(o) /\ leg.to = o[next]
        BY <1>4, <2>5, <2>6, <3>2
      <4> HIDE DEF l, o, f
      <4> QED BY <2>3, <2>4, <2>5, <4>1, LeadsOn
    <3> QED BY <3>1, <3>2
  <2>8. h[1].from = IF prob.depots = <<>> THEN o[1] ELSE 0
    <3>1. CASE l = <<>>
      BY <1>4, <1>7, <1>10, <3>1
    <3>2. CASE l # <<>>
      BY <1>7, <2>1, <3>2 DEF Laid
    <3> QED BY <3>1, <3>2
  <2> HIDE DEF y, h, f, o
  <2>9. Laid(prob, y)
    BY <1>5, <1>7, <1>8, <1>9, <2>7, <2>8 DEF Laid, f, o
  <2>10. pc' \notin Laying => Complete(prob, y)
    BY <1>4, <1>8, <1>9 DEF Laying, Complete, o
  <2> QED BY <2>9, <2>10
<1>11. pc' \in After /\ pc \in After
  BY DEF After, Laying
<1>12. y.order = db[n].order
  BY <1>3, <1>8
<1> HIDE DEF y
<1>13. Counted => Laid(prob, y) /\ (n < Len(db) \/ pc' \notin Laying => Complete(prob, y))
  <2>1. ~(n < Len(db))
    BY <1>1
  <2> QED BY <1>10, <2>1
<1>14. n \in 1 .. Len(db) /\ n = Len(db) /\ y \in Rows(prob)
  BY <1>1, <1>8
<1> QED BY <1>6, <1>11, <1>12, <1>13, <1>14, VisitPut

LEMMA VisitDepotLeg ==
    ASSUME LayInv, VisitInv, InsertDepotLeg PROVE VisitInv'
<1>0. pc = "depot" /\ pc' = "hops" /\ pc \in Laying
  BY DEF InsertDepotLeg, Laying
<1>1. /\ prob \in Problems /\ clock \in Nat /\ prob.depots # <<>> /\ legs = <<>> /\ hop = 0
      /\ Len(order) \in Nat /\ 1 \in 1 .. Len(order)
      /\ order[1] \in Stops /\ At(order[1]) \in Nat
  BY <1>0, LayFacts
<1>2. PICK b \in Targets : b = order[1] /\ b # 0
  <2>1. order[1] # 0
    BY <1>1, StopFacts
  <2> QED BY <1>1, <2>1 DEF Targets
<1>3. PICK d \in Nat : d = Dist(Depot, At(order[1]))
  BY <1>1, DepotNat, DistNat
<1>4. PICK leg : leg = DriveLeg(0, b, d, "in_progress")
  OBVIOUS
<1>5. leg \in LegType /\ leg.kind = "drive" /\ leg.to = b /\ leg.from = 0
  <2>1. prob \in Problems /\ clock \in Nat /\ 0 \in Targets
    BY <1>1 DEF Targets
  <2>2. leg.from = 0
    BY <1>4 DEF DriveLeg
  <2> QED BY <1>4, <2>1, <2>2, DriveLegFacts
<1>6. AddLeg(leg)
  BY <1>2, <1>3, <1>4 DEF InsertDepotLeg, AddLeg
<1>7. 0 = from /\ 1 = IF leg.kind = "drive" THEN 0 + 1 ELSE 0
  BY <1>1, <1>5 DEF from
<1>8. 0 \in Nat /\ 1 \in Nat /\ leg.from = IF prob.depots = <<>> THEN order[1] ELSE 0
  BY <1>1, <1>5
<1> QED BY <1>0, <1>1, <1>2, <1>5, <1>6, <1>7, <1>8, VisitAddLeg

LEMMA VisitBreak ==
    ASSUME LayInv, VisitInv, InsertBreak PROVE VisitInv'
<1>0. pc = "hops" /\ pc' = "drive" /\ pc \in Laying /\ legs # <<>>
  BY DEF InsertBreak, Laying, BreakDue
<1>1. prob \in Problems /\ clock \in Nat /\ from \in 1 .. Len(order) /\ Len(order) \in Nat
  BY <1>0, LayFacts
<1>2. prob.breakSec \in Nat /\ MaxStops \in Nat
  BY <1>1, ProblemFacts
<1>3. PICK leg : leg = BreakLeg
  OBVIOUS
<1>4. leg.kind = "break" /\ leg.to = 0
  BY <1>3 DEF BreakLeg
<1>5. leg \in LegType
  <2>1. 0 \in 0 .. MaxStops /\ clock + prob.breakSec \in Nat /\ 0 \in Nat
    BY <1>1, <1>2
  <2> QED BY <1>1, <1>3, <2>1 DEF BreakLeg, LegType
<1>6. AddLeg(leg)
  BY <1>3 DEF InsertBreak, AddLeg
<1>7. PICK k \in Nat : k = from /\ k = IF leg.kind = "drive" THEN k + 1 ELSE k
  BY <1>1, <1>4
<1> QED BY <1>0, <1>4, <1>5, <1>6, <1>7, VisitAddLeg

LEMMA VisitLeg ==
    ASSUME LayInv, VisitInv, InsertLeg PROVE VisitInv'
<1> DEFINE st == IF legs = <<>> /\ prob.depots = <<>> THEN "in_progress" ELSE "pending"
<1>0. /\ pc \in {"hops", "drive"} /\ pc' = "hops" /\ pc \in Laying
      /\ pc = "hops" => from < Len(order)
  BY DEF InsertLeg, Laying
<1>1. /\ prob \in Problems /\ clock \in Nat /\ hop \in Nat
      /\ Len(order) \in Nat /\ from \in 1 .. Len(order)
      /\ prob.depots # <<>> => legs # <<>>
      /\ pc = "drive" => from < Len(order)
      /\ \A i \in 1 .. Len(order) : order[i] \in Stops /\ At(order[i]) \in Nat
  BY <1>0, LayFacts
<1>2. PICK k \in Nat : k = from /\ k >= 1 /\ k < Len(order)
  BY <1>0, <1>1
<1>3. k \in 1 .. Len(order) /\ k + 1 \in 1 .. Len(order)
  BY <1>1, <1>2
<1>4. PICK a \in Targets : a = order[k]
  <2>1. order[k] \in Stops
    BY <1>1, <1>3
  <2> QED BY <2>1 DEF Targets
<1>5. PICK b \in Targets : b = order[k + 1] /\ b # 0
  <2>1. order[k + 1] \in Stops
    BY <1>1, <1>3
  <2>2. order[k + 1] # 0
    BY <1>1, <2>1, StopFacts
  <2> QED BY <2>1, <2>2 DEF Targets
<1>6. PICK d \in Nat : d = NextDrive
  <2>1. At(order[from]) \in Nat /\ At(order[from + 1]) \in Nat
    BY <1>1, <1>2, <1>3
  <2> QED BY <2>1, DistNat DEF NextDrive
<1>7. PICK s \in {"pending", "in_progress"} : s = st
  OBVIOUS
<1>8. PICK leg : leg = DriveLeg(a, b, d, s)
  OBVIOUS
<1>9. leg \in LegType /\ leg.kind = "drive" /\ leg.to = b /\ leg.from = a
  <2>1. prob \in Problems /\ clock \in Nat
    BY <1>1
  <2>2. leg.from = a
    BY <1>8 DEF DriveLeg
  <2> QED BY <1>8, <2>1, <2>2, DriveLegFacts
<1>10. AddLeg(leg)
  BY <1>2, <1>4, <1>5, <1>6, <1>7, <1>8 DEF InsertLeg, AddLeg
<1>11. k + 1 \in Nat /\ k + 1 = IF leg.kind = "drive" THEN k + 1 ELSE k
  BY <1>9
<1>12. Counted /\ legs = <<>> => leg.from = IF prob.depots = <<>> THEN order[1] ELSE 0
  <2> SUFFICES ASSUME Counted, legs = <<>>
               PROVE  leg.from = IF prob.depots = <<>> THEN order[1] ELSE 0
    OBVIOUS
  <2>1. prob.depots = <<>>
    BY <1>1
  <2>2. hop = 0
    <3>1. db \in Seq(Rows(prob)) /\ db # <<>>
      BY <1>0 DEF LayInv
    <3>2. Len(db) \in 1 .. Len(db)
      <4> HIDE DEF Rows
      <4> QED BY <3>1
    <3>3. Laid(prob, db[Len(db)])
      BY <1>0, <3>2 DEF VisitInv, RowsLaid, After
    <3> QED BY <3>3 DEF Laid, hop, legs, route
  <2> QED BY <1>2, <1>4, <1>9, <2>1, <2>2 DEF from
<1> QED BY <1>0, <1>2, <1>3, <1>5, <1>9, <1>10, <1>11, <1>12, VisitAddLeg

LEMMA VisitReturnLeg ==
    ASSUME LayInv, VisitInv, InsertReturnLeg PROVE VisitInv'
<1>0. /\ pc = "hops" /\ pc' = "read" /\ pc \in Laying
      /\ from = Len(order) /\ prob.depots # <<>>
  BY DEF InsertReturnLeg, Laying
<1>1. /\ prob \in Problems /\ clock \in Nat
      /\ Len(order) \in Nat /\ from \in 1 .. Len(order) /\ legs # <<>> /\ 1 \in 1 .. Len(order)
      /\ \A i \in 1 .. Len(order) : order[i] \in Stops /\ At(order[i]) \in Nat
  BY <1>0, LayFacts
<1>2. PICK a \in Targets : a = Last(order)
  <2>1. Last(order) \in Stops
    BY <1>0, <1>1 DEF Last
  <2> QED BY <2>1 DEF Targets
<1>3. PICK d \in Nat : d = Dist(At(Last(order)), Depot)
  <2>1. At(Last(order)) \in Nat
    BY <1>0, <1>1 DEF Last
  <2>2. Depot \in Nat
    BY <1>0, <1>1, DepotNat
  <2> QED BY <2>1, <2>2, DistNat
<1>4. PICK z \in Targets : z = 0
  BY DEF Targets
<1>5. PICK leg : leg = DriveLeg(a, z, d, "pending")
  OBVIOUS
<1>6. leg \in LegType /\ leg.kind = "drive" /\ leg.to = 0
  <2>1. prob \in Problems /\ clock \in Nat
    BY <1>1
  <2> QED BY <1>4, <1>5, <2>1, DriveLegFacts
<1>7. AddLeg(leg)
  BY <1>2, <1>3, <1>4, <1>5 DEF InsertReturnLeg, AddLeg
<1>8. PICK k \in Nat, m \in Nat : k = from /\ k = Len(order) /\ m = k + 1
  BY <1>0, <1>1
<1>9. m = (IF leg.kind = "drive" THEN k + 1 ELSE k) /\ m >= Len(order)
  BY <1>6, <1>8
<1> QED BY <1>0, <1>1, <1>6, <1>7, <1>8, <1>9, VisitAddLeg

\* Steps that leave the rows as they are.
LEMMA VisitSame ==
    ASSUME VisitInv, prob' = prob, todo' = todo, db' = db, pc \in After, pc' \in After,
           Counted /\ pc' \notin Laying =>
               pc \notin Laying \/ Complete(prob, db[Len(db)])
    PROVE  VisitInv'
<1>1. ASSUME Counted PROVE RowsLaid(prob, db, pc')
  <2>1. RowsLaid(prob, db, pc)
    BY <1>1 DEF VisitInv
  <2>2. ASSUME NEW r \in 1 .. Len(db), r < Len(db) \/ pc' \notin Laying
        PROVE  Complete(prob, db[r])
    <3>1. CASE r < Len(db)
      BY <2>1, <3>1 DEF RowsLaid
    <3>2. CASE ~(r < Len(db))
      <4>1. r = Len(db) \/ pc \notin Laying
        <5>1. CASE Len(db) \in Int
          BY <3>2, <5>1
        <5>2. CASE Len(db) \notin Int
          BY <5>2
        <5> QED BY <5>1, <5>2
      <4> QED BY <1>1, <2>1, <2>2, <3>2, <4>1 DEF RowsLaid
    <3> QED BY <3>1, <3>2
  <2> QED BY <2>1, <2>2 DEF RowsLaid
<1>2. Counted => \E P : Divides(Carried, P) /\ Follows(P, todo, db)
  BY DEF VisitInv
<1> QED BY <1>1, <1>2, VisitKept

LEMMA VisitNoReturn ==
    ASSUME LayInv, VisitInv, NoReturnLeg PROVE VisitInv'
<1>1. /\ pc = "hops" /\ pc' = "read" /\ prob' = prob /\ todo' = todo /\ db' = db
      /\ from = Len(order)
  BY DEF NoReturnLeg, table
<1>2. Complete(prob, db[Len(db)])
  <2>1. Len(order) \in Nat
    BY <1>1, LayFacts DEF Laying
  <2>2. NextPlace(prob, db[Len(db)]) >= Len(db[Len(db)].order)
    BY <1>1, <2>1 DEF NextPlace, from, hop, order, route
  <2> QED BY <2>2 DEF Complete
<1>3. pc \in After /\ pc' \in After
  BY <1>1 DEF After, Laying
<1> QED BY <1>1, <1>2, <1>3, VisitSame

\* A new row takes the next order and has no legs yet; without an order it is complete.
LEMMA VisitInsertRoute ==
    ASSUME LayInv, VisitInv, InsertRoute PROVE VisitInv'
<1>1. PICK n : n = Len(db)
  OBVIOUS
<1>2. db \in Seq(Rows(prob)) /\ todo \in Seq(Seq(Stops)) /\ pc = "route" /\ todo # <<>>
  BY DEF LayInv, TableInv, InsertRoute
<1>3. n \in Nat
  <2> HIDE DEF Rows
  <2> QED BY <1>1, <1>2
<1>4. PICK X : X = Seq(Stops)
  OBVIOUS
<1>5. PICK m \in Nat : /\ Len(todo) = m + 1 /\ Head(todo) = todo[1] /\ Head(todo) \in X
                       /\ Tail(todo) \in Seq(X) /\ Len(Tail(todo)) = m
                       /\ \A k \in 1 .. m : Tail(todo)[k] = todo[k + 1]
  <2>1. todo \in Seq(X) /\ todo # <<>>
    BY <1>2, <1>4
  <2>2. Len(todo) \in Nat /\ Len(todo) > 0
    BY <2>1
  <2>3. Len(todo) - 1 \in Nat /\ Len(todo) = (Len(todo) - 1) + 1
    BY <2>2
  <2>4. /\ Head(todo) = todo[1] /\ Head(todo) \in X /\ Tail(todo) \in Seq(X)
        /\ Len(Tail(todo)) = Len(todo) - 1
        /\ \A k \in 1 .. Len(todo) - 1 : Tail(todo)[k] = todo[k + 1]
    BY <2>1
  <2> QED BY <2>3, <2>4
<1>6. PICK o \in Seq(1 .. prob.n) : o = Head(todo)
  BY <1>4, <1>5 DEF Stops
<1> DEFINE y == [order |-> o, legs |-> <<>>, laid |-> 0, ahead |-> FALSE]
<1>7. /\ db' = Append(db, y) /\ prob' = prob /\ todo' = Tail(todo)
      /\ pc' = IF o = <<>> THEN "read" ELSE IF prob.depots = <<>> THEN "hops" ELSE "depot"
  BY <1>6 DEF InsertRoute
<1>8. y.order = o /\ y.legs = <<>> /\ y.laid = 0 /\ y \in Rows(prob)
  <2>1. <<>> \in Seq(LegType)
    OBVIOUS
  <2> QED BY <2>1 DEF Rows
<1> HIDE DEF y
<1>9. Len(db') = n + 1 /\ db'[n + 1] = y /\ \A r \in 1 .. n : db'[r] = db[r]
  <2> HIDE DEF Rows
  <2> QED BY <1>1, <1>2, <1>7, <1>8
<1>10. Laid(prob, y)
  <2>1. Len(<<>>) = 0 /\ \A s \in 1 .. 0 : FALSE
    OBVIOUS
  <2>2. FirstPlace(prob) \in Nat /\ NextPlace(prob, y) < FirstPlace(prob) /\ NextPlace(prob, y) \in Nat
    BY <1>8 DEF FirstPlace, NextPlace
  <2>3. PICK f \in Nat, k \in Nat : f = FirstPlace(prob) /\ k = NextPlace(prob, y) /\ k < f
    BY <2>2
  <2>4. Len(o) \in Nat /\ \A j \in f .. Len(o) : ~(j <= k)
    BY <2>3
  <2>5. Leads(o, <<>>, f, k)
    BY <2>1, <2>4 DEF Leads
  <2> QED BY <1>8, <2>3, <2>5 DEF Laid
<1>11. pc' \notin Laying => Complete(prob, y)
  BY <1>7, <1>8 DEF Laying, Complete
<1>12. ASSUME Counted
       PROVE  (\E P : Divides(Carried, P) /\ Follows(P, todo', db')) /\ RowsLaid(prob, db', pc')
  <2>1. PICK P : Divides(Carried, P) /\ Follows(P, todo, db)
    BY <1>2, <1>12 DEF VisitInv, After
  <2>2. RowsLaid(prob, db, pc)
    BY <1>2, <1>12 DEF VisitInv, After
  <2>3. /\ P \in Seq(Seq(Stops)) /\ Len(P) = n + (m + 1)
        /\ \A r \in 1 .. n : db[r].order = P[r]
        /\ \A k \in 1 .. m + 1 : todo[k] = P[n + k]
    BY <1>1, <1>5, <2>1 DEF Follows
  <2>4. \A r \in 1 .. n + 1 : r = n + 1 \/ r \in 1 .. n
    BY <1>3
  <2>5. o = P[n + 1]
    BY <1>5, <1>6, <2>3
  <2>6. \A r \in 1 .. n + 1 : db'[r].order = P[r]
    BY <1>8, <1>9, <2>3, <2>4, <2>5
  <2>7. \A k \in 1 .. m : todo'[k] = P[(n + 1) + k]
    <3> TAKE k \in 1 .. m
    <3>1. k + 1 \in 1 .. m + 1 /\ n + (k + 1) = (n + 1) + k
      BY <1>3
    <3>2. todo'[k] = todo[k + 1]
      BY <1>5, <1>7
    <3> QED BY <2>3, <3>1, <3>2
  <2>8. Len(P) = Len(db') + Len(todo')
    <3>1. Len(todo') = m
      BY <1>5, <1>7
    <3> QED BY <1>3, <1>9, <2>3, <3>1
  <2>9. Follows(P, todo', db')
    <3>1. Len(todo') = m
      BY <1>5, <1>7
    <3> QED BY <1>9, <2>3, <2>6, <2>7, <2>8, <3>1 DEF Follows
  <2>10. \A r \in 1 .. n : Laid(prob, db[r]) /\ Complete(prob, db[r])
    <3>1. pc \notin Laying
      BY <1>2 DEF Laying
    <3> QED BY <1>1, <2>2, <3>1 DEF RowsLaid
  <2>11. ASSUME NEW r \in 1 .. n + 1
         PROVE  Laid(prob, db'[r]) /\ (r < n + 1 \/ pc' \notin Laying => Complete(prob, db'[r]))
    <3>1. CASE r = n + 1
      <4>1. ~(r < n + 1)
        BY <1>3, <3>1
      <4> QED BY <1>9, <1>10, <1>11, <3>1, <4>1
    <3>2. CASE r \in 1 .. n
      BY <1>9, <2>10, <3>2
    <3> QED BY <2>4, <3>1, <3>2
  <2>12. RowsLaid(prob, db', pc')
    BY <1>9, <2>11 DEF RowsLaid
  <2> QED BY <2>1, <2>9, <2>12
<1>13. Counted => /\ \E P : Divides(Carried, P) /\ Follows(P, todo', db')
                  /\ RowsLaid(prob, db', pc')
  BY <1>12
<1>14. pc' \in After
  BY <1>7 DEF After, Laying
<1> QED BY <1>7, <1>13, <1>14, VisitKept

\* A client advances a route: its legs lead where they led.
LEMMA VisitAdvance ==
    ASSUME LayInv, VisitInv, NEW i \in DOMAIN db, Advance(i) PROVE VisitInv'
<1>1. db \in Seq(Rows(prob))
  BY DEF LayInv
<1>2. Len(db) \in Nat /\ i \in 1 .. Len(db) /\ db # <<>>
  <2> HIDE DEF Rows
  <2> QED BY <1>1
<1>3. PICK x \in Rows(prob) : x = db[i]
  <2> HIDE DEF Rows
  <2> QED BY <1>1, <1>2
<1>4. /\ x.order \in Seq(1 .. prob.n) /\ x.legs \in Seq(LegType)
      /\ x.laid \in Nat /\ x.ahead \in BOOLEAN
  BY RowFields
<1>5. PICK l \in Seq(LegType) : l = x.legs
  BY <1>4
<1>6. PICK a : a = Min({s \in DOMAIN l : l[s].status # "visited"})
  OBVIOUS
<1>7. /\ db' = [db EXCEPT ![i].legs = Advanced(l, a), ![i].ahead = @ \/ a = Len(l)]
      /\ prob' = prob /\ pc' = pc /\ todo' = todo
  BY <1>3, <1>5, <1>6 DEF Advance, Advanced
<1>8. PICK k : k = Advanced(l, a)
  OBVIOUS
<1>9. /\ k \in Seq(LegType) /\ Len(k) = Len(l) /\ Len(l) \in Nat
      /\ \A s \in 1 .. Len(l) : k[s].to = l[s].to /\ k[s].from = l[s].from
  <2>1. Len(l) \in Nat /\ DOMAIN l = 1 .. Len(l) /\ \A s \in 1 .. Len(l) : l[s] \in LegType
    OBVIOUS
  <2>2. \A s \in 1 .. Len(l) :
            k[s] = IF s = a THEN [l[s] EXCEPT !.status = "visited"]
                   ELSE IF s = a + 1 THEN [l[s] EXCEPT !.status = "in_progress"] ELSE l[s]
    BY <1>8, <2>1 DEF Advanced
  <2>3. DOMAIN k = 1 .. Len(l)
    BY <1>8, <2>1 DEF Advanced
  <2>4. ASSUME NEW s \in 1 .. Len(l)
        PROVE  k[s] \in LegType /\ k[s].to = l[s].to /\ k[s].from = l[s].from
    <3>1. PICK g \in LegType : g = l[s]
      BY <2>1
    <3>2. \/ k[s] = [g EXCEPT !.status = "visited"]
          \/ k[s] = [g EXCEPT !.status = "in_progress"]
          \/ k[s] = g
      BY <2>2, <3>1
    <3> QED BY <3>1, <3>2 DEF LegType
  <2>5. k = [s \in 1 .. Len(l) |-> k[s]]
    BY <1>8, <2>1, <2>3 DEF Advanced
  <2>6. k \in [1 .. Len(l) -> LegType]
    BY <2>4, <2>5
  <2>7. k \in Seq(LegType) /\ Len(k) = Len(l)
    BY <2>1, <2>6
  <2> QED BY <2>1, <2>4, <2>7
<1>10. PICK h \in BOOLEAN : h = (x.ahead \/ a = Len(l))
  OBVIOUS
<1> DEFINE y == [x EXCEPT !.legs = k, !.ahead = h]
<1>11. y \in Rows(prob) /\ y.order = x.order /\ y.legs = k /\ y.laid = x.laid
  BY <1>9 DEF Rows
<1>12. db' = [db EXCEPT ![i] = y]
  <2> HIDE DEF Rows
  <2> QED BY <1>1, <1>2, <1>3, <1>5, <1>7, <1>8, <1>10
<1> HIDE DEF y
<1>13. NextPlace(prob, y) = NextPlace(prob, x)
  BY <1>11 DEF NextPlace
<1>14. ASSUME pc \in After, Counted
       PROVE  Laid(prob, y) /\ (i < Len(db) \/ pc \notin Laying => Complete(prob, y))
  <2>1. Laid(prob, x) /\ (i < Len(db) \/ pc \notin Laying => Complete(prob, x))
    BY <1>2, <1>3, <1>14 DEF VisitInv, RowsLaid
  <2>2. Complete(prob, x) => Complete(prob, y)
    BY <1>11, <1>13 DEF Complete
  <2>3. PICK f, e, o : f = FirstPlace(prob) /\ e = NextPlace(prob, x) /\ o = x.order
    OBVIOUS
  <2>4. Leads(o, k, f, e)
    <3>1. Leads(o, l, f, e)
      BY <1>5, <2>1, <2>3 DEF Laid
    <3> QED BY <1>9, <3>1, SMTT(30) DEF Leads
  <2>5. (k = <<>>) <=> (l = <<>>)
    BY <1>9
  <2>6. k # <<>> => k[1].from = l[1].from
    <3>1. k # <<>> => 1 \in 1 .. Len(l)
      BY <1>9
    <3> QED BY <1>9, <3>1
  <2>7. Laid(prob, y)
    BY <1>5, <1>11, <1>13, <2>1, <2>3, <2>4, <2>5, <2>6 DEF Laid
  <2> QED BY <2>1, <2>2, <2>7
<1>15. CASE pc \in After
  <2>1. Counted => Laid(prob, y) /\ (i < Len(db) \/ pc' \notin Laying => Complete(prob, y))
    BY <1>7, <1>14, <1>15
  <2>2. y.order = db[i].order /\ pc' \in After
    BY <1>3, <1>7, <1>11, <1>15
  <2> QED BY <1>2, <1>7, <1>11, <1>12, <1>15, <2>1, <2>2, VisitPut
<1>16. CASE pc \notin After
  <2>1. pc = "failed"
    BY <1>2, <1>16 DEF VisitInv
  <2>2. pc' = "failed"
    BY <1>7, <2>1
  <2> QED BY <2>2 DEF VisitInv, After, Laying, Searching
<1> QED BY <1>15, <1>16

\* The orders are chosen, and no row is written yet.
LEMMA VisitPlanned ==
    ASSUME VisitInv, LayInv, pc \notin After \union {"failed"}, pc' = "route", prob' = prob,
           db' = db, todo' \in Seq(Seq(Stops)), Counted => Divides(Carried, todo')
    PROVE  VisitInv'
<1>1. db' = <<>> /\ Len(<<>>) = 0
  BY DEF VisitInv
<1>2. PICK P : P = todo'
  OBVIOUS
<1>3. P \in Seq(Seq(Stops)) /\ Len(P) \in Nat
  <2>1. PICK X : X = Seq(Stops)
    OBVIOUS
  <2>2. P \in Seq(X)
    BY <1>2, <2>1
  <2>3. Len(P) \in Nat
    BY <2>2
  <2> QED BY <1>2, <2>3
<1>4. Follows(P, todo', db')
  <2>1. /\ \A r \in 1 .. 0 : FALSE
        /\ Len(P) = 0 + Len(P)
        /\ \A k \in 1 .. Len(P) : P[k] = P[0 + k]
    BY <1>3
  <2> QED BY <1>1, <1>2, <1>3, <2>1 DEF Follows
<1>5. RowsLaid(prob, db', pc')
  <2>1. \A r \in 1 .. 0 : FALSE
    OBVIOUS
  <2> QED BY <1>1, <2>1 DEF RowsLaid
<1>6. pc' \in After
  BY DEF After
<1> QED BY <1>2, <1>4, <1>5, <1>6, VisitKept

LEMMA VisitPlan ==
    ASSUME SearchInv, BestInv, LayInv, VisitInv,
           PlanEmpty \/ PlanGreedy \/ PlanAlns \/ TakeSolution
    PROVE  VisitInv'
<1>1. prob \in Problems /\ prob.n \in Nat
  BY ProblemFacts DEF SearchInv
<1>2. CASE PlanEmpty
  <2>1. /\ pc = "request" /\ prob.n < 2 /\ pc' = "route" /\ prob' = prob /\ db' = db
        /\ todo' = << <<>> >>
    BY <1>2 DEF PlanEmpty
  <2>2. Carried \in SUBSET Stops
    BY DEF Carried, Carriable
  <2>3. Divides(Carried, todo')
    BY <1>1, <2>1, <2>2, EmptyDivides
  <2>4. todo' \in Seq(Seq(Stops))
    <3>1. <<>> \in Seq(Stops)
      OBVIOUS
    <3> QED BY <2>1, <3>1
  <2>5. pc \notin After \union {"failed"}
    BY <2>1 DEF After, Laying
  <2> QED BY <2>1, <2>3, <2>4, <2>5, VisitPlanned
<1>3. CASE PlanGreedy
  <2>1. /\ pc = "request" /\ prob.n >= 1 /\ pc' = "route" /\ prob' = prob /\ db' = db
        /\ prob.algorithm = "greedy" /\ todo' = [c \in DOMAIN Seeds |-> GreedyOrder(c)]
    BY <1>1, <1>3 DEF PlanGreedy
  <2>2. Carried = Stops
    BY <2>1 DEF Carried
  <2>3. Divides(Carried, todo')
    BY <1>1, <2>1, <2>2, GreedyDivides
  <2>4. todo' \in Seq(Seq(Stops))
    BY <1>1, <2>1, GreedyPlanType
  <2>5. pc \notin After \union {"failed"}
    BY <2>1 DEF After, Laying
  <2> QED BY <2>1, <2>3, <2>4, <2>5, VisitPlanned
<1>4. CASE PlanAlns
  <2>1. /\ pc = "request" /\ pc' = "seed" /\ prob' = prob /\ db' = db /\ todo' = todo
        /\ prob.algorithm = "alns"
    BY <1>4 DEF PlanAlns, table
  <2>2. db = <<>> /\ todo = <<>>
    BY <2>1 DEF VisitInv, After, Laying
  <2> QED BY <2>1, <2>2 DEF VisitInv, After, Laying
<1>5. CASE TakeSolution
  <2>1. /\ pc = "solved" /\ pc' = "route" /\ prob' = prob /\ db' = db
        /\ todo' = Subsequence([v \in Vehicles |-> best[v]], {v \in Vehicles : best[v] # <<>>})
    BY <1>5 DEF TakeSolution
  <2>2. prob.algorithm = "alns" /\ Carried = Carriable
    BY <2>1 DEF VisitInv, Searching, Carried
  <2>3. ASSUME Counted PROVE Divides(Carried, todo')
    <3>1. Whole(best)
      BY <2>1, <2>2, <2>3 DEF BestInv, Counted, Searching
    <3> QED BY <2>1, <2>2, <3>1, TakenDivides
  <2>4. todo' \in Seq(Seq(Stops))
    BY <2>1, TakenType
  <2>5. pc \notin After \union {"failed"}
    BY <2>1 DEF After, Laying
  <2> QED BY <2>1, <2>3, <2>4, <2>5, VisitPlanned
<1> QED BY <1>2, <1>3, <1>4, <1>5

\* The search leaves the table alone.
LEMMA VisitSolve ==
    ASSUME LayInv, VisitInv, Solve, UNCHANGED table PROVE VisitInv'
<1>1. prob' = prob
  BY DEF Solve, GreedySeed, SeedEnds, SearchEnds, RemoveNodes, InsertCheapest,
         InsertAnyway, InsertEnds, OrOptTry, OrOptNext, OrOptOuter, TwoOptImprove,
         CrossExchangeImprove, TwoOptStarImprove, Improve, Accept
<1>2. pc \in {"seed"} \union Searching
  BY DEF Solve, GreedySeed, SeedEnds, SearchEnds, RemoveNodes, InsertCheapest,
         InsertAnyway, InsertEnds, OrOptTry, OrOptNext, OrOptOuter, TwoOptImprove,
         CrossExchangeImprove, TwoOptStarImprove, Improve, Accept, Searching
<1>3. pc' \in {"seed"} \union Searching
  BY SolveSearches
<1>4. db' = db /\ todo' = todo
  BY DEF table
<1>5. pc \notin After \union {"failed"} /\ pc' \notin After
  BY <1>2, <1>3 DEF After, Laying, Searching
<1>6. db = <<>> /\ todo = <<>> /\ prob.algorithm = "alns"
  BY <1>2, <1>5 DEF VisitInv
<1> QED BY <1>1, <1>4, <1>5, <1>6 DEF VisitInv, After, Laying

LEMMA VisitRead ==
    ASSUME VisitInv, ReadRoute \/ Respond PROVE VisitInv'
<1>1. /\ prob' = prob /\ todo' = todo /\ db' = db /\ pc \in {"read", "route"}
      /\ pc' \in {"route", "failed", "answered"}
  BY DEF ReadRoute, Respond
<1>2. CASE pc' = "failed"
  BY <1>2 DEF VisitInv, After, Laying, Searching
<1>3. CASE pc' # "failed"
  <2>1. pc \in After /\ pc' \in After /\ pc \notin Laying
    BY <1>1, <1>3 DEF After, Laying
  <2> QED BY <1>1, <2>1, VisitSame
<1> QED BY <1>2, <1>3

LEMMA VisitNext ==
    ASSUME SearchInv, BestInv, LayInv, VisitInv, [Next]_vars PROVE VisitInv'
<1>1. ASSUME StatementFails PROVE VisitInv'
  <2>1. pc' = "failed"
    BY <1>1 DEF StatementFails
  <2> QED BY <2>1 DEF VisitInv, After, Laying, Searching
<1>2. ASSUME UNCHANGED vars PROVE VisitInv'
  <2>1. prob' = prob /\ pc' = pc /\ todo' = todo /\ db' = db
    BY <1>2 DEF vars, table
  <2>2. CASE pc \in After
    BY <2>1, <2>2, VisitSame
  <2>3. CASE pc \notin After
    <3>1. After' = After /\ Searching' = Searching
      BY DEF After, Laying, Searching
    <3> QED BY <2>1, <2>3, <3>1 DEF VisitInv
  <2> QED BY <2>2, <2>3
<1> QED BY <1>1, <1>2, VisitPlan, VisitSolve, VisitInsertRoute, VisitDepotLeg, VisitBreak,
           VisitLeg, VisitReturnLeg, VisitNoReturn, VisitRead, VisitAdvance
        DEF Next, Planner, Done

\* Nothing is left to lay out when the request is answered.
AnswerInv == pc = "answered" => todo = <<>>

LEMMA AnswerNext ==
    ASSUME AnswerInv, [Next]_vars PROVE AnswerInv'
<1>1. ASSUME Solve PROVE pc' # "answered"
  BY <1>1, SolveSearches DEF Searching
<1>2. ASSUME pc' = "answered", Planner \/ StatementFails PROVE Respond
  BY <1>1, <1>2 DEF Planner, PlanEmpty, PlanGreedy, PlanAlns, TakeSolution, InsertRoute,
                    InsertDepotLeg, InsertBreak, InsertLeg, InsertReturnLeg, NoReturnLeg,
                    ReadRoute, StatementFails
<1>3. ASSUME Respond PROVE AnswerInv'
  BY <1>3 DEF Respond, AnswerInv
<1>4. ASSUME (\E r \in DOMAIN db : Advance(r)) \/ UNCHANGED vars PROVE AnswerInv'
  <2>1. pc' = pc /\ todo' = todo
    BY <1>4 DEF Advance, vars, table
  <2> QED BY <2>1 DEF AnswerInv
<1>5. ASSUME Planner \/ StatementFails PROVE AnswerInv'
  BY <1>2, <1>3, <1>5 DEF AnswerInv
<1> QED BY <1>4, <1>5 DEF Next, Done

LEMMA VisitAlways == Spec => [](LayInv /\ VisitInv /\ AnswerInv)
<1>1. Init => VisitInv /\ AnswerInv
  BY DEF Init, VisitInv, AnswerInv, After, Laying, Searching
<1>2. SearchInv /\ BestInv /\ LayInv /\ VisitInv /\ [Next]_vars => VisitInv'
  BY VisitNext
<1>3. AnswerInv /\ [Next]_vars => AnswerInv'
  BY AnswerNext
<1> QED BY <1>1, <1>2, <1>3, BestAlways, LayAlways, PTL DEF Spec

----------------------------------------------------------------------------
(* What an answered request has planned *)

\* The legs l go to every stop of the order o once; without a depot the first stop is where
\* they start.  Without legs there is at most one stop.
Goes(p, o, l) ==
    /\ \A s \in 1 .. Len(l) : l[s].to # 0 =>
          \E j \in 1 .. Len(o) : l[s].to = o[j] /\ (p.depots = <<>> => j # 1)
    /\ \A s, t \in 1 .. Len(l) : l[s].to # 0 /\ l[s].to = l[t].to => s = t
    /\ l # <<>> =>
          /\ 1 \in 1 .. Len(o) /\ l[1].from = IF p.depots = <<>> THEN o[1] ELSE 0
          /\ \A j \in 1 .. Len(o) :
                (p.depots = <<>> /\ j = 1) \/ \E s \in 1 .. Len(l) : l[s].to = o[j]
    /\ l = <<>> => \A i, j \in 1 .. Len(o) : i = j

LEMMA CompleteRow ==
    ASSUME NEW p, NEW x \in Rows(p), Laid(p, x), Complete(p, x)
    PROVE  Goes(p, x.order, x.legs)
<1>1. x.order \in Seq(1 .. p.n) /\ x.legs \in Seq(LegType) /\ x.laid \in Nat
  BY RowFields
<1>2. PICK o \in Seq(1 .. p.n), l \in Seq(LegType) : o = x.order /\ l = x.legs
  BY <1>1
<1>3. Len(o) \in Nat /\ Len(l) \in Nat
  OBVIOUS
<1>4. PICK f \in {1, 2} : f = FirstPlace(p) /\ (f = 2 <=> p.depots = <<>>)
  BY DEF FirstPlace
<1>5. PICK k \in Nat : k = NextPlace(p, x) /\ k = IF p.depots = <<>> THEN x.laid + 1 ELSE x.laid
  BY <1>1 DEF NextPlace
<1>6. /\ \A s \in 1 .. Len(l) : l[s].to # 0 => \E j \in f .. Len(o) : j <= k /\ l[s].to = o[j]
      /\ \A j \in f .. Len(o) : j <= k => \E s \in 1 .. Len(l) : l[s].to = o[j]
      /\ \A s, t \in 1 .. Len(l) : l[s].to # 0 /\ l[s].to = l[t].to => s = t
  <2>1. Leads(o, l, f, k)
    BY <1>2, <1>4, <1>5 DEF Laid
  <2> QED BY <2>1 DEF Leads
<1>7. \A j \in f .. Len(o) : j \in 1 .. Len(o) /\ (p.depots = <<>> => j # 1)
  BY <1>3, <1>4
<1>8. \A s \in 1 .. Len(l) : l[s].to # 0 =>
          \E j \in 1 .. Len(o) : l[s].to = o[j] /\ (p.depots = <<>> => j # 1)
  <2> SUFFICES ASSUME NEW s \in 1 .. Len(l), l[s].to # 0
               PROVE  \E j \in 1 .. Len(o) : l[s].to = o[j] /\ (p.depots = <<>> => j # 1)
    OBVIOUS
  <2>1. PICK j \in f .. Len(o) : j <= k /\ l[s].to = o[j]
    BY <1>6
  <2> QED BY <1>7, <2>1
<1>9. l # <<>> => /\ o # <<>>
                  /\ l[1].from = IF p.depots = <<>> THEN o[1] ELSE 0
  BY <1>2 DEF Laid
<1>10. o # <<>> => 1 \in 1 .. Len(o) /\ k >= Len(o)
  <2>1. o # <<>> => 1 \in 1 .. Len(o)
    OBVIOUS
  <2>2. o # <<>> => k >= Len(o)
    BY <1>2, <1>5 DEF Complete
  <2> QED BY <2>1, <2>2
<1>11. ASSUME l # <<>>, NEW j \in 1 .. Len(o)
       PROVE  (p.depots = <<>> /\ j = 1) \/ \E s \in 1 .. Len(l) : l[s].to = o[j]
  <2>1. j <= k
    BY <1>3, <1>9, <1>10, <1>11
  <2>2. j \in f .. Len(o) \/ (p.depots = <<>> /\ j = 1)
    BY <1>3, <1>4
  <2> QED BY <1>6, <2>1, <2>2
<1>12. ASSUME l = <<>>, NEW i \in 1 .. Len(o), NEW j \in 1 .. Len(o) PROVE i = j
  <2>1. x.laid = 0
    BY <1>2, <1>12 DEF Laid
  <2>2. k <= 1 /\ o # <<>>
    BY <1>5, <1>12, <2>1
  <2> QED BY <1>3, <1>10, <2>2
<1>13. Goes(p, o, l)
  BY <1>6, <1>8, <1>9, <1>10, <1>11, <1>12 DEF Goes
<1> QED BY <1>2, <1>13

\* A request that was answered has laid out every row of a plan that divides the stops.
Settled(P) ==
    /\ NoneTwice(P) /\ DOMAIN P = 1 .. Len(db) /\ Len(db) \in Nat /\ DOMAIN db = 1 .. Len(db)
    /\ \A r \in 1 .. Len(db) :
          /\ db[r] \in Rows(prob) /\ db[r].order = P[r]
          /\ Laid(prob, db[r]) /\ Complete(prob, db[r])

LEMMA AnsweredSettled ==
    ASSUME LayInv, VisitInv, AnswerInv, pc = "answered", Counted
    PROVE  \E P : Divides(Carried, P) /\ Settled(P)
<1>1. todo = <<>> /\ db \in Seq(Rows(prob))
  BY DEF AnswerInv, LayInv
<1>2. PICK P : Divides(Carried, P) /\ Follows(P, todo, db)
  BY DEF VisitInv, After
<1>3. RowsLaid(prob, db, pc) /\ pc \notin Laying
  BY DEF VisitInv, After, Laying
<1>4. /\ Len(db) \in Nat /\ DOMAIN db = 1 .. Len(db)
      /\ \A r \in 1 .. Len(db) : db[r] \in Rows(prob)
  <2> HIDE DEF Rows
  <2> QED BY <1>1
<1>5. Len(P) = Len(db) /\ DOMAIN P = 1 .. Len(P)
  <2>1. P \in Seq(Seq(Stops)) /\ Len(P) = Len(db) + Len(todo) /\ Len(todo) = 0
    BY <1>1, <1>2 DEF Follows
  <2>2. PICK X : X = Seq(Stops)
    OBVIOUS
  <2>3. P \in Seq(X)
    BY <2>1, <2>2
  <2>4. DOMAIN P = 1 .. Len(P)
    BY <2>3
  <2> QED BY <1>4, <2>1, <2>4
<1>6. \A r \in 1 .. Len(db) :
          db[r].order = P[r] /\ Laid(prob, db[r]) /\ Complete(prob, db[r])
  BY <1>2, <1>3 DEF Follows, RowsLaid
<1>7. NoneTwice(P)
  BY <1>2 DEF Divides
<1> QED BY <1>2, <1>4, <1>5, <1>6, <1>7 DEF Settled

\* The rows of such a plan, by the plan's orders.
LEMMA SettledRow ==
    ASSUME NEW P, Settled(P), NEW r \in 1 .. Len(db)
    PROVE  /\ Goes(prob, P[r], db[r].legs)
           /\ DOMAIN P[r] = 1 .. Len(P[r]) /\ DOMAIN db[r].legs = 1 .. Len(db[r].legs)
<1>0. PICK p : p = prob
  OBVIOUS
<1>1. PICK x \in Rows(p) :
          x = db[r] /\ x.order = P[r] /\ Laid(p, x) /\ Complete(p, x)
  <2> HIDE DEF Rows
  <2> QED BY <1>0 DEF Settled
<1>2. x.order \in Seq(1 .. p.n) /\ x.legs \in Seq(LegType)
  BY RowFields
<1>3. DOMAIN x.order = 1 .. Len(x.order) /\ DOMAIN x.legs = 1 .. Len(x.legs)
  BY <1>2
<1> QED BY <1>0, <1>1, <1>3, CompleteRow

\* What a visit is.
LEMMA VisitsFacts ==
    ASSUME NEW m
    PROVE  \A z : z \in Visits(m) <=>
              \/ \E r \in DOMAIN db : \E s \in DOMAIN db[r].legs :
                    z = <<r, s>> /\ db[r].legs[s].to = m
              \/ \E r \in DOMAIN db : z = <<r, 0>> /\ db[r].legs # <<>> /\ db[r].legs[1].from = m
<1> DEFINE L == {{<<r, s>> : s \in {x \in DOMAIN db[r].legs : db[r].legs[x].to = m}} :
                   r \in DOMAIN db}
           F == {<<r, 0>> : r \in {q \in DOMAIN db : db[q].legs # <<>> /\ db[q].legs[1].from = m}}
<1>0. Visits(m) = (UNION L) \union F
  BY Zenon DEF Visits
<1>1. PICK U, B : U = L /\ B = F /\ Visits(m) = (UNION U) \union B
  <2> HIDE DEF L, F
  <2> QED BY <1>0
<1>2. Visits(m) = (UNION U) \union B
  BY <1>1
<1>3. ASSUME NEW z
      PROVE  z \in UNION U <=>
                \E r \in DOMAIN db : \E s \in DOMAIN db[r].legs :
                    z = <<r, s>> /\ db[r].legs[s].to = m
  BY <1>1
<1>4. ASSUME NEW z
      PROVE  z \in B <=>
                \E r \in DOMAIN db : z = <<r, 0>> /\ db[r].legs # <<>> /\ db[r].legs[1].from = m
  BY <1>1
<1>5. \A z : z \in Visits(m) <=> z \in UNION U \/ z \in B
  BY <1>2
<1> QED BY <1>3, <1>4, <1>5

\* A visit belongs to the one place of the plan its stop has.
LEMMA VisitPlace ==
    ASSUME NEW P, Settled(P), NEW m, m # 0, NEW z \in Visits(m)
    PROVE  \E r \in 1 .. Len(db), s \in Nat : \E j \in DOMAIN P[r] :
              /\ z = <<r, s>> /\ P[r][j] = m
              /\ \/ s = 0 /\ prob.depots = <<>> /\ j = 1
                 \/ /\ s \in 1 .. Len(db[r].legs) /\ db[r].legs[s].to = m
                    /\ prob.depots = <<>> => j # 1
<1>0. m # 0 /\ DOMAIN db = 1 .. Len(db)
  BY DEF Settled
<1>1. CASE \E r \in DOMAIN db : \E s \in DOMAIN db[r].legs : z = <<r, s>> /\ db[r].legs[s].to = m
  <2>1. PICK r \in 1 .. Len(db) : \E s \in DOMAIN db[r].legs : z = <<r, s>> /\ db[r].legs[s].to = m
    BY <1>0, <1>1
  <2>2. PICK s \in 1 .. Len(db[r].legs) : z = <<r, s>> /\ db[r].legs[s].to = m
    BY <2>1, SettledRow
  <2>3. PICK j \in DOMAIN P[r] : P[r][j] = m /\ (prob.depots = <<>> => j # 1)
    <3>1. PICK o, l : o = P[r] /\ l = db[r].legs
      OBVIOUS
    <3>2. Goes(prob, o, l) /\ DOMAIN o = 1 .. Len(o)
      BY <3>1, SettledRow
    <3>3. s \in 1 .. Len(l) /\ l[s].to = m /\ l[s].to # 0
      BY <1>0, <2>2, <3>1
    <3>4. \E j \in 1 .. Len(o) : l[s].to = o[j] /\ (prob.depots = <<>> => j # 1)
      BY <3>2, <3>3 DEF Goes
    <3> QED BY <3>1, <3>2, <3>3, <3>4
  <2>4. s \in Nat
    OBVIOUS
  <2> QED BY <2>2, <2>3, <2>4
<1>2. CASE \E r \in DOMAIN db : z = <<r, 0>> /\ db[r].legs # <<>> /\ db[r].legs[1].from = m
  <2>1. PICK r \in 1 .. Len(db) : z = <<r, 0>> /\ db[r].legs # <<>> /\ db[r].legs[1].from = m
    BY <1>0, <1>2
  <2>2. 1 \in DOMAIN P[r] /\ m = IF prob.depots = <<>> THEN P[r][1] ELSE 0
    BY <2>1, SettledRow DEF Goes
  <2> QED BY <1>0, <2>1, <2>2
<1> QED BY <1>1, <1>2, VisitsFacts

LEMMA VisitedOnce ==
    ASSUME NEW P, Settled(P), NEW m, m # 0
    PROVE  Cardinality(Visits(m)) <= 1
<1>0. m # 0
  OBVIOUS
<1>1. ASSUME NEW y \in Visits(m), NEW z \in Visits(m) PROVE y = z
  <2>1. PICK r \in 1 .. Len(db), s \in Nat : \E j \in DOMAIN P[r] :
              /\ y = <<r, s>> /\ P[r][j] = m
              /\ \/ s = 0 /\ prob.depots = <<>> /\ j = 1
                 \/ /\ s \in 1 .. Len(db[r].legs) /\ db[r].legs[s].to = m
                    /\ prob.depots = <<>> => j # 1
    BY VisitPlace
  <2>2. PICK q \in 1 .. Len(db), t \in Nat : \E j \in DOMAIN P[q] :
              /\ z = <<q, t>> /\ P[q][j] = m
              /\ \/ t = 0 /\ prob.depots = <<>> /\ j = 1
                 \/ /\ t \in 1 .. Len(db[q].legs) /\ db[q].legs[t].to = m
                    /\ prob.depots = <<>> => j # 1
    BY VisitPlace
  <2>3. PICK i \in DOMAIN P[r] :
              /\ y = <<r, s>> /\ P[r][i] = m
              /\ \/ s = 0 /\ prob.depots = <<>> /\ i = 1
                 \/ /\ s \in 1 .. Len(db[r].legs) /\ db[r].legs[s].to = m
                    /\ prob.depots = <<>> => i # 1
    BY <2>1
  <2>4. PICK j \in DOMAIN P[q] :
              /\ z = <<q, t>> /\ P[q][j] = m
              /\ \/ t = 0 /\ prob.depots = <<>> /\ j = 1
                 \/ /\ t \in 1 .. Len(db[q].legs) /\ db[q].legs[t].to = m
                    /\ prob.depots = <<>> => j # 1
    BY <2>2
  <2>5. r = q /\ i = j
    <3>1. NoneTwice(P) /\ r \in DOMAIN P /\ q \in DOMAIN P
      BY DEF Settled
    <3> QED BY <2>3, <2>4, <3>1 DEF NoneTwice
  <2>6. s = t
    <3>1. CASE prob.depots = <<>> /\ i = 1
      BY <2>3, <2>4, <2>5, <3>1
    <3>2. CASE ~(prob.depots = <<>> /\ i = 1)
      <4>1. /\ s \in 1 .. Len(db[r].legs) /\ t \in 1 .. Len(db[r].legs)
            /\ db[r].legs[s].to = m /\ db[r].legs[t].to = m
        BY <2>3, <2>4, <2>5, <3>2
      <4> QED BY <1>0, <4>1, SettledRow DEF Goes
    <3> QED BY <3>1, <3>2
  <2> QED BY <2>3, <2>4, <2>5, <2>6
<1>2. CASE Visits(m) = {}
  BY <1>2, FS_EmptySet
<1>3. CASE Visits(m) # {}
  <2>1. PICK z : z \in Visits(m)
    BY <1>3
  <2>2. Visits(m) = {z}
    BY <1>1, <2>1
  <2>3. Cardinality({z}) = 1
    BY FS_Singleton
  <2> QED BY <2>2, <2>3
<1> QED BY <1>2, <1>3

\* A stop of an order whose row has legs is visited.
LEMMA LaidIsVisited ==
    ASSUME NEW P, Settled(P), prob \in Problems, NEW r \in 1 .. Len(db),
           db[r].legs # <<>>, NEW j \in 1 .. Len(P[r])
    PROVE  Visits(P[r][j]) # {}
<1>0. r \in DOMAIN db
  BY DEF Settled
<1>1. CASE prob.depots = <<>> /\ j = 1
  <2>1. db[r].legs[1].from = P[r][j]
    BY <1>1, SettledRow DEF Goes
  <2>2. <<r, 0>> \in Visits(P[r][j])
    BY <1>0, <2>1, VisitsFacts
  <2> QED BY <2>2
<1>2. CASE \E s \in 1 .. Len(db[r].legs) : db[r].legs[s].to = P[r][j]
  <2>1. PICK s \in DOMAIN db[r].legs : db[r].legs[s].to = P[r][j]
    BY <1>2, SettledRow
  <2>2. <<r, s>> \in Visits(P[r][j])
    BY <1>0, <2>1, VisitsFacts
  <2> QED BY <2>2
<1> QED BY <1>1, <1>2, SettledRow DEF Goes

\* Different stops that are left out belong to different routes without legs.
LEMMA LeftOut ==
    ASSUME NEW P, Settled(P), prob \in Problems, Divides(Carried, P)
    PROVE  Cardinality({m \in Carried : Visits(m) = {}})
               <= Cardinality({r \in DOMAIN db : db[r].legs = <<>>})
<1> DEFINE U == {m \in Carried : Visits(m) = {}}
           E == {r \in DOMAIN db : db[r].legs = <<>>}
<1>1. PICK own \in [Carried -> DOMAIN P] : Owned(Carried, P, own)
  BY DEF Divides
<1>2. DOMAIN P = 1 .. Len(db) /\ DOMAIN db = 1 .. Len(db) /\ Len(db) \in Nat
  BY DEF Settled
<1>3. ASSUME NEW m \in Carried
      PROVE  /\ own[m] \in 1 .. Len(db)
             /\ \/ \E j \in 1 .. Len(P[own[m]]) : m = P[own[m]][j]
                \/ /\ P[own[m]] = <<>>
                   /\ \A k \in Carried : own[k] = own[m] => k = m
  <2>1. own[m] \in 1 .. Len(db)
    BY <1>1, <1>2
  <2>2. DOMAIN P[own[m]] = 1 .. Len(P[own[m]])
    BY <2>1, SettledRow
  <2>3. ToSet(P[own[m]]) = {P[own[m]][j] : j \in DOMAIN P[own[m]]}
    BY DEF ToSet
  <2> QED BY <1>1, <2>1, <2>2, <2>3 DEF Owned
<1>4. ASSUME NEW m \in U PROVE own[m] \in E
  <2>1. m \in Carried /\ own[m] \in 1 .. Len(db) /\ Visits(m) = {}
    BY <1>3
  <2>2. CASE \E j \in 1 .. Len(P[own[m]]) : m = P[own[m]][j]
    BY <1>2, <2>1, <2>2, LaidIsVisited
  <2>3. CASE P[own[m]] = <<>>
    <3>1. ~(1 \in 1 .. Len(<<>>))
      OBVIOUS
    <3>2. db[own[m]].legs = <<>>
      BY <2>1, <2>3, <3>1, SettledRow DEF Goes
    <3> QED BY <1>2, <2>1, <3>2
  <2> QED BY <1>3, <2>1, <2>2, <2>3
<1>5. ASSUME NEW m \in U, NEW k \in U, own[m] = own[k] PROVE m = k
  <2>1. /\ m \in Carried /\ k \in Carried /\ own[m] \in 1 .. Len(db)
        /\ db[own[m]].legs = <<>>
    BY <1>3, <1>4
  <2>2. CASE \E j \in 1 .. Len(P[own[m]]) : m = P[own[m]][j]
    <3>1. CASE \E j \in 1 .. Len(P[own[k]]) : k = P[own[k]][j]
      BY <1>5, <2>1, <2>2, <3>1, SettledRow DEF Goes
    <3>2. CASE \A a \in Carried : own[a] = own[k] => a = k
      BY <1>5, <2>1, <3>2
    <3> QED BY <1>3, <2>1, <3>1, <3>2
  <2>3. CASE \A a \in Carried : own[a] = own[m] => a = m
    BY <1>5, <2>1, <2>3
  <2> QED BY <1>3, <2>1, <2>2, <2>3
<1>6. IsFiniteSet(E)
  <2>1. E \subseteq 1 .. Len(db)
    BY <1>2
  <2>2. IsFiniteSet(1 .. Len(db))
    BY <1>2, FS_Interval
  <2> HIDE DEF E
  <2> QED BY <2>1, <2>2, FS_Subset
<1> HIDE DEF U, E
<1> DEFINE g == [m \in U |-> own[m]]
<1>7. g \in [U -> E] /\ \A a, b \in U : g[a] = g[b] => a = b
  BY <1>4, <1>5
<1> HIDE DEF g
<1>8. g \in Injection(U, E)
  BY <1>7 DEF Injection, IsInjective
<1>9. Cardinality(U) <= Cardinality(E)
  BY <1>6, <1>8, FS_Injection
<1> QED BY <1>9 DEF U, E

\* An answered plan visits no stop twice and leaves out only the pending stops that the
\* query did not return, stops that no vehicle may carry, and one stop for each route
\* without legs.  The greedy planner's clusters and the
\* best solution of the search both divide the stops, every row is laid out to the end of
\* its order before the next one begins, and clients that advance a route in between change
\* no leg's stops.  The search is held to it if a missing stop costs more than all driving
\* and delay.
THEOREM StopsPlannedOnce == Spec => []PlannedOnce
<1>1. LayInv /\ VisitInv /\ AnswerInv => PlannedOnce
  <2> SUFFICES ASSUME LayInv, VisitInv, AnswerInv, pc = "answered", Counted
               PROVE  /\ \A n \in Pending : Cardinality(Visits(n)) <= 1
                      /\ Cardinality({n \in Pending : Visits(n) = {}}
                                        \ ((Pending \ Stops) \union (Stops \ Carried)))
                           <= Cardinality({r \in DOMAIN db : db[r].legs = <<>>})
    BY DEF PlannedOnce, Counted, Carried
  <2>1. prob \in Problems
    BY DEF LayInv, TableInv
  <2>2. PICK P : Divides(Carried, P) /\ Settled(P)
    BY AnsweredSettled
  <2>3. prob.n \in Nat /\ prob.pending \in Nat /\ prob.n <= prob.pending
    BY <2>1, ProblemAssumption
  <2>4. \A n \in Pending : Cardinality(Visits(n)) <= 1
    <3>1. \A n \in Pending : n # 0
      BY <2>3 DEF Pending
    <3> QED BY <2>2, <3>1, VisitedOnce
  <2>5. {n \in Pending : Visits(n) = {}} \ ((Pending \ Stops) \union (Stops \ Carried))
          = {m \in Carried : Visits(m) = {}}
    <3>1. Carried \subseteq Stops /\ Stops \subseteq Pending
      BY <2>3 DEF Carried, Carriable, Stops, Pending
    <3> QED BY <3>1
  <2> QED BY <2>1, <2>2, <2>4, <2>5, LeftOut
<1> QED BY <1>1, VisitAlways, PTL

=============================================================================
