--------------------------- MODULE PlanningProofs ---------------------------
(***************************************************************************)
(* Planning for any problems: the search keeps its stops, and the legs of  *)
(* a route fit together at every moment, whatever clients and failures do. *)
(***************************************************************************)
EXTENDS Planning, ListProofs, SequenceTheorems

----------------------------------------------------------------------------
(* Orders of stops *)

\* A sequence holds its elements at the places 1 .. Len(s).
LEMMA Places ==
    ASSUME NEW X, NEW s \in Seq(X)
    PROVE  /\ Len(s) \in Nat /\ DOMAIN s = 1 .. Len(s) /\ ToSet(s) \subseteq X
           /\ \A i \in 1 .. Len(s) : s[i] \in X /\ s[i] \in ToSet(s)
           /\ \A x \in ToSet(s) : \E i \in 1 .. Len(s) : s[i] = x
<1>1. Len(s) \in Nat /\ DOMAIN s = 1 .. Len(s) /\ \A i \in 1 .. Len(s) : s[i] \in X
  OBVIOUS
<1> QED BY <1>1 DEF ToSet

LEMMA AppendPlaces ==
    ASSUME NEW X, NEW s \in Seq(X), NEW e \in X
    PROVE  /\ Append(s, e) \in Seq(X) /\ Len(Append(s, e)) = Len(s) + 1
           /\ ToSet(Append(s, e)) = ToSet(s) \union {e}
<1>1. /\ Append(s, e) \in Seq(X) /\ Len(Append(s, e)) = Len(s) + 1 /\ Len(s) \in Nat
      /\ \A i \in 1 .. Len(s) : Append(s, e)[i] = s[i]
      /\ Append(s, e)[Len(s) + 1] = e
  OBVIOUS
<1>2. ASSUME NEW x \in ToSet(Append(s, e)) PROVE x \in ToSet(s) \union {e}
  <2>1. PICK i \in 1 .. Len(s) + 1 : Append(s, e)[i] = x
    BY <1>1, Places
  <2>2. CASE i = Len(s) + 1
    BY <1>1, <2>1, <2>2
  <2>3. CASE i \in 1 .. Len(s)
    BY <1>1, <2>1, <2>3, Places
  <2> QED BY <1>1, <2>2, <2>3
<1>3. ASSUME NEW x \in ToSet(s) \union {e} PROVE x \in ToSet(Append(s, e))
  <2>1. \A i \in 1 .. Len(s) + 1 : Append(s, e)[i] \in ToSet(Append(s, e))
    BY <1>1, Places
  <2>2. CASE x = e
    BY <1>1, <2>1, <2>2
  <2>3. CASE x \in ToSet(s)
    <3>1. PICK i \in 1 .. Len(s) : s[i] = x
      BY <2>3, Places
    <3>2. i \in 1 .. Len(s) + 1
      BY <1>1
    <3> QED BY <1>1, <2>1, <3>1, <3>2
  <2> QED BY <2>2, <2>3
<1> QED BY <1>1, <1>2, <1>3

LEMMA ConcatPlaces ==
    ASSUME NEW X, NEW s \in Seq(X), NEW t \in Seq(X)
    PROVE  /\ s \o t \in Seq(X) /\ Len(s \o t) = Len(s) + Len(t)
           /\ \A i \in 1 .. Len(s) : (s \o t)[i] = s[i]
           /\ \A i \in 1 .. Len(t) : (s \o t)[Len(s) + i] = t[i]
<1>0. Len(s) \in Nat /\ Len(t) \in Nat
  OBVIOUS
<1>1. /\ s \o t \in Seq(X) /\ Len(s \o t) = Len(s) + Len(t)
      /\ \A i \in 1 .. Len(s) + Len(t) :
            (s \o t)[i] = IF i <= Len(s) THEN s[i] ELSE t[i - Len(s)]
  BY ConcatProperties
<1>2. ASSUME NEW i \in 1 .. Len(s) PROVE (s \o t)[i] = s[i]
  <2>1. i \in 1 .. Len(s) + Len(t) /\ i <= Len(s)
    BY <1>0
  <2> QED BY <1>1, <2>1
<1>3. ASSUME NEW i \in 1 .. Len(t) PROVE (s \o t)[Len(s) + i] = t[i]
  <2>1. Len(s) + i \in 1 .. Len(s) + Len(t) /\ ~(Len(s) + i <= Len(s)) /\ Len(s) + i - Len(s) = i
    BY <1>0
  <2> QED BY <1>1, <2>1
<1> QED BY <1>1, <1>2, <1>3

LEMMA InsertAtPlaces ==
    ASSUME NEW X, NEW s \in Seq(X), NEW e \in X, NEW p \in 1 .. Len(s) + 1
    PROVE  /\ InsertAt(s, p, e) \in Seq(X) /\ Len(InsertAt(s, p, e)) = Len(s) + 1
           /\ ToSet(InsertAt(s, p, e)) = ToSet(s) \union {e}
<1> DEFINE t == InsertAt(s, p, e)
<1>0. Len(s) \in Nat /\ p \in Nat
  OBVIOUS
<1>1. /\ SubSeq(s, 1, p - 1) \in Seq(X) /\ Len(SubSeq(s, 1, p - 1)) = p - 1
      /\ \A i \in 1 .. p - 1 : SubSeq(s, 1, p - 1)[i] = s[i]
  BY <1>0
<1>2. /\ SubSeq(s, p, Len(s)) \in Seq(X) /\ Len(SubSeq(s, p, Len(s))) = Len(s) - p + 1
      /\ \A i \in 1 .. Len(s) - p + 1 : SubSeq(s, p, Len(s))[i] = s[p + i - 1]
  BY <1>0
<1>3. /\ t \in Seq(X) /\ Len(t) = Len(s) + 1
      /\ \A i \in 1 .. p - 1 : t[i] = s[i]
      /\ t[p] = e
      /\ \A i \in p + 1 .. Len(s) + 1 : t[i] = s[i - 1]
  <2> DEFINE a == SubSeq(s, 1, p - 1)
             b == SubSeq(s, p, Len(s))
             ae == a \o <<e>>
  <2>1. /\ ae \in Seq(X) /\ Len(ae) = p /\ ae[p] = e
        /\ \A i \in 1 .. p - 1 : ae[i] = a[i]
    <3> HIDE DEF a
    <3>1. a \in Seq(X) /\ Len(a) = p - 1 /\ <<e>> \in Seq(X) /\ Len(<<e>>) = 1
      BY <1>1 DEF a
    <3> QED BY <1>0, <3>1
  <2>2. /\ t \in Seq(X) /\ Len(t) = Len(ae) + Len(b)
        /\ \A i \in 1 .. Len(ae) : t[i] = ae[i]
        /\ \A i \in 1 .. Len(b) : t[Len(ae) + i] = b[i]
    <3>1. t = ae \o b
      BY DEF InsertAt
    <3>2. b \in Seq(X)
      BY <1>2
    <3> HIDE DEF ae, b, t
    <3> QED BY <2>1, <3>1, <3>2, ConcatPlaces
  <2>3. ASSUME NEW i \in p + 1 .. Len(s) + 1 PROVE t[i] = s[i - 1]
    <3>1. i - p \in 1 .. Len(b) /\ Len(ae) + (i - p) = i /\ p + (i - p) - 1 = i - 1
      <4>1. /\ Len(b) = Len(s) - p + 1 /\ Len(ae) = p
            /\ Len(s) \in Nat /\ p \in Int /\ i \in Int /\ p + 1 <= i /\ i <= Len(s) + 1
        BY <1>0, <1>2, <2>1
      <4> HIDE DEF ae, b
      <4> QED BY <4>1
    <3>2. t[Len(ae) + (i - p)] = b[i - p]
      BY <2>2, <3>1
    <3>3. b[i - p] = s[p + (i - p) - 1]
      BY <1>2, <3>1
    <3> QED BY <3>1, <3>2, <3>3
  <2>a. Len(b) = Len(s) - p + 1 /\ \A i \in 1 .. p - 1 : a[i] = s[i]
    BY <1>1, <1>2
  <2> HIDE DEF t, ae, a, b
  <2>4. Len(t) = Len(s) + 1
    BY <1>0, <2>a, <2>1, <2>2
  <2>5. t[p] = e /\ \A i \in 1 .. p - 1 : t[i] = s[i]
    <3>1. p \in 1 .. p /\ \A i \in 1 .. p - 1 : i \in 1 .. p
      BY <1>0
    <3> QED BY <2>a, <2>1, <2>2, <3>1
  <2> QED BY <2>2, <2>3, <2>4, <2>5
<1> HIDE DEF t
<1>4. ASSUME NEW x \in ToSet(t) PROVE x \in ToSet(s) \union {e}
  <2>1. PICK i \in 1 .. Len(s) + 1 : t[i] = x
    BY <1>3, Places
  <2>2. CASE i \in 1 .. p - 1
    <3>1. i \in 1 .. Len(s) /\ x = s[i]
      BY <1>0, <1>3, <2>1, <2>2
    <3> QED BY <3>1, Places
  <2>3. CASE i = p
    BY <1>3, <2>1, <2>3
  <2>4. CASE i \in p + 1 .. Len(s) + 1
    <3>1. i - 1 \in 1 .. Len(s) /\ x = s[i - 1]
      BY <1>0, <1>3, <2>1, <2>4
    <3> QED BY <3>1, Places
  <2> QED BY <1>0, <2>2, <2>3, <2>4
<1>5. ASSUME NEW x \in ToSet(s) \union {e} PROVE x \in ToSet(t)
  <2>1. \A i \in 1 .. Len(s) + 1 : t[i] \in ToSet(t)
    BY <1>3, Places
  <2>2. CASE x = e
    BY <1>0, <1>3, <2>1, <2>2
  <2>3. CASE x \in ToSet(s)
    <3>1. PICK i \in 1 .. Len(s) : s[i] = x
      BY <2>3, Places
    <3>2. CASE i < p
      BY <1>0, <1>3, <2>1, <3>1, <3>2
    <3>3. CASE ~(i < p)
      <4>1. i + 1 \in p + 1 .. Len(s) + 1 /\ i + 1 \in 1 .. Len(s) + 1 /\ i + 1 - 1 = i
        BY <1>0, <3>3
      <4>2. t[i + 1] = s[i]
        BY <1>3, <4>1
      <4> QED BY <2>1, <3>1, <4>1, <4>2
    <3> QED BY <3>2, <3>3
  <2> QED BY <2>2, <2>3
<1>6. ToSet(t) = ToSet(s) \union {e}
  BY <1>4, <1>5
<1> QED BY <1>3, <1>6 DEF t

LEMMA RemoveAtPlaces ==
    ASSUME NEW X, NEW s \in Seq(X), NEW p \in 1 .. Len(s)
    PROVE  /\ RemoveAt(s, p) \in Seq(X) /\ Len(RemoveAt(s, p)) = Len(s) - 1
           /\ ToSet(RemoveAt(s, p)) \union {s[p]} = ToSet(s)
<1> DEFINE t == RemoveAt(s, p)
           a == SubSeq(s, 1, p - 1)
           b == SubSeq(s, p + 1, Len(s))
<1>0. Len(s) \in Nat /\ p \in Nat
  OBVIOUS
<1>1. a \in Seq(X) /\ Len(a) = p - 1 /\ \A i \in 1 .. p - 1 : a[i] = s[i]
  BY <1>0
<1>2. /\ b \in Seq(X) /\ Len(b) = Len(s) - p
      /\ \A i \in 1 .. Len(s) - p : b[i] = s[p + 1 + i - 1]
  BY <1>0
<1>3. t = a \o b
  BY DEF RemoveAt
<1> HIDE DEF a, b, t
<1>4. /\ t \in Seq(X) /\ Len(t) = Len(a) + Len(b)
      /\ \A i \in 1 .. Len(a) : t[i] = a[i]
      /\ \A i \in 1 .. Len(b) : t[Len(a) + i] = b[i]
  <2>1. a \in Seq(X) /\ b \in Seq(X)
    BY <1>1, <1>2
  <2> QED BY <1>3, <2>1, ConcatPlaces
<1>5. /\ Len(t) = Len(s) - 1
      /\ \A i \in 1 .. p - 1 : t[i] = s[i]
  <2>1. Len(t) = Len(s) - 1
    BY <1>0, <1>1, <1>2, <1>4
  <2>2. \A i \in 1 .. p - 1 : t[i] = s[i]
    BY <1>1, <1>4
  <2> QED BY <2>1, <2>2
<1>6. ASSUME NEW i \in p .. Len(s) - 1 PROVE t[i] = s[i + 1]
  <2>1. i - p + 1 \in 1 .. Len(b) /\ Len(a) + (i - p + 1) = i
        /\ p + 1 + (i - p + 1) - 1 = i + 1
    BY <1>0, <1>1, <1>2
  <2>2. t[Len(a) + (i - p + 1)] = b[i - p + 1]
    BY <1>4, <2>1
  <2>3. b[i - p + 1] = s[p + 1 + (i - p + 1) - 1]
    BY <1>2, <2>1
  <2> QED BY <2>1, <2>2, <2>3
<1>7. ASSUME NEW x \in ToSet(t) PROVE x \in ToSet(s)
  <2>1. PICK i \in 1 .. Len(s) - 1 : t[i] = x
    BY <1>4, <1>5, Places
  <2>2. CASE i < p
    <3>1. i \in 1 .. Len(s) /\ x = s[i]
      BY <1>0, <1>5, <2>1, <2>2
    <3> QED BY <3>1, Places
  <2>3. CASE ~(i < p)
    <3>1. i + 1 \in 1 .. Len(s) /\ i \in p .. Len(s) - 1
      BY <1>0, <2>3
    <3>2. x = s[i + 1]
      BY <1>6, <2>1, <3>1
    <3> QED BY <3>1, <3>2, Places
  <2> QED BY <2>2, <2>3
<1>8. ASSUME NEW x \in ToSet(s), x # s[p] PROVE x \in ToSet(t)
  <2>1. PICK i \in 1 .. Len(s) : s[i] = x
    BY Places
  <2>2. \A j \in 1 .. Len(s) - 1 : t[j] \in ToSet(t)
    BY <1>4, <1>5, Places
  <2>3. CASE i < p
    <3>1. i \in 1 .. Len(s) - 1 /\ t[i] = x
      BY <1>0, <1>5, <2>1, <2>3
    <3> QED BY <2>2, <3>1
  <2>4. CASE i > p
    <3>1. i - 1 \in p .. Len(s) - 1 /\ i - 1 \in 1 .. Len(s) - 1 /\ i - 1 + 1 = i
      BY <1>0, <2>4
    <3>2. t[i - 1] = x
      BY <1>6, <2>1, <3>1
    <3> QED BY <2>2, <3>1, <3>2
  <2>5. i # p
    BY <1>8, <2>1
  <2> QED BY <1>0, <2>3, <2>4, <2>5
<1>9. s[p] \in ToSet(s)
  BY Places
<1>10. ToSet(t) \union {s[p]} = ToSet(s)
  BY <1>7, <1>8, <1>9
<1> QED BY <1>4, <1>5, <1>10 DEF t

\* A sequence is one over its own elements, and over any set that holds them.
LEMMA OwnElements ==
    ASSUME NEW X, NEW s \in Seq(X), NEW Y, ToSet(s) \subseteq Y
    PROVE  s \in Seq(Y)
<1>1. s = [i \in 1 .. Len(s) |-> s[i]] /\ Len(s) \in Nat
  OBVIOUS
<1>2. \A i \in 1 .. Len(s) : s[i] \in Y
  BY Places
<1>3. [i \in 1 .. Len(s) |-> s[i]] \in Seq(Y)
  BY <1>1, <1>2
<1> QED BY <1>1, <1>3

LEMMA ReversedPlaces ==
    ASSUME NEW X, NEW s \in Seq(X), NEW i \in 1 .. Len(s), NEW k \in 1 .. Len(s), i <= k
    PROVE  /\ Reversed(s, i, k) \in Seq(X) /\ Len(Reversed(s, i, k)) = Len(s)
           /\ ToSet(Reversed(s, i, k)) = ToSet(s)
<1> DEFINE at(x) == IF x \in i .. k THEN i + k - x ELSE x
           t == Reversed(s, i, k)
<1>0. Len(s) \in Nat /\ i \in Nat /\ k \in Nat /\ DOMAIN s = 1 .. Len(s)
  OBVIOUS
<1>1. \A x \in 1 .. Len(s) : at(x) \in 1 .. Len(s) /\ at(at(x)) = x
  BY <1>0
<1>2. t = [x \in 1 .. Len(s) |-> s[at(x)]]
  BY <1>0 DEF Reversed
<1> HIDE DEF at, t
<1>3. \A x \in 1 .. Len(s) : s[at(x)] \in X /\ s[at(x)] \in ToSet(s)
  BY <1>1, Places
<1>4. t \in Seq(X) /\ Len(t) = Len(s)
  BY <1>0, <1>2, <1>3
<1>5. ToSet(t) \subseteq ToSet(s)
  <2>1. t \in Seq(ToSet(s))
    BY <1>0, <1>2, <1>3
  <2> QED BY <2>1, Places
<1>6. ASSUME NEW y \in ToSet(s) PROVE y \in ToSet(t)
  <2>1. PICK x \in 1 .. Len(s) : s[x] = y
    BY Places
  <2>2. at(x) \in 1 .. Len(s) /\ t[at(x)] = y
    BY <1>1, <1>2, <2>1
  <2>3. t[at(x)] \in ToSet(t)
    BY <1>4, <2>2, Places
  <2> QED BY <2>2, <2>3
<1> QED BY <1>4, <1>5, <1>6 DEF t

LEMMA SplicedPlaces ==
    ASSUME NEW X, NEW s \in Seq(X), NEW seg \in Seq(X), NEW i \in 1 .. Len(s),
           NEW len \in 1 .. 2, i + len - 1 <= Len(s)
    PROVE  /\ Spliced(s, i, len, seg) \in Seq(X)
           /\ Len(Spliced(s, i, len, seg)) = Len(s) - len + Len(seg)
<1> DEFINE over == [x \in DOMAIN s |->
                IF x \in i .. i + Len(seg) - 1 THEN seg[x - i + 1] ELSE s[x]]
<1>0. Len(s) \in Nat /\ i \in Nat /\ Len(seg) \in Nat /\ DOMAIN s = 1 .. Len(s)
  OBVIOUS
<1>1. over \in Seq(X) /\ Len(over) = Len(s)
  <2>1. ASSUME NEW x \in 1 .. Len(s)
        PROVE  (IF x \in i .. i + Len(seg) - 1 THEN seg[x - i + 1] ELSE s[x]) \in X
    <3>1. CASE x \in i .. i + Len(seg) - 1
      <4>1. x - i + 1 \in 1 .. Len(seg)
        BY <1>0, <3>1
      <4>2. seg[x - i + 1] \in X
        BY <4>1, Places
      <4> QED BY <3>1, <4>2
    <3>2. s[x] \in X
      BY Places
    <3> QED BY <3>1, <3>2
  <2> DEFINE body(x) == IF x \in i .. i + Len(seg) - 1 THEN seg[x - i + 1] ELSE s[x]
  <2>2. over = [x \in 1 .. Len(s) |-> body(x)] /\ \A x \in 1 .. Len(s) : body(x) \in X
    BY <1>0, <2>1
  <2> HIDE DEF body, over
  <2> QED BY <1>0, <2>2
<1> HIDE DEF over
<1>2. SubSeq(s, 1, i - 1) \in Seq(X) /\ Len(SubSeq(s, 1, i - 1)) = i - 1
  BY <1>0
<1>3. /\ SubSeq(over, i + len, Len(s)) \in Seq(X)
      /\ Len(SubSeq(over, i + len, Len(s))) = Len(s) - i - len + 1
  <2>1. i + len \in Nat /\ i + len >= 1 /\ i + len <= Len(s) + 1
    BY <1>0
  <2> QED BY <1>0, <1>1, <2>1
<1>4. Spliced(s, i, len, seg) = SubSeq(s, 1, i - 1) \o seg \o SubSeq(over, i + len, Len(s))
  BY DEF Spliced, over
<1>5. /\ SubSeq(s, 1, i - 1) \o seg \in Seq(X)
      /\ Len(SubSeq(s, 1, i - 1) \o seg) = i - 1 + Len(seg)
  BY <1>2, ConcatPlaces
<1>6. /\ Spliced(s, i, len, seg) \in Seq(X)
      /\ Len(Spliced(s, i, len, seg)) = i - 1 + Len(seg) + (Len(s) - i - len + 1)
  <2> DEFINE a == SubSeq(s, 1, i - 1) \o seg
             b == SubSeq(over, i + len, Len(s))
  <2>1. /\ a \in Seq(X) /\ b \in Seq(X) /\ Len(a) = i - 1 + Len(seg)
        /\ Len(b) = Len(s) - i - len + 1 /\ Spliced(s, i, len, seg) = a \o b
    BY <1>3, <1>4, <1>5
  <2> HIDE DEF a, b
  <2>2. a \o b \in Seq(X) /\ Len(a \o b) = Len(a) + Len(b)
    BY <2>1, ConcatPlaces
  <2> QED BY <2>1, <2>2
<1> QED BY <1>0, <1>6

\* Two orders give each other the stops at i and j.
LEMMA ReplacePlaces ==
    ASSUME NEW X, NEW s \in Seq(X), NEW t \in Seq(X),
           NEW i \in 1 .. Len(s), NEW j \in 1 .. Len(t)
    PROVE  /\ ReplaceAt(s, i, t[j]) \in Seq(X) /\ ReplaceAt(t, j, s[i]) \in Seq(X)
           /\ ToSet(ReplaceAt(s, i, t[j])) \union ToSet(ReplaceAt(t, j, s[i]))
                = ToSet(s) \union ToSet(t)
<1> DEFINE p == ReplaceAt(s, i, t[j])
           q == ReplaceAt(t, j, s[i])
<1>0. s[i] \in X /\ t[j] \in X /\ DOMAIN s = 1 .. Len(s) /\ DOMAIN t = 1 .. Len(t)
      /\ Len(s) \in Nat /\ Len(t) \in Nat
  OBVIOUS
<1>1. p \in Seq(X) /\ q \in Seq(X) /\ Len(p) = Len(s) /\ Len(q) = Len(t)
  BY <1>0 DEF ReplaceAt
<1>2. /\ \A x \in 1 .. Len(s) : p[x] = IF x = i THEN t[j] ELSE s[x]
      /\ \A x \in 1 .. Len(t) : q[x] = IF x = j THEN s[i] ELSE t[x]
  BY <1>0 DEF ReplaceAt
<1> HIDE DEF p, q
<1>3. ASSUME NEW y \in ToSet(p) \union ToSet(q) PROVE y \in ToSet(s) \union ToSet(t)
  <2>1. CASE y \in ToSet(p)
    <3>1. PICK x \in 1 .. Len(s) : p[x] = y
      BY <1>1, <2>1, Places
    <3>2. y = t[j] \/ y = s[x]
      BY <1>2, <3>1
    <3> QED BY <3>2, Places
  <2>2. CASE y \in ToSet(q)
    <3>1. PICK x \in 1 .. Len(t) : q[x] = y
      BY <1>1, <2>2, Places
    <3>2. y = s[i] \/ y = t[x]
      BY <1>2, <3>1
    <3> QED BY <3>2, Places
  <2> QED BY <2>1, <2>2
<1>4. ASSUME NEW y \in ToSet(s) \union ToSet(t) PROVE y \in ToSet(p) \union ToSet(q)
  <2>0. /\ \A x \in 1 .. Len(s) : p[x] \in ToSet(p)
        /\ \A x \in 1 .. Len(t) : q[x] \in ToSet(q)
    BY <1>1, Places
  <2>1. CASE y \in ToSet(s)
    <3>1. PICK x \in 1 .. Len(s) : s[x] = y
      BY <2>1, Places
    <3>2. CASE x = i
      BY <1>2, <2>0, <3>1, <3>2
    <3>3. CASE x # i
      BY <1>2, <2>0, <3>1, <3>3
    <3> QED BY <3>2, <3>3
  <2>2. CASE y \in ToSet(t)
    <3>1. PICK x \in 1 .. Len(t) : t[x] = y
      BY <2>2, Places
    <3>2. CASE x = j
      BY <1>2, <2>0, <3>1, <3>2
    <3>3. CASE x # j
      BY <1>2, <2>0, <3>1, <3>3
    <3> QED BY <3>2, <3>3
  <2> QED BY <2>1, <2>2
<1> QED BY <1>1, <1>3, <1>4 DEF p, q

LEMMA WithoutPlaces ==
    ASSUME NEW X, NEW s \in Seq(X), NEW S
    PROVE  Without(s, S) \in Seq(X) /\ ToSet(Without(s, S)) = ToSet(s) \ S
<1> DEFINE I == {i \in DOMAIN s : s[i] \notin S}
           t == Subsequence(s, I)
<1>1. I \in SUBSET DOMAIN s /\ \A i \in DOMAIN s : i \in I <=> s[i] \notin S
  OBVIOUS
<1>2. Without(s, S) = t
  BY DEF Without
<1> HIDE DEF I
<1>3. /\ t \in Seq(X) /\ Len(t) = Cardinality(I)
      /\ \A k \in 1 .. Cardinality(I) : Place(I, k) \in I /\ t[k] = s[Place(I, k)]
      /\ \A i \in I : \E k \in 1 .. Cardinality(I) : t[k] = s[i]
  BY <1>1, SubsequenceFacts
<1> HIDE DEF t
<1>4. ASSUME NEW y \in ToSet(t) PROVE y \in ToSet(s) \ S
  <2>1. PICK k \in 1 .. Len(t) : t[k] = y
    BY <1>3, Places
  <2>2. Place(I, k) \in I /\ y = s[Place(I, k)]
    BY <1>3, <2>1
  <2> QED BY <1>1, <2>2 DEF ToSet
<1>5. ASSUME NEW y \in ToSet(s), y \notin S PROVE y \in ToSet(t)
  <2>1. PICK i \in DOMAIN s : s[i] = y
    BY DEF ToSet
  <2>2. i \in I
    BY <1>1, <1>5, <2>1
  <2>3. PICK k \in 1 .. Len(t) : t[k] = y
    BY <1>3, <2>1, <2>2
  <2> QED BY <1>3, <2>3, Places
<1> QED BY <1>2, <1>3, <1>4, <1>5

\* A set in some order: each element has one place.
LEMMA OrderPlaces ==
    ASSUME NEW S, IsFiniteSet(S), NEW q \in SetToSeqs(S)
    PROVE  /\ q \in Seq(S) /\ Len(q) = Cardinality(S) /\ Cardinality(S) \in Nat
           /\ DOMAIN q = 1 .. Cardinality(S)
           /\ \A i, j \in 1 .. Cardinality(S) : q[i] = q[j] => i = j
<1>1. PICK n \in Nat : n = Cardinality(S)
  BY FS_CardinalityType
<1>2. q \in [1 .. n -> S] /\ \A i, j \in 1 .. n : i # j => q[i] # q[j]
  BY <1>1 DEF SetToSeqs
<1>3. q \in Seq(S) /\ Len(q) = n /\ DOMAIN q = 1 .. n
  BY <1>2
<1> QED BY <1>1, <1>2, <1>3

\* A finite set of stops has a first element with the least value.  The scan of the
\* code goes through the stops in order, and so does the proof.
LEMMA FirstLeastExists ==
    ASSUME NEW n \in Nat, NEW S \in SUBSET (1 .. n), S # {}, NEW f \in [S -> Int]
    PROVE  \E x \in S : \A y \in S : f[x] < f[y] \/ (f[x] = f[y] /\ x <= y)
<1> DEFINE Least(x, k) == \A y \in S : y <= k => f[x] < f[y] \/ (f[x] = f[y] /\ x <= y)
           Good(k) == (\E y \in S : y <= k) => \E x \in S : x <= k /\ Least(x, k)
           Bad == {k \in Nat : ~Good(k)}
<1>0. \A x \in S : x \in Nat /\ 1 <= x /\ x <= n /\ f[x] \in Int
  OBVIOUS
<1>1. Good(n) => \E x \in S : \A y \in S : f[x] < f[y] \/ (f[x] = f[y] /\ x <= y)
  BY <1>0
<1>2. Good(0)
  BY <1>0
<1>3. ASSUME NEW k \in Nat, Good(k) PROVE Good(k + 1)
  <2> SUFFICES ASSUME \E y \in S : y <= k + 1
               PROVE  \E x \in S : x <= k + 1 /\ Least(x, k + 1)
    OBVIOUS
  <2>1. CASE k + 1 \notin S
    <3>1. ASSUME NEW y \in S, y <= k + 1 PROVE y <= k
      <4>1. y \in Nat /\ y # k + 1
        BY <1>0, <2>1
      <4> QED BY <3>1, <4>1
    <3>2. PICK x \in S : x <= k /\ Least(x, k)
      BY <1>3, <3>1
    <3>3. x <= k + 1
      <4>1. x \in Nat /\ x <= k
        BY <1>0, <3>2
      <4> QED BY <4>1
    <3>4. Least(x, k + 1)
      BY <3>1, <3>2
    <3> QED BY <3>3, <3>4
  <2>2. CASE k + 1 \in S /\ ~\E y \in S : y <= k
    <3>1. ASSUME NEW y \in S, y <= k + 1 PROVE y = k + 1
      <4>1. y \in Nat /\ ~(y <= k)
        BY <1>0, <2>2
      <4> QED BY <3>1, <4>1
    <3>2. k + 1 <= k + 1
      OBVIOUS
    <3>3. Least(k + 1, k + 1)
      <4> SUFFICES ASSUME NEW y \in S, y <= k + 1
                   PROVE  f[k + 1] = f[y] /\ k + 1 <= y
        OBVIOUS
      <4>1. y = k + 1
        BY <3>1
      <4> QED BY <3>2, <4>1
    <3> QED BY <2>2, <3>2, <3>3
  <2>3. CASE k + 1 \in S /\ \E y \in S : y <= k
    <3>1. PICK x \in S : x <= k /\ Least(x, k)
      BY <1>3, <2>3
    <3>2. x \in Nat /\ f[x] \in Int /\ f[k + 1] \in Int /\ x <= k + 1
      BY <1>0, <2>3, <3>1
    <3>3. CASE f[x] <= f[k + 1]
      <4>1. Least(x, k + 1)
        <5> SUFFICES ASSUME NEW y \in S, y <= k + 1
                     PROVE  f[x] < f[y] \/ (f[x] = f[y] /\ x <= y)
          OBVIOUS
        <5>1. CASE y = k + 1
          BY <3>2, <3>3, <5>1
        <5>2. CASE y # k + 1
          <6>1. y <= k
            BY <1>0, <5>2
          <6> QED BY <3>1, <6>1
        <5> QED BY <5>1, <5>2
      <4> QED BY <3>2, <4>1
    <3>4. CASE f[k + 1] < f[x]
      <4>1. Least(k + 1, k + 1)
        <5> SUFFICES ASSUME NEW y \in S, y <= k + 1
                     PROVE  f[k + 1] < f[y] \/ (f[k + 1] = f[y] /\ k + 1 <= y)
          OBVIOUS
        <5>1. CASE y = k + 1
          BY <3>2, <5>1
        <5>2. CASE y # k + 1
          <6>1. y <= k /\ f[y] \in Int
            BY <1>0, <5>2
          <6>2. f[x] < f[y] \/ f[x] = f[y]
            BY <3>1, <6>1
          <6> QED BY <3>2, <3>4, <6>1, <6>2
        <5> QED BY <5>1, <5>2
      <4>2. k + 1 <= k + 1
        OBVIOUS
      <4> QED BY <2>3, <4>1, <4>2
    <3> QED BY <3>2, <3>3, <3>4
  <2> QED BY <2>1, <2>2, <2>3
<1> HIDE DEF Good
<1>4. Bad = {}
  <2> SUFFICES ASSUME Bad # {} PROVE FALSE
    OBVIOUS
  <2>1. PICK b \in Bad : \A x \in Bad : b <= x
    <3>1. Bad \in SUBSET Nat
      OBVIOUS
    <3> HIDE DEF Bad
    <3> QED BY <3>1, LeastNatural
  <2>2. b \in Nat /\ ~Good(b)
    OBVIOUS
  <2>3. b # 0
    BY <1>2, <2>2
  <2>4. b - 1 \in Nat /\ ~(b <= b - 1) /\ b - 1 + 1 = b
    BY <2>2, <2>3
  <2>5. Good(b - 1)
    BY <2>1, <2>4
  <2>6. Good(b - 1 + 1)
    BY <1>3, <2>4, <2>5
  <2> QED BY <2>2, <2>4, <2>6
<1>5. Good(n)
  BY <1>4
<1> QED BY <1>1, <1>5

\* A set of natural numbers that is not empty has a minimum.
LEMMA MinNatural ==
    ASSUME NEW T \in SUBSET Nat, T # {}
    PROVE  Min(T) \in T /\ \A x \in T : Min(T) <= x
BY LeastNatural DEF Min

\* The larger of two numbers.
LEMMA MaxOfTwo ==
    ASSUME NEW x \in Nat, NEW y \in Nat
    PROVE  Max({x, y}) \in Nat /\ Max({x, y}) >= x /\ Max({x, y}) >= y
<1>1. \E m \in {x, y} : \A z \in {x, y} : m >= z
  OBVIOUS
<1> QED BY <1>1 DEF Max

----------------------------------------------------------------------------
(* The search *)

\* What ProblemAssumption says of the problem at hand.
LEMMA ProblemFacts ==
    ASSUME prob \in Problems
    PROVE  /\ prob.n \in Nat /\ prob.n <= MaxStops /\ MaxStops \in Nat
           /\ prob.vehicles \in Nat /\ prob.vehicles >= 1
           /\ prob.limit \in Nat /\ prob.limit >= 1
           /\ prob.hosMax \in Nat /\ prob.breakSec \in Nat
           /\ prob.depots \in Seq(Nat) /\ prob.inserts \subseteq InsertOps
           /\ prob.algorithm \in {"greedy", "alns"}
<1>1. MaxStops \in Nat /\ MaxPlans \in Nat
  BY ProblemAssumption
<1>2. /\ prob.n \in 0 .. MaxStops /\ prob.vehicles \in 1 .. MaxPlans
      /\ prob.depots \in Seq(Nat) /\ prob.hosMax \in Nat /\ prob.breakSec \in Nat
      /\ prob.limit \in Nat \ {0} /\ prob.inserts \in (SUBSET InsertOps) \ {{}}
  BY ProblemAssumption
<1>3. prob.algorithm \in {"greedy", "alns"}
  BY PlanningAssumption
<1> QED BY <1>1, <1>2, <1>3

LEMMA StopFacts ==
    ASSUME prob \in Problems, NEW m \in Stops
    PROVE  /\ m \in Nat /\ m >= 1 /\ m <= MaxStops /\ At(m) \in Nat
           /\ prob.service[m] \in Nat /\ prob.opens[m] \in Nat
<1>1. /\ prob.at \in [1 .. prob.n -> Nat] /\ prob.service \in [1 .. prob.n -> Nat]
      /\ prob.opens \in [1 .. prob.n -> Nat]
  BY ProblemAssumption
<1>2. prob.n \in Nat /\ prob.n <= MaxStops /\ MaxStops \in Nat /\ m \in 1 .. prob.n
  BY ProblemFacts DEF Stops
<1> QED BY <1>1, <1>2 DEF At

LEMMA FiniteProblem ==
    ASSUME prob \in Problems
    PROVE  IsFiniteSet(Stops) /\ IsFiniteSet(Vehicles)
<1>1. prob.n \in Int /\ prob.vehicles \in Int /\ 1 \in Int
  BY ProblemFacts
<1>2. IsFiniteSet(1 .. prob.n) /\ IsFiniteSet(1 .. prob.vehicles)
  BY <1>1, FS_Interval
<1> QED BY <1>2 DEF Stops, Vehicles

LEMMA DistNat == \A a, b \in Nat : Dist(a, b) \in Nat
BY DEF Dist

Plans == [Vehicles -> Seq(Stops)]

\* The stops that the current solution has, and those taken out of it.
InPlay == Served(curr) \union ToSet(removed)

\* The stops of the plans of all vehicles but those in V.
Others(plans, V) == UNION {ToSet(plans[w]) : w \in Vehicles \ V}

LEMMA ServedPut ==
    ASSUME NEW plans \in Plans, NEW v \in Vehicles, NEW o
    PROVE  /\ Served(plans) = Others(plans, {v}) \union ToSet(plans[v])
           /\ Served([plans EXCEPT ![v] = o]) = Others(plans, {v}) \union ToSet(o)
<1> DEFINE new == [plans EXCEPT ![v] = o]
<1>1. /\ new[v] = o /\ \A w \in Vehicles \ {v} : new[w] = plans[w]
  BY DEF Plans
<1> HIDE DEF new
<1>2. /\ \A x : x \in Served(plans) <=> \E w \in Vehicles : x \in ToSet(plans[w])
      /\ \A x : x \in Served(new) <=> \E w \in Vehicles : x \in ToSet(new[w])
      /\ \A x : x \in Others(plans, {v}) <=> \E w \in Vehicles \ {v} : x \in ToSet(plans[w])
  BY DEF Served, Others
<1>3. Served(plans) = Others(plans, {v}) \union ToSet(plans[v])
  BY <1>2
<1>4. Served(new) = Others(plans, {v}) \union ToSet(o)
  BY <1>1, <1>2
<1> QED BY <1>3, <1>4 DEF new

LEMMA ServedPutTwo ==
    ASSUME NEW plans \in Plans, NEW a \in Vehicles, NEW b \in Vehicles, a # b, NEW o, NEW p
    PROVE  /\ Served(plans) = Others(plans, {a, b}) \union ToSet(plans[a]) \union ToSet(plans[b])
           /\ Served([plans EXCEPT ![a] = o, ![b] = p])
                = Others(plans, {a, b}) \union ToSet(o) \union ToSet(p)
<1> DEFINE new == [plans EXCEPT ![a] = o, ![b] = p]
<1>1. new[a] = o /\ new[b] = p /\ \A w \in Vehicles \ {a, b} : new[w] = plans[w]
  BY DEF Plans
<1> HIDE DEF new
<1>2. /\ \A x : x \in Served(plans) <=> \E w \in Vehicles : x \in ToSet(plans[w])
      /\ \A x : x \in Served(new) <=> \E w \in Vehicles : x \in ToSet(new[w])
      /\ \A x : x \in Others(plans, {a, b})
            <=> \E w \in Vehicles \ {a, b} : x \in ToSet(plans[w])
  BY DEF Served, Others
<1>3. Served(plans) = Others(plans, {a, b}) \union ToSet(plans[a]) \union ToSet(plans[b])
  BY <1>2
<1>4. Served(new) = Others(plans, {a, b}) \union ToSet(o) \union ToSet(p)
  BY <1>1, <1>2
<1> QED BY <1>3, <1>4 DEF new

\* Only pending stops are served, and there are finitely many.
LEMMA ServedStops ==
    ASSUME prob \in Problems, NEW plans \in Plans
    PROVE  Served(plans) \subseteq Stops /\ IsFiniteSet(Served(plans))
<1>1. ASSUME NEW v \in Vehicles PROVE ToSet(plans[v]) \subseteq Stops
  <2>1. plans[v] \in Seq(Stops)
    BY DEF Plans
  <2> QED BY <2>1, Places
<1>2. Served(plans) \subseteq Stops
  BY <1>1 DEF Served
<1>3. IsFiniteSet(Stops)
  BY FiniteProblem
<1> QED BY <1>2, <1>3, FS_Subset

\* The removal operators take stops out that are in the plans.
LEMMA RandomServed ==
    ASSUME prob \in Problems, curr \in Plans, NEW k, NEW S \in PickRandomNodes(k)
    PROVE  S \in Seq(Served(curr))
<1>1. PICK T \in kSubset(Min({k, Cardinality(Served(curr))}), Served(curr)) : S \in SetToSeqs(T)
  BY Zenon DEF PickRandomNodes
<1>2. IsFiniteSet(T) /\ T \subseteq Served(curr)
  <2>1. T \subseteq Served(curr)
    BY DEF kSubset
  <2> QED BY <2>1, ServedStops, FS_Subset
<1>3. S \in Seq(T)
  BY <1>1, <1>2, OrderPlaces
<1>4. ToSet(S) \subseteq Served(curr)
  BY <1>2, <1>3, Places
<1> QED BY <1>3, <1>4, OwnElements

\* The places of the stops in the plans.
Assigned == UNION {{v} \X (DOMAIN curr[v]) : v \in Vehicles}

LEMMA AssignedFinite ==
    ASSUME prob \in Problems, curr \in Plans
    PROVE  /\ IsFiniteSet(Assigned)
           /\ \A x \in Assigned : curr[x[1]][x[2]] \in Served(curr)
<1> DEFINE part == [v \in Vehicles |-> {v} \X (DOMAIN curr[v])]
           P == {part[v] : v \in Vehicles}
<1>1. \A v \in Vehicles : curr[v] \in Seq(Stops)
  BY DEF Plans
<1>2. Assigned = UNION P
  BY DEF Assigned
<1>3. IsFiniteSet(P)
  <2>1. IsFiniteSet(Vehicles)
    BY FiniteProblem
  <2>2. part \in Surjection(Vehicles, P)
    BY DEF Surjection
  <2> HIDE DEF part, P
  <2> QED BY <2>1, <2>2, FS_Surjection
<1>4. ASSUME NEW v \in Vehicles PROVE IsFiniteSet(part[v])
  <2>1. Len(curr[v]) \in Nat /\ DOMAIN curr[v] = 1 .. Len(curr[v])
    BY <1>1, Places
  <2>2. IsFiniteSet(1 .. Len(curr[v])) /\ IsFiniteSet({v})
    <3>1. Len(curr[v]) \in Int /\ 1 \in Int
      BY <2>1
    <3>2. IsFiniteSet(1 .. Len(curr[v]))
      BY <3>1, FS_Interval
    <3>3. IsFiniteSet({v})
      BY FS_Singleton
    <3> QED BY <3>2, <3>3
  <2>3. IsFiniteSet({v} \X (1 .. Len(curr[v])))
    BY <2>2, FS_Product
  <2> QED BY <2>1, <2>3
<1>5. ASSUME NEW x \in Assigned PROVE curr[x[1]][x[2]] \in Served(curr)
  <2>1. PICK v \in Vehicles : x \in {v} \X (DOMAIN curr[v])
    BY DEF Assigned
  <2>2. x[1] = v /\ x[2] \in DOMAIN curr[v]
    BY <2>1
  <2>3. curr[v][x[2]] \in ToSet(curr[v])
    BY <2>2 DEF ToSet
  <2> QED BY <2>2, <2>3 DEF Served
<1>6. IsFiniteSet(UNION P)
  <2>1. \A T \in P : IsFiniteSet(T)
    BY <1>4
  <2> HIDE DEF P
  <2> QED BY <1>3, <2>1, FS_UNION
<1> QED BY <1>2, <1>5, <1>6

\* What the related removal takes: a seed stop and places of other stops, in some order.
SeedFirst(s, q) == <<s>> \o [i \in DOMAIN q |-> curr[q[i][1]][q[i][2]]]

LEMMA ShawPicks ==
    ASSUME NEW k, NEW S \in ShawRemoval(k)
    PROVE  \E s \in Served(curr), R \in SUBSET Assigned :
              /\ \A x \in R : curr[x[1]][x[2]] # s
              /\ \E q \in SetToSeqs(R) : S = SeedFirst(s, q)
<1> DEFINE Other(s) == {x \in Assigned : curr[x[1]][x[2]] # s}
           Orders(s) == {SetToSeqs(R) : R \in kSubset(Min({k - 1, Cardinality(Other(s))}), Other(s))}
           Picks(s) ==
               {q \in UNION Orders(s) :
                   \A i \in DOMAIN q : \A y \in Other(s) \ {q[j] : j \in 1 .. i - 1} :
                       Related(s, curr[q[i][1]][q[i][2]]) <= Related(s, curr[y[1]][y[2]])}
           Lists(s) == {<<s>> \o [i \in DOMAIN q |-> curr[q[i][1]][q[i][2]]] : q \in Picks(s)}
<1>1. S \in UNION {Lists(s) : s \in Served(curr)}
  BY Zenon DEF ShawRemoval, Assigned
<1>2. PICK s \in Served(curr) : S \in Lists(s)
  <2> HIDE DEF Lists
  <2> QED BY <1>1
<1>3. PICK q \in Picks(s) : S = <<s>> \o [i \in DOMAIN q |-> curr[q[i][1]][q[i][2]]]
  <2> HIDE DEF Picks
  <2> QED BY <1>2
<1>4. q \in UNION Orders(s)
  <2> HIDE DEF Orders
  <2> QED BY <1>3
<1>5. PICK R \in kSubset(Min({k - 1, Cardinality(Other(s))}), Other(s)) : q \in SetToSeqs(R)
  <2>1. PICK K : K = kSubset(Min({k - 1, Cardinality(Other(s))}), Other(s))
    OBVIOUS
  <2>2. q \in UNION {SetToSeqs(R) : R \in K}
    BY <1>4, <2>1
  <2>3. PICK R \in K : q \in SetToSeqs(R)
    BY <2>2
  <2> QED BY <2>1, <2>3
<1>6. R \subseteq Other(s)
  BY <1>5 DEF kSubset
<1>7. R \in SUBSET Assigned /\ \A x \in R : curr[x[1]][x[2]] # s
  BY <1>6
<1> QED BY <1>3, <1>5, <1>7 DEF SeedFirst

LEMMA ShawServed ==
    ASSUME prob \in Problems, curr \in Plans, NEW k, NEW S \in ShawRemoval(k)
    PROVE  S \in Seq(Served(curr))
<1> DEFINE stop(x) == curr[x[1]][x[2]]
<1>1. PICK s \in Served(curr), R \in SUBSET Assigned :
          /\ \A x \in R : curr[x[1]][x[2]] # s
          /\ \E q \in SetToSeqs(R) : S = SeedFirst(s, q)
  BY ShawPicks
<1>a. PICK q \in SetToSeqs(R) : S = SeedFirst(s, q)
  BY <1>1
<1>2. IsFiniteSet(R)
  BY AssignedFinite, FS_Subset
<1>3. q \in Seq(R) /\ Len(q) \in Nat /\ DOMAIN q = 1 .. Len(q)
  BY <1>2, OrderPlaces
<1>4. \A i \in 1 .. Len(q) : stop(q[i]) \in Served(curr)
  <2>1. \A i \in 1 .. Len(q) : q[i] \in Assigned
    BY <1>3, Places
  <2> QED BY <2>1, AssignedFinite
<1> DEFINE rest == [i \in DOMAIN q |-> stop(q[i])]
<1>5. rest \in Seq(Served(curr))
  <2>1. rest \in [1 .. Len(q) -> Served(curr)]
    BY <1>3, <1>4
  <2> HIDE DEF rest
  <2> QED BY <1>3, <2>1
<1>6. S = <<s>> \o rest
  BY <1>a DEF SeedFirst
<1> HIDE DEF rest
<1>7. <<s>> \in Seq(Served(curr))
  OBVIOUS
<1> QED BY <1>5, <1>6, <1>7, ConcatPlaces

\* The loop variables: the vehicle exists, the places are places, and the order found
\* has the stops of the order it may replace, unless none was found yet.
ScanInv ==
    /\ scan = [v |-> scan.v, i |-> scan.i, j |-> scan.j, found |-> scan.found,
               foundCost |-> scan.foundCost, improved |-> scan.improved]
    /\ scan.v \in Vehicles /\ scan.i \in Nat \ {0} /\ scan.j \in Nat \ {0}
    /\ scan.found \in Seq(Stops)
    /\ pc \in {"oropt", "oropt-next"} =>
          \/ scan.foundCost = Far /\ scan.found = <<>>
          \/ /\ ToSet(scan.found) = ToSet(curr[scan.v])
             /\ Len(scan.found) = Len(curr[scan.v])

\* The types of the search; its count stays below the limit until it ends, and stops are
\* out of the plans only while they are being put back.
SearchInv ==
    /\ prob \in Problems
    /\ curr \in Plans /\ best \in Plans /\ removed \in Seq(Stops)
    /\ insertOp \in InsertOps /\ iter \in Nat /\ iter <= prob.limit
    /\ iter < prob.limit \/ pc = "solved"
    /\ removed = <<>> \/ pc = "insert"
    /\ ScanInv

LEMMA ScanKept ==
    ASSUME ScanInv, prob' = prob, scan' = scan, pc' \notin {"oropt", "oropt-next"}
    PROVE  ScanInv'
BY DEF ScanInv, Vehicles, Stops

LEMMA ScanStart ==
    ASSUME prob \in Problems, prob' = prob, scan' = Start
    PROVE  ScanInv'
<1>1. 1 \in Vehicles
  BY ProblemFacts DEF Vehicles
<1> QED BY <1>1 DEF ScanInv, Start, Vehicles, Stops

LEMMA SearchPut ==
    ASSUME SearchInv, prob' = prob, curr' \in Plans, best' \in Plans,
           removed' \in Seq(Stops), insertOp' \in InsertOps,
           iter' = iter, pc # "solved",
           removed' = <<>> \/ pc' = "insert", ScanInv'
    PROVE  SearchInv'
<1>1. iter < prob.limit /\ iter <= prob.limit /\ iter \in Nat /\ prob \in Problems
  BY DEF SearchInv
<1> HIDE DEF ScanInv
<1> QED BY <1>1 DEF SearchInv, Plans, Vehicles, Stops

LEMMA GreedySeedStep ==
    ASSUME SearchInv, GreedySeed PROVE SearchInv'
<1>1. prob \in Problems /\ curr \in Plans /\ scan.v \in Vehicles /\ curr[scan.v] \in Seq(Stops)
  BY DEF SearchInv, ScanInv, Plans
<1>2. curr' \in Plans
  <2> DEFINE C == SeedCandidates(scan.v)
             cost == [m \in C |-> AppendCost(scan.v, m)]
  <2>1. CASE C = {}
    BY <1>1, <2>1 DEF GreedySeed
  <2>2. CASE C # {}
    <3>1. C \subseteq Stops /\ C \in SUBSET (1 .. prob.n) /\ prob.n \in Nat
      BY <1>1, ProblemFacts DEF SeedCandidates, Stops
    <3>2. ASSUME NEW m \in C PROVE AppendCost(scan.v, m) \in Int
      <4>1. CASE curr[scan.v] = <<>>
        BY <4>1 DEF AppendCost
      <4>2. CASE curr[scan.v] # <<>>
        <5>1. Last(curr[scan.v]) \in Stops
          BY <1>1, <4>2 DEF Last
        <5>2. At(Last(curr[scan.v])) \in Nat /\ At(m) \in Nat
          BY <1>1, <3>1, <5>1, StopFacts
        <5> QED BY <4>2, <5>2, DistNat DEF AppendCost
      <4> QED BY <4>1, <4>2
    <3>3. cost \in [C -> Int]
      BY <3>2
    <3>4. \E x \in C : \A y \in C : cost[x] < cost[y] \/ (cost[x] = cost[y] /\ x <= y)
      <4> HIDE DEF cost, C
      <4> QED BY <2>2, <3>1, <3>3, FirstLeastExists
    <3>5. FirstLeast(C, LAMBDA m : AppendCost(scan.v, m)) \in C
      <4>1. \E x \in C : \A y \in C : AppendCost(scan.v, x) < AppendCost(scan.v, y)
                  \/ (AppendCost(scan.v, x) = AppendCost(scan.v, y) /\ x <= y)
        BY <3>4
      <4> HIDE DEF C
      <4> QED BY <4>1 DEF FirstLeast
    <3>6. PICK m \in Stops : curr' = [curr EXCEPT ![scan.v] = Append(@, m)]
      BY <2>2, <3>1, <3>5 DEF GreedySeed
    <3>7. Append(curr[scan.v], m) \in Seq(Stops)
      BY <1>1, AppendPlaces
    <3> QED BY <1>1, <3>6, <3>7 DEF Plans
  <2> QED BY <2>1, <2>2
<1>3. ScanInv'
  <2>1. (scan.v % prob.vehicles) + 1 \in Vehicles
    <3>1. scan.v \in Nat /\ prob.vehicles \in Nat /\ prob.vehicles >= 1
      BY <1>1, ProblemFacts DEF Vehicles
    <3>2. scan.v % prob.vehicles \in 0 .. prob.vehicles - 1
      BY <3>1
    <3> QED BY <3>1, <3>2 DEF Vehicles
  <2>2. scan' = [scan EXCEPT !.v = (scan.v % prob.vehicles) + 1] /\ pc' = "seed" /\ prob' = prob
    BY DEF GreedySeed
  <2> QED BY <2>1, <2>2 DEF SearchInv, ScanInv, Vehicles, Stops
<1> QED BY <1>2, <1>3, SearchPut DEF GreedySeed, SearchInv

LEMMA SeedEndsStep ==
    ASSUME SearchInv, SeedEnds PROVE SearchInv'
<1>1. ScanInv'
  BY ScanStart DEF SeedEnds, SearchInv
<1> QED BY <1>1, SearchPut DEF SeedEnds, SearchInv

LEMMA SearchEndsStep ==
    ASSUME SearchInv, SearchEnds
    PROVE  SearchInv' /\ Served(curr') \union ToSet(removed') = InPlay
<1>1. ScanInv'
  BY ScanKept DEF SearchEnds, SearchInv
<1>2. iter \in Nat /\ iter < prob.limit /\ prob.limit \in Nat
  BY ProblemFacts DEF SearchEnds, SearchInv
<1>3. iter' \in Nat /\ iter' <= prob.limit
  <2>1. iter' = iter \/ iter' = iter + 1
    BY DEF SearchEnds
  <2> QED BY <1>2, <2>1
<1>4. SearchInv'
  BY <1>1, <1>3 DEF SearchEnds, SearchInv, Plans, Vehicles, Stops
<1> QED BY <1>4 DEF SearchEnds, InPlay

LEMMA RemoveNodesStep ==
    ASSUME SearchInv, RemoveNodes
    PROVE  SearchInv' /\ Served(curr') \union ToSet(removed') = InPlay
<1>0. prob \in Problems /\ curr \in Plans /\ removed = <<>>
  BY DEF SearchInv, RemoveNodes
<1>a. PICK k \in 1 .. 3 : \E S \in PickRandomNodes(k) \union ShawRemoval(k) :
          /\ removed' = S
          /\ curr' = [v \in Vehicles |-> Without(curr[v], ToSet(S))]
  BY DEF RemoveNodes
<1>1. PICK S \in PickRandomNodes(k) \union ShawRemoval(k) :
          /\ removed' = S
          /\ curr' = [v \in Vehicles |-> Without(curr[v], ToSet(S))]
  BY <1>a
<1>2. S \in Seq(Served(curr))
  BY <1>0, RandomServed, ShawServed
<1>3. ToSet(S) \subseteq Served(curr) /\ S \in Seq(Stops)
  <2>1. ToSet(S) \subseteq Served(curr) /\ Served(curr) \subseteq Stops
    BY <1>0, <1>2, Places, ServedStops
  <2> QED BY <1>2, <2>1, OwnElements
<1>4. \A v \in Vehicles : /\ Without(curr[v], ToSet(S)) \in Seq(Stops)
                          /\ ToSet(Without(curr[v], ToSet(S))) = ToSet(curr[v]) \ ToSet(S)
  <2>1. \A v \in Vehicles : curr[v] \in Seq(Stops)
    BY <1>0 DEF Plans
  <2> QED BY <2>1, WithoutPlaces
<1>5. curr' \in Plans
  BY <1>1, <1>4 DEF Plans
<1>6. Served(curr') \union ToSet(removed') = InPlay
  <2>1. \A v \in Vehicles : ToSet(curr'[v]) = ToSet(curr[v]) \ ToSet(S)
    BY <1>1, <1>4
  <2>2. Served(curr') = Served(curr) \ ToSet(S)
    BY <2>1 DEF Served
  <2>3. ToSet(<<>>) = {}
    BY DEF ToSet
  <2> QED BY <1>0, <1>1, <1>3, <2>2, <2>3 DEF InPlay
<1>7. ScanInv'
  BY ScanKept DEF RemoveNodes, SearchInv
<1>8. iter' \in Nat /\ iter' < prob.limit /\ iter' <= prob.limit /\ insertOp' \in InsertOps
  <2>1. iter \in Nat /\ prob.limit \in Nat /\ prob.inserts \subseteq InsertOps
    BY <1>0, ProblemFacts DEF SearchInv
  <2>2. iter' = iter + 1 /\ iter + 1 < prob.limit /\ insertOp' \in prob.inserts
    BY DEF RemoveNodes
  <2> QED BY <2>1, <2>2
<1>9. prob' = prob /\ pc' = "insert" /\ best' = best /\ best \in Plans /\ removed' = S
  BY <1>1 DEF RemoveNodes, SearchInv
<1>10. SearchInv'
  BY <1>0, <1>3, <1>5, <1>7, <1>8, <1>9 DEF SearchInv, Plans, Vehicles, Stops
<1> QED BY <1>6, <1>10

LEMMA InsertCheapestStep ==
    ASSUME SearchInv, InsertCheapest
    PROVE  SearchInv' /\ Served(curr') \union ToSet(removed') = InPlay
<1>0. prob \in Problems /\ curr \in Plans /\ removed \in Seq(Stops)
  BY DEF SearchInv
<1>1. PICK x \in NextToInsert : \E o \in Options(x) :
          /\ curr' = [curr EXCEPT ![o[1]] = InsertAt(@, o[2], removed[x])]
          /\ removed' = RemoveAt(removed, x)
  BY DEF InsertCheapest
<1>2. PICK o \in Options(x) :
          /\ curr' = [curr EXCEPT ![o[1]] = InsertAt(@, o[2], removed[x])]
          /\ removed' = RemoveAt(removed, x)
  BY <1>1
<1>3. x \in 1 .. Len(removed) /\ removed[x] \in Stops
  <2>1. x \in DOMAIN removed
    BY DEF NextToInsert
  <2> QED BY <1>0, <2>1, Places
<1>a. PICK v \in Vehicles : \E p \in 1 .. Len(curr[v]) + 1 : o = <<v, p>>
  BY DEF Options
<1>4. PICK p \in 1 .. Len(curr[v]) + 1 : o = <<v, p>>
  BY <1>a
<1>5. curr[v] \in Seq(Stops)
  BY <1>0 DEF Plans
<1> DEFINE t == InsertAt(curr[v], p, removed[x])
<1>6. t \in Seq(Stops) /\ ToSet(t) = ToSet(curr[v]) \union {removed[x]}
  BY <1>3, <1>5, InsertAtPlaces
<1>7. curr' = [curr EXCEPT ![v] = t]
  BY <1>2, <1>4
<1> HIDE DEF t
<1>8. curr' \in Plans
  BY <1>0, <1>6, <1>7 DEF Plans
<1>9. removed' \in Seq(Stops) /\ ToSet(removed') \union {removed[x]} = ToSet(removed)
  BY <1>0, <1>2, <1>3, RemoveAtPlaces
<1>10. Served(curr') \union ToSet(removed') = InPlay
  <2>1. /\ Served(curr) = Others(curr, {v}) \union ToSet(curr[v])
        /\ Served(curr') = Others(curr, {v}) \union ToSet(t)
    BY <1>0, <1>7, ServedPut
  <2> QED BY <1>6, <1>9, <2>1 DEF InPlay
<1>11. ScanInv'
  BY ScanKept DEF InsertCheapest, SearchInv
<1>12. SearchInv'
  BY <1>8, <1>9, <1>11, SearchPut DEF InsertCheapest, SearchInv
<1> QED BY <1>10, <1>12

LEMMA InsertAnywayStep ==
    ASSUME SearchInv, InsertAnyway
    PROVE  SearchInv' /\ Served(curr') \union ToSet(removed') = InPlay
<1>0. prob \in Problems /\ curr \in Plans /\ removed \in Seq(Stops) /\ removed # <<>>
  BY DEF SearchInv, InsertAnyway
<1>1. PICK v \in Vehicles : curr' = [curr EXCEPT ![v] = Append(@, Head(removed))]
  <2> DEFINE length == [w \in Vehicles |-> Len(curr[w])]
  <2>1. length \in [Vehicles -> Int]
    BY <1>0 DEF Plans
  <2>2. Vehicles \in SUBSET (1 .. prob.vehicles) /\ Vehicles # {} /\ prob.vehicles \in Nat
    BY <1>0, ProblemFacts DEF Vehicles
  <2>3. \E x \in Vehicles : \A y \in Vehicles :
            length[x] < length[y] \/ (length[x] = length[y] /\ x <= y)
    <3> HIDE DEF length
    <3> QED BY <2>1, <2>2, FirstLeastExists
  <2>4. \E x \in Vehicles : \A y \in Vehicles :
            Len(curr[x]) < Len(curr[y]) \/ (Len(curr[x]) = Len(curr[y]) /\ x <= y)
    BY <2>3
  <2> QED BY <2>4 DEF InsertAnyway, FirstLeast
<1>2. curr[v] \in Seq(Stops) /\ Head(removed) \in Stops
  BY <1>0 DEF Plans
<1> DEFINE t == Append(curr[v], Head(removed))
<1>3. t \in Seq(Stops) /\ ToSet(t) = ToSet(curr[v]) \union {Head(removed)}
  BY <1>2, AppendPlaces
<1>4. curr' = [curr EXCEPT ![v] = t]
  BY <1>1
<1> HIDE DEF t
<1>5. curr' \in Plans
  BY <1>0, <1>3, <1>4 DEF Plans
<1>6. removed' \in Seq(Stops) /\ ToSet(removed') \union {Head(removed)} = ToSet(removed)
  <2>1. 1 \in 1 .. Len(removed) /\ Head(removed) = removed[1]
    BY <1>0
  <2>2. RemoveAt(removed, 1) = Tail(removed)
    <3>1. SubSeq(removed, 1, 0) = <<>>
      BY <1>0
    <3>2. SubSeq(removed, 2, Len(removed)) = Tail(removed)
      BY <1>0
    <3>3. RemoveAt(removed, 1) = SubSeq(removed, 1, 0) \o SubSeq(removed, 2, Len(removed))
      BY DEF RemoveAt
    <3>4. Tail(removed) \in Seq(Stops)
      BY <1>0
    <3> QED BY <3>1, <3>2, <3>3, <3>4
  <2>3. removed' = RemoveAt(removed, 1)
    BY <2>2 DEF InsertAnyway
  <2>4. /\ RemoveAt(removed, 1) \in Seq(Stops)
        /\ ToSet(RemoveAt(removed, 1)) \union {removed[1]} = ToSet(removed)
    BY <1>0, <2>1, RemoveAtPlaces
  <2> QED BY <2>1, <2>3, <2>4
<1>7. Served(curr') \union ToSet(removed') = InPlay
  <2>1. /\ Served(curr) = Others(curr, {v}) \union ToSet(curr[v])
        /\ Served(curr') = Others(curr, {v}) \union ToSet(t)
    BY <1>0, <1>4, ServedPut
  <2> QED BY <1>3, <1>6, <2>1 DEF InPlay
<1>8. ScanInv'
  BY ScanKept DEF InsertAnyway, SearchInv
<1>9. SearchInv'
  BY <1>5, <1>6, <1>8, SearchPut DEF InsertAnyway, SearchInv
<1> QED BY <1>7, <1>9

LEMMA InsertEndsStep ==
    ASSUME SearchInv, InsertEnds
    PROVE  SearchInv' /\ Served(curr') \union ToSet(removed') = InPlay
<1>1. ScanInv'
  BY ScanStart DEF InsertEnds, SearchInv
<1>2. SearchInv'
  BY <1>1, SearchPut DEF InsertEnds, SearchInv
<1> QED BY <1>2 DEF InsertEnds, InPlay

\* A stop that is moved within its order leaves the same stops.
LEMMA RelocatedPlaces ==
    ASSUME NEW X, NEW o \in Seq(X), NEW i \in 1 .. Len(o), NEW j \in Nat \ {0}
    PROVE  /\ Clamped(j, Len(o)) \in Nat \ {0}
           /\ Relocated(o, i, Clamped(j, Len(o))) \in Seq(X)
           /\ ToSet(Relocated(o, i, Clamped(j, Len(o)))) = ToSet(o)
           /\ Len(Relocated(o, i, Clamped(j, Len(o)))) = Len(o)
<1> DEFINE c == Clamped(j, Len(o))
           r == RemoveAt(o, i)
<1>0. Len(o) \in Nat /\ Len(o) >= 1 /\ o[i] \in X
  BY Places
<1>1. c \in 1 .. Len(o)
  <2>1. {j, Len(o)} \in SUBSET Nat /\ {j, Len(o)} # {}
    BY <1>0
  <2>2. c \in {j, Len(o)} /\ c <= j /\ c <= Len(o)
    BY <2>1, MinNatural DEF Clamped
  <2> QED BY <1>0, <2>2
<1>2. r \in Seq(X) /\ Len(r) = Len(o) - 1 /\ ToSet(r) \union {o[i]} = ToSet(o)
  BY RemoveAtPlaces
<1> HIDE DEF c, r
<1>3. c \in 1 .. Len(r) + 1
  BY <1>0, <1>1, <1>2
<1>4. /\ InsertAt(r, c, o[i]) \in Seq(X) /\ Len(InsertAt(r, c, o[i])) = Len(r) + 1
      /\ ToSet(InsertAt(r, c, o[i])) = ToSet(r) \union {o[i]}
  <2>1. r \in Seq(X) /\ o[i] \in X
    BY <1>0, <1>2
  <2> QED BY <1>3, <2>1, InsertAtPlaces
<1>5. Relocated(o, i, c) = InsertAt(r, c, o[i])
  BY DEF Relocated, r
<1>6. c \in Nat \ {0}
  BY <1>0, <1>1
<1>7. Relocated(o, i, c) \in Seq(X) /\ ToSet(Relocated(o, i, c)) = ToSet(o)
  BY <1>2, <1>4, <1>5
<1>8. Len(Relocated(o, i, c)) = Len(o)
  BY <1>0, <1>2, <1>4, <1>5
<1> QED BY <1>6, <1>7, <1>8 DEF c

LEMMA OrOptTryStep ==
    ASSUME SearchInv, OrOptTry
    PROVE  SearchInv' /\ Served(curr') \union ToSet(removed') = InPlay
<1> DEFINE o == curr[scan.v]
           j == Clamped(scan.j, Len(o))
           cand == Relocated(o, scan.i, j)
           c == Cost([curr EXCEPT ![scan.v] = cand])
<1>0. /\ prob \in Problems /\ curr \in Plans /\ scan.v \in Vehicles /\ o \in Seq(Stops)
      /\ scan.i \in Nat \ {0} /\ scan.j \in Nat \ {0} /\ scan.i <= Len(o)
  BY DEF SearchInv, ScanInv, Plans, OrOptTry
<1>1. /\ j \in Nat \ {0} /\ cand \in Seq(Stops)
      /\ ToSet(cand) = ToSet(o) /\ Len(cand) = Len(o)
  <2>1. scan.i \in 1 .. Len(o)
    BY <1>0
  <2>2. PICK X : X = Stops
    OBVIOUS
  <2>3. PICK q \in Seq(X) : q = o
    BY <1>0, <2>2
  <2>4. PICK a \in 1 .. Len(q) : a = scan.i
    BY <2>1, <2>3
  <2>5. PICK b \in Nat \ {0} : b = scan.j
    BY <1>0
  <2>6. /\ Clamped(b, Len(q)) \in Nat \ {0} /\ Relocated(q, a, Clamped(b, Len(q))) \in Seq(X)
        /\ ToSet(Relocated(q, a, Clamped(b, Len(q)))) = ToSet(q)
        /\ Len(Relocated(q, a, Clamped(b, Len(q)))) = Len(q)
    BY RelocatedPlaces
  <2>7. j = Clamped(b, Len(q))
    BY <2>3, <2>5
  <2>8. cand = Relocated(q, a, Clamped(b, Len(q)))
    BY <2>3, <2>4, <2>5
  <2> HIDE DEF o, j, cand
  <2> QED BY <2>2, <2>3, <2>6, <2>7, <2>8
<1>2. \/ scan' = scan
      \/ scan' = [scan EXCEPT !.j = j, !.found = cand, !.foundCost = c]
      \/ scan' = [scan EXCEPT !.j = j]
  BY DEF OrOptTry
<1>3. prob' = prob /\ pc = "oropt" /\ pc' = "oropt-next" /\ curr' = curr
  BY DEF OrOptTry
<1>4. ScanInv'
  <2> HIDE DEF j, cand, c
  <2>1. CASE scan' = scan
    BY <1>3, <2>1 DEF SearchInv, ScanInv, Vehicles, Stops
  <2>2. CASE scan' = [scan EXCEPT !.j = j, !.found = cand, !.foundCost = c]
    BY <1>1, <1>3, <2>2 DEF SearchInv, ScanInv, Vehicles, Stops
  <2>3. CASE scan' = [scan EXCEPT !.j = j]
    BY <1>1, <1>3, <2>3 DEF SearchInv, ScanInv, Vehicles, Stops
  <2> QED BY <1>2, <2>1, <2>2, <2>3
<1>5. SearchInv'
  BY <1>4, SearchPut DEF OrOptTry, SearchInv
<1> QED BY <1>5 DEF OrOptTry, InPlay

LEMMA OrOptNextStep ==
    ASSUME SearchInv, OrOptNext
    PROVE  SearchInv' /\ Served(curr') \union ToSet(removed') = InPlay
<1>1. ScanInv'
  <2>1. scan.j \in Nat \ {0}
    BY DEF SearchInv, ScanInv
  <2>2. scan.j + 1 \in Nat \ {0}
    BY <2>1
  <2>3. /\ scan' = [scan EXCEPT !.j = scan.j + 1] /\ prob' = prob /\ curr' = curr
        /\ pc = "oropt-next"
    BY DEF OrOptNext
  <2> QED BY <2>2, <2>3 DEF SearchInv, ScanInv, Vehicles, Stops
<1>2. SearchInv'
  BY <1>1, SearchPut DEF OrOptNext, SearchInv
<1> QED BY <1>2 DEF OrOptNext, InPlay

\* The current solution costs no more than the largest float.
CostFits == Cost(curr) \in 0 .. Far

LEMMA OrOptOuterStep ==
    ASSUME SearchInv, OrOptOuter
    PROVE  SearchInv' /\ (CostFits => Served(curr') \union ToSet(removed') = InPlay)
<1>0. /\ prob \in Problems /\ curr \in Plans /\ scan.v \in Vehicles
      /\ scan.found \in Seq(Stops) /\ prob.vehicles \in Nat /\ scan.v \in Nat
  BY ProblemFacts DEF SearchInv, ScanInv, Vehicles
<1>1. prob' = prob /\ pc = "oropt" /\ removed' = removed
  BY DEF OrOptOuter
<1>2. CASE scan.i <= Len(curr[scan.v])
  <2>1. scan' = [scan EXCEPT !.i = scan.i + 1, !.j = 1] /\ pc' = pc /\ curr' = curr
    BY <1>2 DEF OrOptOuter
  <2>2. scan.i + 1 \in Nat \ {0} /\ 1 \in Nat \ {0}
    BY DEF SearchInv, ScanInv
  <2>3. ScanInv'
    BY <1>1, <2>1, <2>2 DEF SearchInv, ScanInv, Vehicles, Stops
  <2>4. SearchInv'
    BY <2>1, <2>3, SearchPut DEF OrOptOuter, SearchInv
  <2> QED BY <1>1, <2>1, <2>4 DEF InPlay
<1>3. CASE ~(scan.i <= Len(curr[scan.v]))
  <2> DEFINE improves == scan.foundCost < Cost(curr)
             again == improves \/ scan.improved
  <2>1. /\ curr' = IF improves THEN [curr EXCEPT ![scan.v] = scan.found] ELSE curr
        /\ scan' = IF scan.v < prob.vehicles
                   THEN [Start EXCEPT !.v = scan.v + 1, !.improved = again]
                   ELSE Start
    BY <1>3 DEF OrOptOuter
  <2>2. curr' \in Plans
    BY <1>0, <2>1 DEF Plans
  <2>3. ScanInv'
    <3>1. CASE scan.v < prob.vehicles
      <4>1. scan.v + 1 \in Vehicles
        BY <1>0, <3>1 DEF Vehicles
      <4>2. scan' = [Start EXCEPT !.v = scan.v + 1, !.improved = again]
        BY <2>1, <3>1
      <4> HIDE DEF again
      <4>3. /\ scan' = [v |-> scan.v + 1, i |-> 1, j |-> 1, found |-> <<>>, foundCost |-> Far,
                        improved |-> again]
        BY <4>2 DEF Start
      <4> QED BY <1>1, <4>1, <4>3 DEF ScanInv, Vehicles, Stops
    <3>2. CASE ~(scan.v < prob.vehicles)
      <4>1. scan' = Start
        BY <2>1, <3>2
      <4> QED BY <1>0, <1>1, <4>1, ScanStart
    <3> QED BY <3>1, <3>2
  <2>4. SearchInv'
    BY <2>2, <2>3, SearchPut DEF OrOptOuter, SearchInv
  <2>5. ASSUME CostFits PROVE Served(curr') = Served(curr)
    <3>1. CASE improves
      <4>1. scan.foundCost # Far
        <5>1. Far \in Nat /\ Cost(curr) \in 0 .. Far
          BY <2>5, ProblemAssumption DEF CostFits
        <5>2. ~(Far < Cost(curr))
          BY <5>1
        <5> QED BY <3>1, <5>2
      <4>2. ToSet(scan.found) = ToSet(curr[scan.v])
        BY <1>1, <4>1 DEF SearchInv, ScanInv
      <4>3. curr' = [curr EXCEPT ![scan.v] = scan.found]
        BY <2>1, <3>1
      <4>4. PICK w \in Vehicles : w = scan.v
        BY <1>0
      <4>5. PICK o : o = scan.found
        OBVIOUS
      <4>6. /\ Served(curr) = Others(curr, {w}) \union ToSet(curr[w])
            /\ Served([curr EXCEPT ![w] = o]) = Others(curr, {w}) \union ToSet(o)
        <5>1. curr \in Plans
          BY <1>0
        <5> QED BY <5>1, ServedPut, ZenonT(30)
      <4>7. curr' = [curr EXCEPT ![w] = o] /\ ToSet(o) = ToSet(curr[w])
        BY <4>2, <4>3, <4>4, <4>5
      <4> QED BY <4>6, <4>7
    <3>2. CASE ~improves
      BY <2>1, <3>2
    <3> QED BY <3>1, <3>2
  <2> QED BY <1>1, <2>4, <2>5 DEF InPlay
<1> QED BY <1>2, <1>3

\* One of the local improvements: new plans of the same or fewer stops.
LEMMA ImproveStep ==
    ASSUME SearchInv, prob' = prob, removed' = removed, scan' = scan, best' = best,
           insertOp' = insertOp, iter' = iter, pc \in {"twoopt", "cross", "star", "accept"},
           pc' \in {"twoopt", "cross", "star", "accept", "head"}, curr' \in Plans
    PROVE  SearchInv'
<1>1. ScanInv'
  BY ScanKept DEF SearchInv
<1> QED BY <1>1, SearchPut DEF SearchInv

LEMMA TwoOptStep ==
    ASSUME SearchInv, TwoOptImprove
    PROVE  SearchInv' /\ Served(curr') \union ToSet(removed') = InPlay
<1>0. curr \in Plans
  BY DEF SearchInv
<1>1. curr' \in Plans /\ Served(curr') = Served(curr)
  <2>1. CASE curr' \in TwoOptBetter
    <3>1. PICK v \in Vehicles : \E d \in TwoOptMoves(v) : curr' = [curr EXCEPT ![v] = d]
      BY <2>1 DEF TwoOptBetter
    <3>2. PICK d \in TwoOptMoves(v) : curr' = [curr EXCEPT ![v] = d]
      BY <3>1
    <3>3. curr[v] \in Seq(Stops)
      BY <1>0 DEF Plans
    <3>4. PICK i \in 2 .. Len(curr[v]) - 2 : \E k \in i + 1 .. Len(curr[v]) - 1 :
              d = Reversed(curr[v], i, k)
      BY DEF TwoOptMoves
    <3>5. PICK k \in i + 1 .. Len(curr[v]) - 1 : d = Reversed(curr[v], i, k)
      BY <3>4
    <3>6. i \in 1 .. Len(curr[v]) /\ k \in 1 .. Len(curr[v]) /\ i <= k
      <4>1. Len(curr[v]) \in Nat
        BY <3>3
      <4> QED BY <4>1
    <3>7. d \in Seq(Stops) /\ ToSet(d) = ToSet(curr[v])
      BY <3>3, <3>5, <3>6, ReversedPlaces
    <3>8. /\ Served(curr) = Others(curr, {v}) \union ToSet(curr[v])
          /\ Served([curr EXCEPT ![v] = d]) = Others(curr, {v}) \union ToSet(d)
      BY <1>0, ServedPut
    <3>9. curr' \in Plans
      BY <1>0, <3>2, <3>7 DEF Plans
    <3> QED BY <3>2, <3>7, <3>8, <3>9
  <2>2. CASE curr' = curr
    BY <1>0, <2>2
  <2> QED BY <2>1, <2>2 DEF TwoOptImprove, Improve
<1>2. SearchInv'
  BY <1>1, ImproveStep DEF TwoOptImprove, Improve
<1> QED BY <1>1, <1>2 DEF TwoOptImprove, Improve, InPlay

LEMMA CrossStep ==
    ASSUME SearchInv, CrossExchangeImprove
    PROVE  SearchInv' /\ Served(curr') \union ToSet(removed') = InPlay
<1>0. curr \in Plans
  BY DEF SearchInv
<1>1. curr' \in Plans /\ Served(curr') = Served(curr)
  <2>1. CASE curr' \in Exchanged(CrossMoves)
    <3>1. PICK a \in Vehicles, b \in Vehicles : \E m \in CrossMoves(a, b) :
              a < b /\ curr' = [curr EXCEPT ![a] = m[1], ![b] = m[2]]
      BY <2>1 DEF Exchanged
    <3>2. PICK m \in CrossMoves(a, b) : a < b /\ curr' = [curr EXCEPT ![a] = m[1], ![b] = m[2]]
      BY <3>1
    <3>3. PICK i \in DOMAIN curr[a], j \in DOMAIN curr[b] :
              m = <<ReplaceAt(curr[a], i, curr[b][j]), ReplaceAt(curr[b], j, curr[a][i])>>
      BY DEF CrossMoves
    <3>4. /\ curr[a] \in Seq(Stops) /\ curr[b] \in Seq(Stops) /\ a # b
      <4>1. a \in Int /\ b \in Int
        BY DEF Vehicles
      <4> QED BY <1>0, <3>2, <4>1 DEF Plans
    <3>5. i \in 1 .. Len(curr[a]) /\ j \in 1 .. Len(curr[b])
      BY <3>4, Places
    <3> DEFINE p == ReplaceAt(curr[a], i, curr[b][j])
               q == ReplaceAt(curr[b], j, curr[a][i])
    <3>6. /\ p \in Seq(Stops) /\ q \in Seq(Stops)
          /\ ToSet(p) \union ToSet(q) = ToSet(curr[a]) \union ToSet(curr[b])
      BY <3>4, <3>5, ReplacePlaces
    <3>7. curr' = [curr EXCEPT ![a] = p, ![b] = q]
      BY <3>2, <3>3
    <3> HIDE DEF p, q
    <3>8. /\ Served(curr) = Others(curr, {a, b}) \union ToSet(curr[a]) \union ToSet(curr[b])
          /\ Served([curr EXCEPT ![a] = p, ![b] = q])
               = Others(curr, {a, b}) \union ToSet(p) \union ToSet(q)
      <4>1. a # b
        BY <3>4
      <4> QED BY <1>0, <4>1, ServedPutTwo
    <3>9. curr' \in Plans
      BY <1>0, <3>6, <3>7 DEF Plans
    <3> QED BY <3>6, <3>7, <3>8, <3>9
  <2>2. CASE curr' = curr
    BY <1>0, <2>2
  <2> QED BY <2>1, <2>2 DEF CrossExchangeImprove, Improve
<1>2. SearchInv'
  BY <1>1, ImproveStep DEF CrossExchangeImprove, Improve
<1> QED BY <1>1, <1>2 DEF CrossExchangeImprove, Improve, InPlay

\* The segment exchange brings no stop in, but may lose one.
LEMMA StarStep ==
    ASSUME SearchInv, TwoOptStarImprove
    PROVE  SearchInv' /\ Served(curr') \union ToSet(removed') \subseteq InPlay
<1>0. curr \in Plans
  BY DEF SearchInv
<1>1. curr' \in Plans /\ Served(curr') \subseteq Served(curr)
  <2>1. CASE curr' \in Exchanged(StarMoves)
    <3>1. PICK a \in Vehicles, b \in Vehicles : \E m \in StarMoves(a, b) :
              a < b /\ curr' = [curr EXCEPT ![a] = m[1], ![b] = m[2]]
      BY <2>1 DEF Exchanged
    <3>2. PICK m \in StarMoves(a, b) : a < b /\ curr' = [curr EXCEPT ![a] = m[1], ![b] = m[2]]
      BY <3>1
    <3> DEFINE A == curr[a]
               B == curr[b]
               Segment(o) == {s \in (DOMAIN o) \X {1, 2} : s[1] + s[2] - 1 <= Len(o)}
               seg(o, s) == SubSeq(o, s[1], s[1] + s[2] - 1)
    <3>3. PICK s \in Segment(A), t \in Segment(B) :
              m = <<Spliced(A, s[1], s[2], seg(B, t)), Spliced(B, t[1], t[2], seg(A, s))>>
      BY DEF StarMoves
    <3>4. A \in Seq(Stops) /\ B \in Seq(Stops) /\ a # b
      <4>1. a \in Int /\ b \in Int
        BY DEF Vehicles
      <4> QED BY <1>0, <3>2, <4>1 DEF Plans
    <3> DEFINE X == ToSet(A) \union ToSet(B)
    <3>5. A \in Seq(X) /\ B \in Seq(X) /\ X \subseteq Stops
      <4>1. ToSet(A) \subseteq X /\ ToSet(B) \subseteq X
        OBVIOUS
      <4>2. ToSet(A) \subseteq Stops /\ ToSet(B) \subseteq Stops
        BY <3>4, Places
      <4>3. X \subseteq Stops
        BY <4>2
      <4> HIDE DEF X, A, B
      <4> QED BY <3>4, <4>1, <4>3, OwnElements
    <3> HIDE DEF X, A, B
    <3>6. /\ s[1] \in 1 .. Len(A) /\ s[2] \in 1 .. 2 /\ s[1] + s[2] - 1 <= Len(A)
          /\ t[1] \in 1 .. Len(B) /\ t[2] \in 1 .. 2 /\ t[1] + t[2] - 1 <= Len(B)
      <4>1. DOMAIN A = 1 .. Len(A) /\ DOMAIN B = 1 .. Len(B)
        BY <3>4, Places
      <4> QED BY <4>1
    <3>7. seg(A, s) \in Seq(X) /\ seg(B, t) \in Seq(X)
      <4>1. Len(A) \in Nat /\ Len(B) \in Nat
        BY <3>4, Places
      <4> QED BY <3>5, <3>6, <4>1
    <3> DEFINE p == Spliced(A, s[1], s[2], seg(B, t))
               q == Spliced(B, t[1], t[2], seg(A, s))
    <3> HIDE DEF seg, Segment
    <3>8. p \in Seq(X) /\ q \in Seq(X)
      BY <3>5, <3>6, <3>7, SplicedPlaces
    <3>9. curr' = [curr EXCEPT ![a] = p, ![b] = q]
      BY <3>2, <3>3
    <3> HIDE DEF p, q
    <3>10. ToSet(p) \subseteq X /\ ToSet(q) \subseteq X
      BY <3>8, Places
    <3>11. p \in Seq(Stops) /\ q \in Seq(Stops)
      <4>1. ToSet(p) \subseteq Stops /\ ToSet(q) \subseteq Stops
        BY <3>5, <3>10
      <4> QED BY <3>8, <4>1, OwnElements
    <3>12. /\ Served(curr) = Others(curr, {a, b}) \union ToSet(curr[a]) \union ToSet(curr[b])
           /\ Served([curr EXCEPT ![a] = p, ![b] = q])
                = Others(curr, {a, b}) \union ToSet(p) \union ToSet(q)
      <4>1. a # b
        BY <3>4
      <4> QED BY <1>0, <4>1, ServedPutTwo
    <3>13. curr' \in Plans
      BY <1>0, <3>9, <3>11 DEF Plans
    <3>14. Served(curr') \subseteq Served(curr)
      <4>1. X = ToSet(curr[a]) \union ToSet(curr[b])
        BY DEF X, A, B
      <4> QED BY <3>9, <3>10, <3>12, <4>1
    <3> QED BY <3>13, <3>14
  <2>2. CASE curr' = curr
    BY <1>0, <2>2
  <2> QED BY <2>1, <2>2 DEF TwoOptStarImprove, Improve
<1>2. SearchInv'
  BY <1>1, ImproveStep DEF TwoOptStarImprove, Improve
<1> QED BY <1>1, <1>2 DEF TwoOptStarImprove, Improve, InPlay

LEMMA AcceptStep ==
    ASSUME SearchInv, Accept
    PROVE  SearchInv' /\ Served(curr') \union ToSet(removed') = InPlay
<1>1. ScanInv'
  BY ScanKept DEF SearchInv, Accept
<1>2. best' \in Plans /\ curr' \in Plans
  BY DEF SearchInv, Accept
<1>3. SearchInv'
  BY <1>1, <1>2, SearchPut DEF Accept, SearchInv
<1> QED BY <1>3 DEF Accept, InPlay

LEMMA SolveStep ==
    ASSUME SearchInv, Solve
    PROVE  SearchInv' /\ (CostFits => KeepsStops)
<1>1. CASE GreedySeed
  BY <1>1, GreedySeedStep DEF GreedySeed, KeepsStops, Searching
<1>2. CASE SeedEnds
  BY <1>2, SeedEndsStep DEF SeedEnds, KeepsStops, Searching
<1>3. CASE SearchEnds
  BY <1>3, SearchEndsStep DEF KeepsStops, InPlay
<1>4. CASE RemoveNodes
  BY <1>4, RemoveNodesStep DEF KeepsStops, InPlay
<1>5. CASE InsertCheapest
  BY <1>5, InsertCheapestStep DEF KeepsStops, InPlay
<1>6. CASE InsertAnyway
  BY <1>6, InsertAnywayStep DEF KeepsStops, InPlay
<1>7. CASE InsertEnds
  BY <1>7, InsertEndsStep DEF KeepsStops, InPlay
<1>8. CASE OrOptTry
  BY <1>8, OrOptTryStep DEF KeepsStops, InPlay
<1>9. CASE OrOptNext
  BY <1>9, OrOptNextStep DEF KeepsStops, InPlay
<1>10. CASE OrOptOuter
  BY <1>10, OrOptOuterStep DEF KeepsStops, InPlay
<1>11. CASE TwoOptImprove
  BY <1>11, TwoOptStep DEF KeepsStops, InPlay
<1>12. CASE CrossExchangeImprove
  BY <1>12, CrossStep DEF KeepsStops, InPlay
<1>13. CASE TwoOptStarImprove
  <2>1. pc = "star"
    BY <1>13 DEF TwoOptStarImprove, Improve
  <2> QED BY <1>13, <2>1, StarStep DEF KeepsStops, InPlay
<1>14. CASE Accept
  BY <1>14, AcceptStep DEF KeepsStops, InPlay
<1> QED
  BY <1>1, <1>2, <1>3, <1>4, <1>5, <1>6, <1>7, <1>8, <1>9, <1>10, <1>11, <1>12, <1>13, <1>14
  DEF Solve

\* Steps outside the search leave it alone.
LEMMA SearchElsewhere ==
    ASSUME SearchInv, prob' = prob, UNCHANGED solver,
           pc' = pc \/ (pc \notin {"solved", "insert"} /\ pc' \notin {"oropt", "oropt-next"})
    PROVE  SearchInv'
<1>1. CASE pc' = pc
  BY <1>1 DEF SearchInv, ScanInv, solver, Plans, Vehicles, Stops
<1>2. CASE pc \notin {"solved", "insert"} /\ pc' \notin {"oropt", "oropt-next"}
  <2>1. ScanInv'
    BY <1>2, ScanKept DEF SearchInv, solver
  <2> QED BY <1>2, <2>1, SearchPut DEF SearchInv, solver
<1> QED BY <1>1, <1>2

LEMMA TakeSolutionStep ==
    ASSUME SearchInv, TakeSolution PROVE SearchInv'
<1>1. ScanInv'
  BY ScanStart DEF SearchInv, TakeSolution
<1>2. prob \in Problems /\ prob' = prob /\ prob.limit \in Nat /\ prob.limit >= 1
  BY ProblemFacts DEF SearchInv, TakeSolution
<1>3. NoPlans \in Plans
  BY DEF NoPlans, Plans
<1>4. curr' = NoPlans /\ best' = NoPlans /\ removed' = <<>> /\ insertOp' = "greedy" /\ iter' = 0
  BY DEF TakeSolution
<1>5. 0 < prob.limit /\ 0 <= prob.limit /\ 0 \in Nat
  BY <1>2
<1> QED BY <1>1, <1>2, <1>3, <1>4, <1>5 DEF SearchInv, Plans, Vehicles, Stops, InsertOps

LEMMA SearchNext ==
    ASSUME SearchInv, [Next]_vars
    PROVE  SearchInv' /\ (CostFits => [KeepsStops]_vars)
<1> DEFINE Goal == SearchInv' /\ (CostFits => [KeepsStops]_vars)
<1> USE DEF Searching
<1>1. ASSUME Solve PROVE Goal
  BY <1>1, SolveStep
<1>2. ASSUME TakeSolution PROVE Goal
  BY <1>2, TakeSolutionStep DEF TakeSolution, KeepsStops
<1>3. ASSUME PlanEmpty \/ PlanGreedy \/ PlanAlns PROVE Goal
  BY <1>3, SearchElsewhere DEF PlanEmpty, PlanGreedy, PlanAlns, KeepsStops
<1>4. ASSUME InsertRoute PROVE Goal
  BY <1>4, SearchElsewhere DEF InsertRoute, KeepsStops
<1>5. ASSUME InsertDepotLeg \/ InsertBreak \/ InsertLeg \/ InsertReturnLeg PROVE Goal
  <2>1. /\ prob' = prob /\ UNCHANGED solver
        /\ pc \in {"depot", "hops", "drive"} /\ pc' \in {"hops", "drive", "read"}
    BY <1>5 DEF InsertDepotLeg, InsertBreak, InsertLeg, InsertReturnLeg, AddLeg
  <2> QED BY <2>1, SearchElsewhere DEF KeepsStops
<1>6. ASSUME NoReturnLeg \/ ReadRoute \/ Respond \/ StatementFails PROVE Goal
  <2>1. /\ prob' = prob /\ UNCHANGED solver
        /\ pc \in {"request", "route", "depot", "drive", "hops", "read"}
        /\ pc' \in {"read", "route", "failed", "answered"}
    BY <1>6 DEF NoReturnLeg, ReadRoute, Respond, StatementFails
  <2> QED BY <2>1, SearchElsewhere DEF KeepsStops
<1>7. ASSUME (\E r \in DOMAIN db : Advance(r)) \/ UNCHANGED vars PROVE Goal
  <2>1. prob' = prob /\ UNCHANGED solver /\ pc' = pc
    BY <1>7 DEF Advance, vars
  <2>2. SearchInv'
    BY <2>1, SearchElsewhere
  <2>3. KeepsStops
    BY <2>1 DEF KeepsStops, solver
  <2> QED BY <2>2, <2>3
<1> HIDE DEF Goal
<1>8. Goal
  BY <1>1, <1>2, <1>3, <1>4, <1>5, <1>6, <1>7 DEF Next, Planner, Done
<1> QED BY <1>8 DEF Goal

LEMMA SearchInit == Init => SearchInv
<1> SUFFICES ASSUME Init PROVE SearchInv
  OBVIOUS
<1>1. prob \in Problems /\ prob.limit \in Nat /\ prob.limit >= 1
  BY ProblemFacts DEF Init
<1>2. NoPlans \in Plans
  BY DEF NoPlans, Plans
<1>3. ScanInv
  <2>1. 1 \in Vehicles
    BY <1>1, ProblemFacts DEF Vehicles
  <2> QED BY <2>1 DEF ScanInv, Init, Start
<1>4. 0 < prob.limit /\ 0 <= prob.limit /\ 0 \in Nat
  BY <1>1
<1> QED BY <1>1, <1>2, <1>3, <1>4 DEF SearchInv, Init, InsertOps

LEMMA SearchAlways == Spec => []SearchInv
<1>1. SearchInv /\ [Next]_vars => SearchInv'
  BY SearchNext
<1> QED BY <1>1, SearchInit, PTL DEF Spec

\* As long as no solution costs more than the largest float, no step of the search
\* brings a stop in, and only the segment exchange of twoOptStarImprove loses one.
THEOREM SearchKeepsStops == Spec /\ []CostFits => StopsInPlay
<1>1. SearchInv /\ CostFits /\ [Next]_vars => [KeepsStops]_vars
  BY SearchNext
<1> QED BY <1>1, SearchAlways, PTL DEF Spec, StopsInPlay

----------------------------------------------------------------------------
(* The greedy planner *)

\* A sequence that is shorter than a set is large leaves out an element of it.
LEMMA LeftOver ==
    ASSUME NEW X, NEW s \in Seq(X), NEW Y, IsFiniteSet(Y), Len(s) < Cardinality(Y)
    PROVE  Y \ ToSet(s) # {}
<1> SUFFICES ASSUME Y \subseteq ToSet(s) PROVE FALSE
  OBVIOUS
<1>1. Len(s) \in Nat /\ IsFiniteSet(1 .. Len(s)) /\ Cardinality(1 .. Len(s)) = Len(s)
  <2>1. Len(s) \in Nat /\ Len(s) \in Int /\ 1 \in Int
    BY Places
  <2>2. /\ IsFiniteSet(1 .. Len(s))
        /\ Cardinality(1 .. Len(s)) = IF 1 > Len(s) THEN 0 ELSE Len(s) - 1 + 1
    BY <2>1, FS_Interval
  <2> QED BY <2>1, <2>2
<1>2. s \in Surjection(1 .. Len(s), ToSet(s))
  <2>1. s \in [1 .. Len(s) -> ToSet(s)]
    <3>1. s = [i \in 1 .. Len(s) |-> s[i]]
      OBVIOUS
    <3> QED BY <3>1, Places
  <2> QED BY <2>1, Places DEF Surjection
<1>3. IsFiniteSet(ToSet(s)) /\ Cardinality(ToSet(s)) <= Len(s)
  <2>1. IsFiniteSet(ToSet(s)) /\ Cardinality(ToSet(s)) <= Cardinality(1 .. Len(s))
    BY <1>1, <1>2, FS_Surjection
  <2> QED BY <1>1, <2>1
<1>4. Cardinality(Y) <= Cardinality(ToSet(s))
  BY <1>3, FS_Subset
<1>5. Cardinality(Y) \in Nat /\ Cardinality(ToSet(s)) \in Nat
  BY <1>3, FS_CardinalityType
<1> QED BY <1>1, <1>3, <1>4, <1>5

\* No element of a sequence is in two places.
Once(o) == IsFiniteSet(ToSet(o)) /\ Cardinality(ToSet(o)) = Len(o)

\* The nearest-neighbour order visits as many stops as there are, each once.
LEMMA NearestNeighbourType ==
    ASSUME prob \in Problems, NEW start \in Stops, NEW S \in SUBSET Stops,
           Cardinality(S) >= 1
    PROVE  /\ NearestNeighbour(start, S) \in Seq(Stops)
           /\ Len(NearestNeighbour(start, S)) = Cardinality(S)
           /\ Once(NearestNeighbour(start, S))
           /\ ToSet(NearestNeighbour(start, S)) \subseteq S \union {start}
<1> DEFINE K == Cardinality(S)
           Grow(o) == Append(o, FirstLeast(S \ ToSet(o), LAMBDA j : Dist(At(Last(o)), At(j))))
           Grown(k, f) ==
               f = [len \in 1 .. k |-> IF len = 1 THEN <<start>> ELSE Grow(f[len - 1])]
           nn == CHOOSE f : Grown(K, f)
           Way(o) == o \in Seq(Stops) /\ Once(o) /\ ToSet(o) \subseteq S \union {start}
<1>0. /\ IsFiniteSet(S) /\ K \in Nat /\ K >= 1 /\ S \in SUBSET (1 .. prob.n) /\ prob.n \in Nat
  BY FiniteProblem, FS_Subset, FS_CardinalityType, ProblemFacts DEF Stops
<1>1. NearestNeighbour(start, S) = nn[K]
  BY DEF NearestNeighbour
<1>2. ASSUME NEW o \in Seq(Stops), Way(o), o # <<>>, Len(o) < K
      PROVE  Way(Grow(o)) /\ Len(Grow(o)) = Len(o) + 1
  <2> DEFINE C == S \ ToSet(o)
             d == [j \in C |-> Dist(At(Last(o)), At(j))]
  <2>1. C # {} /\ C \in SUBSET (1 .. prob.n) /\ C \subseteq Stops
    <3>1. C # {}
      BY <1>0, <1>2, LeftOver
    <3> QED BY <1>0, <3>1
  <2>2. At(Last(o)) \in Nat
    <3>1. Last(o) \in Stops
      BY <1>2 DEF Last
    <3> QED BY <3>1, StopFacts
  <2>3. \A j \in C : Dist(At(Last(o)), At(j)) \in Int
    BY <2>1, <2>2, StopFacts, DistNat
  <2>4. d \in [C -> Int]
    BY <2>3
  <2>5. \E x \in C : \A y \in C : d[x] < d[y] \/ (d[x] = d[y] /\ x <= y)
    <3> HIDE DEF d, C
    <3> QED BY <1>0, <2>1, <2>4, FirstLeastExists
  <2>6. FirstLeast(C, LAMBDA j : Dist(At(Last(o)), At(j))) \in C
    <3>1. \E x \in C : \A y \in C :
              Dist(At(Last(o)), At(x)) < Dist(At(Last(o)), At(y))
              \/ (Dist(At(Last(o)), At(x)) = Dist(At(Last(o)), At(y)) /\ x <= y)
      BY <2>5
    <3> HIDE DEF C
    <3> QED BY <3>1 DEF FirstLeast
  <2>7. PICK j \in Stops : Grow(o) = Append(o, j) /\ j \in S /\ j \notin ToSet(o)
    BY <2>1, <2>6
  <2> HIDE DEF Grow, C, d
  <2>8. /\ Grow(o) \in Seq(Stops) /\ Len(Grow(o)) = Len(o) + 1
        /\ ToSet(Grow(o)) = ToSet(o) \union {j}
    BY <1>2, <2>7, AppendPlaces
  <2>9. Once(Grow(o))
    <3>1. IsFiniteSet(ToSet(o)) /\ Cardinality(ToSet(o)) = Len(o)
      BY <1>2 DEF Once
    <3>2. /\ IsFiniteSet(ToSet(o) \union {j})
          /\ Cardinality(ToSet(o) \union {j}) = Cardinality(ToSet(o)) + 1
      BY <2>7, <3>1, FS_AddElement
    <3> QED BY <2>8, <3>1, <3>2 DEF Once
  <2> QED BY <1>2, <2>7, <2>8, <2>9
<1> HIDE DEF Grow, K, Way
<1>3. \E f : Grown(K, f)
  <2> DEFINE T == {k \in Nat : \E f : Grown(k, f)}
  <2>1. 0 \in T
    <3>1. Grown(0, [len \in 1 .. 0 |-> 0])
      OBVIOUS
    <3> QED BY <3>1
  <2>2. ASSUME NEW k \in Nat, k \in T PROVE k + 1 \in T
    <3>1. PICK f : Grown(k, f)
      BY <2>2
    <3> DEFINE g == [len \in 1 .. k + 1 |->
                        IF len <= k THEN f[len] ELSE IF len = 1 THEN <<start>> ELSE Grow(f[k])]
    <3>2. ASSUME NEW len \in 1 .. k + 1
          PROVE  g[len] = IF len = 1 THEN <<start>> ELSE Grow(g[len - 1])
      <4>1. CASE len <= k
        <5>1. len \in 1 .. k /\ g[len] = f[len]
          BY <4>1
        <5>2. f[len] = IF len = 1 THEN <<start>> ELSE Grow(f[len - 1])
          BY <3>1, <5>1
        <5>3. CASE len = 1
          BY <5>1, <5>2, <5>3
        <5>4. CASE len # 1
          <6>1. len - 1 \in 1 .. k + 1 /\ len - 1 <= k
            BY <4>1, <5>4
          <6>2. g[len - 1] = f[len - 1]
            BY <6>1
          <6> QED BY <5>1, <5>2, <5>4, <6>2
        <5> QED BY <5>3, <5>4
      <4>2. CASE ~(len <= k)
        <5>1. len = k + 1
          BY <4>2
        <5>2. CASE len = 1
          BY <4>2, <5>2
        <5>3. CASE len # 1
          <6>1. len - 1 = k /\ k \in 1 .. k + 1 /\ k <= k
            BY <5>1, <5>3
          <6>2. g[k] = f[k] /\ g[len] = Grow(f[k])
            BY <4>2, <5>3, <6>1
          <6> QED BY <5>3, <6>1, <6>2
        <5> QED BY <5>2, <5>3
      <4> QED BY <4>1, <4>2
    <3>3. Grown(k + 1, g)
      <4>1. g = [len \in 1 .. k + 1 |-> g[len]]
        OBVIOUS
      <4> HIDE DEF g
      <4> QED BY <3>2, <4>1
    <3>4. \E h : Grown(k + 1, h)
      BY <3>3
    <3> HIDE DEF Grown
    <3> QED BY <3>4
  <2> HIDE DEF Grown
  <2>3. K \in T
    <3>1. \A m \in 0 .. K - 1 : m \in T => m + 1 \in T
      BY <1>0, <2>2
    <3> HIDE DEF T
    <3>2. \A m \in 0 .. K : m \in T
      BY <1>0, <2>1, <3>1, IntervalInduction
    <3> QED BY <1>0, <3>2
  <2> QED BY <2>3
<1>4. nn = [len \in 1 .. K |-> IF len = 1 THEN <<start>> ELSE Grow(nn[len - 1])]
  <2> HIDE DEF Grown
  <2>1. Grown(K, nn)
    BY <1>3
  <2> QED BY <2>1 DEF Grown
<1> HIDE DEF nn
<1>5. \A len \in 1 .. K : nn[len] = IF len = 1 THEN <<start>> ELSE Grow(nn[len - 1])
  BY <1>4
<1> DEFINE T == {m \in Nat : m + 1 <= K => Way(nn[m + 1]) /\ Len(nn[m + 1]) = m + 1}
<1>6. 0 \in T
  <2>1. nn[1] = <<start>>
    BY <1>0, <1>5
  <2>2. Way(<<start>>) /\ Len(<<start>>) = 1
    <3>1. <<start>> \in Seq(Stops) /\ Len(<<start>>) = 1 /\ ToSet(<<start>>) = {start}
      BY DEF ToSet
    <3>2. IsFiniteSet({start}) /\ Cardinality({start}) = 1
      BY FS_Singleton
    <3> QED BY <3>1, <3>2 DEF Way, Once
  <2>3. 0 + 1 = 1 /\ 0 \in Nat
    OBVIOUS
  <2>4. Way(nn[0 + 1]) /\ Len(nn[0 + 1]) = 0 + 1
    BY <2>1, <2>2, <2>3
  <2> QED BY <2>3, <2>4
<1>7. ASSUME NEW m \in 0 .. K - 1, m \in T PROVE m + 1 \in T
  <2> SUFFICES ASSUME m + 2 <= K
               PROVE  Way(nn[m + 2]) /\ Len(nn[m + 2]) = m + 2
    BY <1>0
  <2>1. m \in Nat /\ m + 1 <= K /\ m + 2 \in 1 .. K /\ m + 2 # 1 /\ m + 2 - 1 = m + 1 /\ m + 1 < K
    BY <1>0
  <2>2. Way(nn[m + 1]) /\ Len(nn[m + 1]) = m + 1
    BY <1>7, <2>1
  <2>3. nn[m + 1] \in Seq(Stops) /\ nn[m + 1] # <<>> /\ Len(nn[m + 1]) < K
    BY <2>1, <2>2 DEF Way
  <2>4. nn[m + 2] = Grow(nn[m + 1])
    BY <1>5, <2>1
  <2>5. Way(Grow(nn[m + 1])) /\ Len(Grow(nn[m + 1])) = Len(nn[m + 1]) + 1
    BY <1>2, <2>2, <2>3
  <2> QED BY <2>1, <2>2, <2>4, <2>5
<1>8. Way(nn[K]) /\ Len(nn[K]) = K
  <2>1. \A m \in 0 .. K : m \in T
    <3> HIDE DEF T
    <3> QED BY <1>0, <1>6, <1>7, IntervalInduction
  <2>2. K - 1 \in 0 .. K /\ K - 1 + 1 = K /\ K <= K
    BY <1>0
  <2>3. K - 1 \in T
    BY <2>1, <2>2
  <2>4. Way(nn[K - 1 + 1]) /\ Len(nn[K - 1 + 1]) = K - 1 + 1
    BY <2>2, <2>3
  <2> QED BY <2>2, <2>4
<1> QED BY <1>1, <1>8 DEF Way, K

\* The seeds are pending stops, one for each cluster.
LEMMA SeedsType ==
    ASSUME prob \in Problems, prob.n >= 1
    PROVE  Seeds \in Seq(Stops) /\ Len(Seeds) >= 1
<1> DEFINE K == Min({prob.vehicles, prob.n})
           gap(Z, i) == Min({Dist(At(i), At(z)) : z \in Z})
           Grow(o) == Append(o, FirstLeast(Stops \ ToSet(o), LAMBDA i : -gap(ToSet(o), i)))
           Grown(k, f) ==
               f = [c \in 1 .. k |-> IF c = 1 THEN <<1>> ELSE Grow(f[c - 1])]
           seeds == CHOOSE f : Grown(K, f)
<1>0. /\ K \in Nat /\ K >= 1 /\ K <= prob.n /\ prob.n \in Nat /\ 1 \in Stops
      /\ IsFiniteSet(Stops) /\ Cardinality(Stops) = prob.n
  <2>1. prob.n \in Nat /\ prob.n \in Int /\ 1 \in Int /\ prob.vehicles \in Nat /\ prob.vehicles >= 1
    BY ProblemFacts
  <2>2. {prob.vehicles, prob.n} \in SUBSET Nat /\ {prob.vehicles, prob.n} # {}
    BY <2>1
  <2>3. K \in {prob.vehicles, prob.n} /\ K <= prob.vehicles /\ K <= prob.n
    BY <2>2, MinNatural
  <2>4. /\ IsFiniteSet(1 .. prob.n)
        /\ Cardinality(1 .. prob.n) = IF 1 > prob.n THEN 0 ELSE prob.n - 1 + 1
    BY <2>1, FS_Interval
  <2>5. Cardinality(1 .. prob.n) = prob.n /\ 1 \in 1 .. prob.n
    BY <2>1, <2>4
  <2> HIDE DEF K
  <2> QED BY <2>1, <2>3, <2>4, <2>5 DEF Stops
<1>1. Seeds = seeds[K]
  BY DEF Seeds
<1>2. ASSUME NEW o \in Seq(Stops), o # <<>>, Len(o) < K
      PROVE  Grow(o) \in Seq(Stops) /\ Len(Grow(o)) = Len(o) + 1
  <2> HIDE DEF K
  <2> DEFINE Z == ToSet(o)
             C == Stops \ Z
             d == [i \in C |-> -gap(Z, i)]
  <2>1. C # {} /\ C \in SUBSET (1 .. prob.n) /\ C \subseteq Stops
    <3>1. Len(o) < Cardinality(Stops)
      <4>1. Len(o) \in Nat
        BY Places
      <4> QED BY <1>0, <1>2, <4>1
    <3>2. C # {}
      BY <1>0, <3>1, LeftOver
    <3> QED BY <3>2 DEF Stops
  <2>2. Z # {} /\ Z \subseteq Stops
    <3>1. 1 \in 1 .. Len(o)
      BY <1>2
    <3> QED BY <3>1, Places
  <2> HIDE DEF Z
  <2>3. ASSUME NEW i \in C PROVE -gap(Z, i) \in Int
    <3> DEFINE G == {Dist(At(i), At(z)) : z \in Z}
    <3>1. \A z \in Z : Dist(At(i), At(z)) \in Nat
      BY <2>1, <2>2, StopFacts, DistNat
    <3>2. G \in SUBSET Nat /\ G # {}
      BY <2>2, <3>1
    <3>3. Min(G) \in Nat
      <4> HIDE DEF G
      <4> QED BY <3>2, MinNatural
    <3> QED BY <3>3
  <2>4. d \in [C -> Int]
    <3> HIDE DEF gap, C
    <3> QED BY <2>3
  <2>5. \E x \in C : \A y \in C : d[x] < d[y] \/ (d[x] = d[y] /\ x <= y)
    <3> HIDE DEF d, C
    <3> QED BY <1>0, <2>1, <2>4, FirstLeastExists
  <2>6. FirstLeast(C, LAMBDA i : -gap(Z, i)) \in C
    <3> HIDE DEF gap, C
    <3>1. \E x \in C : \A y \in C :
              -gap(Z, x) < -gap(Z, y) \/ (-gap(Z, x) = -gap(Z, y) /\ x <= y)
      BY <2>5
    <3> QED BY <3>1 DEF FirstLeast
  <2>7. Grow(o) = Append(o, FirstLeast(C, LAMBDA i : -gap(Z, i)))
    BY DEF Z
  <2>8. PICK j \in Stops : Grow(o) = Append(o, j)
    <3> HIDE DEF gap, C, Grow
    <3> QED BY <2>1, <2>6, <2>7
  <2> HIDE DEF Grow
  <2> QED BY <1>2, <2>8, AppendPlaces
<1> HIDE DEF Grow, K
<1>3. \E f : Grown(K, f)
  <2> DEFINE T == {k \in Nat : \E f : Grown(k, f)}
  <2>1. 0 \in T
    <3>1. Grown(0, [len \in 1 .. 0 |-> 0])
      OBVIOUS
    <3> QED BY <3>1
  <2>2. ASSUME NEW k \in Nat, k \in T PROVE k + 1 \in T
    <3>1. PICK f : Grown(k, f)
      BY <2>2
    <3> DEFINE g == [len \in 1 .. k + 1 |->
                        IF len <= k THEN f[len] ELSE IF len = 1 THEN <<1>> ELSE Grow(f[k])]
    <3>2. ASSUME NEW len \in 1 .. k + 1
          PROVE  g[len] = IF len = 1 THEN <<1>> ELSE Grow(g[len - 1])
      <4>1. CASE len <= k
        <5>1. len \in 1 .. k /\ g[len] = f[len]
          BY <4>1
        <5>2. f[len] = IF len = 1 THEN <<1>> ELSE Grow(f[len - 1])
          BY <3>1, <5>1
        <5>3. CASE len = 1
          BY <5>1, <5>2, <5>3
        <5>4. CASE len # 1
          <6>1. len - 1 \in 1 .. k + 1 /\ len - 1 <= k
            BY <4>1, <5>4
          <6>2. g[len - 1] = f[len - 1]
            BY <6>1
          <6> QED BY <5>1, <5>2, <5>4, <6>2
        <5> QED BY <5>3, <5>4
      <4>2. CASE ~(len <= k)
        <5>1. len = k + 1
          BY <4>2
        <5>2. CASE len = 1
          BY <4>2, <5>2
        <5>3. CASE len # 1
          <6>1. len - 1 = k /\ k \in 1 .. k + 1 /\ k <= k
            BY <5>1, <5>3
          <6>2. g[k] = f[k] /\ g[len] = Grow(f[k])
            BY <4>2, <5>3, <6>1
          <6> QED BY <5>3, <6>1, <6>2
        <5> QED BY <5>2, <5>3
      <4> QED BY <4>1, <4>2
    <3>3. Grown(k + 1, g)
      <4>1. g = [len \in 1 .. k + 1 |-> g[len]]
        OBVIOUS
      <4> HIDE DEF g
      <4> QED BY <3>2, <4>1
    <3>4. \E h : Grown(k + 1, h)
      BY <3>3
    <3> HIDE DEF Grown
    <3> QED BY <3>4
  <2> HIDE DEF Grown
  <2>3. K \in T
    <3>1. \A m \in 0 .. K - 1 : m \in T => m + 1 \in T
      BY <1>0, <2>2
    <3> HIDE DEF T
    <3>2. \A m \in 0 .. K : m \in T
      BY <1>0, <2>1, <3>1, IntervalInduction
    <3> QED BY <1>0, <3>2
  <2> QED BY <2>3
<1>4. seeds = [len \in 1 .. K |-> IF len = 1 THEN <<1>> ELSE Grow(seeds[len - 1])]
  <2> HIDE DEF Grown
  <2>1. Grown(K, seeds)
    BY <1>3
  <2> QED BY <2>1 DEF Grown
<1> HIDE DEF seeds
<1>5. \A len \in 1 .. K : seeds[len] = IF len = 1 THEN <<1>> ELSE Grow(seeds[len - 1])
  BY <1>4
<1> DEFINE T == {m \in Nat : m + 1 <= K => seeds[m + 1] \in Seq(Stops) /\ Len(seeds[m + 1]) = m + 1}
<1>6. 0 \in T
  <2>1. seeds[1] = <<1>>
    BY <1>0, <1>5
  <2>2. <<1>> \in Seq(Stops) /\ Len(<<1>>) = 1
    BY <1>0
  <2>3. 0 + 1 = 1 /\ 0 \in Nat
    OBVIOUS
  <2>4. seeds[0 + 1] \in Seq(Stops) /\ Len(seeds[0 + 1]) = 0 + 1
    BY <2>1, <2>2, <2>3
  <2> QED BY <2>3, <2>4
<1>7. ASSUME NEW m \in 0 .. K - 1, m \in T PROVE m + 1 \in T
  <2> SUFFICES ASSUME m + 2 <= K
               PROVE  seeds[m + 2] \in Seq(Stops) /\ Len(seeds[m + 2]) = m + 2
    BY <1>0
  <2>1. m \in Nat /\ m + 1 <= K /\ m + 2 \in 1 .. K /\ m + 2 # 1 /\ m + 2 - 1 = m + 1 /\ m + 1 < K
    BY <1>0
  <2>2. seeds[m + 1] \in Seq(Stops) /\ Len(seeds[m + 1]) = m + 1
    BY <1>7, <2>1
  <2>3. seeds[m + 1] # <<>> /\ Len(seeds[m + 1]) < K
    BY <2>1, <2>2
  <2>4. seeds[m + 2] = Grow(seeds[m + 1])
    BY <1>5, <2>1
  <2>5. Grow(seeds[m + 1]) \in Seq(Stops) /\ Len(Grow(seeds[m + 1])) = Len(seeds[m + 1]) + 1
    BY <1>2, <2>2, <2>3
  <2> QED BY <2>1, <2>2, <2>4, <2>5
<1>8. seeds[K] \in Seq(Stops) /\ Len(seeds[K]) = K
  <2>1. \A m \in 0 .. K : m \in T
    <3> HIDE DEF T
    <3> QED BY <1>0, <1>6, <1>7, IntervalInduction
  <2>2. K - 1 \in 0 .. K /\ K - 1 + 1 = K /\ K <= K
    BY <1>0
  <2>3. K - 1 \in T
    BY <2>1, <2>2
  <2>4. seeds[K - 1 + 1] \in Seq(Stops) /\ Len(seeds[K - 1 + 1]) = K - 1 + 1
    BY <2>2, <2>3
  <2> QED BY <2>2, <2>4
<1> QED BY <1>0, <1>1, <1>8

\* One pass of 2-opt leaves an order of the same stops, of the same length.
LEMMA PassType ==
    ASSUME prob \in Problems, NEW n \in Nat, NEW q \in Seq(Stops), Len(q) = n
    PROVE  LET try(r, i, k) ==
                   LET t == Reversed(r, i, k)
                   IN  IF 2 <= i /\ i < k /\ k < n /\ Shorter(PathDistance(t), PathDistance(r))
                       THEN t ELSE r
               tried[m \in 0 .. n * n] ==
                   IF m = 0 THEN q ELSE try(tried[m - 1], m \div n, m % n)
           IN  /\ tried[n * n] \in Seq(Stops) /\ Len(tried[n * n]) = n
               /\ ToSet(tried[n * n]) = ToSet(q)
<1> DEFINE K == n * n
           Orders == {r \in Seq(Stops) : Len(r) = n /\ ToSet(r) = ToSet(q)}
           try(r, i, k) ==
               LET t == Reversed(r, i, k)
               IN  IF 2 <= i /\ i < k /\ k < n /\ Shorter(PathDistance(t), PathDistance(r))
                   THEN t ELSE r
           Step(r, m) == try(r, m \div n, m % n)
           Tried(k, f) == f = [m \in 0 .. k |-> IF m = 0 THEN q ELSE Step(f[m - 1], m)]
           tried == CHOOSE f : Tried(K, f)
<1> SUFFICES tried[K] \in Orders
  OBVIOUS
<1>1. ASSUME NEW r \in Orders, NEW i \in Int, NEW k \in Int PROVE try(r, i, k) \in Orders
  <2>1. CASE 2 <= i /\ i < k /\ k < n
    <3>1. i \in 1 .. Len(r) /\ k \in 1 .. Len(r) /\ i <= k
      BY <2>1
    <3>2. Reversed(r, i, k) \in Orders
      BY <3>1, ReversedPlaces
    <3> QED BY <3>2
  <2>2. CASE ~(2 <= i /\ i < k /\ k < n)
    BY <2>2
  <2> QED BY <2>1, <2>2
<1>2. K \in Nat /\ (K >= 1 => n > 0)
  OBVIOUS
<1>3. \A m \in 1 .. K : m \div n \in Int /\ m % n \in Int
  BY <1>2
<1>4. ASSUME NEW r \in Orders, NEW m \in 1 .. K PROVE Step(r, m) \in Orders
  <2> HIDE DEF try, Orders, K
  <2> QED BY <1>1, <1>3
<1>5. q \in Orders
  OBVIOUS
<1> HIDE DEF K, Step, Orders
<1>6. \E f : Tried(K, f)
  <2> DEFINE T == {k \in Nat : \E f : Tried(k, f)}
  <2>1. 0 \in T
    <3> DEFINE g == [m \in 0 .. 0 |-> q]
    <3>1. \A m \in 0 .. 0 : m = 0
      OBVIOUS
    <3>2. Tried(0, g)
      BY <3>1
    <3> QED BY <3>2
  <2>2. ASSUME NEW k \in Nat, k \in T PROVE k + 1 \in T
    <3>1. PICK f : Tried(k, f)
      BY <2>2
    <3> DEFINE g == [m \in 0 .. k + 1 |-> IF m <= k THEN f[m] ELSE Step(f[k], m)]
    <3>2. ASSUME NEW m \in 0 .. k + 1
          PROVE  g[m] = IF m = 0 THEN q ELSE Step(g[m - 1], m)
      <4>1. CASE m <= k
        <5>1. m \in 0 .. k /\ g[m] = f[m]
          BY <4>1
        <5>2. f[m] = IF m = 0 THEN q ELSE Step(f[m - 1], m)
          BY <3>1, <5>1
        <5>3. CASE m = 0
          BY <5>1, <5>2, <5>3
        <5>4. CASE m # 0
          <6>1. m - 1 \in 0 .. k + 1 /\ m - 1 <= k
            BY <4>1, <5>4
          <6>2. g[m - 1] = f[m - 1]
            BY <6>1
          <6> QED BY <5>1, <5>2, <5>4, <6>2
        <5> QED BY <5>3, <5>4
      <4>2. CASE ~(m <= k)
        <5>1. m # 0 /\ m - 1 = k /\ k \in 0 .. k + 1 /\ k <= k
          BY <4>2
        <5>2. g[k] = f[k] /\ g[m] = Step(f[k], m)
          BY <4>2, <5>1
        <5> QED BY <5>1, <5>2
      <4> QED BY <4>1, <4>2
    <3>3. Tried(k + 1, g)
      <4>1. g = [m \in 0 .. k + 1 |-> g[m]]
        OBVIOUS
      <4> HIDE DEF g
      <4> QED BY <3>2, <4>1
    <3>4. \E h : Tried(k + 1, h)
      BY <3>3
    <3> HIDE DEF Tried
    <3> QED BY <3>4
  <2> HIDE DEF Tried
  <2>3. K \in T
    <3>1. \A m \in 0 .. K - 1 : m \in T => m + 1 \in T
      BY <1>2, <2>2
    <3> HIDE DEF T
    <3>2. \A m \in 0 .. K : m \in T
      BY <1>2, <2>1, <3>1, IntervalInduction
    <3> QED BY <1>2, <3>2
  <2> QED BY <2>3
<1>7. tried = [m \in 0 .. K |-> IF m = 0 THEN q ELSE Step(tried[m - 1], m)]
  <2> HIDE DEF Tried
  <2>1. Tried(K, tried)
    BY <1>6
  <2> QED BY <2>1 DEF Tried
<1> HIDE DEF tried
<1> DEFINE T == {m \in Nat : m <= K => tried[m] \in Orders}
<1>8. 0 \in T
  <2>1. 0 \in 0 .. K
    BY <1>2
  <2>2. tried[0] = q
    BY <1>7, <2>1
  <2> QED BY <1>5, <2>2
<1>9. ASSUME NEW m \in 0 .. K - 1, m \in T PROVE m + 1 \in T
  <2>1. m \in Nat /\ m <= K /\ m + 1 \in 0 .. K /\ m + 1 \in 1 .. K /\ m + 1 # 0 /\ m + 1 - 1 = m
    BY <1>2
  <2>2. tried[m] \in Orders
    BY <1>9, <2>1
  <2>3. tried[m + 1] = Step(tried[m], m + 1)
    BY <1>7, <2>1
  <2> QED BY <1>4, <2>1, <2>2, <2>3
<1>10. \A m \in 0 .. K : m \in T
  <2> HIDE DEF T
  <2> QED BY <1>2, <1>8, <1>9, IntervalInduction
<1> QED BY <1>2, <1>10

LEMMA ImproveType ==
    ASSUME prob \in Problems, NEW o \in Seq(Stops)
    PROVE  /\ ImproveOrder2Opt(o) \in Seq(Stops) /\ Len(ImproveOrder2Opt(o)) = Len(o)
           /\ ToSet(ImproveOrder2Opt(o)) = ToSet(o)
<1> DEFINE n == Len(o)
           try(r, i, k) ==
               LET t == Reversed(r, i, k)
               IN  IF 2 <= i /\ i < k /\ k < n /\ Shorter(PathDistance(t), PathDistance(r))
                   THEN t ELSE r
           pass(q) ==
               LET tried[m \in 0 .. n * n] ==
                       IF m = 0 THEN q ELSE try(tried[m - 1], m \div n, m % n)
               IN  tried[n * n]
<1>1. n \in Nat
  OBVIOUS
<1>2. ASSUME NEW q \in Seq(Stops), Len(q) = n
      PROVE  pass(q) \in Seq(Stops) /\ Len(pass(q)) = n /\ ToSet(pass(q)) = ToSet(q)
  BY <1>1, <1>2, PassType
<1>3. ImproveOrder2Opt(o) = IF pass(o) = o THEN o ELSE pass(pass(o))
  BY DEF ImproveOrder2Opt
<1> HIDE DEF pass
<1>4. pass(o) \in Seq(Stops) /\ Len(pass(o)) = n /\ ToSet(pass(o)) = ToSet(o)
  BY <1>2
<1>5. /\ pass(pass(o)) \in Seq(Stops) /\ Len(pass(pass(o))) = n
      /\ ToSet(pass(pass(o))) = ToSet(o)
  BY <1>2, <1>4
<1> QED BY <1>3, <1>4, <1>5

LEMMA GreedyPlanType ==
    ASSUME prob \in Problems, prob.n >= 1
    PROVE  [c \in DOMAIN Seeds |-> GreedyOrder(c)] \in Seq(Seq(Stops))
<1>1. Seeds \in Seq(Stops)
  BY SeedsType
<1>2. ASSUME NEW c \in DOMAIN Seeds PROVE GreedyOrder(c) \in Seq(Stops)
  <2> DEFINE C == Cluster(c)
             o == NearestNeighbour(Seeds[c], C)
  <2>1. C \in SUBSET Stops
    BY DEF Cluster
  <2>2. Cardinality(C) \in Nat
    BY <2>1, FiniteProblem, FS_Subset, FS_CardinalityType
  <2>3. GreedyOrder(c) = IF Cardinality(C) < 2 THEN <<>> ELSE ImproveOrder2Opt(o)
    BY DEF GreedyOrder
  <2>4. CASE Cardinality(C) < 2
    BY <2>3, <2>4
  <2>5. CASE ~(Cardinality(C) < 2)
    <3>1. Seeds[c] \in Stops
      BY <1>1
    <3>2. Cardinality(C) >= 1
      BY <2>2, <2>5
    <3>3. o \in Seq(Stops)
      <4> HIDE DEF C
      <4> QED BY <2>1, <3>1, <3>2, NearestNeighbourType
    <3>4. ImproveOrder2Opt(o) \in Seq(Stops)
      <4> HIDE DEF o
      <4> QED BY <3>3, ImproveType
    <3> QED BY <2>3, <2>5, <3>4
  <2> QED BY <2>4, <2>5
<1>3. Len(Seeds) \in Nat /\ DOMAIN Seeds = 1 .. Len(Seeds)
  BY <1>1
<1> QED BY <1>2, <1>3

----------------------------------------------------------------------------
(* The drive time since the last break *)

LEMMA SinceFacts ==
    ASSUME NEW l \in Seq(LegType)
    PROVE  /\ DrivenSince(l)[0] = 0
           /\ \A s \in 1 .. Len(l) : DrivenSince(l)[s] =
                 IF l[s].kind = "break" THEN 0 ELSE DrivenSince(l)[s - 1] + l[s].drive
           /\ \A s \in 0 .. Len(l) : DrivenSince(l)[s] \in Nat
<1> DEFINE K == Len(l)
           Step(t, s) == IF l[s].kind = "break" THEN 0 ELSE t + l[s].drive
           Summed(k, f) == f = [s \in 0 .. k |-> IF s = 0 THEN 0 ELSE Step(f[s - 1], s)]
           since == CHOOSE f : Summed(K, f)
<1>1. DrivenSince(l) = since
  BY DEF DrivenSince
<1>2. K \in Nat
  OBVIOUS
<1>3. ASSUME NEW t \in Nat, NEW s \in 1 .. K PROVE Step(t, s) \in Nat
  <2>1. l[s] \in LegType
    OBVIOUS
  <2>2. l[s].drive \in Nat
    BY <2>1 DEF LegType
  <2> QED BY <2>2
<1> HIDE DEF K, Step
<1>4. \E f : Summed(K, f)
  <2> DEFINE T == {k \in Nat : \E f : Summed(k, f)}
  <2>1. 0 \in T
    <3> DEFINE g == [s \in 0 .. 0 |-> 0]
    <3>1. \A s \in 0 .. 0 : s = 0
      OBVIOUS
    <3>2. Summed(0, g)
      BY <3>1
    <3> QED BY <3>2
  <2>2. ASSUME NEW k \in Nat, k \in T PROVE k + 1 \in T
    <3>1. PICK f : Summed(k, f)
      BY <2>2
    <3> DEFINE g == [s \in 0 .. k + 1 |-> IF s <= k THEN f[s] ELSE Step(f[k], s)]
    <3>2. ASSUME NEW s \in 0 .. k + 1
          PROVE  g[s] = IF s = 0 THEN 0 ELSE Step(g[s - 1], s)
      <4>1. CASE s <= k
        <5>1. s \in 0 .. k /\ g[s] = f[s]
          BY <4>1
        <5>2. f[s] = IF s = 0 THEN 0 ELSE Step(f[s - 1], s)
          BY <3>1, <5>1
        <5>3. CASE s = 0
          BY <5>1, <5>2, <5>3
        <5>4. CASE s # 0
          <6>1. s - 1 \in 0 .. k + 1 /\ s - 1 <= k
            BY <4>1, <5>4
          <6>2. g[s - 1] = f[s - 1]
            BY <6>1
          <6> QED BY <5>1, <5>2, <5>4, <6>2
        <5> QED BY <5>3, <5>4
      <4>2. CASE ~(s <= k)
        <5>1. s # 0 /\ s - 1 = k /\ k \in 0 .. k + 1 /\ k <= k
          BY <4>2
        <5>2. g[k] = f[k] /\ g[s] = Step(f[k], s)
          BY <4>2, <5>1
        <5> QED BY <5>1, <5>2
      <4> QED BY <4>1, <4>2
    <3>3. Summed(k + 1, g)
      <4>1. g = [s \in 0 .. k + 1 |-> g[s]]
        OBVIOUS
      <4> HIDE DEF g
      <4> QED BY <3>2, <4>1
    <3>4. \E h : Summed(k + 1, h)
      BY <3>3
    <3> HIDE DEF Summed
    <3> QED BY <3>4
  <2> HIDE DEF Summed
  <2>3. K \in T
    <3>1. \A m \in 0 .. K - 1 : m \in T => m + 1 \in T
      BY <1>2, <2>2
    <3> HIDE DEF T
    <3>2. \A m \in 0 .. K : m \in T
      BY <1>2, <2>1, <3>1, IntervalInduction
    <3> QED BY <1>2, <3>2
  <2> QED BY <2>3
<1>5. since = [s \in 0 .. K |-> IF s = 0 THEN 0 ELSE Step(since[s - 1], s)]
  <2> HIDE DEF Summed
  <2>1. Summed(K, since)
    BY <1>4
  <2> QED BY <2>1 DEF Summed
<1> HIDE DEF since
<1>6. since[0] = 0 /\ \A s \in 1 .. K : since[s] = Step(since[s - 1], s)
  <2>1. 0 \in 0 .. K
    BY <1>2
  <2>2. \A s \in 1 .. K : s \in 0 .. K /\ s # 0
    BY <1>2
  <2> QED BY <1>5, <2>1, <2>2
<1> DEFINE T == {s \in Nat : s <= K => since[s] \in Nat}
<1>7. 0 \in T
  BY <1>6
<1>8. ASSUME NEW s \in 0 .. K - 1, s \in T PROVE s + 1 \in T
  <2>1. s \in Nat /\ s <= K /\ s + 1 \in 1 .. K /\ s + 1 - 1 = s /\ s + 1 \in Nat
    BY <1>2
  <2>2. since[s] \in Nat
    BY <1>8, <2>1
  <2>3. since[s + 1] = Step(since[s], s + 1)
    BY <1>6, <2>1
  <2> QED BY <1>3, <2>1, <2>2, <2>3
<1>9. \A s \in 0 .. K : since[s] \in Nat
  <2>1. \A s \in 0 .. K : s \in T
    <3> HIDE DEF T
    <3> QED BY <1>2, <1>7, <1>8, IntervalInduction
  <2> QED BY <1>2, <2>1
<1> QED BY <1>1, <1>6, <1>9 DEF K, Step

\* It depends on the kinds and the drives of the legs up to that place only.
LEMMA SinceSame ==
    ASSUME NEW l \in Seq(LegType), NEW k \in Seq(LegType), Len(l) <= Len(k),
           \A s \in 1 .. Len(l) : k[s].kind = l[s].kind /\ k[s].drive = l[s].drive
    PROVE  \A s \in 0 .. Len(l) : DrivenSince(k)[s] = DrivenSince(l)[s]
<1> DEFINE n == Len(l)
           T == {s \in Nat : s <= n => DrivenSince(k)[s] = DrivenSince(l)[s]}
<1>1. n \in Nat /\ Len(k) \in Nat
  OBVIOUS
<1>2. 0 \in T
  BY SinceFacts
<1>3. ASSUME NEW s \in 0 .. n - 1, s \in T PROVE s + 1 \in T
  <2>1. /\ s \in Nat /\ s <= n /\ s + 1 \in 1 .. Len(l) /\ s + 1 \in 1 .. Len(k)
        /\ s + 1 - 1 = s /\ s + 1 \in Nat
    BY <1>1
  <2>2. DrivenSince(k)[s] = DrivenSince(l)[s]
    BY <1>3, <2>1
  <2>3. DrivenSince(k)[s + 1] =
            IF k[s + 1].kind = "break" THEN 0 ELSE DrivenSince(k)[s + 1 - 1] + k[s + 1].drive
    BY <2>1, SinceFacts
  <2>4. DrivenSince(l)[s + 1] =
            IF l[s + 1].kind = "break" THEN 0 ELSE DrivenSince(l)[s + 1 - 1] + l[s + 1].drive
    BY <2>1, SinceFacts
  <2>5. k[s + 1].kind = l[s + 1].kind /\ k[s + 1].drive = l[s + 1].drive
    BY <2>1
  <2> QED BY <2>1, <2>2, <2>3, <2>4, <2>5
<1>4. \A s \in 0 .. n : s \in T
  <2> HIDE DEF T, n
  <2> QED BY <1>1, <1>2, <1>3, IntervalInduction
<1> QED BY <1>1, <1>4

----------------------------------------------------------------------------
(* The rows of a route *)

\* When the last of the legs l ends.
Ends(l) == IF l = <<>> THEN Now ELSE l[Len(l)].departure

\* TimesAddUp, CurrentLegBegun and DriveLimitKept of the legs l of one route.  For
\* CurrentLegBegun to be inductive the visited legs must be the first ones, and a route
\* whose last leg was visited must have been noted as advanced to its end.
InTime(p, leg) ==
    leg.to # 0 => /\ leg.arrival >= p.opens[leg.to]
                  /\ leg.departure >= leg.arrival + p.service[leg.to]

Timed(p, l) ==
    \A s \in 1 .. Len(l) :
        /\ l[s].arrival >= l[s].drive + (IF s = 1 THEN Now ELSE l[s - 1].departure)
        /\ InTime(p, l[s])
        /\ l[s].kind = "break" => l[s].departure >= l[s].arrival + p.breakSec

Begun(l, ahead) ==
    \A s \in 1 .. Len(l) :
        /\ l[s].status = "visited" => \A x \in 1 .. s - 1 : l[x].status = "visited"
        /\ l[s].status = "visited" /\ s = Len(l) => ahead
        /\ l[s].status # "visited" /\ (\A x \in 1 .. s - 1 : l[x].status = "visited") =>
              l[s].status = "in_progress" \/ ahead

Limited(p, l) ==
    p.hosMax > 0 =>
        \A s \in 2 .. Len(l) :
            l[s].to # 0 /\ l[s - 1].kind = "drive" => DrivenSince(l)[s] <= p.hosMax

LEMMA AppendLegs ==
    ASSUME NEW l \in Seq(LegType), NEW leg \in LegType
    PROVE  /\ Append(l, leg) \in Seq(LegType) /\ Len(Append(l, leg)) = Len(l) + 1
           /\ Len(l) \in Nat /\ Append(l, leg) # <<>>
           /\ \A s \in 1 .. Len(l) : Append(l, leg)[s] = l[s]
           /\ Append(l, leg)[Len(l) + 1] = leg
           /\ l # <<>> => Len(l) \in 1 .. Len(l)
           /\ l = <<>> => Len(l) = 0
<1>1. /\ Append(l, leg) \in Seq(LegType) /\ Len(Append(l, leg)) = Len(l) + 1 /\ Len(l) \in Nat
      /\ \A s \in 1 .. Len(l) : Append(l, leg)[s] = l[s]
      /\ Append(l, leg)[Len(l) + 1] = leg
  OBVIOUS
<1>2. (l # <<>> => Len(l) \in 1 .. Len(l)) /\ (l = <<>> => Len(l) = 0)
  OBVIOUS
<1>3. Append(l, leg) # <<>>
  <2>1. PICK k : k = Append(l, leg)
    OBVIOUS
  <2>2. Len(k) # 0
    BY <1>1, <2>1
  <2>3. k # <<>>
    BY <2>2
  <2> QED BY <2>1, <2>3
<1> QED BY <1>1, <1>2, <1>3

LEMMA TimedAppend ==
    ASSUME NEW p, NEW l \in Seq(LegType), NEW leg \in LegType, Timed(p, l),
           leg.arrival >= leg.drive + Ends(l),
           InTime(p, leg),
           leg.kind = "break" => leg.departure >= leg.arrival + p.breakSec
    PROVE  Timed(p, Append(l, leg)) /\ Ends(Append(l, leg)) = leg.departure
<1> DEFINE k == Append(l, leg)
           n == Len(l)
<1>1. /\ k \in Seq(LegType) /\ Len(k) = n + 1 /\ n \in Nat /\ k # <<>>
      /\ \A s \in 1 .. n : k[s] = l[s]
      /\ k[n + 1] = leg
  BY AppendLegs
<1>2. l = <<>> <=> n = 0
  OBVIOUS
<1> HIDE DEF k, n
<1>3. Ends(k) = leg.departure
  BY <1>1 DEF Ends
<1>4. ASSUME NEW s \in 1 .. Len(k)
      PROVE  /\ k[s].arrival >= k[s].drive + (IF s = 1 THEN Now ELSE k[s - 1].departure)
             /\ InTime(p, k[s])
             /\ k[s].kind = "break" => k[s].departure >= k[s].arrival + p.breakSec
  <2>1. CASE s <= n
    <3>1. s \in 1 .. n /\ k[s] = l[s]
      BY <1>1, <2>1
    <3>2. s # 1 => s - 1 \in 1 .. n
      BY <1>1, <3>1
    <3>3. s # 1 => k[s - 1] = l[s - 1]
      BY <1>1, <3>2
    <3>4. /\ l[s].arrival >= l[s].drive + (IF s = 1 THEN Now ELSE l[s - 1].departure)
          /\ InTime(p, l[s])
          /\ l[s].kind = "break" => l[s].departure >= l[s].arrival + p.breakSec
      BY <3>1 DEF Timed, n
    <3> QED BY <3>1, <3>3, <3>4
  <2>2. CASE ~(s <= n)
    <3>1. s = n + 1 /\ k[s] = leg
      BY <1>1, <2>2
    <3>2. Ends(l) = IF s = 1 THEN Now ELSE k[s - 1].departure
      <4>1. CASE n = 0
        BY <1>2, <3>1, <4>1 DEF Ends
      <4>2. CASE n # 0
        <5>1. s # 1 /\ s - 1 = n /\ n \in 1 .. n
          BY <1>1, <3>1, <4>2
        <5>2. k[s - 1] = l[n] /\ Ends(l) = l[n].departure
          BY <1>1, <1>2, <4>2, <5>1 DEF Ends, n
        <5> QED BY <5>1, <5>2
      <4> QED BY <4>1, <4>2
    <3> QED BY <3>1, <3>2
  <2> QED BY <2>1, <2>2
<1>5. Timed(p, k)
  BY <1>4 DEF Timed
<1> QED BY <1>3, <1>5 DEF k

LEMMA BegunAppend ==
    ASSUME NEW l \in Seq(LegType), NEW leg \in LegType, NEW ahead, Begun(l, ahead),
           leg.status = "in_progress" \/ (leg.status = "pending" /\ l # <<>>)
    PROVE  Begun(Append(l, leg), ahead)
<1> DEFINE k == Append(l, leg)
           n == Len(l)
<1>1. /\ Len(k) = n + 1 /\ n \in Nat
      /\ \A s \in 1 .. n : k[s] = l[s]
      /\ k[n + 1] = leg
  BY AppendLegs
<1>2. l # <<>> => n \in 1 .. n
  OBVIOUS
<1>3. /\ \A s \in 1 .. n : l[s].status = "visited" => \A x \in 1 .. s - 1 : l[x].status = "visited"
      /\ \A s \in 1 .. n : l[s].status # "visited" /\ (\A x \in 1 .. s - 1 : l[x].status = "visited")
            => l[s].status = "in_progress" \/ ahead
      /\ n \in 1 .. n /\ l[n].status = "visited" => ahead
  BY DEF Begun
<1> HIDE DEF k, n
<1>4. ASSUME NEW s \in 1 .. Len(k)
      PROVE  /\ k[s].status = "visited" => \A x \in 1 .. s - 1 : k[x].status = "visited"
             /\ k[s].status = "visited" /\ s = Len(k) => ahead
             /\ k[s].status # "visited" /\ (\A x \in 1 .. s - 1 : k[x].status = "visited") =>
                   k[s].status = "in_progress" \/ ahead
  <2>1. CASE s <= n
    <3>1. s \in 1 .. n /\ k[s] = l[s] /\ s # Len(k)
      BY <1>1, <2>1
    <3>2. \A x \in 1 .. s - 1 : x \in 1 .. n
      BY <1>1, <3>1
    <3>3. \A x \in 1 .. s - 1 : k[x] = l[x]
      BY <1>1, <3>2
    <3> QED BY <1>3, <3>1, <3>3
  <2>2. CASE ~(s <= n)
    <3>1. s = n + 1 /\ k[s] = leg /\ s - 1 = n
      BY <1>1, <2>2
    <3>2. k[s].status # "visited"
      BY <3>1
    <3>3. CASE leg.status = "in_progress"
      BY <3>1, <3>2, <3>3
    <3>4. CASE l # <<>>
      <4>1. n \in 1 .. n /\ k[n] = l[n]
        BY <1>1, <1>2, <3>4
      <4> QED BY <1>3, <3>1, <3>2, <4>1
    <3> QED BY <3>3, <3>4
  <2> QED BY <2>1, <2>2
<1>5. Begun(k, ahead)
  BY <1>4 DEF Begun
<1> QED BY <1>5 DEF k

LEMMA LimitedAppend ==
    ASSUME NEW p, NEW l \in Seq(LegType), NEW leg \in LegType, Limited(p, l),
           leg.to # 0 => leg.kind = "drive",
           p.hosMax > 0 /\ leg.to # 0 /\ l # <<>> /\ l[Len(l)].kind = "drive" =>
               DrivenSince(l)[Len(l)] + leg.drive <= p.hosMax
    PROVE  /\ Limited(p, Append(l, leg))
           /\ DrivenSince(Append(l, leg))[Len(l) + 1] =
                 IF leg.kind = "break" THEN 0 ELSE DrivenSince(l)[Len(l)] + leg.drive
<1> DEFINE k == Append(l, leg)
           n == Len(l)
<1>1. /\ k \in Seq(LegType) /\ Len(k) = n + 1 /\ n \in Nat
      /\ \A s \in 1 .. n : k[s] = l[s]
      /\ k[n + 1] = leg
  BY AppendLegs
<1>2. l = <<>> <=> n = 0
  OBVIOUS
<1> HIDE DEF k
<1>3. Len(l) <= Len(k) /\ \A s \in 1 .. Len(l) : k[s].kind = l[s].kind /\ k[s].drive = l[s].drive
  BY <1>1
<1>4. \A s \in 0 .. n : DrivenSince(k)[s] = DrivenSince(l)[s]
  BY <1>1, <1>3, SinceSame
<1>5. n \in 0 .. n /\ n + 1 \in 1 .. Len(k) /\ n + 1 - 1 = n
  BY <1>1
<1>6. DrivenSince(k)[n + 1] =
          IF k[n + 1].kind = "break" THEN 0 ELSE DrivenSince(k)[n + 1 - 1] + k[n + 1].drive
  BY <1>1, <1>5, SinceFacts
<1>7. DrivenSince(k)[n + 1] =
          IF leg.kind = "break" THEN 0 ELSE DrivenSince(l)[n] + leg.drive
  <2> HIDE DEF n
  <2> QED BY <1>1, <1>4, <1>5, <1>6
<1> HIDE DEF n
<1>8. ASSUME p.hosMax > 0, NEW s \in 2 .. Len(k), k[s].to # 0, k[s - 1].kind = "drive"
      PROVE  DrivenSince(k)[s] <= p.hosMax
  <2>1. CASE s <= n
    <3>1. /\ s \in 1 .. n /\ s - 1 \in 1 .. n /\ s \in 2 .. n /\ s \in 0 .. n
      BY <1>1, <2>1
    <3>2. k[s] = l[s] /\ k[s - 1] = l[s - 1] /\ DrivenSince(k)[s] = DrivenSince(l)[s]
      BY <1>1, <1>4, <3>1
    <3> QED BY <1>8, <3>1, <3>2 DEF Limited, n
  <2>2. CASE ~(s <= n)
    <3>1. s = n + 1 /\ k[s] = leg /\ s - 1 = n /\ n # 0 /\ n \in 1 .. n
      BY <1>1, <2>2
    <3>2. k[s - 1] = l[n] /\ l # <<>>
      BY <1>1, <1>2, <3>1
    <3>3. leg.to # 0 /\ l[Len(l)].kind = "drive" /\ leg.kind = "drive"
      BY <1>8, <3>1, <3>2 DEF n
    <3>4. DrivenSince(l)[n] + leg.drive <= p.hosMax
      BY <1>8, <3>2, <3>3 DEF n
    <3> QED BY <1>7, <3>1, <3>3, <3>4
  <2> QED BY <2>1, <2>2
<1>9. Limited(p, k)
  BY <1>8 DEF Limited
<1> QED BY <1>7, <1>9 DEF k, n

\* What an advance writes into the legs l: leg a is visited, the one behind it is begun.
Advanced(l, a) ==
    [x \in DOMAIN l |-> IF x = a THEN [l[x] EXCEPT !.status = "visited"]
                        ELSE IF x = a + 1 THEN [l[x] EXCEPT !.status = "in_progress"]
                        ELSE l[x]]

\* An advance changes nothing but the status of legs.
LEMMA AdvancedLegs ==
    ASSUME NEW p, NEW l \in Seq(LegType), NEW a \in 1 .. Len(l), Timed(p, l), Limited(p, l)
    PROVE  LET k == Advanced(l, a) IN
           /\ k \in Seq(LegType) /\ Len(k) = Len(l)
           /\ \A s \in 1 .. Len(l) :
                 /\ k[s].kind = l[s].kind
                 /\ k[s].status = IF s = a THEN "visited"
                                  ELSE IF s = a + 1 THEN "in_progress" ELSE l[s].status
           /\ Timed(p, k) /\ Limited(p, k) /\ Ends(k) = Ends(l)
           /\ DrivenSince(k)[Len(l)] = DrivenSince(l)[Len(l)]
<1> DEFINE k == Advanced(l, a)
           n == Len(l)
<1>1. n \in Nat /\ DOMAIN l = 1 .. n /\ \A s \in 1 .. n : l[s] \in LegType
  OBVIOUS
<1>2. ASSUME NEW s \in 1 .. n
      PROVE  /\ k[s] \in LegType
             /\ k[s].kind = l[s].kind /\ k[s].drive = l[s].drive /\ k[s].to = l[s].to
             /\ k[s].arrival = l[s].arrival /\ k[s].departure = l[s].departure
             /\ k[s].status = IF s = a THEN "visited"
                              ELSE IF s = a + 1 THEN "in_progress" ELSE l[s].status
  <2>1. PICK leg \in LegType : leg = l[s]
    BY <1>1
  <2>2. k[s] = IF s = a THEN [leg EXCEPT !.status = "visited"]
               ELSE IF s = a + 1 THEN [leg EXCEPT !.status = "in_progress"] ELSE leg
    BY <1>1, <2>1 DEF Advanced
  <2>3. ASSUME NEW st \in {"pending", "in_progress", "visited"}
        PROVE  LET g == [leg EXCEPT !.status = st] IN
               /\ g \in LegType /\ g.kind = leg.kind /\ g.drive = leg.drive /\ g.to = leg.to
               /\ g.arrival = leg.arrival /\ g.departure = leg.departure /\ g.status = st
    BY DEF LegType
  <2> HIDE DEF k
  <2> QED BY <2>1, <2>2, <2>3
<1>3. k \in Seq(LegType) /\ Len(k) = n
  <2>1. k = [s \in 1 .. n |-> k[s]]
    BY <1>1 DEF Advanced
  <2> HIDE DEF k, n
  <2> QED BY <1>1, <1>2, <2>1
<1> HIDE DEF k
<1>4. Timed(p, k)
  <2>1. ASSUME NEW s \in 1 .. Len(k)
        PROVE  /\ k[s].arrival >= k[s].drive + (IF s = 1 THEN Now ELSE k[s - 1].departure)
               /\ InTime(p, k[s])
               /\ k[s].kind = "break" => k[s].departure >= k[s].arrival + p.breakSec
    <3>1. s \in 1 .. n
      BY <1>3
    <3>2. s # 1 => s - 1 \in 1 .. n
      BY <1>1, <3>1
    <3>3. s # 1 => k[s - 1].departure = l[s - 1].departure
      BY <1>2, <3>2
    <3>4. /\ l[s].arrival >= l[s].drive + (IF s = 1 THEN Now ELSE l[s - 1].departure)
          /\ InTime(p, l[s])
          /\ l[s].kind = "break" => l[s].departure >= l[s].arrival + p.breakSec
      BY <3>1 DEF Timed
    <3>5. InTime(p, k[s])
      BY <1>2, <3>1, <3>4 DEF InTime
    <3> QED BY <1>2, <3>1, <3>3, <3>4, <3>5
  <2> QED BY <2>1 DEF Timed
<1>5. \A s \in 0 .. n : DrivenSince(k)[s] = DrivenSince(l)[s]
  <2>1. Len(l) <= Len(k) /\ \A s \in 1 .. Len(l) : k[s].kind = l[s].kind /\ k[s].drive = l[s].drive
    BY <1>1, <1>2, <1>3
  <2> QED BY <1>3, <2>1, SinceSame
<1>6. Limited(p, k)
  <2>1. ASSUME p.hosMax > 0, NEW s \in 2 .. Len(k), k[s].to # 0, k[s - 1].kind = "drive"
        PROVE  DrivenSince(k)[s] <= p.hosMax
    <3>1. s \in 1 .. n /\ s - 1 \in 1 .. n /\ s \in 0 .. n /\ s \in 2 .. n
      BY <1>1, <1>3
    <3>2. l[s].to # 0 /\ l[s - 1].kind = "drive" /\ DrivenSince(k)[s] = DrivenSince(l)[s]
      BY <1>2, <1>5, <2>1, <3>1
    <3> QED BY <2>1, <3>1, <3>2 DEF Limited
  <2> QED BY <2>1 DEF Limited
<1>7. Ends(k) = Ends(l)
  <2>1. n \in 1 .. n /\ l # <<>> /\ k # <<>>
    BY <1>1, <1>3
  <2> QED BY <1>2, <1>3, <2>1 DEF Ends
<1>8. n \in 0 .. n
  BY <1>1
<1> QED BY <1>2, <1>3, <1>4, <1>5, <1>6, <1>7, <1>8 DEF k

LEMMA BegunAdvance ==
    ASSUME NEW l \in Seq(LegType), NEW k \in Seq(LegType), NEW a \in 1 .. Len(l),
           NEW ahead \in BOOLEAN, Begun(l, ahead), Len(k) = Len(l),
           l[a].status # "visited", \A x \in 1 .. a - 1 : l[x].status = "visited",
           \A s \in 1 .. Len(l) :
               k[s].status = IF s = a THEN "visited"
                             ELSE IF s = a + 1 THEN "in_progress" ELSE l[s].status
    PROVE  Begun(k, ahead \/ a = Len(l))
<1> DEFINE n == Len(l)
<1>1. n \in Nat /\ a \in Nat /\ 1 <= a /\ a <= n
  OBVIOUS
<1>2. \A s \in 1 .. n : l[s].status = "visited" => \A x \in 1 .. s - 1 : l[x].status = "visited"
  BY DEF Begun
<1> HIDE DEF n
<1>3. ASSUME NEW s \in 1 .. n PROVE k[s].status = "visited" <=> s <= a
  <2>0. k[s].status = IF s = a THEN "visited"
                      ELSE IF s = a + 1 THEN "in_progress" ELSE l[s].status
    BY DEF n
  <2>1. CASE s < a
    <3>1. s \in 1 .. a - 1 /\ s # a /\ s # a + 1 /\ s <= a
      BY <1>1, <2>1
    <3> QED BY <2>0, <3>1
  <2>2. CASE s = a
    BY <1>1, <2>0, <2>2
  <2>3. CASE s > a
    <3>1. a \in 1 .. s - 1 /\ s # a /\ ~(s <= a)
      BY <1>1, <2>3
    <3>2. l[s].status # "visited"
      BY <1>2, <3>1
    <3> QED BY <2>0, <3>1, <3>2
  <2> QED BY <1>1, <2>1, <2>2, <2>3
<1>4. ASSUME NEW s \in 1 .. Len(k)
      PROVE  /\ k[s].status = "visited" => \A x \in 1 .. s - 1 : k[x].status = "visited"
             /\ k[s].status = "visited" /\ s = Len(k) => (ahead \/ a = Len(l))
             /\ k[s].status # "visited" /\ (\A x \in 1 .. s - 1 : k[x].status = "visited") =>
                   k[s].status = "in_progress" \/ (ahead \/ a = Len(l))
  <2>1. s \in 1 .. n /\ Len(k) = n
    BY DEF n
  <2>2. CASE s <= a
    <3>1. \A x \in 1 .. s - 1 : x \in 1 .. n /\ x <= a
      BY <1>1, <2>1, <2>2
    <3>2. k[s].status = "visited"
      BY <1>3, <2>1, <2>2
    <3>3. s = Len(k) => a = Len(l)
      BY <1>1, <2>1, <2>2 DEF n
    <3> QED BY <1>3, <3>1, <3>2, <3>3
  <2>3. CASE ~(s <= a)
    <3>1. k[s].status # "visited"
      BY <1>3, <2>1, <2>3
    <3>2. CASE s = a + 1
      <4>1. k[s].status = "in_progress"
        BY <1>1, <2>1, <3>2 DEF n
      <4> QED BY <3>1, <4>1
    <3>3. CASE s # a + 1
      <4>1. a + 1 \in 1 .. s - 1 /\ a + 1 \in 1 .. n /\ ~(a + 1 <= a)
        BY <1>1, <2>1, <2>3, <3>3
      <4>2. k[a + 1].status # "visited"
        BY <1>3, <4>1
      <4> QED BY <3>1, <4>1, <4>2
    <3> QED BY <3>2, <3>3
  <2> QED BY <2>2, <2>3
<1> QED BY <1>4 DEF Begun

----------------------------------------------------------------------------
(* The tables while routes are laid out *)

Rows(p) ==
    [order : Seq(1 .. p.n), legs : Seq(LegType), laid : Nat, ahead : BOOLEAN]

RowInv(p, x) ==
    /\ x \in Rows(p) /\ x.laid <= Len(x.order) + 1
    /\ Timed(p, x.legs) /\ Begun(x.legs, x.ahead) /\ Limited(p, x.legs)

\* The place in the order at which the next leg of row x starts.
NextPlace(p, x) == IF p.depots = <<>> THEN x.laid + 1 ELSE x.laid

\* The row x that is being laid out: the clock c is the end of its last leg, d the drive
\* time since its last break, and there is a leg to write.
LayRow(p, phase, c, d, x) ==
    /\ x.order # <<>> /\ c = Ends(x.legs) /\ d = DrivenSince(x.legs)[Len(x.legs)]
    /\ phase = "depot" => p.depots # <<>> /\ x.legs = <<>> /\ x.laid = 0
    /\ phase \in {"hops", "drive"} =>
          NextPlace(p, x) \in 1 .. Len(x.order) /\ (p.depots # <<>> => x.legs # <<>>)
    /\ phase = "drive" =>
          /\ NextPlace(p, x) < Len(x.order)
          /\ x.legs # <<>> /\ x.legs[Len(x.legs)].kind = "break"

Known(S, n) == \A x \in S : x[1] \in 1 .. n

Laying == {"depot", "hops", "drive"}

TableInv ==
    /\ pc \in Phases /\ prob \in Problems
    /\ todo \in Seq(Seq(Stops)) /\ clock \in Nat /\ driveCum \in Nat
    /\ advances \in 0 .. MaxAdvances
    /\ Known(emitted, Len(db)) /\ Known(answer, Len(db)) /\ Known(published, Len(db))

LayInv ==
    /\ TableInv
    /\ db \in Seq(Rows(prob)) /\ \A r \in 1 .. Len(db) : RowInv(prob, db[r])
    /\ pc \in Laying \union {"read"} => db # <<>>
    /\ pc \in Laying => LayRow(prob, pc, clock, driveCum, db[Len(db)])

\* Steps that write no row.
LEMMA RowsKept ==
    ASSUME LayInv, TableInv', prob' = prob, db' = db,
           pc' \in Laying => pc' = pc /\ clock' = clock /\ driveCum' = driveCum,
           pc' = "read" => pc \in Laying \union {"read"}
    PROVE  LayInv'
<1>1. /\ db \in Seq(Rows(prob)) /\ \A r \in 1 .. Len(db) : RowInv(prob, db[r])
      /\ pc \in Laying \union {"read"} => db # <<>>
      /\ pc \in Laying => LayRow(prob, pc, clock, driveCum, db[Len(db)])
  BY DEF LayInv
<1>2. (db \in Seq(Rows(prob)) /\ \A r \in 1 .. Len(db) : RowInv(prob, db[r]))'
  BY <1>1
<1>3. (pc \in Laying \union {"read"} => db # <<>>)'
  BY <1>1 DEF Laying
<1>4. (pc \in Laying => LayRow(prob, pc, clock, driveCum, db[Len(db)]))'
  BY <1>1 DEF Laying
<1> QED BY <1>2, <1>3, <1>4 DEF LayInv

LEMMA DepotNat ==
    ASSUME prob \in Problems, prob.depots # <<>>, At(order[1]) \in Nat
    PROVE  Depot \in Nat
<1> DEFINE D == prob.depots
           n == Len(prob.depots)
           dist == [d \in 1 .. n |-> Dist(At(order[1]), D[d])]
<1>1. D \in Seq(Nat) /\ n \in Nat /\ DOMAIN D = 1 .. n /\ 1 \in 1 .. n
  <2>1. D \in Seq(Nat)
    BY ProblemFacts
  <2> QED BY <2>1
<1>2. \A d \in 1 .. n : D[d] \in Nat
  BY <1>1
<1>3. ASSUME NEW d \in 1 .. n PROVE Dist(At(order[1]), D[d]) \in Int
  <2>1. PICK a \in Nat : a = At(order[1])
    OBVIOUS
  <2>2. PICK b \in Nat : b = D[d]
    BY <1>2
  <2>3. Dist(a, b) \in Int
    BY DistNat
  <2> QED BY <2>1, <2>2, <2>3
<1>4. dist \in [1 .. n -> Int] /\ 1 .. n \in SUBSET (1 .. n) /\ 1 .. n # {}
  BY <1>1, <1>3
<1>5. \E x \in 1 .. n : \A y \in 1 .. n : dist[x] < dist[y] \/ (dist[x] = dist[y] /\ x <= y)
  <2> HIDE DEF dist, n
  <2> QED BY <1>1, <1>4, FirstLeastExists
<1>6. FirstLeast(DOMAIN D, LAMBDA d : Dist(At(order[1]), D[d])) \in 1 .. n
  <2>1. \E x \in DOMAIN D : \A y \in DOMAIN D :
            Dist(At(order[1]), D[x]) < Dist(At(order[1]), D[y])
            \/ (Dist(At(order[1]), D[x]) = Dist(At(order[1]), D[y]) /\ x <= y)
    BY <1>1, <1>5
  <2>2. FirstLeast(DOMAIN D, LAMBDA d : Dist(At(order[1]), D[d])) \in DOMAIN D
    BY <2>1 DEF FirstLeast
  <2> QED BY <1>1, <2>2
<1> QED BY <1>1, <1>2, <1>6 DEF Depot

\* Where a leg may lead to: a stop, or back to the depot.
Targets == Stops \union {0}

LEMMA DriveLegFacts ==
    ASSUME prob \in Problems, clock \in Nat, NEW a \in Targets, NEW b \in Targets,
           NEW d \in Nat, NEW st \in {"pending", "in_progress"},
           NEW leg, leg = DriveLeg(a, b, d, st)
    PROVE  /\ leg \in LegType /\ leg.kind = "drive" /\ leg.to = b /\ leg.drive = d
           /\ leg.status = st /\ leg.arrival >= d + clock
           /\ InTime(prob, leg)
<1> DEFINE
           arrival == IF b = 0 THEN clock + d ELSE Max({clock + d, prob.opens[b]})
           departure == IF b = 0 THEN arrival ELSE arrival + prob.service[b]
<1>1. leg = [kind |-> "drive", from |-> a, to |-> b, drive |-> d, arrival |-> arrival,
             departure |-> departure, status |-> st]
  BY DEF DriveLeg
<1>0. a \in 0 .. MaxStops
  <2>1. CASE a = 0
    BY <2>1, ProblemFacts
  <2>2. CASE a # 0
    <3>1. a \in Stops
      BY <2>2 DEF Targets
    <3> QED BY <3>1, StopFacts, ProblemFacts
  <2> QED BY <2>1, <2>2
<1>2. b \in 0 .. MaxStops /\ (b # 0 => prob.opens[b] \in Nat /\ prob.service[b] \in Nat)
  <2>1. CASE b = 0
    BY <2>1, ProblemFacts
  <2>2. CASE b # 0
    <3>1. b \in Stops
      BY <2>2 DEF Targets
    <3> QED BY <3>1, StopFacts, ProblemFacts
  <2> QED BY <2>1, <2>2
<1>3. clock + d \in Nat /\ clock + d = d + clock
  OBVIOUS
<1>4. arrival \in Nat /\ arrival >= d + clock /\ (b # 0 => arrival >= prob.opens[b])
  <2>1. CASE b = 0
    BY <1>3, <2>1
  <2>2. CASE b # 0
    <3>1. PICK o \in Nat : o = prob.opens[b]
      BY <1>2, <2>2
    <3>2. PICK c \in Nat : c = clock + d
      BY <1>3
    <3>3. Max({c, o}) \in Nat /\ Max({c, o}) >= c /\ Max({c, o}) >= o
      BY MaxOfTwo
    <3>4. arrival = Max({c, o})
      BY <2>2, <3>1, <3>2
    <3> QED BY <1>3, <3>1, <3>2, <3>3, <3>4
  <2> QED BY <2>1, <2>2
<1> HIDE DEF arrival
<1>5. departure \in Nat /\ (b # 0 => departure >= arrival + prob.service[b])
  BY <1>2, <1>4
<1> HIDE DEF departure
<1>6. leg \in LegType
  BY <1>0, <1>1, <1>2, <1>4, <1>5 DEF LegType
<1>7. /\ leg.kind = "drive" /\ leg.to = b /\ leg.drive = d
      /\ leg.status = st /\ leg.arrival = arrival /\ leg.departure = departure
  BY <1>1
<1>8. InTime(prob, leg)
  BY <1>4, <1>5, <1>7 DEF InTime
<1> QED BY <1>4, <1>6, <1>7, <1>8

\* A row of the table, and the table with another row in its place.
LEMMA PutRow ==
    ASSUME NEW p, NEW t \in Seq(Rows(p)), \A r \in 1 .. Len(t) : RowInv(p, t[r]),
           NEW i \in 1 .. Len(t), NEW y, RowInv(p, y)
    PROVE  /\ [t EXCEPT ![i] = y] \in Seq(Rows(p))
           /\ Len([t EXCEPT ![i] = y]) = Len(t)
           /\ [t EXCEPT ![i] = y][i] = y
           /\ \A r \in 1 .. Len(t) : r # i => [t EXCEPT ![i] = y][r] = t[r]
           /\ \A r \in 1 .. Len(t) : RowInv(p, [t EXCEPT ![i] = y][r])
<1> DEFINE u == [t EXCEPT ![i] = y]
<1>1. y \in Rows(p)
  BY DEF RowInv
<1>2. u \in Seq(Rows(p)) /\ Len(u) = Len(t) /\ u[i] = y /\ \A r \in 1 .. Len(t) : r # i => u[r] = t[r]
  <2> HIDE DEF Rows
  <2> QED BY <1>1
<1> HIDE DEF u
<1>3. ASSUME NEW r \in 1 .. Len(t) PROVE RowInv(p, u[r])
  <2>1. CASE r = i
    BY <1>2, <2>1
  <2>2. CASE r # i
    BY <1>2, <2>2
  <2> QED BY <2>1, <2>2
<1> QED BY <1>2, <1>3 DEF u

LEMMA RowFields ==
    ASSUME NEW p, NEW x \in Rows(p)
    PROVE  /\ x = [order |-> x.order, legs |-> x.legs, laid |-> x.laid, ahead |-> x.ahead]
           /\ x.order \in Seq(1 .. p.n) /\ x.legs \in Seq(LegType)
           /\ x.laid \in Nat /\ x.ahead \in BOOLEAN
<1>1. /\ x = [order |-> x.order, legs |-> x.legs, laid |-> x.laid, ahead |-> x.ahead]
      /\ x.order \in Seq(1 .. p.n) /\ x.legs \in Seq(LegType) /\ x.laid \in Nat
  BY DEF Rows
<1>2. x.ahead \in BOOLEAN
  BY DEF Rows
<1> QED BY <1>1, <1>2

\* A leg is written behind the legs of the row that is being laid out.
LEMMA AddLegStep ==
    ASSUME LayInv, pc \in Laying, NEW leg \in LegType, AddLeg(leg),
           pc' \in {"hops", "drive", "read"}, Known(emitted', Len(db)),
           leg.arrival >= leg.drive + clock,
           leg.to # 0 => leg.kind = "drive", InTime(prob, leg),
           leg.kind = "break" => leg.departure >= leg.arrival + prob.breakSec,
           leg.status = "in_progress" \/ (leg.status = "pending" /\ legs # <<>>),
           prob.hosMax > 0 /\ leg.to # 0 /\ legs # <<>> /\ legs[Len(legs)].kind = "drive" =>
               driveCum + leg.drive <= prob.hosMax,
           NEW laid, laid = IF leg.kind = "drive" THEN hop + 1 ELSE hop,
           laid <= Len(order) + 1,
           NEW place, place = IF prob.depots = <<>> THEN laid + 1 ELSE laid,
           pc' # "read" => place \in 1 .. Len(order),
           pc' = "drive" => place < Len(order) /\ leg.kind = "break"
    PROVE  LayInv'
<1>1. PICK n : n = Len(db)
  OBVIOUS
<1>2. /\ db \in Seq(Rows(prob)) /\ \A r \in 1 .. n : RowInv(prob, db[r])
      /\ db # <<>> /\ LayRow(prob, pc, clock, driveCum, db[n])
      /\ prob \in Problems /\ clock \in Nat /\ driveCum \in Nat
  BY <1>1 DEF LayInv, TableInv
<1>3. n \in Nat /\ n \in 1 .. n /\ DOMAIN db = 1 .. n
  BY <1>1, <1>2
<1>4. PICK x \in Rows(prob) : x = db[n]
  <2> HIDE DEF Rows
  <2> QED BY <1>1, <1>2, <1>3
<1>5. RowInv(prob, x) /\ LayRow(prob, pc, clock, driveCum, x)
  BY <1>2, <1>3, <1>4
<1>6. /\ x = [order |-> x.order, legs |-> x.legs, laid |-> x.laid, ahead |-> x.ahead]
      /\ x.order \in Seq(1 .. prob.n) /\ x.legs \in Seq(LegType)
      /\ x.laid \in Nat /\ x.ahead \in BOOLEAN
  BY RowFields
<1>7. order = x.order /\ legs = x.legs /\ hop = x.laid
  BY <1>1, <1>4 DEF order, legs, hop, route
<1>8. PICK l \in Seq(LegType) : l = x.legs
  BY <1>6
<1> DEFINE k == Append(l, leg)
           y == [x EXCEPT !.legs = k, !.laid = laid]
<1>9. db' = [db EXCEPT ![n] = y]
  <2>1. db' = [db EXCEPT ![n] = [x EXCEPT !.legs = Append(x.legs, leg),
                                          !.laid = IF leg.kind = "drive" THEN x.laid + 1 ELSE x.laid]]
    BY <1>1, <1>2, <1>3, <1>4 DEF AddLeg, route
  <2>2. [x EXCEPT !.legs = Append(x.legs, leg),
                  !.laid = IF leg.kind = "drive" THEN x.laid + 1 ELSE x.laid] = y
    BY <1>7, <1>8
  <2> QED BY <2>1, <2>2
<1>10. /\ k \in Seq(LegType) /\ Len(k) = Len(l) + 1 /\ Len(l) \in Nat /\ k # <<>>
       /\ k[Len(l) + 1] = leg
  BY AppendLegs
<1>11. clock = Ends(l) /\ driveCum = DrivenSince(l)[Len(l)] /\ x.order # <<>>
  BY <1>5, <1>8 DEF LayRow
<1>12. Timed(prob, l) /\ Begun(l, x.ahead) /\ Limited(prob, l)
  BY <1>5, <1>8 DEF RowInv
<1>13. Timed(prob, k) /\ Ends(k) = leg.departure
  BY <1>11, <1>12, TimedAppend
<1>14. Begun(k, x.ahead)
  <2>1. leg.status = "in_progress" \/ (leg.status = "pending" /\ l # <<>>)
    BY <1>7, <1>8
  <2> QED BY <1>12, <2>1, BegunAppend
<1>15. /\ Limited(prob, k)
       /\ DrivenSince(k)[Len(l) + 1] =
             IF leg.kind = "break" THEN 0 ELSE DrivenSince(l)[Len(l)] + leg.drive
  <2>1. prob.hosMax > 0 /\ leg.to # 0 /\ l # <<>> /\ l[Len(l)].kind = "drive" =>
            DrivenSince(l)[Len(l)] + leg.drive <= prob.hosMax
    BY <1>7, <1>8, <1>11
  <2>2. leg.to # 0 => leg.kind = "drive"
    OBVIOUS
  <2> QED BY <1>12, <2>1, <2>2, LimitedAppend
<1> HIDE DEF k
<1>16. /\ y \in Rows(prob)
       /\ y.order = x.order /\ y.legs = k /\ y.laid = laid /\ y.ahead = x.ahead
  <2>1. laid \in Nat
    BY <1>6, <1>7
  <2> QED BY <1>10, <2>1 DEF Rows
<1>17. RowInv(prob, y)
  <2>1. y.laid <= Len(y.order) + 1
    BY <1>7, <1>16
  <2> HIDE DEF y
  <2> QED BY <1>13, <1>14, <1>15, <1>16, <2>1 DEF RowInv
<1>18. clock' = leg.departure /\ driveCum' = IF leg.kind = "break" THEN 0 ELSE driveCum + leg.drive
  BY DEF AddLeg
<1>19. /\ prob' = prob /\ todo' = todo /\ answer' = answer /\ published' = published
       /\ advances' = advances
  BY DEF AddLeg
<1>20. pc' # "read" => LayRow(prob, pc', clock', driveCum', y)
  <2> SUFFICES ASSUME pc' # "read" PROVE LayRow(prob, pc', clock', driveCum', y)
    OBVIOUS
  <2>1. y.order # <<>> /\ clock' = Ends(y.legs) /\ y.legs # <<>>
    BY <1>10, <1>11, <1>13, <1>16, <1>18
  <2>2. driveCum' = DrivenSince(y.legs)[Len(y.legs)]
    BY <1>10, <1>11, <1>15, <1>16, <1>18
  <2>3. NextPlace(prob, y) = place
    BY <1>16 DEF NextPlace
  <2>4. NextPlace(prob, y) \in 1 .. Len(y.order)
    BY <1>7, <1>16, <2>3
  <2>5. pc' = "drive" => NextPlace(prob, y) < Len(y.order) /\ y.legs[Len(y.legs)].kind = "break"
    BY <1>7, <1>10, <1>16, <2>3
  <2>6. pc' # "depot"
    OBVIOUS
  <2> HIDE DEF y
  <2> QED BY <2>1, <2>2, <2>4, <2>5, <2>6 DEF LayRow
<1> HIDE DEF y
<1>21. /\ db' \in Seq(Rows(prob)) /\ Len(db') = n /\ db'[n] = y
       /\ \A r \in 1 .. n : RowInv(prob, db'[r])
  BY <1>1, <1>2, <1>3, <1>9, <1>17, PutRow, SMTT(30)
<1>22. db' # <<>>
  <2>1. PICK t : t = db'
    OBVIOUS
  <2>2. Len(t) # 0
    BY <1>3, <1>21, <2>1
  <2>3. t # <<>>
    BY <2>2
  <2> QED BY <2>1, <2>3
<1>23. clock' \in Nat /\ driveCum' \in Nat
  <2>1. leg.departure \in Nat /\ leg.drive \in Nat
    BY DEF LegType
  <2> QED BY <1>2, <1>18, <2>1
<1>24. TableInv'
  <2>1. pc' \in Phases
    BY DEF Phases
  <2>2. Known(emitted, Len(db))' /\ Known(answer, Len(db))' /\ Known(published, Len(db))'
    BY <1>1, <1>19, <1>21 DEF LayInv, TableInv
  <2> QED BY <1>2, <1>19, <1>23, <2>1, <2>2 DEF LayInv, TableInv, Stops
<1>25. (db \in Seq(Rows(prob)) /\ \A r \in 1 .. Len(db) : RowInv(prob, db[r]))'
  BY <1>19, <1>21
<1>26. (pc \in Laying => LayRow(prob, pc, clock, driveCum, db[Len(db)]))'
  BY <1>19, <1>20, <1>21 DEF Laying
<1> QED BY <1>22, <1>24, <1>25, <1>26 DEF LayInv

LEMMA LayFacts ==
    ASSUME LayInv, pc \in Laying
    PROVE  /\ prob \in Problems /\ clock \in Nat /\ driveCum \in Nat
           /\ order \in Seq(Stops) /\ order # <<>> /\ legs \in Seq(LegType) /\ hop \in Nat
           /\ \A i \in 1 .. Len(order) :
                 order[i] \in Stops /\ order[i] \in 0 .. MaxStops /\ At(order[i]) \in Nat
           /\ Len(order) \in Nat /\ 1 \in 1 .. Len(order)
           /\ pc = "depot" => prob.depots # <<>> /\ legs = <<>> /\ hop = 0
           /\ pc \in {"hops", "drive"} =>
                 from \in 1 .. Len(order) /\ (prob.depots # <<>> => legs # <<>>)
           /\ pc = "drive" => from < Len(order) /\ legs # <<>> /\ legs[Len(legs)].kind = "break"
<1>1. PICK n : n = Len(db)
  OBVIOUS
<1>2. /\ db \in Seq(Rows(prob)) /\ db # <<>> /\ LayRow(prob, pc, clock, driveCum, db[n])
      /\ prob \in Problems /\ clock \in Nat /\ driveCum \in Nat
  BY <1>1 DEF LayInv, TableInv
<1>3. PICK x \in Rows(prob) : x = db[n]
  <2> HIDE DEF Rows
  <2> QED BY <1>1, <1>2
<1>4. x.order \in Seq(1 .. prob.n) /\ x.legs \in Seq(LegType) /\ x.laid \in Nat
  BY RowFields
<1>5. order = x.order /\ legs = x.legs /\ hop = x.laid
  BY <1>1, <1>3 DEF order, legs, hop, route
<1>6. from = NextPlace(prob, x)
  BY <1>5 DEF from, NextPlace
<1>7. /\ x.order # <<>>
      /\ pc = "depot" => prob.depots # <<>> /\ x.legs = <<>> /\ x.laid = 0
      /\ pc \in {"hops", "drive"} =>
            NextPlace(prob, x) \in 1 .. Len(x.order) /\ (prob.depots # <<>> => x.legs # <<>>)
      /\ pc = "drive" =>
            /\ NextPlace(prob, x) < Len(x.order)
            /\ x.legs # <<>> /\ x.legs[Len(x.legs)].kind = "break"
  BY <1>2, <1>3 DEF LayRow
<1>8. PICK o \in Seq(Stops) : o = order
  BY <1>4, <1>5 DEF Stops
<1>9. o # <<>>
  BY <1>5, <1>7, <1>8
<1>10. Len(o) \in Nat /\ 1 \in 1 .. Len(o) /\ \A i \in 1 .. Len(o) : o[i] \in Stops
  BY <1>9
<1>11. ASSUME NEW m \in Stops PROVE m \in 0 .. MaxStops /\ At(m) \in Nat
  BY <1>2, StopFacts, ProblemFacts
<1>12. \A i \in 1 .. Len(o) :
          o[i] \in Stops /\ o[i] \in 0 .. MaxStops /\ At(o[i]) \in Nat
  BY <1>10, <1>11
<1>13. /\ order \in Seq(Stops) /\ order # <<>> /\ Len(order) \in Nat /\ 1 \in 1 .. Len(order)
       /\ \A i \in 1 .. Len(order) :
             order[i] \in Stops /\ order[i] \in 0 .. MaxStops /\ At(order[i]) \in Nat
  BY <1>8, <1>9, <1>10, <1>12
<1> QED BY <1>2, <1>4, <1>5, <1>6, <1>7, <1>13

LEMMA KnownKept ==
    ASSUME LayInv, emitted' = emitted PROVE Known(emitted', Len(db))
BY DEF LayInv, TableInv

LEMMA InsertDepotLegStep ==
    ASSUME LayInv, InsertDepotLeg PROVE LayInv'
<1>0. pc = "depot" /\ pc' = "hops" /\ emitted' = emitted /\ pc \in Laying
  BY DEF InsertDepotLeg, Laying
<1>1. /\ prob \in Problems /\ clock \in Nat /\ prob.depots # <<>> /\ legs = <<>> /\ hop = 0
      /\ Len(order) \in Nat /\ 1 \in 1 .. Len(order)
      /\ order[1] \in Stops /\ At(order[1]) \in Nat
  BY <1>0, LayFacts
<1>2. PICK b \in Targets : b = order[1] /\ b \in Stops
  BY <1>1 DEF Targets
<1>3. PICK d \in Nat : d = Dist(Depot, At(order[1]))
  BY <1>1, DepotNat, DistNat
<1>4. PICK leg : leg = DriveLeg(0, b, d, "in_progress")
  OBVIOUS
<1>5. 0 \in Targets /\ b # 0
  BY <1>1, <1>2, StopFacts DEF Targets
<1>6. /\ leg \in LegType /\ leg.kind = "drive" /\ leg.to = b /\ leg.drive = d
      /\ leg.status = "in_progress" /\ leg.arrival >= d + clock
      /\ InTime(prob, leg)
  <2>1. prob \in Problems /\ clock \in Nat
    BY <1>1
  <2> QED BY <1>4, <1>5, <2>1, DriveLegFacts
<1>7. AddLeg(leg)
  BY <1>2, <1>3, <1>4 DEF InsertDepotLeg, AddLeg
<1>8. Known(emitted', Len(db))
  BY <1>0, KnownKept
<1>9. 1 = IF leg.kind = "drive" THEN hop + 1 ELSE hop
  BY <1>1, <1>6
<1>10. 1 <= Len(order) + 1 /\ 1 = IF prob.depots = <<>> THEN 1 + 1 ELSE 1
  BY <1>1
<1> QED BY <1>0, <1>1, <1>5, <1>6, <1>7, <1>8, <1>9, <1>10, AddLegStep

LEMMA InsertBreakStep ==
    ASSUME LayInv, InsertBreak PROVE LayInv'
<1>0. /\ pc = "hops" /\ pc' = "drive" /\ pc \in Laying /\ from < Len(order) /\ legs # <<>>
      /\ emitted' \in {emitted, emitted \union {<<route, Len(legs) + 1>>}}
  BY DEF InsertBreak, Laying, BreakDue
<1>1. /\ prob \in Problems /\ clock \in Nat /\ hop \in Nat
      /\ Len(order) \in Nat /\ from \in 1 .. Len(order)
  BY <1>0, LayFacts
<1>2. prob.breakSec \in Nat /\ MaxStops \in Nat
  BY <1>1, ProblemFacts
<1>3. PICK leg : leg = BreakLeg
  OBVIOUS
<1>4. /\ leg.kind = "break" /\ leg.to = 0 /\ leg.drive = 0 /\ leg.arrival = clock
      /\ leg.departure = clock + prob.breakSec /\ leg.status = "pending"
  BY <1>3 DEF BreakLeg
<1>5. leg \in LegType
  <2>1. 0 \in 0 .. MaxStops /\ clock + prob.breakSec \in Nat /\ 0 \in Nat
    BY <1>1, <1>2
  <2> QED BY <1>1, <1>3, <2>1 DEF BreakLeg, LegType
<1>6. AddLeg(leg)
  BY <1>3 DEF InsertBreak, AddLeg
<1>7. Known(emitted', Len(db))
  <2>1. Known(emitted, Len(db)) /\ db # <<>> /\ db \in Seq(Rows(prob))
    BY <1>0 DEF LayInv, TableInv, Laying
  <2>2. Len(db) \in 1 .. Len(db)
    <3> HIDE DEF Rows
    <3> QED BY <2>1
  <2> QED BY <1>0, <2>1, <2>2 DEF Known, route
<1>8. /\ hop = IF leg.kind = "drive" THEN hop + 1 ELSE hop
      /\ from = IF prob.depots = <<>> THEN hop + 1 ELSE hop
  BY <1>4 DEF from
<1>9. hop <= Len(order) + 1
  BY <1>1, <1>8
<1>10. /\ leg.arrival >= leg.drive + clock /\ InTime(prob, leg)
       /\ leg.departure >= leg.arrival + prob.breakSec
  BY <1>1, <1>2, <1>4 DEF InTime
<1>11. PICK laid, place : laid = hop /\ place = from
  OBVIOUS
<1>12. /\ laid = (IF leg.kind = "drive" THEN hop + 1 ELSE hop) /\ laid <= Len(order) + 1
       /\ place = (IF prob.depots = <<>> THEN laid + 1 ELSE laid)
       /\ place \in 1 .. Len(order) /\ place < Len(order)
  BY <1>0, <1>1, <1>8, <1>9, <1>11
<1> QED BY <1>0, <1>4, <1>5, <1>6, <1>7, <1>10, <1>12, AddLegStep

LEMMA InsertLegStep ==
    ASSUME LayInv, InsertLeg PROVE LayInv'
<1> DEFINE st == IF legs = <<>> /\ prob.depots = <<>> THEN "in_progress" ELSE "pending"
<1>0. /\ pc \in {"hops", "drive"} /\ pc' = "hops" /\ pc \in Laying /\ emitted' = emitted
      /\ pc = "hops" => from < Len(order) /\ ~BreakDue
  BY DEF InsertLeg, Laying
<1>1. /\ prob \in Problems /\ clock \in Nat /\ driveCum \in Nat /\ hop \in Nat
      /\ Len(order) \in Nat /\ from \in 1 .. Len(order)
      /\ prob.depots # <<>> => legs # <<>>
      /\ pc = "drive" => from < Len(order) /\ legs[Len(legs)].kind = "break"
      /\ \A i \in 1 .. Len(order) :
            order[i] \in Stops /\ order[i] \in 0 .. MaxStops /\ At(order[i]) \in Nat
  BY <1>0, LayFacts
<1>2. from < Len(order) /\ from + 1 \in 1 .. Len(order)
  BY <1>0, <1>1
<1>3. PICK a \in Targets : a = order[from]
  <2>1. order[from] \in Stops
    BY <1>1
  <2> QED BY <2>1 DEF Targets
<1>4. PICK b \in Targets : b = order[from + 1] /\ b \in Stops
  <2>1. order[from + 1] \in Stops
    BY <1>1, <1>2
  <2> QED BY <2>1 DEF Targets
<1>5. PICK d \in Nat : d = NextDrive
  <2>1. At(order[from]) \in Nat /\ At(order[from + 1]) \in Nat
    BY <1>1, <1>2
  <2> QED BY <2>1, DistNat DEF NextDrive
<1>6. PICK s \in {"pending", "in_progress"} : s = st
  OBVIOUS
<1>7. PICK leg : leg = DriveLeg(a, b, d, s)
  OBVIOUS
<1>8. /\ leg \in LegType /\ leg.kind = "drive" /\ leg.to = b /\ leg.drive = d
      /\ leg.status = s /\ leg.arrival >= d + clock
      /\ InTime(prob, leg)
  <2>1. prob \in Problems /\ clock \in Nat
    BY <1>1
  <2> QED BY <1>7, <2>1, DriveLegFacts
<1>9. b # 0
  BY <1>1, <1>4, StopFacts
<1>10. AddLeg(leg)
  BY <1>3, <1>4, <1>5, <1>6, <1>7 DEF InsertLeg, AddLeg
<1>11. Known(emitted', Len(db))
  BY <1>0, KnownKept
<1>12. leg.status = "in_progress" \/ (leg.status = "pending" /\ legs # <<>>)
  BY <1>1, <1>6, <1>8
<1>13. prob.hosMax > 0 /\ legs # <<>> /\ legs[Len(legs)].kind = "drive" =>
           driveCum + leg.drive <= prob.hosMax
  <2>1. CASE pc = "drive"
    BY <1>1, <2>1
  <2>2. CASE pc = "hops"
    <3>1. prob.hosMax > 0 /\ legs # <<>> => ~(driveCum + d > prob.hosMax)
      BY <1>0, <1>5, <2>2 DEF BreakDue
    <3>2. prob.hosMax \in Nat
      BY <1>1, ProblemFacts
    <3> QED BY <1>1, <1>8, <3>1, <3>2
  <2> QED BY <1>0, <2>1, <2>2
<1>14. PICK laid, place : laid = hop + 1 /\ place = from + 1
  OBVIOUS
<1>15. /\ laid = (IF leg.kind = "drive" THEN hop + 1 ELSE hop) /\ laid <= Len(order) + 1
       /\ place = (IF prob.depots = <<>> THEN laid + 1 ELSE laid)
       /\ place \in 1 .. Len(order)
  BY <1>1, <1>2, <1>8, <1>14 DEF from
<1>16. leg.arrival >= leg.drive + clock
  BY <1>8
<1> QED BY <1>0, <1>8, <1>10, <1>11, <1>12, <1>13, <1>15, <1>16, AddLegStep

LEMMA InsertReturnLegStep ==
    ASSUME LayInv, InsertReturnLeg PROVE LayInv'
<1>0. /\ pc = "hops" /\ pc' = "read" /\ pc \in Laying /\ emitted' = emitted
      /\ from = Len(order) /\ prob.depots # <<>>
  BY DEF InsertReturnLeg, Laying
<1>1. /\ prob \in Problems /\ clock \in Nat /\ hop \in Nat
      /\ Len(order) \in Nat /\ from \in 1 .. Len(order) /\ legs # <<>> /\ 1 \in 1 .. Len(order)
      /\ \A i \in 1 .. Len(order) :
            order[i] \in Stops /\ order[i] \in 0 .. MaxStops /\ At(order[i]) \in Nat
  BY <1>0, LayFacts
<1>2. PICK a \in Targets : a = Last(order)
  <2>1. Last(order) \in Stops
    BY <1>0, <1>1 DEF Last
  <2> QED BY <2>1 DEF Targets
<1>3. PICK d \in Nat : d = Dist(At(Last(order)), Depot)
  <2>1. At(Last(order)) \in Nat
    BY <1>0, <1>1 DEF Last
  <2>2. Depot \in Nat
    BY <1>0, <1>1, DepotNat
  <2> QED BY <2>1, <2>2, DistNat
<1>4. PICK z \in Targets : z = 0
  BY DEF Targets
<1>5. PICK leg : leg = DriveLeg(a, z, d, "pending")
  OBVIOUS
<1>6. /\ leg \in LegType /\ leg.kind = "drive" /\ leg.to = z /\ leg.drive = d
      /\ leg.status = "pending" /\ leg.arrival >= d + clock
  <2>1. prob \in Problems /\ clock \in Nat
    BY <1>1
  <2> QED BY <1>5, <2>1, DriveLegFacts
<1>7. AddLeg(leg)
  BY <1>2, <1>3, <1>4, <1>5 DEF InsertReturnLeg, AddLeg
<1>8. Known(emitted', Len(db))
  BY <1>0, KnownKept
<1>9. PICK laid, place : laid = hop + 1 /\ place = hop + 1
  OBVIOUS
<1>10. /\ laid = (IF leg.kind = "drive" THEN hop + 1 ELSE hop) /\ laid <= Len(order) + 1
       /\ place = (IF prob.depots = <<>> THEN laid + 1 ELSE laid)
  BY <1>0, <1>1, <1>6, <1>9 DEF from
<1>11. leg.arrival >= leg.drive + clock /\ leg.to = 0 /\ InTime(prob, leg)
  BY <1>4, <1>6 DEF InTime
<1> QED BY <1>0, <1>1, <1>6, <1>7, <1>8, <1>10, <1>11, AddLegStep

\* A new row has no legs.
LEMMA InsertRouteStep ==
    ASSUME LayInv, InsertRoute PROVE LayInv'
<1>1. PICK n : n = Len(db)
  OBVIOUS
<1>2. /\ db \in Seq(Rows(prob)) /\ \A r \in 1 .. n : RowInv(prob, db[r])
      /\ prob \in Problems /\ todo \in Seq(Seq(Stops)) /\ advances \in 0 .. MaxAdvances
      /\ Known(emitted, n) /\ Known(answer, n) /\ Known(published, n)
  BY <1>1 DEF LayInv, TableInv
<1>3. n \in Nat
  <2> HIDE DEF Rows
  <2> QED BY <1>1, <1>2
<1>4. Head(todo) \in Seq(Stops) /\ Tail(todo) \in Seq(Seq(Stops))
  <2>1. todo # <<>>
    BY DEF InsertRoute
  <2>2. PICK X : X = Seq(Stops)
    OBVIOUS
  <2>3. todo \in Seq(X)
    BY <1>2, <2>2
  <2>4. Head(todo) \in X /\ Tail(todo) \in Seq(X)
    BY <2>1, <2>3
  <2> QED BY <2>2, <2>4
<1>5. PICK o \in Seq(1 .. prob.n) : o = Head(todo)
  BY <1>4 DEF Stops
<1> DEFINE y == [order |-> o, legs |-> <<>>, laid |-> 0, ahead |-> FALSE]
<1>6. /\ db' = Append(db, y) /\ prob' = prob /\ todo' = Tail(todo) /\ clock' = Now
      /\ driveCum' = 0 /\ emitted' = emitted /\ answer' = answer /\ published' = published
      /\ advances' = advances
      /\ pc' = IF o = <<>> THEN "read" ELSE IF prob.depots = <<>> THEN "hops" ELSE "depot"
  BY <1>5 DEF InsertRoute
<1>7. y.order = o /\ y.legs = <<>> /\ y.laid = 0 /\ y.ahead = FALSE
  OBVIOUS
<1>8. Len(<<>>) = 0 /\ Len(o) \in Nat /\ <<>> \in Seq(LegType)
  OBVIOUS
<1>9. y \in Rows(prob)
  BY <1>8 DEF Rows
<1> HIDE DEF y
<1>10. Timed(prob, <<>>) /\ Begun(<<>>, FALSE) /\ Limited(prob, <<>>)
  <2>1. \A s \in 1 .. 0 : FALSE
    OBVIOUS
  <2>2. \A s \in 2 .. 0 : FALSE
    OBVIOUS
  <2> QED BY <1>8, <2>1, <2>2 DEF Timed, Begun, Limited
<1>11. RowInv(prob, y)
  <2>1. y.laid <= Len(y.order) + 1
    BY <1>7, <1>8
  <2> QED BY <1>7, <1>9, <1>10, <2>1 DEF RowInv
<1>12. /\ db' \in Seq(Rows(prob)) /\ Len(db') = n + 1 /\ db'[n + 1] = y
       /\ \A r \in 1 .. n : db'[r] = db[r]
  <2> HIDE DEF Rows
  <2> QED BY <1>1, <1>2, <1>6, <1>9
<1>13. \A r \in 1 .. n + 1 : RowInv(prob, db'[r])
  <2> SUFFICES ASSUME NEW r \in 1 .. n + 1 PROVE RowInv(prob, db'[r])
    OBVIOUS
  <2>1. CASE r = n + 1
    BY <1>11, <1>12, <2>1
  <2>2. CASE r # n + 1
    <3>1. r \in 1 .. n
      BY <1>3, <2>2
    <3> QED BY <1>2, <1>12, <3>1
  <2> QED BY <2>1, <2>2
<1>14. db' # <<>>
  <2>1. PICK t : t = db'
    OBVIOUS
  <2>2. Len(t) # 0
    BY <1>3, <1>12, <2>1
  <2>3. t # <<>>
    BY <2>2
  <2> QED BY <2>1, <2>3
<1>15. o # <<>> => LayRow(prob, pc', clock', driveCum', y)
  <2> SUFFICES ASSUME o # <<>> PROVE LayRow(prob, pc', clock', driveCum', y)
    OBVIOUS
  <2>1. clock' = Ends(y.legs)
    BY <1>6, <1>7 DEF Ends
  <2>2. driveCum' = DrivenSince(y.legs)[Len(y.legs)]
    <3>1. DrivenSince(<<>>)[0] = 0
      BY <1>8, SinceFacts
    <3> QED BY <1>6, <1>7, <1>8, <3>1
  <2>3. CASE prob.depots = <<>>
    <3>1. NextPlace(prob, y) = 1
      BY <1>7, <2>3 DEF NextPlace
    <3>2. 1 \in 1 .. Len(o)
      OBVIOUS
    <3> QED BY <1>6, <1>7, <2>1, <2>2, <2>3, <3>1, <3>2 DEF LayRow
  <2>4. CASE prob.depots # <<>>
    BY <1>6, <1>7, <2>1, <2>2, <2>4 DEF LayRow
  <2> QED BY <2>3, <2>4
<1>16. Known(emitted', n + 1) /\ Known(answer', n + 1) /\ Known(published', n + 1)
  <2>1. \A i \in 1 .. n : i \in 1 .. n + 1
    BY <1>3
  <2>2. ASSUME NEW S, Known(S, n) PROVE Known(S, n + 1)
    BY <2>1, <2>2 DEF Known
  <2> QED BY <1>2, <1>6, <2>2
<1>17. TableInv'
  <2>1. pc' \in Phases /\ clock' \in Nat /\ driveCum' \in Nat
    BY <1>6, PlanningAssumption DEF Phases
  <2>2. (todo \in Seq(Seq(Stops)))'
    BY <1>4, <1>6 DEF Stops
  <2>3. (Known(emitted, Len(db)) /\ Known(answer, Len(db)) /\ Known(published, Len(db)))'
    BY <1>12, <1>16
  <2> QED BY <1>2, <1>6, <2>1, <2>2, <2>3 DEF TableInv
<1>18. (db \in Seq(Rows(prob)) /\ \A r \in 1 .. Len(db) : RowInv(prob, db[r]))'
  BY <1>6, <1>12, <1>13
<1>19. (pc \in Laying => LayRow(prob, pc, clock, driveCum, db[Len(db)]))'
  BY <1>6, <1>12, <1>15 DEF Laying
<1> QED BY <1>14, <1>17, <1>18, <1>19 DEF LayInv

\* A client advances a route, possibly the one that is being laid out.
LEMMA AdvanceStep ==
    ASSUME LayInv, NEW i \in DOMAIN db, Advance(i) PROVE LayInv'
<1>1. PICK n : n = Len(db)
  OBVIOUS
<1>2. /\ db \in Seq(Rows(prob)) /\ \A r \in 1 .. n : RowInv(prob, db[r])
      /\ pc \in Laying \union {"read"} => db # <<>>
      /\ pc \in Laying => LayRow(prob, pc, clock, driveCum, db[n])
      /\ TableInv
  BY <1>1 DEF LayInv
<1>3. n \in Nat /\ DOMAIN db = 1 .. n /\ i \in 1 .. n
  <2> HIDE DEF Rows
  <2> QED BY <1>1, <1>2
<1>4. PICK x \in Rows(prob) : x = db[i]
  <2> HIDE DEF Rows
  <2> QED BY <1>1, <1>2, <1>3
<1>5. RowInv(prob, x)
  BY <1>2, <1>3, <1>4
<1>6. /\ x.order \in Seq(1 .. prob.n) /\ x.legs \in Seq(LegType)
      /\ x.laid \in Nat /\ x.ahead \in BOOLEAN
  BY RowFields
<1>7. PICK l \in Seq(LegType) : l = x.legs
  BY <1>6
<1> DEFINE Unvisited == {s \in DOMAIN l : l[s].status # "visited"}
<1>8. PICK a : a = Min(Unvisited)
  OBVIOUS
<1>9. /\ Unvisited # {} /\ advances < MaxAdvances /\ advances' = advances + 1
      /\ db' = [db EXCEPT ![i].legs = Advanced(l, a), ![i].ahead = @ \/ a = Len(l)]
      /\ UNCHANGED <<prob, pc, todo, clock, driveCum, emitted, answer, published>>
  BY <1>4, <1>7, <1>8 DEF Advance, Advanced
<1>10. Len(l) \in Nat /\ DOMAIN l = 1 .. Len(l)
  OBVIOUS
<1>11. a \in 1 .. Len(l) /\ l[a].status # "visited" /\ \A s \in 1 .. a - 1 : l[s].status = "visited"
  <2>1. Unvisited \in SUBSET Nat
    BY <1>10
  <2>2. a \in Unvisited /\ \A s \in Unvisited : a <= s
    <3> HIDE DEF Unvisited
    <3> QED BY <1>8, <1>9, <2>1, MinNatural
  <2>3. ASSUME NEW s \in 1 .. a - 1 PROVE l[s].status = "visited"
    <3>1. s \in DOMAIN l /\ ~(a <= s)
      BY <1>10, <2>2
    <3> QED BY <2>2, <3>1
  <2> QED BY <1>10, <2>2, <2>3
<1> HIDE DEF Unvisited
<1>12. Timed(prob, l) /\ Begun(l, x.ahead) /\ Limited(prob, l) /\ x.laid <= Len(x.order) + 1
  BY <1>5, <1>7 DEF RowInv
<1>13. PICK k : k = Advanced(l, a)
  OBVIOUS
<1>14. /\ k \in Seq(LegType) /\ Len(k) = Len(l)
       /\ \A s \in 1 .. Len(l) :
             /\ k[s].kind = l[s].kind
             /\ k[s].status = IF s = a THEN "visited"
                              ELSE IF s = a + 1 THEN "in_progress" ELSE l[s].status
       /\ Timed(prob, k) /\ Limited(prob, k) /\ Ends(k) = Ends(l)
       /\ DrivenSince(k)[Len(l)] = DrivenSince(l)[Len(l)]
  <2>1. PICK p : p = prob
    OBVIOUS
  <2>2. Timed(p, l) /\ Limited(p, l)
    BY <1>12, <2>1
  <2> QED BY <1>11, <1>13, <2>1, <2>2, AdvancedLegs
<1>15. PICK h \in BOOLEAN : h = (x.ahead \/ a = Len(l))
  OBVIOUS
<1>16. Begun(k, x.ahead \/ a = Len(l))
  <2>1. PICK w \in BOOLEAN : w = x.ahead
    BY <1>6
  <2>2. Begun(l, w)
    BY <1>12, <2>1
  <2>3. \A s \in 1 .. Len(l) :
            k[s].status = IF s = a THEN "visited"
                          ELSE IF s = a + 1 THEN "in_progress" ELSE l[s].status
    BY <1>14
  <2>4. Begun(k, w \/ a = Len(l))
    BY <1>11, <1>14, <2>2, <2>3, BegunAdvance
  <2> QED BY <2>1, <2>4
<1> DEFINE y == [x EXCEPT !.legs = k, !.ahead = h]
<1>17. /\ y \in Rows(prob)
       /\ y.order = x.order /\ y.legs = k /\ y.laid = x.laid /\ y.ahead = h
  BY <1>14 DEF Rows
<1>18. db' = [db EXCEPT ![i] = y]
  BY <1>2, <1>3, <1>4, <1>9, <1>13, <1>15
<1> HIDE DEF y
<1>19. RowInv(prob, y)
  <2>1. Begun(y.legs, y.ahead)
    BY <1>15, <1>16, <1>17
  <2> QED BY <1>12, <1>14, <1>17, <2>1 DEF RowInv
<1>20. /\ db' \in Seq(Rows(prob)) /\ Len(db') = n /\ db'[i] = y
       /\ \A r \in 1 .. n : r # i => db'[r] = db[r]
       /\ \A r \in 1 .. n : RowInv(prob, db'[r])
  BY <1>1, <1>2, <1>3, <1>18, <1>19, PutRow
<1>21. (db \in Seq(Rows(prob)) /\ \A r \in 1 .. Len(db) : RowInv(prob, db[r]))'
  BY <1>9, <1>20
<1>22. (pc \in Laying \union {"read"} => db # <<>>)'
  <2> SUFFICES ASSUME pc' \in Laying' \union {"read"} PROVE db' # <<>>
    OBVIOUS
  <2>1. PICK t : t = db'
    OBVIOUS
  <2>2. Len(t) # 0
    BY <1>3, <1>20, <2>1
  <2>3. t # <<>>
    BY <2>2
  <2> QED BY <2>1, <2>3
<1>23. (pc \in Laying => LayRow(prob, pc, clock, driveCum, db[Len(db)]))'
  <2> SUFFICES ASSUME pc \in Laying PROVE LayRow(prob, pc, clock, driveCum, db'[n])
    BY <1>9, <1>20 DEF Laying
  <2>1. LayRow(prob, pc, clock, driveCum, db[n])
    BY <1>2
  <2>2. CASE i # n
    <3>1. n \in 1 .. n
      BY <1>3
    <3> QED BY <1>20, <2>1, <2>2, <3>1
  <2>3. CASE i = n
    <3>1. LayRow(prob, pc, clock, driveCum, x)
      BY <1>4, <2>1, <2>3
    <3>2. l # <<>> /\ k # <<>> /\ Len(l) \in 1 .. Len(l)
      <4>1. Len(l) # 0
        BY <1>11
      <4> QED BY <1>10, <1>14, <4>1
    <3>3. k[Len(k)].kind = l[Len(l)].kind
      BY <1>14, <3>2
    <3>4. NextPlace(prob, y) = NextPlace(prob, x)
      BY <1>17 DEF NextPlace
    <3>5. LayRow(prob, pc, clock, driveCum, y)
      BY <1>7, <1>14, <1>17, <3>1, <3>2, <3>3, <3>4 DEF LayRow
    <3> QED BY <1>20, <2>3, <3>5
  <2> QED BY <2>2, <2>3
<1>24. TableInv'
  <2>1. (Known(emitted, Len(db)) /\ Known(answer, Len(db)) /\ Known(published, Len(db)))'
    BY <1>1, <1>2, <1>9, <1>20 DEF TableInv
  <2>2. advances' \in 0 .. MaxAdvances
    <3>1. advances \in 0 .. MaxAdvances /\ MaxAdvances \in Nat
      BY <1>2, PlanningAssumption DEF TableInv
    <3> QED BY <1>9, <3>1
  <2> QED BY <1>2, <1>9, <2>1, <2>2 DEF TableInv, Stops
<1> QED BY <1>21, <1>22, <1>23, <1>24 DEF LayInv

\* A step of the search stays in the search.
LEMMA SolveSearches ==
    ASSUME Solve PROVE pc' \in {"seed"} \union Searching
<1>1. ASSUME GreedySeed PROVE pc' = "seed"
  BY <1>1 DEF GreedySeed
<1>2. ASSUME SeedEnds \/ SearchEnds \/ RemoveNodes \/ Accept
      PROVE  pc' \in {"head", "solved", "insert"}
  BY <1>2 DEF SeedEnds, SearchEnds, RemoveNodes, Accept
<1>3. ASSUME InsertCheapest \/ InsertAnyway \/ InsertEnds
      PROVE  pc' \in {"insert", "oropt", "twoopt"}
  BY <1>3 DEF InsertCheapest, InsertAnyway, InsertEnds
<1>4. ASSUME OrOptTry \/ OrOptNext \/ OrOptOuter PROVE pc' \in {"oropt", "oropt-next", "twoopt"}
  <2>1. ASSUME OrOptOuter PROVE pc' \in {"oropt", "twoopt"}
    <3>1. CASE scan.i <= Len(curr[scan.v])
      BY <2>1, <3>1 DEF OrOptOuter
    <3>2. CASE ~(scan.i <= Len(curr[scan.v]))
      <4>1. pc' = IF scan.v < prob.vehicles \/ scan.foundCost < Cost(curr) \/ scan.improved
                  THEN "oropt" ELSE "twoopt"
        BY <2>1, <3>2 DEF OrOptOuter
      <4> QED BY <4>1
    <3> QED BY <3>1, <3>2
  <2> QED BY <1>4, <2>1 DEF OrOptTry, OrOptNext
<1>5. ASSUME TwoOptImprove \/ CrossExchangeImprove \/ TwoOptStarImprove
      PROVE  pc' \in {"twoopt", "cross", "star", "accept"}
  BY <1>5 DEF TwoOptImprove, CrossExchangeImprove, TwoOptStarImprove, Improve
<1>6. pc' \in {"seed", "head", "solved", "insert", "oropt", "oropt-next", "twoopt", "cross",
               "star", "accept"}
  BY <1>1, <1>2, <1>3, <1>4, <1>5 DEF Solve
<1> QED BY <1>6 DEF Searching

LEMMA SolvePhases ==
    ASSUME pc \in Phases, Solve PROVE pc' \in Phases \ (Laying \union {"read"})
BY SolveSearches DEF Phases, Searching, Laying

\* The search and the steps that choose the orders write no rows.
LEMMA PlanStep ==
    ASSUME LayInv, prob' = prob, todo' \in Seq(Seq(Stops)), pc' \in Phases,
           pc' \notin Laying \union {"read"},
           UNCHANGED <<db, clock, driveCum, emitted, answer, published, advances>>
    PROVE  LayInv'
<1>1. TableInv'
  BY DEF LayInv, TableInv, Stops
<1>2. pc' \in Laying => pc' = pc /\ clock' = clock /\ driveCum' = driveCum
  OBVIOUS
<1>3. pc' = "read" => pc \in Laying \union {"read"}
  OBVIOUS
<1> QED BY <1>1, <1>2, <1>3, RowsKept

LEMMA TakenType ==
    ASSUME SearchInv
    PROVE  Subsequence([v \in Vehicles |-> best[v]], {v \in Vehicles : best[v] # <<>>})
               \in Seq(Seq(Stops))
<1>1. best \in Plans /\ prob.vehicles \in Nat
  BY ProblemFacts DEF SearchInv
<1>2. PICK X : X = Seq(Stops)
  OBVIOUS
<1>3. \A v \in Vehicles : best[v] \in X
  BY <1>1, <1>2 DEF Plans
<1>4. PICK s : s = [v \in Vehicles |-> best[v]]
  OBVIOUS
<1>5. s \in Seq(X) /\ DOMAIN s = Vehicles
  BY <1>1, <1>3, <1>4 DEF Vehicles
<1>6. {v \in Vehicles : best[v] # <<>>} \in SUBSET DOMAIN s
  BY <1>5
<1>7. Subsequence(s, {v \in Vehicles : best[v] # <<>>}) \in Seq(X)
  BY <1>5, <1>6, SubsequenceFacts
<1> QED BY <1>2, <1>4, <1>7

LEMMA ReadRouteStep ==
    ASSUME LayInv, ReadRoute PROVE LayInv'
<1>1. /\ pc = "read" /\ pc' \in {"route", "failed"} /\ prob' = prob
      /\ UNCHANGED <<todo, db, clock, driveCum, emitted, published, advances>>
  BY DEF ReadRoute
<1>2. db # <<>> /\ db \in Seq(Rows(prob)) /\ TableInv
  BY <1>1 DEF LayInv
<1>3. Len(db) \in 1 .. Len(db)
  <2> HIDE DEF Rows
  <2> QED BY <1>2
<1>4. Known(answer', Len(db))
  <2>1. CASE answer' = answer
    BY <1>2, <2>1 DEF TableInv
  <2>2. CASE answer' # answer
    <3>1. answer' = answer \union {<<route, s>> : s \in {x \in DOMAIN legs : legs[x].kind = "break"}}
      BY <2>2 DEF ReadRoute
    <3>2. \A x \in answer' : x \in answer \/ x[1] = Len(db)
      BY <3>1 DEF route
    <3> QED BY <1>2, <1>3, <3>2 DEF TableInv, Known
  <2> QED BY <2>1, <2>2
<1>5. TableInv'
  <2>1. pc' \in Phases
    BY <1>1 DEF Phases
  <2>2. (Known(emitted, Len(db)) /\ Known(answer, Len(db)) /\ Known(published, Len(db)))'
    BY <1>1, <1>2, <1>4 DEF TableInv
  <2> QED BY <1>1, <1>2, <2>1, <2>2 DEF TableInv, Stops
<1>6. pc' \notin Laying /\ pc' # "read"
  BY <1>1 DEF Laying
<1> QED BY <1>1, <1>5, <1>6, RowsKept

LEMMA RespondStep ==
    ASSUME LayInv, Respond PROVE LayInv'
<1>1. /\ pc' = "answered" /\ prob' = prob
      /\ UNCHANGED <<todo, db, clock, driveCum, emitted, answer, advances>>
      /\ published' = answer \/ published' = {}
  BY DEF Respond
<1>2. Known(published', Len(db))
  BY <1>1 DEF LayInv, TableInv, Known
<1>3. TableInv'
  <2>1. pc' \in Phases
    BY <1>1 DEF Phases
  <2>2. (Known(emitted, Len(db)) /\ Known(answer, Len(db)) /\ Known(published, Len(db)))'
    BY <1>1, <1>2 DEF LayInv, TableInv
  <2> QED BY <1>1, <2>1, <2>2 DEF LayInv, TableInv, Stops
<1>4. pc' \notin Laying /\ pc' # "read"
  BY <1>1 DEF Laying
<1> QED BY <1>1, <1>3, <1>4, RowsKept

LEMMA LayNext ==
    ASSUME SearchInv, LayInv, [Next]_vars PROVE LayInv'
<1>0. prob \in Problems /\ pc \in Phases /\ todo \in Seq(Seq(Stops))
  BY DEF LayInv, TableInv
<1>1. ASSUME Solve, UNCHANGED table PROVE LayInv'
  <2>1. prob' = prob
    BY <1>1 DEF Solve, GreedySeed, SeedEnds, SearchEnds, RemoveNodes, InsertCheapest,
                InsertAnyway, InsertEnds, OrOptTry, OrOptNext, OrOptOuter, TwoOptImprove,
                CrossExchangeImprove, TwoOptStarImprove, Improve, Accept
  <2>2. pc' \in Phases /\ pc' \notin Laying \union {"read"}
    BY <1>0, <1>1, SolvePhases
  <2>3. /\ todo' \in Seq(Seq(Stops))
        /\ UNCHANGED <<db, clock, driveCum, emitted, answer, published, advances>>
    BY <1>0, <1>1 DEF table
  <2> QED BY <2>1, <2>2, <2>3, PlanStep
<1>2. ASSUME PlanEmpty \/ PlanGreedy \/ PlanAlns \/ TakeSolution PROVE LayInv'
  <2>1. /\ prob' = prob /\ pc' \in {"route", "seed"}
        /\ UNCHANGED <<db, clock, driveCum, emitted, answer, published, advances>>
    BY <1>2 DEF PlanEmpty, PlanGreedy, PlanAlns, TakeSolution, table
  <2>2. todo' \in Seq(Seq(Stops))
    <3>1. CASE PlanEmpty
      <4>1. todo' = << <<>> >> /\ <<>> \in Seq(Stops)
        BY <3>1 DEF PlanEmpty
      <4> QED BY <4>1
    <3>2. CASE PlanGreedy
      <4>1. todo' = [c \in DOMAIN Seeds |-> GreedyOrder(c)] /\ prob.n >= 2 /\ prob.n \in Nat
        BY <1>0, <3>2, ProblemFacts DEF PlanGreedy
      <4>2. prob.n >= 1
        BY <4>1
      <4>3. [c \in DOMAIN Seeds |-> GreedyOrder(c)] \in Seq(Seq(Stops))
        BY <1>0, <4>2, GreedyPlanType
      <4> QED BY <4>1, <4>3
    <3>3. CASE PlanAlns
      BY <1>0, <3>3 DEF PlanAlns, table
    <3>4. CASE TakeSolution
      BY <3>4, TakenType DEF TakeSolution
    <3> QED BY <1>2, <3>1, <3>2, <3>3, <3>4
  <2>3. pc' \in Phases /\ pc' \notin Laying \union {"read"}
    BY <2>1 DEF Phases, Laying
  <2> QED BY <2>1, <2>2, <2>3, PlanStep
<1>3. ASSUME NoReturnLeg PROVE LayInv'
  <2>1. pc = "hops" /\ pc' = "read" /\ prob' = prob /\ UNCHANGED table
    BY <1>3 DEF NoReturnLeg
  <2>2. TableInv'
    <3>1. pc' \in Phases
      BY <2>1 DEF Phases
    <3> QED BY <2>1, <3>1 DEF LayInv, TableInv, Stops, table
  <2>3. pc' \notin Laying /\ pc \in Laying \union {"read"} /\ db' = db
    BY <2>1 DEF Laying, table
  <2> QED BY <2>1, <2>2, <2>3, RowsKept
<1>4. ASSUME StatementFails PROVE LayInv'
  <2>1. /\ pc' = "failed" /\ prob' = prob /\ todo' \in Seq(Seq(Stops))
        /\ UNCHANGED <<db, clock, driveCum, emitted, answer, published, advances>>
    BY <1>0, <1>4 DEF StatementFails, table
  <2>2. pc' \in Phases /\ pc' \notin Laying \union {"read"}
    BY <2>1 DEF Phases, Laying
  <2> QED BY <2>1, <2>2, PlanStep
<1>5. ASSUME UNCHANGED vars PROVE LayInv'
  BY <1>5 DEF vars, table, LayInv, TableInv, Stops, Laying
<1> QED
  BY <1>1, <1>2, <1>3, <1>4, <1>5, InsertRouteStep, InsertDepotLegStep, InsertBreakStep,
     InsertLegStep, InsertReturnLegStep, ReadRouteStep, RespondStep, AdvanceStep
  DEF Next, Planner, Done

LEMMA LayInit == Init => LayInv
<1> SUFFICES ASSUME Init PROVE LayInv
  OBVIOUS
<1>1. /\ prob \in Problems /\ pc = "request" /\ todo = <<>> /\ db = <<>> /\ clock = Now
      /\ driveCum = 0 /\ emitted = {} /\ answer = {} /\ published = {} /\ advances = 0
  BY DEF Init
<1>2. TableInv
  <2>1. Now \in Nat /\ 0 \in 0 .. MaxAdvances
    BY PlanningAssumption
  <2> QED BY <1>1, <2>1 DEF TableInv, Phases, Known
<1>3. db \in Seq(Rows(prob)) /\ \A r \in 1 .. Len(db) : RowInv(prob, db[r])
  <2>1. Len(<<>>) = 0 /\ \A r \in 1 .. 0 : FALSE
    OBVIOUS
  <2>2. <<>> \in Seq(Rows(prob))
    OBVIOUS
  <2> QED BY <1>1, <2>1, <2>2
<1> QED BY <1>1, <1>2, <1>3 DEF LayInv, Laying

LEMMA LayAlways == Spec => [](SearchInv /\ LayInv)
<1>1. Init => SearchInv /\ LayInv
  BY SearchInit, LayInit
<1>2. SearchInv /\ LayInv /\ [Next]_vars => (SearchInv /\ LayInv)'
  BY SearchNext, LayNext
<1> QED BY <1>1, <1>2, PTL DEF Spec

\* The tables, the orders and the search keep their types for every set of problems: each
\* stop a route names exists, no route has more legs than its order allows for, and the
\* breaks announced belong to routes that were written.
THEOREM PlanningTypes == Spec => []TypeOK
<1>1. SearchInv /\ LayInv => TypeOK
  <2> SUFFICES ASSUME SearchInv, LayInv PROVE TypeOK
    OBVIOUS
  <2>1. /\ pc \in Phases /\ todo \in Seq(Seq(Stops)) /\ clock \in Nat /\ driveCum \in Nat
        /\ advances \in 0 .. MaxAdvances
        /\ Known(emitted, Len(db)) /\ Known(answer, Len(db)) /\ Known(published, Len(db))
        /\ db \in Seq(Rows(prob)) /\ \A r \in 1 .. Len(db) : RowInv(prob, db[r])
    BY DEF LayInv, TableInv
  <2>2. /\ curr \in [Vehicles -> Seq(Stops)] /\ best \in [Vehicles -> Seq(Stops)]
        /\ removed \in Seq(Stops) /\ insertOp \in InsertOps
    BY DEF SearchInv, Plans
  <2>3. iter \in 0 .. prob.limit
    BY ProblemFacts DEF SearchInv
  <2>4. DOMAIN db = 1 .. Len(db)
    <3> HIDE DEF Rows
    <3> QED BY <2>1
  <2>5. ASSUME NEW r \in DOMAIN db
        PROVE  /\ db[r].order \in Seq(Stops) /\ db[r].legs \in Seq(LegType)
               /\ db[r].laid \in 0 .. Len(db[r].order) + 1 /\ db[r].ahead \in BOOLEAN
    <3>1. PICK x \in Rows(prob) : x = db[r] /\ x.laid <= Len(x.order) + 1
      BY <2>1, <2>4 DEF RowInv
    <3>2. x.order \in Seq(1 .. prob.n) /\ x.legs \in Seq(LegType) /\ x.laid \in Nat
      BY RowFields
    <3>3. x.ahead \in BOOLEAN
      BY RowFields
    <3>4. Len(x.order) \in Nat /\ x.laid \in 0 .. Len(x.order) + 1
      BY <3>1, <3>2
    <3> QED BY <3>1, <3>2, <3>3, <3>4 DEF Stops
  <2>6. \A S \in {emitted, answer, published} : \A x \in S : x[1] \in DOMAIN db
    BY <2>1, <2>4 DEF Known
  <2> QED BY <2>1, <2>2, <2>3, <2>5, <2>6 DEF TypeOK
<1> QED BY <1>1, LayAlways, PTL

LEMMA RowsOf ==
    ASSUME LayInv, NEW r \in DOMAIN db
    PROVE  /\ Timed(prob, db[r].legs) /\ Begun(db[r].legs, db[r].ahead)
           /\ Limited(prob, db[r].legs) /\ DOMAIN db[r].legs = 1 .. Len(db[r].legs)
           /\ Len(db[r].legs) \in Nat
<1>1. db \in Seq(Rows(prob)) /\ \A q \in 1 .. Len(db) : RowInv(prob, db[q])
  BY DEF LayInv
<1>2. r \in 1 .. Len(db)
  <2> HIDE DEF Rows
  <2> QED BY <1>1
<1>3. PICK x \in Rows(prob) : x = db[r]
  BY <1>1, <1>2 DEF RowInv
<1>4. x.legs \in Seq(LegType)
  BY RowFields
<1>5. Timed(prob, x.legs) /\ Begun(x.legs, x.ahead) /\ Limited(prob, x.legs)
  BY <1>1, <1>2, <1>3 DEF RowInv
<1>6. DOMAIN x.legs = 1 .. Len(x.legs) /\ Len(x.legs) \in Nat
  BY <1>4
<1> QED BY <1>3, <1>5, <1>6

\* Every route that PlanRoutes writes has times that fit together, whatever the request
\* and however clients advance the route meanwhile: the legs follow each other, and every
\* stop that a leg leads to is reached when its window is open at the earliest, and served
\* before the next leg.  The first stop of a route without a depot is not among them.
THEOREM TimesFit == Spec => []TimesAddUp
<1>1. LayInv => TimesAddUp
  BY RowsOf DEF TimesAddUp, Timed, InTime
<1> QED BY <1>1, LayAlways, PTL

\* The first leg of a route that was not visited is in progress, at every moment of the
\* layout, unless clients had advanced the route to the end of its legs.
THEOREM CurrentLegs == Spec => []CurrentLegBegun
<1>1. LayInv => CurrentLegBegun
  BY RowsOf DEF CurrentLegBegun, Begun
<1> QED BY <1>1, LayAlways, PTL

\* The breaks that PlanRoutes inserts keep the drives between them within the limit,
\* for every order of stops.
THEOREM LimitsKept == Spec => []DriveLimitKept
<1>1. LayInv => DriveLimitKept
  <2> SUFFICES ASSUME LayInv, prob.hosMax > 0, NEW r \in DOMAIN db,
                      NEW s \in DOMAIN db[r].legs \ {1},
                      db[r].legs[s].to # 0, db[r].legs[s - 1].kind = "drive"
               PROVE  DrivenSince(db[r].legs)[s] <= prob.hosMax
    BY DEF DriveLimitKept
  <2>1. PICK l : l = db[r].legs
    OBVIOUS
  <2>2. Limited(prob, l) /\ DOMAIN l = 1 .. Len(l) /\ Len(l) \in Nat
    BY <2>1, RowsOf
  <2>3. s \in 2 .. Len(l)
    BY <2>1, <2>2
  <2> QED BY <2>1, <2>2, <2>3 DEF Limited
<1> QED BY <1>1, LayAlways, PTL

=============================================================================
