---------------------------- MODULE BrokerProofs ----------------------------
(***************************************************************************)
(* The safety of the broker for any number of streams and routes and any   *)
(* buffer size.  ChannelInv ties the broker's map to the streams' control  *)
(* state; from it follow the absence of panics and, with PublishedInv, the *)
(* order and completeness of what the streams deliver.                     *)
(***************************************************************************)
EXTENDS Broker, Integers, TLAPS

\* What appending to a buffer does to its elements.
LEMMA AppendFacts ==
    ASSUME NEW q \in Seq(Nat), NEW e \in Nat
    PROVE  /\ Append(q, e) \in Seq(Nat)
           /\ Len(Append(q, e)) = Len(q) + 1
           /\ DOMAIN Append(q, e) = 1 .. Len(q) + 1
           /\ \A i \in 1 .. Len(q) : Append(q, e)[i] = q[i]
           /\ Append(q, e)[Len(q) + 1] = e
  OBVIOUS

\* What receiving from a buffer leaves in it.
LEMMA TailFacts ==
    ASSUME NEW q \in Seq(Nat), q # <<>>
    PROVE  /\ Tail(q) \in Seq(Nat)
           /\ Len(q) \in Nat \ {0}
           /\ Len(Tail(q)) = Len(q) - 1
           /\ DOMAIN Tail(q) = 1 .. Len(q) - 1
           /\ \A i \in 1 .. Len(q) - 1 : Tail(q)[i] = q[i + 1]
           /\ Head(q) = q[1] /\ Head(q) \in Nat
  OBVIOUS

ControlInv == TypeOK /\ ChannelInv /\ NoPanic

LEMMA InitControl == Init => ControlInv
<1>1. <<>> \in Seq(Nat) /\ Len(<<>>) = 0
  OBVIOUS
<1>2. ASSUME Init
      PROVE  buf \in [Streams -> Seq(Nat)] /\ \A s \in Streams : Len(buf[s]) <= Capacity
  BY <1>1, <1>2, BrokerAssumption DEF Init
<1>3. ASSUME Init PROVE ChannelInv
  BY <1>3 DEF Init, ChannelInv
<1>4. ASSUME Init PROVE panicked \in BOOLEAN /\ NoPanic
  BY <1>4, Zenon DEF Init, NoPanic
<1>5. ASSUME Init PROVE TypeOK
  <2>1. /\ subs \in [Routes -> SUBSET Streams] /\ closed \subseteq Streams
        /\ stream \in [Streams -> {"new", "open", "leaving", "removed", "done"}]
        /\ route \in [Streams -> Routes]
    BY <1>5 DEF Init
  <2>2. /\ got \in [Streams -> Nat] /\ missed \in [Streams -> SUBSET Nat]
        /\ first \in [Streams -> Nat]
        /\ calls \in [Routes -> Nat] /\ published \in [Routes -> Nat]
    BY <1>5 DEF Init
  <2> QED BY <1>2, <1>4, <1>5, <2>1, <2>2, Zenon DEF TypeOK
<1> QED BY <1>3, <1>4, <1>5, Zenon DEF ControlInv

LEMMA ControlStep == ControlInv /\ [Next]_vars => ControlInv'
<1> SUFFICES ASSUME ControlInv, [Next]_vars PROVE ControlInv'
  OBVIOUS
<1> USE BrokerAssumption DEF ControlInv, TypeOK, ChannelInv, NoPanic
<1>1. ASSUME NEW s \in Streams, Subscribe(s) PROVE ControlInv'
  BY <1>1, SMTT(30) DEF Subscribe
<1>2. ASSUME NEW s \in Streams, Unsubscribe(s) PROVE ControlInv'
  BY <1>2, SMTT(30) DEF Unsubscribe
<1>3. ASSUME NEW s \in Streams, Close(s) PROVE ControlInv'
  BY <1>3 DEF Close
<1>4. ASSUME NEW s \in Streams, Forward(s) PROVE ControlInv'
  <2>1. /\ Tail(buf[s]) \in Seq(Nat) /\ Len(Tail(buf[s])) <= Capacity
        /\ Head(buf[s]) \in Nat
    BY <1>4, TailFacts DEF Forward
  <2> QED BY <1>4, <2>1, SMTT(30) DEF Forward
<1>5. ASSUME NEW s \in Streams, ClientGone(s) PROVE ControlInv'
  BY <1>5, SMTT(30) DEF ClientGone, chans
<1>6. ASSUME NEW r \in Routes, CallPublish(r) PROVE ControlInv'
  BY <1>6 DEF CallPublish, chans, clients
<1>7. ASSUME NEW r \in Routes, Publish(r) PROVE ControlInv'
  <2>1. published[r] + 1 \in Nat
    OBVIOUS
  <2>2. ASSUME NEW s \in Streams
        PROVE  buf'[s] \in Seq(Nat) /\ Len(buf'[s]) <= Capacity
    BY <1>7, <2>1, AppendFacts DEF Publish, Full
  <2>3. missed' \in [Streams -> SUBSET Nat] /\ published' \in [Routes -> Nat]
    <3>1. missed \in [Streams -> SUBSET Nat] /\ published \in [Routes -> Nat]
      OBVIOUS
    <3> HIDE DEF ControlInv, TypeOK, ChannelInv, NoPanic
    <3>2. ASSUME NEW s \in Streams PROVE missed'[s] \in SUBSET Nat
      BY <1>7, <2>1, <3>1 DEF Publish
    <3>3. missed' \in [Streams -> SUBSET Nat]
      BY <1>7, <3>2 DEF Publish
    <3>4. published' \in [Routes -> Nat]
      BY <1>7, <2>1, <3>1 DEF Publish
    <3> QED BY <3>3, <3>4
  <2>4. ~panicked'
    BY <1>7 DEF Publish
  <2>5. buf' \in [Streams -> Seq(Nat)]
    BY <1>7, <2>2 DEF Publish
  <2> QED BY <1>7, <2>2, <2>3, <2>4, <2>5 DEF Publish
<1>8. CASE UNCHANGED vars
  BY <1>8 DEF vars, chans, clients
<1> QED BY <1>1, <1>2, <1>3, <1>4, <1>5, <1>6, <1>7, <1>8 DEF Next

\* No interleaving of subscribing, publishing and leaving streams sends on a closed
\* channel or closes one twice, and no buffer exceeds its capacity.
THEOREM BrokerNeverPanics == Spec => [](TypeOK /\ NoPanic)
<1>1. ControlInv => TypeOK /\ NoPanic
  BY DEF ControlInv
<1> QED BY InitControl, ControlStep, <1>1, PTL DEF Spec

\* The broker's map and the streams keep their types, and no buffer is filled beyond the
\* capacity its channel was made with.
THEOREM BrokerTypes == Spec => []TypeOK
  BY BrokerNeverPanics, PTL

----------------------------------------------------------------------------
(* Order and completeness. *)

StreamInv == PublishedInv /\ InOrder /\ GapsOnlyFromOverflow

LEMMA InitStream == Init => StreamInv
  BY DEF Init, StreamInv, PublishedInv, InOrder, GapsOnlyFromOverflow

LEMMA StreamStep == ControlInv /\ StreamInv /\ [Next]_vars => StreamInv'
<1> SUFFICES ASSUME ControlInv, StreamInv, [Next]_vars PROVE StreamInv'
  OBVIOUS
<1>0. TypeOK /\ ChannelInv
  BY DEF ControlInv
<1>1. ASSUME NEW s \in Streams, Subscribe(s) PROVE StreamInv'
  BY <1>0, <1>1, SMTT(30)
  DEF Subscribe, StreamInv, PublishedInv, InOrder, GapsOnlyFromOverflow, TypeOK
<1>2. ASSUME NEW s \in Streams, Unsubscribe(s) PROVE StreamInv'
  BY <1>0, <1>2
  DEF Unsubscribe, StreamInv, PublishedInv, InOrder, GapsOnlyFromOverflow, TypeOK
<1>3. ASSUME NEW s \in Streams, Close(s) PROVE StreamInv'
  BY <1>0, <1>3
  DEF Close, StreamInv, PublishedInv, InOrder, GapsOnlyFromOverflow, TypeOK
<1>4. ASSUME NEW s \in Streams, Forward(s) PROVE StreamInv'
  <2>1. /\ Len(buf[s]) \in Nat \ {0}
        /\ DOMAIN buf[s] = 1 .. Len(buf[s])
        /\ DOMAIN buf'[s] = 1 .. Len(buf[s]) - 1
        /\ \A i \in 1 .. Len(buf[s]) - 1 : buf'[s][i] = buf[s][i + 1]
        /\ got'[s] = buf[s][1]
    BY <1>0, <1>4, TailFacts DEF Forward, TypeOK
  <2>2. \A t \in Streams \ {s} : buf'[t] = buf[t] /\ got'[t] = got[t]
    BY <1>0, <1>4 DEF Forward, TypeOK
  <2>3. UNCHANGED <<stream, route, missed, first, published>>
    BY <1>4 DEF Forward
  <2>4. \A i \in 1 .. Len(buf[s]) : buf[s][i] \in Nat
    BY <1>0 DEF TypeOK
  <2>5. PublishedInv'
    BY <1>4, <2>1, <2>2, <2>3 DEF PublishedInv, StreamInv, Forward
  <2>6. InOrder'
    <3> SUFFICES ASSUME NEW t \in Streams
                 PROVE  /\ \A i, j \in DOMAIN buf'[t] : i < j => buf'[t][i] < buf'[t][j]
                        /\ \A i \in DOMAIN buf'[t] :
                              got'[t] < buf'[t][i] /\ buf'[t][i] \notin missed[t]
      BY <2>3 DEF InOrder
    <3>1. /\ \A i, j \in DOMAIN buf[t] : i < j => buf[t][i] < buf[t][j]
          /\ \A i \in DOMAIN buf[t] : got[t] < buf[t][i] /\ buf[t][i] \notin missed[t]
      BY DEF StreamInv, InOrder
    <3>2. CASE t # s
      BY <2>2, <3>1, <3>2
    <3>3. CASE t = s
      <4>1. ASSUME NEW i \in DOMAIN buf'[s]
            PROVE  /\ i \in Int /\ 1 < i + 1
                   /\ 1 \in DOMAIN buf[s] /\ i + 1 \in DOMAIN buf[s]
                   /\ buf'[s][i] = buf[s][i + 1]
        BY <2>1
      <4>2. ASSUME NEW i \in DOMAIN buf'[s]
            PROVE  got'[s] < buf'[s][i] /\ buf'[s][i] \notin missed[s]
        BY <2>1, <3>1, <3>3, <4>1
      <4>3. ASSUME NEW i \in DOMAIN buf'[s], NEW j \in DOMAIN buf'[s], i < j
            PROVE  buf'[s][i] < buf'[s][j]
        <5>1. i + 1 < j + 1
          BY <4>1, <4>3
        <5> QED BY <3>1, <3>3, <4>1, <5>1
      <4> QED BY <3>3, <4>2, <4>3
    <3> QED BY <3>2, <3>3
  <2>7. GapsOnlyFromOverflow'
    <3> SUFFICES ASSUME NEW t \in Streams, stream[t] = "open",
                        NEW e \in first[t] + 1 .. published[route[t]]
                 PROVE  \/ e <= got'[t] \/ e \in missed[t]
                        \/ \E i \in DOMAIN buf'[t] : buf'[t][i] = e
      BY <2>3 DEF GapsOnlyFromOverflow
    <3>1. e <= got[t] \/ e \in missed[t] \/ \E i \in DOMAIN buf[t] : buf[t][i] = e
      BY DEF StreamInv, GapsOnlyFromOverflow
    <3>2. CASE t # s
      BY <2>2, <3>1, <3>2
    <3>3. CASE t = s
      <4>1. got[s] < buf[s][1]
        BY <2>1 DEF StreamInv, InOrder
      <4>2. ASSUME NEW i \in DOMAIN buf[s], buf[s][i] = e
            PROVE  e <= got'[s] \/ \E j \in DOMAIN buf'[s] : buf'[s][j] = e
        <5>1. CASE i = 1
          BY <2>1, <2>4, <4>2, <5>1
        <5>2. CASE i # 1
          <6>1. i - 1 \in DOMAIN buf'[s] /\ buf'[s][i - 1] = e
            BY <2>1, <4>2, <5>2
          <6> QED BY <6>1
        <5> QED BY <5>1, <5>2
      <4>3. e \in Int /\ got[s] \in Nat /\ got'[s] \in Nat
        BY <1>0, <2>1, <2>4 DEF TypeOK
      <4>4. e <= got[s] => e <= got'[s]
        BY <2>1, <4>1, <4>3
      <4> QED BY <3>1, <3>3, <4>2, <4>4
    <3> QED BY <3>2, <3>3
  <2> QED BY <2>5, <2>6, <2>7 DEF StreamInv
<1>5. ASSUME NEW s \in Streams, ClientGone(s) PROVE StreamInv'
  BY <1>0, <1>5
  DEF ClientGone, chans, StreamInv, PublishedInv, InOrder, GapsOnlyFromOverflow, TypeOK
<1>6. ASSUME NEW r \in Routes, CallPublish(r) PROVE StreamInv'
  BY <1>6
  DEF CallPublish, chans, clients, StreamInv, PublishedInv, InOrder, GapsOnlyFromOverflow
<1>7. ASSUME NEW r \in Routes, Publish(r) PROVE StreamInv'
  <2> DEFINE evt == published[r] + 1
             Taken(t) == t \in subs[r] /\ ~Full(t)
             Lost(t) == t \in subs[r] /\ Full(t)
  <2>0. published \in [Routes -> Nat] /\ evt \in Nat
    BY <1>0 DEF TypeOK
  <2>1. ASSUME NEW t \in Streams
        PROVE  /\ route[t] \in Routes /\ got[t] \in Nat
               /\ buf[t] \in Seq(Nat) /\ Len(buf[t]) \in Nat
               /\ DOMAIN buf[t] = 1 .. Len(buf[t])
               /\ \A i \in 1 .. Len(buf[t]) : buf[t][i] \in Nat
    BY <1>0 DEF TypeOK
  <2>2. UNCHANGED <<stream, route, got, first>>
    BY <1>7 DEF Publish
  <2>3. ASSUME NEW t \in Streams, ~Taken(t) PROVE buf'[t] = buf[t]
    BY <1>7, <2>3 DEF Publish
  <2>4. ASSUME NEW t \in Streams, Taken(t)
        PROVE  /\ DOMAIN buf'[t] = 1 .. Len(buf[t]) + 1
               /\ \A i \in 1 .. Len(buf[t]) : buf'[t][i] = buf[t][i]
               /\ buf'[t][Len(buf[t]) + 1] = evt
               /\ route[t] = r
    <3>1. buf'[t] = Append(buf[t], evt)
      BY <1>7, <2>4 DEF Publish
    <3>2. route[t] = r
      BY <1>0, <2>4 DEF ChannelInv
    <3> QED BY <2>0, <2>1, <3>1, <3>2, AppendFacts
  <2>5. ASSUME NEW t \in Streams
        PROVE  missed'[t] = IF Lost(t) THEN missed[t] \union {evt} ELSE missed[t]
    BY <1>7 DEF Publish
  <2>6. ASSUME NEW t \in Streams
        PROVE  published'[route[t]] = IF route[t] = r THEN evt ELSE published[route[t]]
    BY <1>7, <2>0, <2>1 DEF Publish
  <2>7. ASSUME NEW t \in Streams PROVE t \in subs[r] => route[t] = r /\ stream[t] # "new"
    BY <1>0 DEF ChannelInv
  <2>8. PublishedInv'
    <3> SUFFICES ASSUME NEW t \in Streams
                 PROVE  /\ stream[t] = "new" =>
                            buf'[t] = <<>> /\ got[t] = 0 /\ missed'[t] = {}
                        /\ got[t] <= published'[route[t]]
                        /\ \A i \in DOMAIN buf'[t] : buf'[t][i] <= published'[route[t]]
                        /\ \A e \in missed'[t] : e <= published'[route[t]]
      BY <2>2 DEF PublishedInv
    <3>1. /\ stream[t] = "new" => buf[t] = <<>> /\ got[t] = 0 /\ missed[t] = {}
          /\ got[t] <= published[route[t]]
          /\ \A i \in DOMAIN buf[t] : buf[t][i] <= published[route[t]]
          /\ \A e \in missed[t] : e <= published[route[t]]
      BY DEF StreamInv, PublishedInv
    <3>2. published[route[t]] \in Nat /\ published[route[t]] <= published'[route[t]]
      BY <2>0, <2>1, <2>6
    <3>3. missed[t] \subseteq Nat
      BY <1>0 DEF TypeOK
    <3>4. stream[t] = "new" => buf'[t] = <<>> /\ got[t] = 0 /\ missed'[t] = {}
      BY <2>3, <2>5, <2>7, <3>1
    <3>5. \A i \in DOMAIN buf'[t] : buf'[t][i] <= published'[route[t]]
      <4>1. CASE Taken(t)
        <5>1. published'[route[t]] = evt /\ published[route[t]] < evt
          BY <2>0, <2>4, <2>6, <4>1
        <5>2. ASSUME NEW i \in DOMAIN buf'[t] PROVE buf'[t][i] <= evt
          <6>1. CASE i = Len(buf[t]) + 1
            BY <2>0, <2>4, <4>1, <6>1
          <6>2. CASE i # Len(buf[t]) + 1
            <7>2. Len(buf[t]) \in Nat /\ DOMAIN buf[t] = 1 .. Len(buf[t])
              BY <2>1
            <7>3. i \in 1 .. Len(buf[t]) + 1
              BY <2>4, <4>1, <5>2
            <7>4. i \in 1 .. Len(buf[t])
              BY <6>2, <7>2, <7>3
            <7>5. buf'[t][i] = buf[t][i]
              BY <2>4, <4>1, <7>4
            <7>1. i \in DOMAIN buf[t] /\ buf'[t][i] = buf[t][i] /\ buf[t][i] \in Nat
              BY <2>1, <7>2, <7>4, <7>5
            <7> QED BY <2>0, <2>1, <3>1, <5>1, <7>1
          <6> QED BY <6>1, <6>2
        <5> QED BY <5>1, <5>2
      <4>2. CASE ~Taken(t)
        <5>1. buf'[t] = buf[t]
          BY <2>3, <4>2
        <5>2. ASSUME NEW i \in DOMAIN buf[t] PROVE buf[t][i] <= published'[route[t]]
          <6>1. /\ buf[t][i] \in Nat /\ buf[t][i] <= published[route[t]]
                /\ published'[route[t]] \in Nat
            BY <2>0, <2>1, <2>6, <3>1
          <6> QED BY <3>2, <6>1
        <5> QED BY <5>1, <5>2
      <4> QED BY <4>1, <4>2
    <3>6. \A e \in missed'[t] : e <= published'[route[t]]
      <4>1. published'[route[t]] \in Nat
        BY <2>0, <2>1, <2>6
      <4>2. Lost(t) => published'[route[t]] = evt
        BY <2>6, <2>7
      <4>3. ASSUME NEW e \in missed'[t] PROVE e \in missed[t] \/ (Lost(t) /\ e = evt)
        BY <2>5, <4>3
      <4>4. ASSUME NEW e \in missed[t] PROVE e <= published'[route[t]]
        <5>1. e \in Nat /\ e <= published[route[t]]
          BY <3>1, <3>3, <4>4
        <5> QED BY <3>2, <4>1, <5>1
      <4>5. evt <= evt
        BY <2>0
      <4> QED BY <4>2, <4>3, <4>4, <4>5
    <3> QED BY <2>0, <2>1, <2>6, <3>1, <3>2, <3>4, <3>5, <3>6
  <2>9. InOrder'
    <3> SUFFICES ASSUME NEW t \in Streams
                 PROVE  /\ \A i, j \in DOMAIN buf'[t] : i < j => buf'[t][i] < buf'[t][j]
                        /\ \A i \in DOMAIN buf'[t] :
                              got[t] < buf'[t][i] /\ buf'[t][i] \notin missed'[t]
      BY <2>2 DEF InOrder
    <3>1. /\ \A i, j \in DOMAIN buf[t] : i < j => buf[t][i] < buf[t][j]
          /\ \A i \in DOMAIN buf[t] : got[t] < buf[t][i] /\ buf[t][i] \notin missed[t]
      BY DEF StreamInv, InOrder
    <3>2. /\ got[t] <= published[route[t]]
          /\ \A i \in DOMAIN buf[t] : buf[t][i] <= published[route[t]]
          /\ \A e \in missed[t] : e <= published[route[t]]
      BY DEF StreamInv, PublishedInv
    <3>3. missed[t] \subseteq Nat
      BY <1>0 DEF TypeOK
    <3>4. CASE Taken(t)
      <4>1. missed'[t] = missed[t] /\ route[t] = r
        BY <2>4, <2>5, <3>4
      <4>2. evt \notin missed[t] /\ got[t] < evt
        BY <2>0, <2>1, <3>2, <3>3, <4>1
      <4>3. \A i \in 1 .. Len(buf[t]) : buf[t][i] < evt
        BY <2>0, <2>1, <3>2, <4>1
      <4>4. /\ DOMAIN buf'[t] = 1 .. Len(buf[t]) + 1
            /\ \A i \in 1 .. Len(buf[t]) : buf'[t][i] = buf[t][i]
            /\ buf'[t][Len(buf[t]) + 1] = evt
        BY <2>4, <3>4
      <4>5. ASSUME NEW i \in DOMAIN buf'[t]
            PROVE  \/ i = Len(buf[t]) + 1 /\ buf'[t][i] = evt
                   \/ i \in DOMAIN buf[t] /\ buf'[t][i] = buf[t][i]
        BY <2>1, <4>4, SMTT(30)
      <4> HIDE DEF evt
      <4>6. ASSUME NEW i \in DOMAIN buf'[t]
            PROVE  got[t] < buf'[t][i] /\ buf'[t][i] \notin missed'[t]
        BY <3>1, <4>1, <4>2, <4>5
      <4>7. ASSUME NEW i \in DOMAIN buf'[t], NEW j \in DOMAIN buf'[t], i < j
            PROVE  buf'[t][i] < buf'[t][j]
        <5>1. i \in DOMAIN buf[t] /\ buf'[t][i] = buf[t][i]
          BY <2>1, <4>4, <4>5, <4>7
        <5> QED BY <2>1, <3>1, <4>3, <4>5, <4>7, <5>1
      <4> QED BY <4>6, <4>7
    <3>5. CASE ~Taken(t)
      <4>1. \A i \in DOMAIN buf[t] : Lost(t) => buf[t][i] # evt
        BY <2>0, <2>1, <2>7, <3>2
      <4> QED BY <2>3, <2>5, <3>1, <3>5, <4>1
    <3> QED BY <3>4, <3>5
  <2>10. GapsOnlyFromOverflow'
    <3> SUFFICES ASSUME NEW t \in Streams, stream[t] = "open",
                        NEW e \in first[t] + 1 .. published'[route[t]]
                 PROVE  \/ e <= got[t] \/ e \in missed'[t]
                        \/ \E i \in DOMAIN buf'[t] : buf'[t][i] = e
      BY <2>2 DEF GapsOnlyFromOverflow
    <3>1. t \in subs[route[t]] /\ first[t] \in Nat
      BY <1>0 DEF ChannelInv, TypeOK
    <3>2. CASE e <= published[route[t]]
      <4>1. e \in first[t] + 1 .. published[route[t]]
        BY <2>0, <2>1, <3>1, <3>2
      <4>2. e <= got[t] \/ e \in missed[t] \/ \E i \in DOMAIN buf[t] : buf[t][i] = e
        BY <4>1 DEF StreamInv, GapsOnlyFromOverflow
      <4>3. ASSUME NEW i \in DOMAIN buf[t] PROVE i \in DOMAIN buf'[t] /\ buf'[t][i] = buf[t][i]
        BY <2>1, <2>3, <2>4, SMTT(30)
      <4> QED BY <2>5, <4>2, <4>3
    <3>3. CASE ~(e <= published[route[t]])
      <4>1. route[t] = r /\ e = evt
        BY <2>0, <2>1, <2>6, <3>1, <3>3
      <4>2. CASE Full(t)
        BY <2>5, <3>1, <4>1, <4>2
      <4>3. CASE ~Full(t)
        <5>1. Len(buf[t]) + 1 \in DOMAIN buf'[t] /\ buf'[t][Len(buf[t]) + 1] = e
          BY <2>1, <2>4, <3>1, <4>1, <4>3
        <5> QED BY <5>1
      <4> QED BY <4>2, <4>3
    <3> QED BY <3>2, <3>3
  <2> QED BY <2>8, <2>9, <2>10 DEF StreamInv
<1>8. CASE UNCHANGED vars
  BY <1>8
  DEF vars, chans, clients, StreamInv, PublishedInv, InOrder, GapsOnlyFromOverflow
<1> QED BY <1>1, <1>2, <1>3, <1>4, <1>5, <1>6, <1>7, <1>8 DEF Next

\* A stream writes its route's events in publication order, none twice, and leaves
\* out only those its own full buffer rejected.
THEOREM StreamsFaithful == Spec => [](InOrder /\ GapsOnlyFromOverflow)
<1>1. StreamInv => InOrder /\ GapsOnlyFromOverflow
  BY DEF StreamInv
<1> QED BY InitControl, ControlStep, InitStream, StreamStep, <1>1, PTL DEF Spec

\* What waits in a stream's channel is in the order of publication, newer than all that
\* was written to the client, and was not counted as dropped.
THEOREM StreamsInOrder == Spec => []InOrder
  BY StreamsFaithful, PTL

=============================================================================
