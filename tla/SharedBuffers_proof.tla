------------------------- MODULE SharedBuffers_proof --------------------------
(* Proofs about the shared statistics buffers, for any number of items from    *)
(* three on, any set of types and any number of sessions of the daemon.        *)
EXTENDS SharedBuffers, WellFoundedInduction, FiniteSetTheorems, SequenceTheorems, TLAPS

\* The type invariant in the parts that are proved one by one.
RingsOK == /\ st \in [Type -> [Item -> Status]]
           /\ rd \in [Type -> 0..N] /\ wr \in [Type -> Item]
HandsOK == /\ fw \in {"idle", "filling", "pairing", "got", "checked"}
           /\ dm \in {"closed", "idle", "fetching", "reading", "read", "using", "writing",
                     "closing", "resetting"}
           /\ seen \in [Type -> 0..N]
           /\ local \in [Type -> 0..N] /\ set \in [Type -> 0..N] /\ mine \in [Type -> 0..N]
OtherOK == /\ open \in BOOLEAN /\ paused \in BOOLEAN /\ fetched \in BOOLEAN
           /\ cal \in {"idle", "waiting", "copying", "copied"}
           /\ wdr \in Mode /\ cur \in Mode
           /\ lut \in Mode \cup {Mixed} /\ copy \in Mode \cup {Mixed}
           /\ resets \in 0..MaxResets

\* The item being filled will be the newest result.
PreparedIsNewest ==
  \A t \in Type : \A i \in With(t, "prepare"), k \in With(t, "done") :
    Dist(wr[t], k) < Dist(wr[t], i)

RingInv == RingsOK /\ ProducerNeverWaits /\ OldestFirst /\ PreparedIsNewest

\* What is counted as in use is in use, one item at most, and the other way
\* round; of a torn type nothing is in use and the count is not 0.
CountInv ==
  /\ using \in [Type -> -1..1] /\ torn \in SUBSET Type
  /\ \A t \in Type \ torn : using[t] = IF With(t, "using") = {} THEN 0 ELSE 1
  /\ TornStops

\* An item in use is named by one who will give it back, or the reset will come
\* to it.
Named ==
  \A t \in Type : \A i \in With(t, "using") : i \in Names(t) \/ dm = "closing" \/ Due(t, i)

\* Who names an item: what a thread fills is prepared; what the firmware has
\* taken out and what it published before are not both in use; outside its
\* calls the daemon's call holds nothing.
HandsInv ==
  /\ fw = "idle" => local = Nothing
  /\ fw = "filling" => \A t \in Type : local[t] # None => st[t][local[t]] = "prepare"
  /\ fw \notin {"idle", "filling"} =>
       \A t \in Type : local[t] # None /\ set[t] # None /\ st[t][set[t]] = "using"
                         => set[t] = local[t]
  /\ dm \in {"closed", "idle", "fetching", "reading", "closing", "resetting"} => mine = Nothing
  /\ dm # "resetting" => seen = Unseen

\* Within the first session the three hands hold different items, in use.
FirstSession ==
  resets = 0 /\ ~Closing =>
    \A t \in Type :
      /\ fw # "filling" /\ local[t] # None =>
           st[t][local[t]] = "using" /\ set[t] = None /\ mine[t] = None
      /\ set[t] # None => st[t][set[t]] = "using" /\ mine[t] = None
      /\ mine[t] # None => st[t][mine[t]] = "using"

\* Only an unlocked reset tears a count.
TornLate == torn # {} => dm = "resetting" \/ resets # 0

PausedWhileUpdating == cal # "idle" => paused
-----------------------------------------------------------------------------
(* Distances around the ring, and the nearest item.                            *)

\* A set of numbers has a least one.
LEMMA LeastNatural ==
  ASSUME NEW T \in SUBSET Nat, T # {}
  PROVE  \E x \in T : \A y \in T : x <= y
<1> DEFINE R == {ss \in Nat \X Nat : ss[1] < ss[2]}
<1>1. IsWellFoundedOn(R, Nat)
  BY NatLessThanWellFounded DEF OpToRel
<1>2. PICK x \in T : \A y \in T : ~(<<y, x>> \in R)
  <2> HIDE DEF R
  <2> QED BY <1>1, WFMin
<1>3. \A y \in T : ~(y < x)
  BY <1>2
<1> QED BY <1>3

\* Distances are between 1 and N, and an item is N from itself.
LEMMA DistRange ==
  ASSUME NEW i \in Item, NEW j \in Item
  PROVE  /\ Dist(i, j) \in 1..N
         /\ Dist(i, j) = N <=> i = j
BY SharedAssumption DEF Item, Dist

\* No two items are as far from a third.
LEMMA DistInjective ==
  ASSUME NEW i \in Item, NEW j \in Item, NEW k \in Item, Dist(i, j) = Dist(i, k)
  PROVE  j = k
BY SharedAssumption DEF Item, Dist

\* From the nearer one of two items, the other is as much nearer.
LEMMA DistShift ==
  ASSUME NEW i \in Item, NEW j \in Item, NEW k \in Item, Dist(i, j) < Dist(i, k)
  PROVE  Dist(j, k) = Dist(i, k) - Dist(i, j)
BY SharedAssumption DEF Item, Dist

\* After finds the nearest item.
LEMMA AfterNearest ==
  ASSUME NEW i \in Item, NEW S \in SUBSET Item, S # {}
  PROVE  After(i, S) \in S /\ \A k \in S : Dist(i, After(i, S)) <= Dist(i, k)
<1> DEFINE T == {Dist(i, k) : k \in S}
<1>1. T \in SUBSET Nat /\ T # {}
  BY DistRange, SharedAssumption
<1>2. PICK x \in T : \A y \in T : x <= y
  <2> HIDE DEF T
  <2> QED BY <1>1, LeastNatural
<1>3. \E j \in S : \A k \in S : Dist(i, j) <= Dist(i, k)
  BY <1>2
<1> QED BY <1>3 DEF After

LEMMA AfterType ==
  ASSUME NEW i \in Item, NEW S \in SUBSET Item
  PROVE  After(i, S) \in 0..N /\ (After(i, S) = None <=> S = {})
<1>1. CASE S = {}
  BY <1>1, SharedAssumption DEF After, None
<1>2. CASE S # {}
  <2>1. After(i, S) \in Item
    BY <1>2, AfterNearest
  <2>2. \A j \in Item : j \in 0..N /\ j # None
    BY SharedAssumption DEF None, Item
  <2> QED BY <1>2, <2>1, <2>2
<1> QED BY <1>1, <1>2
-----------------------------------------------------------------------------
(* The ring operations keep the rings.                                         *)

\* There is a slot for the next time, and only the item in use is passed over.
LEMMA NextWriteFree ==
  ASSUME RingInv, NEW t \in Type
  PROVE  LET w == wr[t] n == NextWrite(t, w) IN
         /\ n \in Item /\ n # w /\ st[t][n] # "using"
         /\ \A i \in Item \ {w, n} : st[t][i] # "using" => Dist(w, n) < Dist(w, i)
<1> DEFINE w == wr[t]
           S == {i \in Item \ {w} : st[t][i] # "using"}
           n == NextWrite(t, w)
<1>1. w \in Item
  BY DEF RingInv, RingsOK
<1>2. S # {}
  <2>1. PICK a \in Item, b \in Item : a # b /\ a # w /\ b # w
    <3>1. 0 \in Item /\ 1 \in Item /\ 2 \in Item
      BY SharedAssumption DEF Item
    <3> QED BY <3>1, <1>1 DEF Item
  <2>2. ~(st[t][a] = "using" /\ st[t][b] = "using")
    BY <2>1 DEF RingInv, ProducerNeverWaits
  <2> QED BY <2>1, <2>2
<1>3. n \in S /\ \A k \in S : Dist(w, n) <= Dist(w, k)
  BY <1>1, <1>2, AfterNearest DEF NextWrite
<1>4. ASSUME NEW i \in Item \ {w, n}, st[t][i] # "using"
      PROVE  Dist(w, n) < Dist(w, i)
  <2>1. Dist(w, n) <= Dist(w, i)
    BY <1>3, <1>4
  <2>2. Dist(w, n) # Dist(w, i)
    BY <1>1, <1>3, <1>4, DistInjective
  <2>3. Dist(w, n) \in Int /\ Dist(w, i) \in Int
    BY <1>1, <1>3, <1>4, DistRange, SharedAssumption
  <2> QED BY <2>1, <2>2, <2>3
<1> QED BY <1>3, <1>4

\* The invariants of the rings, type by type.
Good(t) ==
  /\ st[t][wr[t]] = "empty"
  /\ \A i, j \in Item : st[t][i] = st[t][j] /\ st[t][i] \in {"prepare", "using"} => i = j
  /\ rd[t] = None <=> With(t, "done") = {}
  /\ rd[t] # None =>
       /\ st[t][rd[t]] = "done"
       /\ \A i \in With(t, "done") : Dist(wr[t], rd[t]) <= Dist(wr[t], i)
  /\ \A i \in With(t, "prepare"), k \in With(t, "done") : Dist(wr[t], k) < Dist(wr[t], i)

LEMMA GoodRings == RingInv <=> RingsOK /\ \A t \in Type : Good(t)
BY DEF RingInv, Good, ProducerNeverWaits, OldestFirst, PreparedIsNewest

LEMMA GoodRingsNext == RingInv' <=> RingsOK' /\ \A t \in Type : Good(t)'
BY DEF RingInv, Good, ProducerNeverWaits, OldestFirst, PreparedIsNewest

\* A type whose ring a step leaves alone stays good.
LEMMA OtherType ==
  ASSUME NEW t \in Type, Good(t), st'[t] = st[t], rd'[t] = rd[t], wr'[t] = wr[t]
  PROVE  Good(t)'
BY DEF Good, With, None

LEMMA GetEmptyRing ==
  ASSUME RingInv, NEW t \in Type, GetEmpty(t)
  PROVE  RingInv'
<1> DEFINE w == wr[t]
           n == NextWrite(t, w)
           D == With(t, "done")
<1>1. RingsOK /\ w \in Item /\ st[t] \in [Item -> Status] /\ Good(t)
  BY GoodRings DEF RingsOK
<1>2. /\ n \in Item /\ n # w /\ st[t][n] # "using"
      /\ \A i \in Item \ {w, n} : st[t][i] # "using" => Dist(w, n) < Dist(w, i)
  BY NextWriteFree
<1>3. /\ With(t, "prepare") = {}
      /\ st' = [st EXCEPT ![t] = [@ EXCEPT ![w] = "prepare", ![n] = "empty"]]
      /\ wr' = [wr EXCEPT ![t] = n]
      /\ rd' = [rd EXCEPT ![t] = IF @ # n THEN @ ELSE After(n, D \ {n})]
  BY DEF GetEmpty
<1>4. D \subseteq Item /\ w \notin D
  BY <1>1 DEF With, Good
<1>5. After(n, D \ {n}) \in 0..N
  BY <1>2, <1>4, AfterType
<1> HIDE DEF n
<1>6. RingsOK'
  BY <1>1, <1>2, <1>3, <1>5 DEF RingsOK, Status
<1>7. /\ wr'[t] = n /\ rd'[t] = IF rd[t] # n THEN rd[t] ELSE After(n, D \ {n})
      /\ st'[t] = [st[t] EXCEPT ![w] = "prepare", ![n] = "empty"]
  BY <1>1, <1>3 DEF RingsOK
<1>8. /\ \A i \in Item \ {w, n} : st'[t][i] = st[t][i]
      /\ st'[t][n] = "empty" /\ st'[t][w] = "prepare"
  BY <1>1, <1>2, <1>7
<1>9. With(t, "done")' = D \ {n} /\ With(t, "prepare")' = {w}
  BY <1>1, <1>2, <1>3, <1>4, <1>8 DEF With
<1>10. \A i \in D \ {n} : Dist(n, i) = Dist(w, i) - Dist(w, n)
  BY <1>1, <1>2, <1>4, DistShift DEF With
<1>11. Dist(n, w) = N - Dist(w, n)
  BY <1>1, <1>2, SharedAssumption DEF Dist, Item
<1>12. \A i \in D : Dist(w, i) \in 1..N /\ Dist(w, i) < N
  BY <1>1, <1>4, DistRange, SharedAssumption
<1>13. Dist(w, n) \in 1..N
  BY <1>1, <1>2, DistRange
<1>14. Good(t)'
  <2>1. st'[t][wr'[t]] = "empty"
    BY <1>7, <1>8
  <2>2. ASSUME NEW i \in Item, NEW j \in Item, st'[t][i] = st'[t][j], st'[t][i] \in {"prepare", "using"}
        PROVE  i = j
    <3>1. \A k \in Item : st[t][k] # "prepare"
      BY <1>3 DEF With
    <3> QED BY <2>2, <3>1, <1>1, <1>8 DEF Good
  <2>3. rd'[t] = None <=> With(t, "done")' = {}
    <3>1. CASE rd[t] # n
      <4>1. rd[t] = None <=> D = {}
        BY <1>1 DEF Good
      <4>2. rd[t] # None => rd[t] \in D \ {n}
        BY <1>1, <3>1, SharedAssumption DEF Good, With, RingsOK, None, Item
      <4> QED BY <3>1, <4>1, <4>2, <1>7, <1>9
    <3>2. CASE rd[t] = n
      BY <3>2, <1>2, <1>4, <1>7, <1>9, AfterType
    <3> QED BY <3>1, <3>2
  <2>4. ASSUME rd'[t] # None
        PROVE  rd'[t] \in D \ {n} /\ \A i \in D \ {n} : Dist(n, rd'[t]) <= Dist(n, i)
    <3>1. CASE rd[t] # n
      <4>1. rd[t] \in D \ {n} /\ \A i \in D : Dist(w, rd[t]) <= Dist(w, i)
        BY <1>1, <2>4, <3>1, <1>7, SharedAssumption DEF Good, With, RingsOK, None, Item
      <4>2. \A i \in D \ {n} : Dist(n, rd[t]) <= Dist(n, i)
        BY <4>1, <1>10, <1>12, <1>13, SharedAssumption
      <4> QED BY <4>1, <4>2, <3>1, <1>7
    <3>2. CASE rd[t] = n
      <4>1. D \ {n} # {}
        BY <3>2, <2>4, <2>3, <1>9
      <4> QED BY <4>1, <3>2, <1>2, <1>4, <1>7, AfterNearest
    <3> QED BY <3>1, <3>2
  <2>5. \A k \in D \ {n} : Dist(n, k) < Dist(n, w)
    BY <1>10, <1>11, <1>12, <1>13, SharedAssumption
  <2>6. rd'[t] # None => st'[t][rd'[t]] = "done"
    BY <2>4, <1>8, <1>4 DEF With
  <2> QED BY <2>1, <2>2, <2>3, <2>4, <2>5, <2>6, <1>7, <1>9 DEF Good
<1>15. ASSUME NEW u \in Type \ {t} PROVE Good(u)'
  BY <1>1, <1>3, OtherType, GoodRings DEF RingsOK
<1> QED BY <1>6, <1>14, <1>15, GoodRingsNext

LEMMA SetDoneRing ==
  ASSUME RingInv, NEW t \in Type, NEW i \in Item, SetDone(t, i)
  PROVE  RingInv'
<1> DEFINE D == With(t, "done")
<1>1. RingsOK /\ st[t] \in [Item -> Status] /\ wr[t] \in Item /\ rd[t] \in 0..N /\ Good(t)
  BY GoodRings DEF RingsOK
<1>2. CASE st[t][i] # "prepare"
  <2>1. UNCHANGED rings
    BY <1>2 DEF SetDone
  <2> QED BY <2>1 DEF rings, RingInv, RingsOK, ProducerNeverWaits, OldestFirst, PreparedIsNewest, With, None
<1>3. CASE st[t][i] = "prepare"
  <2>1. /\ st' = [st EXCEPT ![t] = [@ EXCEPT ![i] = "done"]]
        /\ rd' = [rd EXCEPT ![t] = IF @ = None THEN i ELSE @]
        /\ wr' = wr
    BY <1>3 DEF SetDone
  <2>2. RingsOK'
    BY <1>1, <2>1, SharedAssumption DEF RingsOK, Status, Item
  <2>3. /\ st'[t] = [st[t] EXCEPT ![i] = "done"] /\ wr'[t] = wr[t]
        /\ rd'[t] = IF rd[t] = None THEN i ELSE rd[t]
    BY <1>1, <2>1 DEF RingsOK
  <2>4. D \subseteq Item /\ i \notin D /\ With(t, "done")' = D \cup {i}
    BY <1>1, <1>3, <2>3 DEF With
  <2>5. With(t, "prepare")' = {}
    BY <1>1, <1>3, <2>3 DEF With, Good
  <2>6. i # wr[t] /\ i # None
    BY <1>1, <1>3, SharedAssumption DEF Good, None, Item
  <2>7. \A k \in D : Dist(wr[t], k) < Dist(wr[t], i)
    BY <1>1, <1>3 DEF Good, With
  <2>8. \A k \in Item : Dist(wr[t], k) \in Int
    BY <1>1, DistRange, SharedAssumption
  <2>9. Good(t)'
    <3>1. st'[t][wr'[t]] = "empty"
      BY <1>1, <2>3, <2>6 DEF Good
    <3>2. ASSUME NEW a \in Item, NEW b \in Item, st'[t][a] = st'[t][b], st'[t][a] \in {"prepare", "using"}
          PROVE  a = b
      BY <3>2, <1>1, <2>3 DEF Good
    <3>3. /\ rd'[t] = None <=> With(t, "done")' = {}
          /\ rd'[t] # None => rd'[t] \in With(t, "done")'
      <4>1. CASE rd[t] = None
        BY <4>1, <2>3, <2>4, <2>6 DEF None
      <4>2. CASE rd[t] # None
        <5>1. rd[t] \in D
          BY <4>2, <1>1, SharedAssumption DEF Good, With, None, Item
        <5>2. rd'[t] = rd[t] /\ None' = None
          BY <4>2, <2>3 DEF None
        <5> QED BY <4>2, <5>1, <5>2, <2>4
      <4> QED BY <4>1, <4>2
    <3>4. rd'[t] # None => \A k \in With(t, "done")' : Dist(wr[t], rd'[t]) <= Dist(wr[t], k)
      <4>1. CASE rd[t] = None
        <5>1. D = {}
          BY <4>1, <1>1 DEF Good
        <5> QED BY <4>1, <5>1, <2>3, <2>4, <2>8
      <4>2. CASE rd[t] # None
        <5>1. rd[t] \in D /\ \A k \in D : Dist(wr[t], rd[t]) <= Dist(wr[t], k)
          BY <4>2, <1>1, <2>4, SharedAssumption DEF Good, With, None, Item
        <5>2. Dist(wr[t], rd[t]) <= Dist(wr[t], i)
          BY <5>1, <2>4, <2>7, <2>8
        <5> QED BY <4>2, <5>1, <5>2, <2>3, <2>4
      <4> QED BY <4>1, <4>2
    <3>5. rd'[t] # None => st'[t][rd'[t]] = "done"
      BY <3>3 DEF With
    <3> QED BY <3>1, <3>2, <3>3, <3>4, <3>5, <2>3, <2>5 DEF Good
  <2>10. ASSUME NEW u \in Type \ {t} PROVE Good(u)'
    BY <1>1, <2>1, OtherType, GoodRings DEF RingsOK
  <2> QED BY <2>2, <2>9, <2>10, GoodRingsNext
<1> QED BY <1>2, <1>3

\* A type that can give an item out has none in use.
LEMMA NoneInUse ==
  ASSUME CountInv, NEW t \in Type, CanUse(t)
  PROVE  With(t, "using") = {} /\ t \notin torn /\ using[t] = 0
BY DEF CountInv, TornStops, CanUse

LEMMA TakeOutRing ==
  ASSUME RingInv, CountInv, NEW t \in Type, NEW s \in {"using", "empty"}, TakeOut(t, s)
  PROVE  RingInv' /\ rd[t] \in Item /\ st'[t][rd[t]] = s
<1> DEFINE D == With(t, "done")
           r == rd[t]
<1>1. RingsOK /\ st[t] \in [Item -> Status] /\ wr[t] \in Item /\ r \in 0..N /\ Good(t)
  BY GoodRings DEF RingsOK
<1>2. /\ With(t, "using") = {} /\ r # None /\ st[t][r] = "done"
      /\ st' = [st EXCEPT ![t] = [@ EXCEPT ![r] = s]]
      /\ rd' = [rd EXCEPT ![t] = After(@, D \ {@})]
      /\ wr' = wr
  BY NoneInUse DEF TakeOut, CanUse
<1>3. r \in Item /\ r \in D /\ D \subseteq Item
  BY <1>1, <1>2, SharedAssumption DEF None, Item, With
<1>4. /\ After(r, D \ {r}) \in 0..N
      /\ After(r, D \ {r}) = None <=> D \ {r} = {}
  BY <1>3, AfterType
<1> HIDE DEF r
<1>5. RingsOK'
  BY <1>1, <1>2, <1>3, <1>4 DEF RingsOK, Status, r
<1>6. /\ st'[t] = [st[t] EXCEPT ![r] = s] /\ wr'[t] = wr[t]
      /\ rd'[t] = After(r, D \ {r})
  BY <1>1, <1>2 DEF RingsOK, r
<1>7. With(t, "done")' = D \ {r} /\ With(t, "prepare")' = With(t, "prepare")
  BY <1>1, <1>2, <1>3, <1>6 DEF With
<1>8. \A i \in D \ {r} : Dist(r, i) = Dist(wr[t], i) - Dist(wr[t], r)
  <2>1. \A i \in D : Dist(wr[t], r) <= Dist(wr[t], i)
    BY <1>1, <1>2 DEF Good, r
  <2>2. \A i \in D \ {r} : Dist(wr[t], r) # Dist(wr[t], i)
    BY <1>1, <1>3, DistInjective
  <2>3. \A i \in Item : Dist(wr[t], i) \in Int
    BY <1>1, DistRange, SharedAssumption
  <2>4. \A i \in D \ {r} : Dist(wr[t], r) < Dist(wr[t], i)
    BY <2>1, <2>2, <2>3, <1>3
  <2> QED BY <2>4, <1>1, <1>3, DistShift
<1>9. \A i \in Item : Dist(wr[t], i) \in Int
  BY <1>1, DistRange, SharedAssumption
<1>10. Good(t)'
  <2>1. st'[t][wr'[t]] = "empty"
    BY <1>1, <1>2, <1>6 DEF Good, r
  <2>2. ASSUME NEW a \in Item, NEW b \in Item, st'[t][a] = st'[t][b], st'[t][a] \in {"prepare", "using"}
        PROVE  a = b
    BY <2>2, <1>1, <1>2, <1>3, <1>6 DEF Good, With
  <2>3. rd'[t] = None <=> With(t, "done")' = {}
    BY <1>4, <1>6, <1>7
  <2>4. ASSUME rd'[t] # None
        PROVE  rd'[t] \in D \ {r} /\ \A i \in D \ {r} : Dist(wr[t], rd'[t]) <= Dist(wr[t], i)
    <3>1. rd'[t] \in D \ {r} /\ \A i \in D \ {r} : Dist(r, rd'[t]) <= Dist(r, i)
      BY <2>4, <1>3, <1>4, <1>6, AfterNearest
    <3>2. ASSUME NEW i \in D \ {r} PROVE Dist(wr[t], rd'[t]) <= Dist(wr[t], i)
      <4>1. Dist(r, rd'[t]) <= Dist(r, i)
        BY <3>1
      <4>2. /\ Dist(r, rd'[t]) = Dist(wr[t], rd'[t]) - Dist(wr[t], r)
            /\ Dist(r, i) = Dist(wr[t], i) - Dist(wr[t], r)
        BY <3>1, <1>8
      <4>3. Dist(wr[t], rd'[t]) \in Int /\ Dist(wr[t], i) \in Int /\ Dist(wr[t], r) \in Int
        BY <3>1, <1>3, <1>9
      <4> HIDE DEF D
      <4> QED BY <4>1, <4>2, <4>3
    <3> QED BY <3>1, <3>2
  <2>5. rd'[t] # None => st'[t][rd'[t]] = "done"
    BY <2>4, <1>6, <1>3 DEF With
  <2>6. \A i \in With(t, "prepare"), k \in D \ {r} : Dist(wr[t], k) < Dist(wr[t], i)
    BY <1>1 DEF Good
  <2> QED BY <2>1, <2>2, <2>3, <2>4, <2>5, <2>6, <1>6, <1>7 DEF Good
<1>11. ASSUME NEW u \in Type \ {t} PROVE Good(u)'
  BY <1>1, <1>2, OtherType, GoodRings DEF RingsOK
<1>12. r \in Item /\ st'[t][r] = s
  BY <1>1, <1>3, <1>6
<1> QED BY <1>5, <1>10, <1>11, <1>12, GoodRingsNext DEF r

\* Items that go from using to empty disturb no ring.
LEMMA FreedRing ==
  ASSUME RingInv, UNCHANGED <<rd, wr>>, st' \in [Type -> [Item -> Status]],
         \A t \in Type : \A i \in Item :
           st'[t][i] = st[t][i] \/ (st[t][i] = "using" /\ st'[t][i] = "empty")
  PROVE  RingInv'
<1>1. RingsOK /\ RingsOK'
  BY DEF RingInv, RingsOK
<1>2. ASSUME NEW t \in Type PROVE Good(t)'
  <2>1. Good(t) /\ wr[t] \in Item /\ wr'[t] = wr[t] /\ rd'[t] = rd[t] /\ rd[t] \in 0..N
    BY <1>1, GoodRings DEF RingsOK
  <2>2. /\ With(t, "done")' = With(t, "done") /\ With(t, "prepare")' = With(t, "prepare")
    BY DEF With
  <2>3. \A i \in Item : st'[t][i] \in {"prepare", "using", "done"} => st'[t][i] = st[t][i]
    OBVIOUS
  <2>4. rd[t] # None => rd[t] \in Item
    BY <2>1, SharedAssumption DEF None, Item
  <2>5. st'[t][wr'[t]] = "empty"
    BY <2>1 DEF Good
  <2>6. rd[t] # None => st'[t][rd[t]] = "done"
    BY <2>1, <2>4 DEF Good
  <2>7. \A i, j \in Item : st'[t][i] = st'[t][j] /\ st'[t][i] \in {"prepare", "using"} => i = j
    BY <2>1, <2>3 DEF Good
  <2> QED BY <2>1, <2>2, <2>5, <2>6, <2>7 DEF Good
<1> QED BY <1>1, <1>2, GoodRingsNext
-----------------------------------------------------------------------------
(* What the ring operations do to the items in use and in preparation.         *)

LEMMA GetEmptyEffect ==
  ASSUME RingInv, NEW t \in Type, GetEmpty(t)
  PROVE  /\ \A u \in Type : \A i \in Item : st'[u][i] = "using" <=> st[u][i] = "using"
         /\ wr[t] \in Item /\ st'[t][wr[t]] = "prepare"
<1> DEFINE n == NextWrite(t, wr[t])
<1>1. RingsOK /\ wr[t] \in Item /\ st[t] \in [Item -> Status] /\ st[t][wr[t]] = "empty"
  BY DEF RingInv, RingsOK, ProducerNeverWaits
<1>2. n \in Item /\ n # wr[t] /\ st[t][n] # "using"
  BY NextWriteFree
<1>3. st' = [st EXCEPT ![t] = [@ EXCEPT ![wr[t]] = "prepare", ![n] = "empty"]]
  BY DEF GetEmpty
<1> HIDE DEF n
<1> QED BY <1>1, <1>2, <1>3 DEF RingsOK

LEMMA SetDoneEffect ==
  ASSUME RingsOK, NEW t \in Type, NEW i \in Item, SetDone(t, i)
  PROVE  \A u \in Type : \A j \in Item : st'[u][j] = "using" <=> st[u][j] = "using"
<1>1. CASE st[t][i] # "prepare"
  BY <1>1 DEF SetDone, rings
<1>2. CASE st[t][i] = "prepare"
  BY <1>2 DEF SetDone, RingsOK
<1> QED BY <1>1, <1>2

LEMMA TakeOutEffect ==
  ASSUME RingInv, CountInv, NEW t \in Type, NEW s \in {"using", "empty"}, TakeOut(t, s)
  PROVE  /\ \A i \in Item : st[t][i] # "using"
         /\ \A u \in Type : \A i \in Item :
              /\ st'[u][i] = "using" <=> (st[u][i] = "using" \/ (s = "using" /\ u = t /\ i = rd[t]))
              /\ st'[u][i] = "prepare" <=> st[u][i] = "prepare"
<1>1. RingsOK /\ st[t][rd[t]] = "done" /\ With(t, "using") = {}
  BY NoneInUse DEF RingInv, TakeOut, CanUse
<1>2. rd[t] \in Item /\ st' = [st EXCEPT ![t] = [@ EXCEPT ![rd[t]] = s]]
  BY TakeOutRing DEF TakeOut
<1> QED BY <1>1, <1>2 DEF RingsOK, With

\* Emptied takes items of F out of use and leaves the others alone.
LEMMA EmptiedEffect ==
  ASSUME RingInv, NEW F, st' = Emptied(F), UNCHANGED <<rd, wr>>
  PROVE  /\ RingInv'
         /\ \A u \in Type : \A i \in Item :
              /\ st'[u][i] = st[u][i] \/ (st[u][i] = "using" /\ st'[u][i] = "empty")
              /\ st'[u][i] = "using" <=> (st[u][i] = "using" /\ i \notin F[u])
              /\ st'[u][i] = "prepare" <=> st[u][i] = "prepare"
<1>1. \A u \in Type : \A i \in Item :
        st'[u][i] = IF i \in F[u] /\ st[u][i] = "using" THEN "empty" ELSE st[u][i]
  BY DEF Emptied
<1>2. st' \in [Type -> [Item -> Status]]
  BY DEF Emptied, RingInv, RingsOK, Status
<1>3. RingInv'
  BY <1>1, <1>2, FreedRing
<1> QED BY <1>1, <1>3

\* What is given back and is in use, is accepted.
LEMMA SetEmptyEffect ==
  ASSUME RingInv, CountInv, NEW items, SetEmpty(items) \/ SetEmptyCaught(items)
  PROVE  /\ RingInv'
         /\ \A u \in Type : \A i \in Item :
              /\ st'[u][i] = "using" <=> (st[u][i] = "using" /\ i # items[u])
              /\ st'[u][i] = "prepare" <=> st[u][i] = "prepare"
<1>1. st' = Emptied(Accepted(items)) /\ UNCHANGED <<rd, wr>>
  BY DEF SetEmpty, SetEmptyCaught
<1>2. ASSUME NEW u \in Type, NEW i \in Item, st[u][i] = "using"
      PROVE  i \in Accepted(items)[u] <=> i = items[u]
  <2>1. i \in With(u, "using")
    BY <1>2 DEF With
  <2>2. using[u] = 1
    BY <2>1 DEF CountInv, TornStops
  <2> QED BY <2>1, <2>2 DEF Accepted
<1>3. /\ RingInv'
      /\ \A u \in Type : \A i \in Item :
           /\ st'[u][i] = "using" <=> (st[u][i] = "using" /\ i \notin Accepted(items)[u])
           /\ st'[u][i] = "prepare" <=> st[u][i] = "prepare"
  BY <1>1, EmptiedEffect
<1> QED BY <1>2, <1>3

LEMMA ResetEffect ==
  ASSUME RingInv, Reset
  PROVE  /\ RingInv'
         /\ \A u \in Type : \A i \in Item :
              /\ st'[u][i] # "using"
              /\ st'[u][i] = "prepare" <=> st[u][i] = "prepare"
<1>1. st' = Emptied([t \in Type |-> Item]) /\ UNCHANGED <<rd, wr>>
  BY DEF Reset, Closed
<1> QED BY <1>1, EmptiedEffect

\* The reset takes the item it comes to out of use, and no other.
LEMMA ResetItemEffect ==
  ASSUME RingInv, NEW t \in Type, ResetItem(t)
  PROVE  /\ RingInv'
         /\ \A u \in Type : \A i \in Item :
              /\ st'[u][i] = "using" <=> (st[u][i] = "using" /\ ~(u = t /\ i = seen[t]))
              /\ st'[u][i] = "prepare" <=> st[u][i] = "prepare"
<1> DEFINE F == [u \in Type |-> IF u = t THEN {seen[t]} ELSE {}]
<1>1. st' = Emptied(F) /\ UNCHANGED <<rd, wr>>
  BY DEF ResetItem
<1>2. \A u \in Type : \A i : i \in F[u] <=> u = t /\ i = seen[t]
  OBVIOUS
<1> HIDE DEF F
<1> QED BY <1>1, <1>2, EmptiedEffect

LEMMA RingsUnchanged ==
  ASSUME RingInv, UNCHANGED <<st, rd, wr>>
  PROVE  RingInv'
BY DEF RingInv, RingsOK, ProducerNeverWaits, OldestFirst, PreparedIsNewest, With, None

LEMMA LocalItem ==
  ASSUME HandsOK, NEW t \in Type
  PROVE  /\ local[t] # None => local[t] \in Item
         /\ set[t] # None => set[t] \in Item
         /\ mine[t] # None => mine[t] \in Item
BY SharedAssumption DEF HandsOK, None, Item

\* Every step keeps the rings.
LEMMA RingStep ==
  ASSUME RingInv, CountInv, HandsOK, [Next]_vars
  PROVE  RingInv'
<1>1. ASSUME NEW t \in Type, Fill(t) PROVE RingInv'
  BY <1>1, GetEmptyRing DEF Fill
<1>2. ASSUME NEW t \in Type, Filled(t) PROVE RingInv'
  BY <1>2, LocalItem, SetDoneRing DEF Filled
<1>3. ASSUME NEW t \in Type, Drain(t) PROVE RingInv'
  BY <1>3, TakeOutRing DEF Drain, GetDone, GetDoneCaught
<1>4. CASE Pair
  BY <1>4, TakeOutRing, SharedAssumption DEF Pair, GetDone, GetDoneCaught
<1>5. CASE Unpaired \/ GiveBack \/ Recycle
  BY <1>5, SetEmptyEffect DEF Unpaired, GiveBack, Recycle
<1>6. ASSUME NEW t \in Type, Apply(t) PROVE RingInv'
  BY <1>6, SetEmptyEffect DEF Apply
<1>7. CASE Reset \/ \E t \in Type : ResetItem(t)
  BY <1>7, ResetEffect, ResetItemEffect
<1>8. CASE Checked \/ Publish \/ Open \/ FetchBegin \/ FetchEnd \/ Read \/ TakeSet \/ ReadOk \/ Release
            \/ ResetUnlocked \/ ResetEnd
  <2>1. UNCHANGED <<st, rd, wr>>
    BY <1>8 DEF Checked, Publish, Open, FetchBegin, FetchEnd, Read, TakeSet, ReadOk, Release,
         ResetUnlocked, ResetEnd, Closed, rings
  <2> QED BY <2>1, RingsUnchanged
<1>9. CASE Calibration \/ UNCHANGED vars
  <2>1. UNCHANGED <<st, rd, wr>>
    BY <1>9 DEF Calibration, CalBegin, CalCopyBegin, CalCopyEnd, CalEnd, CalTimeout, Others, vars, rings
  <2> QED BY <2>1, RingsUnchanged
<1> QED BY <1>1, <1>2, <1>3, <1>4, <1>5, <1>6, <1>7, <1>8, <1>9 DEF Next, Firmware, Daemon
-----------------------------------------------------------------------------
(* The counts.                                                                 *)

\* A step that puts nothing into use and takes nothing out keeps the counts.
LEMMA CountSame ==
  ASSUME CountInv, UNCHANGED <<using, torn>>,
         \A u \in Type : \A i \in Item : st'[u][i] = "using" <=> st[u][i] = "using"
  PROVE  CountInv'
<1>1. \A u \in Type : With(u, "using")' = With(u, "using")
  BY DEF With
<1> QED BY <1>1 DEF CountInv, TornStops

\* An item taken out is counted, or its type is torn.
LEMMA GetDoneCount ==
  ASSUME RingInv, CountInv, NEW t \in Type, GetDone(t)
  PROVE  CountInv'
<1>1. using \in [Type -> -1..1] /\ With(t, "using") = {} /\ t \notin torn /\ using[t] = 0
  BY NoneInUse DEF CountInv, GetDone, GetDoneCaught, TakeOut
<1>2. CASE TakeOut(t, "using") /\ using' = [using EXCEPT ![t] = @ + 1] /\ torn' = torn
  <2>1. /\ rd[t] \in Item
        /\ \A u \in Type : \A i \in Item :
             st'[u][i] = "using" <=> (st[u][i] = "using" \/ (u = t /\ i = rd[t]))
    BY <1>2, TakeOutRing, TakeOutEffect
  <2>2. With(t, "using")' # {} /\ \A u \in Type \ {t} : With(u, "using")' = With(u, "using")
    BY <2>1 DEF With
  <2>3. using' \in [Type -> -1..1] /\ using'[t] = 1 /\ \A u \in Type \ {t} : using'[u] = using[u]
    BY <1>1, <1>2
  <2> QED BY <1>1, <1>2, <2>2, <2>3 DEF CountInv, TornStops
<1>3. CASE GetDoneCaught(t)
  <2>1. \A u \in Type : \A i \in Item : st'[u][i] = "using" <=> st[u][i] = "using"
    BY <1>3, TakeOutEffect DEF GetDoneCaught
  <2>2. \A u \in Type : With(u, "using")' = With(u, "using")
    BY <2>1 DEF With
  <2>3. PICK n \in {-1, 1} : using' = [using EXCEPT ![t] = n]
    BY <1>3 DEF GetDoneCaught
  <2>4. using' \in [Type -> -1..1] /\ using'[t] # 0 /\ \A u \in Type \ {t} : using'[u] = using[u]
    BY <1>1, <2>3
  <2>5. torn' = torn \cup {t}
    BY <1>3 DEF GetDoneCaught
  <2> QED BY <1>1, <2>2, <2>4, <2>5 DEF CountInv, TornStops
<1> QED BY <1>2, <1>3 DEF GetDone

\* Items of a type taken out of use, all or none, and counted off.
LEMMA EmptiedCount ==
  ASSUME RingInv, CountInv, NEW F, st' = Emptied(F), UNCHANGED <<rd, wr>>, NEW t \in Type
  PROVE  /\ With(t, "using")' = IF F[t] \cap With(t, "using") = {} THEN With(t, "using") ELSE {}
         /\ F[t] \cap With(t, "using") # {} => t \notin torn /\ using[t] = 1
         /\ CountedOff(F)[t] \in -1..1
         /\ t \in torn => CountedOff(F)[t] = using[t]
         /\ t \notin torn => CountedOff(F)[t] = IF With(t, "using")' = {} THEN 0 ELSE 1
<1>1. \A i \in Item : st'[t][i] = "using" <=> (st[t][i] = "using" /\ i \notin F[t])
  BY EmptiedEffect
<1>2. \A i, j \in With(t, "using") : i = j
  BY DEF RingInv, ProducerNeverWaits, With
<1>3. With(t, "using")' = With(t, "using") \ F[t]
  BY <1>1 DEF With
<1>4. With(t, "using")' = IF F[t] \cap With(t, "using") = {} THEN With(t, "using") ELSE {}
  BY <1>2, <1>3
<1>5. /\ using[t] \in -1..1
      /\ t \in torn => With(t, "using") = {}
      /\ t \notin torn => using[t] = IF With(t, "using") = {} THEN 0 ELSE 1
  BY DEF CountInv, TornStops
<1>6. CountedOff(F)[t] = IF F[t] \cap With(t, "using") = {} THEN using[t] ELSE using[t] - 1
  BY DEF CountedOff
<1>7. CASE F[t] \cap With(t, "using") = {}
  BY <1>4, <1>5, <1>6, <1>7
<1>8. CASE F[t] \cap With(t, "using") # {}
  <2>1. t \notin torn /\ using[t] = 1
    BY <1>5, <1>8
  <2>2. CountedOff(F)[t] = 0
    BY <1>6, <1>8, <2>1
  <2> QED BY <1>4, <1>8, <2>1, <2>2
<1> QED BY <1>7, <1>8

LEMMA CountedOffCount ==
  ASSUME RingInv, CountInv, NEW F, st' = Emptied(F), using' = CountedOff(F), UNCHANGED <<rd, wr, torn>>
  PROVE  CountInv'
<1>1. using' \in [Type -> -1..1]
  <2>1. \A t \in Type : CountedOff(F)[t] \in -1..1
    BY EmptiedCount
  <2> QED BY <2>1 DEF CountedOff
<1>2. \A t \in Type \ torn : using'[t] = IF With(t, "using")' = {} THEN 0 ELSE 1
  BY EmptiedCount
<1>3. \A t \in torn : With(t, "using")' = {} /\ using'[t] # 0
  <2>1. ASSUME NEW t \in torn PROVE With(t, "using")' = {} /\ using'[t] # 0
    <3>1. t \in Type /\ With(t, "using") = {} /\ using[t] # 0
      BY DEF CountInv, TornStops
    <3>2. using'[t] = using[t] /\ With(t, "using")' = {}
      BY <3>1, EmptiedCount
    <3> QED BY <3>1, <3>2
  <2> QED BY <2>1
<1> QED BY <1>1, <1>2, <1>3 DEF CountInv, TornStops

\* Items given back are counted off once, or their type is torn.
LEMMA SetEmptyCount ==
  ASSUME RingInv, CountInv, NEW items, SetEmpty(items) \/ SetEmptyCaught(items)
  PROVE  CountInv'
<1> DEFINE F == Accepted(items)
<1>1. CASE SetEmpty(items)
  <2> HIDE DEF F
  <2>1. st' = Emptied(F) /\ using' = CountedOff(F) /\ UNCHANGED <<rd, wr, torn>>
    BY <1>1 DEF SetEmpty, F
  <2> QED BY <2>1, CountedOffCount
<1>2. CASE SetEmptyCaught(items)
  <2>1. PICK S \in SUBSET {t \in Type : \E i \in F[t] : Due(t, i)} :
          /\ torn' = torn \cup S
          /\ using' = [t \in Type |-> IF t \in S THEN -1 ELSE CountedOff(F)[t]]
    BY <1>2 DEF SetEmptyCaught
  <2>2. st' = Emptied(F) /\ UNCHANGED <<rd, wr>>
    BY <1>2 DEF SetEmptyCaught
  <2>3. \A t \in S : t \in Type /\ F[t] \cap With(t, "using") # {}
    BY DEF Accepted
  <2> HIDE DEF F
  <2>4. \A t \in S : With(t, "using")' = {} /\ using'[t] = -1
    BY <2>1, <2>2, <2>3, EmptiedCount
  <2>5. using' \in [Type -> -1..1]
    <3>1. \A t \in Type : CountedOff(F)[t] \in -1..1
      BY <2>2, EmptiedCount
    <3> QED BY <2>1, <3>1
  <2>6. \A t \in Type \ S : using'[t] = CountedOff(F)[t]
    BY <2>1
  <2>7. \A t \in Type \ torn' : using'[t] = IF With(t, "using")' = {} THEN 0 ELSE 1
    BY <2>1, <2>2, <2>6, EmptiedCount
  <2>8. ASSUME NEW t \in torn' PROVE With(t, "using")' = {} /\ using'[t] # 0
    <3>1. CASE t \in S
      BY <3>1, <2>4
    <3>2. CASE t \notin S
      <4>1. t \in torn /\ t \in Type /\ With(t, "using") = {} /\ using[t] # 0
        BY <3>2, <2>1 DEF CountInv, TornStops
      <4>2. using'[t] = using[t] /\ With(t, "using")' = {}
        BY <3>2, <4>1, <2>2, <2>6, EmptiedCount
      <4> QED BY <4>1, <4>2
    <3> QED BY <3>1, <3>2
  <2>9. torn' \in SUBSET Type
    BY <2>1 DEF CountInv
  <2> QED BY <2>5, <2>7, <2>8, <2>9 DEF CountInv, TornStops
<1> QED BY <1>1, <1>2

\* Every step keeps the counts.
LEMMA CountStep ==
  ASSUME RingInv, CountInv, HandsOK, [Next]_vars
  PROVE  CountInv'
<1>1. ASSUME NEW t \in Type, Fill(t) PROVE CountInv'
  <2>1. GetEmpty(t) /\ UNCHANGED <<using, torn>>
    BY <1>1 DEF Fill, GetEmpty
  <2> QED BY <2>1, GetEmptyEffect, CountSame
<1>2. ASSUME NEW t \in Type, Filled(t) PROVE CountInv'
  <2>1. local[t] \in Item /\ SetDone(t, local[t]) /\ UNCHANGED <<using, torn>>
    BY <1>2, LocalItem DEF Filled, SetDone, rings
  <2> QED BY <2>1, SetDoneEffect, CountSame DEF RingInv
<1>3. ASSUME NEW t \in Type, Drain(t) PROVE CountInv'
  BY <1>3, GetDoneCount DEF Drain
<1>4. CASE Pair
  BY <1>4, GetDoneCount, SharedAssumption DEF Pair
<1>5. CASE Unpaired \/ GiveBack \/ Recycle
  BY <1>5, SetEmptyCount DEF Unpaired, GiveBack, Recycle
<1>6. ASSUME NEW t \in Type, Apply(t) PROVE CountInv'
  BY <1>6, SetEmptyCount DEF Apply
<1>7. CASE Reset
  BY <1>7, CountedOffCount DEF Reset, Closed
<1>8. ASSUME NEW t \in Type, ResetItem(t) PROVE CountInv'
  BY <1>8, CountedOffCount DEF ResetItem
<1>9. CASE Checked \/ Publish \/ Open \/ FetchBegin \/ FetchEnd \/ Read \/ TakeSet \/ ReadOk \/ Release
            \/ ResetUnlocked \/ ResetEnd
  <2>1. UNCHANGED <<st, using, torn>>
    BY <1>9 DEF Checked, Publish, Open, FetchBegin, FetchEnd, Read, TakeSet, ReadOk, Release,
         ResetUnlocked, ResetEnd, Closed, rings
  <2> QED BY <2>1, CountSame
<1>10. CASE Calibration \/ UNCHANGED vars
  <2>1. UNCHANGED <<st, using, torn>>
    BY <1>10 DEF Calibration, CalBegin, CalCopyBegin, CalCopyEnd, CalEnd, CalTimeout, Others, vars, rings
  <2> QED BY <2>1, CountSame
<1> QED BY <1>1, <1>2, <1>3, <1>4, <1>5, <1>6, <1>7, <1>8, <1>9, <1>10 DEF Next, Firmware, Daemon
-----------------------------------------------------------------------------
(* Who holds the items.                                                        *)

HoldInv == HandsInv /\ Named /\ FirstSession

\* The view of the rings that the holders depend on has not changed.
SameUse ==
  \A u \in Type : \A i \in Item :
    /\ st'[u][i] = "using" <=> st[u][i] = "using"
    /\ st[u][i] = "prepare" => st'[u][i] = "prepare"

LEMMA FillHold ==
  ASSUME RingInv, CountInv, HandsOK, HoldInv, NEW t \in Type, Fill(t)
  PROVE  HoldInv'
<1>1. /\ \A u \in Type : \A i \in Item : st'[u][i] = "using" <=> st[u][i] = "using"
      /\ wr[t] \in Item /\ st'[t][wr[t]] = "prepare"
  BY GetEmptyEffect DEF Fill
<1>2. /\ fw = "idle" /\ fw' = "filling" /\ local = Nothing
      /\ local' = [local EXCEPT ![t] = wr[t]]
      /\ set' = set /\ mine' = mine /\ dm' = dm /\ seen' = seen /\ resets' = resets
  BY DEF Fill, Rest, daemon, HoldInv, HandsInv
<1>3. \A u \in Type : local[u] = None
  BY <1>2 DEF Nothing
<1>4. \A u \in Type : local'[u] = IF u = t THEN wr[t] ELSE None
  BY <1>2, <1>3 DEF HandsOK
<1>5. HandsInv'
  BY <1>1, <1>2, <1>4 DEF HoldInv, HandsInv, None, Nothing, Unseen
<1>6. Named'
  BY <1>1, <1>2, <1>3, SharedAssumption DEF HoldInv, Named, Due, With, Names, None, Item
<1>7. FirstSession'
  BY <1>1, <1>2, LocalItem DEF HoldInv, FirstSession, Closing, None
<1> QED BY <1>5, <1>6, <1>7 DEF HoldInv

LEMMA FilledHold ==
  ASSUME RingInv, CountInv, HandsOK, HoldInv, NEW t \in Type, Filled(t)
  PROVE  HoldInv'
<1>1. \A u \in Type : \A i \in Item : st'[u][i] = "using" <=> st[u][i] = "using"
  BY LocalItem, SetDoneEffect DEF Filled, RingInv
<1>2. /\ fw = "filling" /\ fw' = "idle" /\ local' = Nothing
      /\ set' = set /\ mine' = mine /\ dm' = dm /\ seen' = seen /\ resets' = resets
  BY DEF Filled, Rest, daemon
<1>3. HandsInv'
  BY <1>2 DEF HoldInv, HandsInv, None, Nothing, Unseen
<1>4. \A u \in Type : local[u] # None => local[u] \in Item /\ st[u][local[u]] # "using"
  BY <1>2, LocalItem DEF HoldInv, HandsInv
<1>5. Named'
  BY <1>1, <1>2, <1>4, SharedAssumption DEF HoldInv, Named, Due, With, Names, None, Item
<1>6. FirstSession'
  BY <1>1, <1>2, LocalItem DEF HoldInv, FirstSession, Closing, None, Nothing
<1> QED BY <1>3, <1>5, <1>6 DEF HoldInv

\* The thread takes one more item out, of a type nobody has an item of.
LEMMA TakeOutHold ==
  ASSUME RingInv, CountInv, HandsOK, HoldInv, NEW t \in Type, GetDone(t),
         fw \in {"idle", "pairing"}, fw' \in {"pairing", "got"},
         local' = [local EXCEPT ![t] = rd[t]], Rest
  PROVE  HoldInv'
<1>1. /\ rd[t] \in Item
      /\ \A i \in Item : st[t][i] # "using"
      /\ \A u \in Type : \A i \in Item :
           /\ st'[u][i] = "using" => (st[u][i] = "using" \/ (u = t /\ i = rd[t]))
           /\ st[u][i] = "using" => st'[u][i] = "using"
           /\ st'[u][i] = "prepare" <=> st[u][i] = "prepare"
      /\ ~Closing => st'[t][rd[t]] = "using"
  BY TakeOutRing, TakeOutEffect DEF GetDone, GetDoneCaught, Due, Closing
<1>2. set' = set /\ mine' = mine /\ dm' = dm /\ seen' = seen /\ resets' = resets
  BY DEF Rest, daemon
<1>3. \A u \in Type : local'[u] = IF u = t THEN rd[t] ELSE local[u]
  BY DEF HandsOK
<1>4. fw = "idle" => \A u \in Type : local[u] = None
  BY DEF HoldInv, HandsInv, Nothing
<1>5. HandsInv'
  <2>1. ASSUME NEW u \in Type, local'[u] # None, set'[u] # None, st'[u][set'[u]] = "using"
        PROVE  set'[u] = local'[u]
    BY <2>1, <1>1, <1>2, <1>3, <1>4, LocalItem DEF HoldInv, HandsInv, None
  <2>2. mine' = mine /\ dm' = dm /\ seen' = seen
    BY <1>2
  <2> QED BY <2>1, <2>2 DEF HoldInv, HandsInv, None, Nothing, Unseen
<1>6. Named'
  <2>1. ASSUME NEW u \in Type, NEW i \in Item, st'[u][i] = "using", dm # "closing", ~Due(u, i)
        PROVE  i \in {local'[u], set'[u], mine'[u]}
    <3>1. CASE u = t
      BY <3>1, <2>1, <1>1, <1>3
    <3>2. CASE u # t
      BY <3>2, <2>1, <1>1, <1>2, <1>3 DEF HoldInv, Named, Due, With, Names
    <3> QED BY <3>1, <3>2
  <2> QED BY <2>1, <1>2 DEF Named, Due, With, Names
<1>7. FirstSession'
  <2>1. SUFFICES ASSUME resets = 0, ~Closing, NEW u \in Type
        PROVE  /\ local'[u] # None => st'[u][local'[u]] = "using" /\ set[u] = None /\ mine[u] = None
               /\ set[u] # None => st'[u][set[u]] = "using" /\ mine[u] = None
               /\ mine[u] # None => st'[u][mine[u]] = "using"
    BY <1>2 DEF FirstSession, Closing, None
  <2>2. CASE u = t
    BY <2>1, <2>2, <1>1, <1>3, LocalItem DEF HoldInv, FirstSession, Closing
  <2>3. CASE u # t
    BY <2>1, <2>3, <1>1, <1>3, <1>4, LocalItem DEF HoldInv, FirstSession, Closing
  <2> QED BY <2>2, <2>3
<1> QED BY <1>5, <1>6, <1>7 DEF HoldInv

\* The thread gives back what it has.
LEMMA GiveBackHold ==
  ASSUME RingInv, CountInv, HandsOK, HoldInv, SetEmpty(local) \/ SetEmptyCaught(local), fw # "filling",
         fw' = "idle", local' = Nothing, Rest
  PROVE  HoldInv'
<1>1. \A u \in Type : \A i \in Item :
        /\ st'[u][i] = "using" <=> (st[u][i] = "using" /\ i # local[u])
        /\ st'[u][i] = "prepare" <=> st[u][i] = "prepare"
  BY SetEmptyEffect
<1>2. set' = set /\ mine' = mine /\ dm' = dm /\ seen' = seen /\ resets' = resets
  BY DEF Rest, daemon
<1>3. HandsInv'
  BY <1>2 DEF HoldInv, HandsInv, None, Nothing, Unseen
<1>4. Named'
  BY <1>1, <1>2 DEF HoldInv, Named, Due, With, Names
<1>5. FirstSession'
  <2>1. SUFFICES ASSUME resets = 0, ~Closing, NEW u \in Type
        PROVE  /\ set[u] # None => st'[u][set[u]] = "using" /\ mine[u] = None
               /\ mine[u] # None => st'[u][mine[u]] = "using"
    BY <1>2 DEF FirstSession, Closing, None, Nothing
  <2> QED BY <2>1, <1>1, LocalItem DEF HoldInv, FirstSession, Closing
<1> QED BY <1>3, <1>4, <1>5 DEF HoldInv

LEMMA PublishHold ==
  ASSUME RingInv, CountInv, HandsOK, HoldInv, Checked \/ Publish
  PROVE  HoldInv'
<1>1. /\ st' = st /\ mine' = mine /\ dm' = dm /\ seen' = seen /\ resets' = resets
      /\ fw \notin {"idle", "filling"}
  BY DEF Checked, Publish, Rest, rings, daemon
<1>2. CASE Checked
  <2>1. set' = set /\ local' = local /\ fw' = "checked"
    BY <1>2 DEF Checked, Rest
  <2> QED BY <2>1, <1>1 DEF HoldInv, HandsInv, Named, Due, FirstSession, Closing, With, Names, None, Nothing
<1>3. CASE Publish
  <2>1. /\ \A u \in Type : set'[u] = IF local[u] = None THEN set[u] ELSE local[u]
        /\ fw' = "idle" /\ local' = Nothing
    BY <1>3 DEF Publish
  <2>2. HandsInv'
    BY <2>1, <1>1 DEF HoldInv, HandsInv, None, Nothing, Unseen
  <2>3. Named'
    <3>1. ASSUME NEW u \in Type, NEW i \in Item, st[u][i] = "using", dm # "closing", ~Due(u, i)
          PROVE  i \in {set'[u], mine[u]}
      <4>1. i \in {local[u], set[u], mine[u]} /\ i # None
        BY <3>1, SharedAssumption DEF HoldInv, Named, Due, With, Names, None, Item
      <4>2. local[u] # None /\ set[u] = i => set[u] = local[u]
        BY <3>1, <4>1, <1>1 DEF HoldInv, HandsInv
      <4> QED BY <4>1, <4>2, <2>1
    <3> QED BY <3>1, <1>1 DEF Named, Due, With, Names
  <2>4. FirstSession'
    BY <2>1, <1>1 DEF HoldInv, FirstSession, Closing, None, Nothing
  <2> QED BY <2>2, <2>3, <2>4 DEF HoldInv
<1> QED BY <1>2, <1>3

LEMMA TakeSetHold ==
  ASSUME RingInv, CountInv, HandsOK, HoldInv, TakeSet
  PROVE  HoldInv'
<1>1. /\ st' = st /\ fw' = fw /\ local' = local /\ seen' = seen /\ resets' = resets
      /\ mine = Nothing /\ mine' = set /\ set' = Nothing /\ dm = "reading" /\ dm' = "read"
  BY DEF TakeSet, rings, thread, HoldInv, HandsInv
<1>2. HandsInv'
  BY <1>1 DEF HoldInv, HandsInv, None, Nothing, Unseen
<1>3. Named'
  BY <1>1, SharedAssumption DEF HoldInv, Named, Due, With, Names, Nothing, None, Item
<1>4. FirstSession'
  BY <1>1 DEF HoldInv, FirstSession, Closing, None, Nothing
<1> QED BY <1>2, <1>3, <1>4 DEF HoldInv

\* The daemon's items go back, all at once or one by one.
LEMMA RecycleHold ==
  ASSUME RingInv, CountInv, HandsOK, HoldInv, Recycle
  PROVE  HoldInv'
<1>1. \A u \in Type : \A i \in Item :
        /\ st'[u][i] = "using" <=> (st[u][i] = "using" /\ i # mine[u])
        /\ st'[u][i] = "prepare" <=> st[u][i] = "prepare"
  BY SetEmptyEffect DEF Recycle
<1>2. /\ fw' = fw /\ local' = local /\ set' = set /\ seen' = seen /\ resets' = resets
      /\ mine' = Nothing /\ dm = "read" /\ dm' = "idle"
  BY DEF Recycle, thread
<1>3. HandsInv'
  BY <1>1, <1>2, LocalItem DEF HoldInv, HandsInv, None, Nothing, Unseen
<1>4. Named'
  BY <1>1, <1>2 DEF HoldInv, Named, Due, With, Names
<1>5. FirstSession'
  BY <1>1, <1>2, LocalItem DEF HoldInv, FirstSession, Closing, None, Nothing
<1> QED BY <1>3, <1>4, <1>5 DEF HoldInv

LEMMA ApplyHold ==
  ASSUME RingInv, CountInv, HandsOK, HoldInv, NEW t \in Type, Apply(t)
  PROVE  HoldInv'
<1> DEFINE items == [Nothing EXCEPT ![t] = mine[t]]
<1>1. \A u \in Type : \A i \in Item :
        /\ st'[u][i] = "using" <=> (st[u][i] = "using" /\ i # items[u])
        /\ st'[u][i] = "prepare" <=> st[u][i] = "prepare"
  BY SetEmptyEffect DEF Apply
<1>2. \A u \in Type : items[u] = IF u = t THEN mine[t] ELSE None
  BY DEF Nothing
<1>3. /\ fw' = fw /\ local' = local /\ set' = set /\ seen' = seen /\ resets' = resets
      /\ mine' = [mine EXCEPT ![t] = None] /\ dm \in {"using", "writing"}
      /\ dm' = IF mine' = Nothing THEN "idle" ELSE "writing"
  BY DEF Apply, thread
<1>4. \A u \in Type : mine'[u] = IF u = t THEN None ELSE mine[u]
  BY <1>3 DEF HandsOK
<1>5. \A i \in Item : i # None
  BY SharedAssumption DEF Item, None
<1> HIDE DEF items
<1>6. HandsInv'
  BY <1>1, <1>3, LocalItem DEF HoldInv, HandsInv, None, Nothing, Unseen
<1>7. Named'
  <2>1. ASSUME NEW u \in Type, NEW i \in Item, st'[u][i] = "using"
        PROVE  i \in {local[u], set[u], mine'[u]}
    BY <2>1, <1>1, <1>2, <1>3, <1>4 DEF HoldInv, Named, Due, With, Names
  <2> QED BY <2>1, <1>3 DEF Named, Due, With, Names
<1>8. FirstSession'
  <2>1. SUFFICES ASSUME resets = 0, NEW u \in Type
        PROVE  /\ fw # "filling" /\ local[u] # None =>
                    st'[u][local[u]] = "using" /\ set[u] = None /\ mine'[u] = None
               /\ set[u] # None => st'[u][set[u]] = "using" /\ mine'[u] = None
               /\ mine'[u] # None => st'[u][mine'[u]] = "using"
    BY <1>3 DEF FirstSession, Closing, None
  <2>2. /\ fw # "filling" /\ local[u] # None =>
               st[u][local[u]] = "using" /\ set[u] = None /\ mine[u] = None
        /\ set[u] # None => st[u][set[u]] = "using" /\ mine[u] = None
        /\ mine[u] # None => st[u][mine[u]] = "using"
    BY <2>1, <1>3 DEF HoldInv, FirstSession, Closing
  <2>3. CASE u = t
    BY <2>2, <2>3, <1>1, <1>2, <1>3, <1>4, LocalItem DEF Apply
  <2>4. CASE u # t
    BY <2>2, <2>4, <1>1, <1>2, <1>4, <1>5, LocalItem
  <2> QED BY <2>3, <2>4
<1> QED BY <1>6, <1>7, <1>8 DEF HoldInv

LEMMA SessionHold ==
  ASSUME RingInv, CountInv, HandsOK, resets \in Nat, HoldInv, Release \/ Reset \/ ResetUnlocked \/ ResetEnd
  PROVE  HoldInv'
<1>1. fw' = fw /\ local' = local /\ set' = set
  BY DEF Release, Reset, ResetUnlocked, ResetEnd, Closed, thread
<1>2. CASE Release
  <2>1. st' = st /\ mine' = Nothing /\ seen' = seen /\ dm' = "closing" /\ dm # "resetting"
    BY <1>2 DEF Release, rings
  <2> QED BY <2>1, <1>1 DEF HoldInv, HandsInv, Named, FirstSession, Closing, With, None, Nothing, Unseen
<1>3. CASE Reset
  <2>1. \A u \in Type : \A i \in Item :
          st'[u][i] # "using" /\ (st'[u][i] = "prepare" <=> st[u][i] = "prepare")
    BY <1>3, ResetEffect
  <2>2. /\ mine' = mine /\ dm = "closing" /\ dm' = "closed" /\ resets' = resets + 1
        /\ seen' = Unseen
    BY <1>3 DEF Reset, Closed
  <2>3. HandsInv'
    BY <2>1, <2>2, <1>1, LocalItem DEF HoldInv, HandsInv, None, Nothing, Unseen
  <2>4. Named'
    BY <2>1 DEF Named, With
  <2>5. FirstSession'
    BY <2>2 DEF FirstSession
  <2> QED BY <2>3, <2>4, <2>5 DEF HoldInv
<1>4. CASE ResetUnlocked
  <2>1. st' = st /\ mine' = mine /\ seen' = seen /\ dm = "closing" /\ dm' = "resetting"
    BY <1>4 DEF ResetUnlocked, rings
  <2>2. \A t \in Type : \A i \in Item : Due(t, i)'
    BY <2>1, SharedAssumption DEF HoldInv, HandsInv, Due, Unseen, Item
  <2>3. Named'
    BY <2>2 DEF Named, With
  <2> QED BY <2>1, <2>3, <1>1 DEF HoldInv, HandsInv, FirstSession, Closing, None, Nothing
<1>5. CASE ResetEnd
  <2>1. /\ st' = st /\ mine' = mine /\ dm = "resetting" /\ dm' = "closed" /\ resets' = resets + 1
        /\ seen' = Unseen /\ \A t \in Type : seen[t] = N
    BY <1>5 DEF ResetEnd, Closed
  <2>2. \A t \in Type : \A i \in Item : ~Due(t, i)
    BY <2>1, SharedAssumption DEF Due, Item
  <2>3. Named'
    BY <2>1, <2>2, <1>1 DEF HoldInv, Named, With, Names
  <2>4. FirstSession'
    BY <2>1 DEF FirstSession
  <2> QED BY <2>1, <2>3, <2>4, <1>1 DEF HoldInv, HandsInv, None, Nothing, Unseen
<1> QED BY <1>2, <1>3, <1>4, <1>5

\* The item the reset came to was in use and is not any more, or was not.
LEMMA ResetItemHold ==
  ASSUME RingInv, HandsOK, HoldInv, NEW t \in Type, ResetItem(t)
  PROVE  HoldInv'
<1>1. \A u \in Type : \A i \in Item :
        /\ st'[u][i] = "using" <=> (st[u][i] = "using" /\ ~(u = t /\ i = seen[t]))
        /\ st'[u][i] = "prepare" <=> st[u][i] = "prepare"
  BY ResetItemEffect
<1>2. /\ fw' = fw /\ local' = local /\ set' = set /\ mine' = mine /\ resets' = resets
      /\ dm = "resetting" /\ dm' = "resetting" /\ seen' = [seen EXCEPT ![t] = @ + 1]
  BY DEF ResetItem, thread
<1>3. HandsInv'
  BY <1>1, <1>2, LocalItem DEF HoldInv, HandsInv, None, Nothing
<1>4. Named'
  <2>1. ASSUME NEW u \in Type, NEW i \in Item, st'[u][i] = "using", i \notin Names(u)
        PROVE  Due(u, i)'
    <3>1. seen[u] <= i /\ seen[u] \in Int /\ i \in Int
      BY <2>1, <1>1, <1>2, SharedAssumption DEF HoldInv, Named, Due, With, HandsOK, Item
    <3>2. CASE u # t
      <4>1. seen'[u] = seen[u]
        BY <3>2, <1>2 DEF HandsOK
      <4> QED BY <4>1, <3>1, <1>2 DEF Due
    <3>3. CASE u = t
      <4>1. seen'[u] = seen[u] + 1 /\ i # seen[u]
        BY <3>3, <2>1, <1>1, <1>2 DEF HandsOK
      <4> QED BY <4>1, <3>1, <1>2 DEF Due
    <3> QED BY <3>2, <3>3
  <2> QED BY <2>1, <1>2 DEF Named, With, Names
<1>5. FirstSession'
  BY <1>2 DEF FirstSession, Closing
<1> QED BY <1>3, <1>4, <1>5 DEF HoldInv

\* The daemon's steps that touch no item.
LEMMA CallHold ==
  ASSUME HandsOK, HoldInv, UNCHANGED <<st, thread, set, mine, seen, resets>>,
         <<dm, dm'>> \in {<<"closed", "idle">>, <<"idle", "fetching">>, <<"fetching", "idle">>,
                          <<"idle", "reading">>, <<"read", "using">>, <<"read", "idle">>},
         dm' = "idle" => mine = Nothing
  PROVE  HoldInv'
BY DEF HoldInv, HandsInv, Named, Due, FirstSession, Closing, With, Names, thread, None, Nothing

LEMMA HoldUnchanged ==
  ASSUME HoldInv, UNCHANGED <<st, thread, set, dm, mine, seen, resets>>
  PROVE  HoldInv'
BY DEF HoldInv, HandsInv, Named, Due, FirstSession, Closing, With, Names, thread, None, Nothing

LEMMA HoldStep ==
  ASSUME RingInv, CountInv, HandsOK, resets \in Nat, HoldInv, [Next]_vars
  PROVE  HoldInv'
<1>1. ASSUME NEW t \in Type, Fill(t) PROVE HoldInv'
  BY <1>1, FillHold
<1>2. ASSUME NEW t \in Type, Filled(t) PROVE HoldInv'
  BY <1>2, FilledHold
<1>3. ASSUME NEW t \in Type, Drain(t) PROVE HoldInv'
  BY <1>3, TakeOutHold DEF Drain
<1>4. CASE Pair
  BY <1>4, TakeOutHold, SharedAssumption DEF Pair
<1>5. CASE Unpaired \/ GiveBack
  BY <1>5, GiveBackHold DEF Unpaired, GiveBack
<1>6. CASE Checked \/ Publish
  BY <1>6, PublishHold
<1>7. CASE TakeSet
  BY <1>7, TakeSetHold
<1>8. CASE Recycle
  BY <1>8, RecycleHold
<1>9. ASSUME NEW t \in Type, Apply(t) PROVE HoldInv'
  BY <1>9, ApplyHold
<1>10. CASE Release \/ Reset \/ ResetUnlocked \/ ResetEnd
  BY <1>10, SessionHold
<1>11. CASE Open \/ FetchBegin \/ FetchEnd \/ Read
  BY <1>11, CallHold DEF Open, FetchBegin, FetchEnd, Read, rings, HoldInv, HandsInv
<1>12. CASE ReadOk
  BY <1>12, CallHold DEF ReadOk, rings
<1>13. CASE Calibration \/ UNCHANGED vars
  BY <1>13, HoldUnchanged DEF Calibration, CalBegin, CalCopyBegin, CalCopyEnd, CalEnd, CalTimeout,
       Others, vars, rings, daemon, thread
<1>14. ASSUME NEW t \in Type, ResetItem(t) PROVE HoldInv'
  BY <1>14, ResetItemHold
<1> QED BY <1>1, <1>2, <1>3, <1>4, <1>5, <1>6, <1>7, <1>8, <1>9, <1>10, <1>11, <1>12, <1>13, <1>14
        DEF Next, Firmware, Daemon
-----------------------------------------------------------------------------
(* Types, the calibration, and the theorems.                                   *)

LEMMA HandsStep ==
  ASSUME RingInv, HandsOK, [Next]_vars
  PROVE  HandsOK'
<1>1. None \in 0..N /\ Nothing \in [Type -> 0..N] /\ Item \subseteq 0..N
  BY SharedAssumption DEF None, Nothing, Item
<1>2. \A t \in Type : wr[t] \in 0..N /\ rd[t] \in 0..N
  BY <1>1 DEF RingInv, RingsOK
<1>3. CASE Firmware
  BY <1>1, <1>2, <1>3, SharedAssumption
     DEF HandsOK, Firmware, Fill, Filled, Drain, Pair, Unpaired, GiveBack, Checked, Publish, Rest, daemon
<1>4. CASE Daemon /\ \A t \in Type : ~ResetItem(t)
  <2>1. seen' = seen \/ seen' = Unseen
    BY <1>4 DEF Daemon, Open, FetchBegin, FetchEnd, Read, TakeSet, Recycle, ReadOk, Apply, Release,
         Reset, ResetUnlocked, ResetEnd, Closed
  <2>2. seen' \in [Type -> 0..N]
    BY <2>1, SharedAssumption DEF HandsOK, Unseen
  <2> QED BY <1>1, <1>4, <2>2 DEF HandsOK, Daemon, Open, FetchBegin, FetchEnd, Read, TakeSet, Recycle,
       ReadOk, Apply, Release, Reset, ResetUnlocked, ResetEnd, Closed, thread
<1>5. ASSUME NEW t \in Type, ResetItem(t) PROVE HandsOK'
  BY <1>5, SharedAssumption DEF HandsOK, ResetItem, thread
<1>6. CASE Calibration \/ UNCHANGED vars
  BY <1>6 DEF HandsOK, Calibration, CalBegin, CalCopyBegin, CalCopyEnd, CalEnd, CalTimeout, Others,
       thread, daemon, vars
<1> QED BY <1>3, <1>4, <1>5, <1>6 DEF Next

\* The resets are counted up to MaxResets.
CountOK == dm # "closed" => resets < MaxResets

LEMMA OtherStep ==
  ASSUME OtherOK, CountOK, [Next]_vars
  PROVE  OtherOK' /\ CountOK'
<1>1. CASE Firmware
  BY <1>1 DEF OtherOK, CountOK, Firmware, Fill, Filled, Drain, Pair, Unpaired, GiveBack, Checked,
       Publish, Rest, daemon, update
<1>2. CASE Daemon
  <2>1. UNCHANGED update
    BY <1>2 DEF Daemon, Open, FetchBegin, FetchEnd, Read, TakeSet, Recycle, ReadOk, Apply, Release, Reset,
         ResetUnlocked, ResetItem, ResetEnd, Closed
  <2>2. open' \in BOOLEAN /\ fetched' \in BOOLEAN /\ copy' \in Mode \cup {Mixed}
    BY <1>2 DEF OtherOK, Daemon, Open, FetchBegin, FetchEnd, Read, TakeSet, Recycle, ReadOk, Apply, Release, Reset,
         ResetUnlocked, ResetItem, ResetEnd, Closed
  <2>3. ASSUME Reset \/ ResetEnd PROVE resets' \in 0..MaxResets /\ CountOK'
    <3>1. dm # "closed" /\ dm' = "closed" /\ resets' = resets + 1
      BY <2>3 DEF Reset, ResetEnd, Closed
    <3>2. resets \in 0..MaxResets /\ resets < MaxResets
      BY <3>1 DEF OtherOK, CountOK
    <3> QED BY <3>1, <3>2, SharedAssumption DEF CountOK
  <2>4. ASSUME ~Reset, ~ResetEnd PROVE resets' \in 0..MaxResets /\ CountOK'
    <3>1. resets' = resets /\ (dm = "closed" => resets < MaxResets \/ dm' = "closed")
      BY <1>2, <2>4 DEF Daemon, Open, FetchBegin, FetchEnd, Read, TakeSet, Recycle, ReadOk, Apply, Release,
           ResetUnlocked, ResetItem
    <3> QED BY <3>1 DEF OtherOK, CountOK
  <2>5. resets' \in 0..MaxResets /\ CountOK'
    BY <2>3, <2>4
  <2> QED BY <2>1, <2>2, <2>5 DEF OtherOK, update
<1>3. CASE Calibration \/ UNCHANGED vars
  BY <1>3 DEF OtherOK, CountOK, Calibration, CalBegin, CalCopyBegin, CalCopyEnd, CalEnd, CalTimeout,
       Others, daemon, update, vars
<1> QED BY <1>1, <1>2, <1>3 DEF Next

\* While a calibration is exchanged, the daemon reads no statistics and holds
\* no counted item.
CalInv == PausedWhileUpdating /\ QuietCalibration

LEMMA TornStep ==
  ASSUME TornLate, resets \in Nat, [Next]_vars
  PROVE  TornLate'
<1>1. ASSUME NEW t \in Type, GetDone(t), Rest PROVE TornLate'
  BY <1>1 DEF GetDone, GetDoneCaught, Due, Rest, daemon, TornLate
<1>2. ASSUME SetEmpty(local) \/ SetEmptyCaught(local), Rest PROVE TornLate'
  <2>1. ASSUME SetEmptyCaught(local) PROVE dm = "resetting"
    BY <2>1 DEF SetEmptyCaught, Due
  <2> QED BY <1>2, <2>1 DEF SetEmpty, Rest, daemon, TornLate
<1>3. CASE Firmware
  <2>1. ASSUME NEW t \in Type, Fill(t) \/ Filled(t) PROVE UNCHANGED <<torn, dm, resets>>
    BY <2>1 DEF Fill, Filled, GetEmpty, SetDone, rings, Rest, daemon
  <2>2. ASSUME Checked \/ Publish PROVE UNCHANGED <<torn, dm, resets>>
    BY <2>2 DEF Checked, Publish, rings, Rest, daemon
  <2> QED BY <1>1, <1>2, <1>3, <2>1, <2>2, SharedAssumption
          DEF Firmware, Drain, Pair, Unpaired, GiveBack, TornLate
<1>4. CASE Daemon
  <2>1. torn' = torn
    BY <1>4 DEF Daemon, Open, FetchBegin, FetchEnd, Read, TakeSet, Recycle, ReadOk, Apply, Release,
         Reset, ResetUnlocked, ResetItem, ResetEnd, Closed, SetEmpty, rings
  <2>2. \/ resets' = resets + 1
        \/ resets' = resets /\ (dm = "resetting" => dm' = "resetting")
    BY <1>4 DEF Daemon, Open, FetchBegin, FetchEnd, Read, TakeSet, Recycle, ReadOk, Apply, Release,
         Reset, ResetUnlocked, ResetItem, ResetEnd, Closed
  <2> QED BY <2>1, <2>2 DEF TornLate
<1>5. CASE Calibration \/ UNCHANGED vars
  BY <1>5 DEF Calibration, CalBegin, CalCopyBegin, CalCopyEnd, CalEnd, CalTimeout, Others, daemon,
       rings, vars, TornLate
<1> QED BY <1>3, <1>4, <1>5 DEF Next

\* Without a torn count, an update that is ready finds no item in use.
LEMMA ReadyMeansNone ==
  ASSUME CountInv, torn = {}, CalReady, NEW t \in Type \ {Follow}
  PROVE  With(t, "using") = {}
<1> DEFINE CountedAs(n) == {u \in Type \ {Follow} : using[u] = n}
<1>1. \A u \in Type : using[u] = IF With(u, "using") = {} THEN 0 ELSE 1
  BY DEF CountInv
<1>2. CountedAs(-1) = {} /\ CountedAs(1) \subseteq Type
  BY <1>1
<1>3. Cardinality(CountedAs(1)) = Cardinality(CountedAs(-1))
  BY DEF CalReady
<1> HIDE DEF CountedAs
<1>4. IsFiniteSet(CountedAs(1))
  BY <1>2, FS_Subset, SharedAssumption
<1>5. Cardinality(CountedAs(1)) = 0
  BY <1>2, <1>3, FS_EmptySet
<1>6. CountedAs(1) = {}
  BY <1>4, <1>5, FS_EmptySet
<1> QED BY <1>1, <1>6 DEF CountedAs

LEMMA CalStep ==
  ASSUME CountInv, TornLate, HandsOK, OtherOK, HoldInv, CalInv, [Next]_vars
  PROVE  CalInv'
<1>1. CASE Firmware \/ UNCHANGED vars
  BY <1>1 DEF CalInv, PausedWhileUpdating, QuietCalibration, Firmware, Fill, Filled, Drain, Pair,
       Unpaired, GiveBack, Checked, Publish, Rest, daemon, update, vars, None
<1>2. CASE Daemon
  <2>1. UNCHANGED <<cal, paused>>
    BY <1>2 DEF Daemon, Open, FetchBegin, FetchEnd, Read, TakeSet, Recycle, ReadOk, Apply, Release,
         Reset, ResetUnlocked, ResetItem, ResetEnd, Closed, update
  <2>2. ASSUME NEW t \in Type, Apply(t) PROVE QuietCalibration'
    <3>1. /\ mine' = [mine EXCEPT ![t] = None] /\ resets' = resets
          /\ dm \in {"using", "writing"}
      BY <2>2 DEF Apply
    <3>2. \A u \in Type : mine[u] = None => mine'[u] = None'
      BY <3>1 DEF HandsOK, None
    <3> QED BY <2>1, <3>1, <3>2 DEF CalInv, QuietCalibration
  <2>3. CASE ReadOk
    BY <2>1, <2>3 DEF ReadOk, Ready, CalInv, PausedWhileUpdating, QuietCalibration
  <2>4. ASSUME \/ Open \/ FetchBegin \/ FetchEnd \/ Read \/ TakeSet \/ Recycle \/ Release \/ Reset
               \/ ResetUnlocked \/ ResetEnd \/ \E t \in Type : ResetItem(t)
        PROVE  QuietCalibration'
    BY <2>1, <2>4 DEF Open, FetchBegin, FetchEnd, Read, TakeSet, Recycle, Release, Reset,
         ResetUnlocked, ResetItem, ResetEnd, Closed, QuietCalibration
  <2> QED BY <2>1, <2>2, <2>3, <2>4, <1>2 DEF Daemon, CalInv, PausedWhileUpdating
<1>3. CASE CalCopyBegin
  <2>1. mine' = mine /\ dm' = dm /\ resets' = resets /\ cal = "waiting" /\ paused' = paused
    BY <1>3 DEF CalCopyBegin, Others, daemon
  <2>2. QuietCalibration'
    <3>1. SUFFICES ASSUME resets = 0, dm \in {"using", "writing"}, NEW t \in Type \ {Follow}
                   PROVE  mine[t] = None
      BY <2>1 DEF QuietCalibration, None
    <3>2. \A i \in Item : st[t][i] # "using"
      BY <1>3, <3>1, ReadyMeansNone DEF TornLate, CalCopyBegin, With
    <3> QED BY <3>1, <3>2, LocalItem DEF HoldInv, FirstSession, Closing
  <2> QED BY <2>1, <2>2 DEF CalInv, PausedWhileUpdating
<1>4. CASE (\E m \in Mode : CalBegin(m)) \/ CalCopyEnd \/ CalEnd \/ CalTimeout
  BY <1>4 DEF CalInv, PausedWhileUpdating, QuietCalibration, CalBegin, CalCopyEnd, CalEnd, CalTimeout,
       Others, OtherOK
<1> QED BY <1>1, <1>2, <1>3, <1>4 DEF Next, Calibration

IInv == RingInv /\ CountInv /\ HandsOK /\ OtherOK /\ CountOK /\ HoldInv /\ TornLate /\ CalInv

LEMMA InitIInv == Init => IInv
<1> SUFFICES ASSUME Init PROVE IInv
  OBVIOUS
<1>1. 0 \in Item /\ None \in 0..N /\ Nothing \in [Type -> 0..N] /\ None # 0
  BY SharedAssumption DEF Item, None, Nothing
<1>2. RingsOK
  BY <1>1, SharedAssumption DEF Init, RingsOK, Status, Unseen
<1>3. ProducerNeverWaits /\ PreparedIsNewest
  BY <1>1 DEF Init, Unseen, ProducerNeverWaits, PreparedIsNewest, With
<1>4. OldestFirst
  BY DEF Init, OldestFirst, With, Nothing
<1>5. HandsOK /\ OtherOK
  <2>1. HandsOK
    <3>1. Unseen \in [Type -> 0..N]
      BY SharedAssumption DEF Unseen
    <3> QED BY <1>1, <3>1 DEF Init, HandsOK
  <2>2. wdr \in Mode /\ cur \in Mode /\ lut \in Mode \cup {Mixed} /\ copy \in Mode \cup {Mixed}
    BY DEF Init
  <2>3. resets \in 0..MaxResets
    BY SharedAssumption DEF Init
  <2> QED BY <2>1, <2>2, <2>3 DEF Init, OtherOK
<1>6. CountOK /\ TornLate /\ CalInv
  BY DEF Init, CountOK, TornLate, CalInv, PausedWhileUpdating, QuietCalibration
<1>7. \A t \in Type : With(t, "using") = {}
  BY DEF Init, With
<1>8. HoldInv
  BY <1>7 DEF Init, HoldInv, HandsInv, Named, FirstSession, Nothing
<1>9. CountInv
  BY <1>7 DEF Init, CountInv, TornStops, Unseen
<1> QED BY <1>2, <1>3, <1>4, <1>5, <1>6, <1>8, <1>9 DEF IInv, RingInv

LEMMA StepIInv == IInv /\ [Next]_vars => IInv'
<1> SUFFICES ASSUME IInv, [Next]_vars PROVE IInv'
  OBVIOUS
<1>1. resets \in Nat
  BY SharedAssumption DEF IInv, OtherOK
<1> QED BY <1>1, RingStep, CountStep, HandsStep, OtherStep, HoldStep, TornStep, CalStep DEF IInv

\* Every reachable state satisfies the inductive invariant.
THEOREM Inductive == Spec => []IInv
BY InitIInv, StepIInv, PTL DEF Spec

\* The variables keep their types (sbuf_func.c).
THEOREM TypeCorrect == Spec => []TypeOK
<1>1. IInv => TypeOK
  BY DEF IInv, RingInv, RingsOK, CountInv, HandsOK, OtherOK, TypeOK
<1> QED BY <1>1, Inductive, PTL

\* The producer always finds an empty item at write_idx, read_idx names the
\* oldest result, and there is a result when it names one.
THEOREM Positions == Spec => []PositionsSound
<1>1. IInv => PositionsSound
  BY DEF IInv, RingInv, PositionsSound
<1> QED BY <1>1, Inductive, PTL

\* As long as its count is not torn, an item of a type is counted exactly while
\* it is in use, and named by one who gives it back or due to be reset, in any
\* session; only a reset without the lock tears a count, and a torn type is
\* stopped.  In the first session the daemon's items are its own.
THEOREM Owning == Spec => []ItemsOwned
<1>1. IInv => NoItemLost /\ TornStops
  BY DEF IInv, CountInv, HoldInv, Named, NoItemLost
<1>2. ASSUME IInv PROVE SessionOwnsItems
  <2>1. SUFFICES ASSUME resets = 0, ~Closing, NEW t \in Type
        PROVE  /\ \A i \in {set[t], mine[t]} \ {None} : st[t][i] = "using"
               /\ set[t] # None => mine[t] = None /\ (local[t] = set[t] => fw = "filling")
    BY DEF SessionOwnsItems
  <2> QED BY <1>2, <2>1 DEF IInv, HoldInv, FirstSession
<1>3. IInv => ItemsOwned
  BY <1>1, <1>2 DEF ItemsOwned
<1> QED BY <1>3, Inductive, PTL

\* In the first session the daemon works on no counted item while the
\* calibration is exchanged.
THEOREM Exchanging == Spec => []QuietCalibration
<1>1. IInv => QuietCalibration
  BY DEF IInv, CalInv
<1> QED BY <1>1, Inductive, PTL
-----------------------------------------------------------------------------
(* The results in order.                                                       *)

\* How many items of a set are nearer than one of them.
LEMMA Older ==
  ASSUME NEW w \in Item, NEW D \in SUBSET Item
  PROVE  /\ IsFiniteSet(D) /\ Cardinality(D) \in Nat
         /\ \A i : Cardinality({j \in D : Dist(w, j) < Dist(w, i)}) \in Nat
         /\ \A i : IsFiniteSet({j \in D : Dist(w, j) < Dist(w, i)})
         /\ \A i \in D : Cardinality({j \in D : Dist(w, j) < Dist(w, i)}) < Cardinality(D)
<1>1. IsFiniteSet(D) /\ Cardinality(D) \in Nat
  <2>1. IsFiniteSet(Item)
    BY SharedAssumption, FS_Interval DEF Item
  <2> QED BY <2>1, FS_Subset, FS_CardinalityType
<1>2. ASSUME NEW i PROVE LET O == {j \in D : Dist(w, j) < Dist(w, i)}
                         IN  IsFiniteSet(O) /\ Cardinality(O) \in Nat /\ O \subseteq D
  <2> DEFINE O == {j \in D : Dist(w, j) < Dist(w, i)}
  <2>1. O \subseteq D
    OBVIOUS
  <2> QED BY <1>1, <2>1, FS_Subset, FS_CardinalityType
<1>3. ASSUME NEW i \in D PROVE Cardinality({j \in D : Dist(w, j) < Dist(w, i)}) < Cardinality(D)
  <2> DEFINE O == {j \in D : Dist(w, j) < Dist(w, i)}
  <2>1. i \notin O
    <3>1. Dist(w, i) \in Int
      BY DistRange, SharedAssumption
    <3> QED BY <3>1
  <2>2. O \subseteq D /\ O # D
    BY <2>1
  <2>3. IsFiniteSet(O) /\ Cardinality(O) \in Nat
    BY <1>2
  <2> HIDE DEF O
  <2>4. Cardinality(O) <= Cardinality(D) /\ (Cardinality(O) = Cardinality(D) => O = D)
    BY <1>1, <2>2, FS_Subset
  <2>5. Cardinality(O) < Cardinality(D)
    BY <1>1, <2>2, <2>3, <2>4
  <2> QED BY <2>5 DEF O
<1> QED BY <1>1, <1>2, <1>3

\* The order is a sequence.
LEMMA InOrderSeq ==
  ASSUME NEW w \in Item, NEW D \in SUBSET Item, NEW T,
         \A n \in 1..Cardinality(D) : TheOne(Ranked(D, w, n)) \in T
  PROVE  /\ InOrder(D, w) \in Seq(T) /\ Len(InOrder(D, w)) = Cardinality(D)
         /\ \A n \in 1..Cardinality(D) : InOrder(D, w)[n] = TheOne(Ranked(D, w, n))
<1>1. Cardinality(D) \in Nat
  BY Older
<1>2. InOrder(D, w) \in [1..Cardinality(D) -> T]
  BY DEF InOrder
<1>3. \A n \in 1..Cardinality(D) : InOrder(D, w)[n] = TheOne(Ranked(D, w, n))
  BY DEF InOrder
<1> QED BY <1>1, <1>2, <1>3

\* When a list is another one with something at its end, ...
LEMMA AppendIs ==
  ASSUME NEW T, NEW a \in Seq(T), NEW b \in Seq(T), NEW y \in T, Len(b) = Len(a) + 1,
         b[Len(a) + 1] = y, \A n \in 1..Len(a) : b[n] = a[n]
  PROVE  b = Append(a, y)
<1> DEFINE c == Append(a, y)
<1>1. c \in Seq(T) /\ Len(c) = Len(a) + 1 /\ Len(a) \in Nat
  OBVIOUS
<1>2. \A n \in 1..Len(a) + 1 : c[n] = b[n]
  <2>1. c[Len(a) + 1] = y /\ \A n \in 1..Len(a) : c[n] = a[n]
    OBVIOUS
  <2> HIDE DEF c
  <2> QED BY <2>1, <1>1
<1> HIDE DEF c
<1>3. b = c
  BY <1>1, <1>2, SeqEqual
<1> QED BY <1>3 DEF c

\* ... or without what is at its head.
LEMMA TailIs ==
  ASSUME NEW T, NEW a \in Seq(T), NEW b \in Seq(T), Len(a) >= 1, Len(b) = Len(a) - 1,
         \A n \in 1..Len(a) - 1 : b[n] = a[n + 1]
  PROVE  a # <<>> /\ Head(a) = a[1] /\ b = Tail(a)
<1>1. a # <<>> /\ Head(a) = a[1] /\ Len(a) \in Nat
  OBVIOUS
<1> DEFINE c == Tail(a)
<1>2. c \in Seq(T) /\ Len(c) = Len(a) - 1 /\ \A n \in 1..Len(a) - 1 : c[n] = a[n + 1]
  BY <1>1
<1> HIDE DEF c
<1>3. b = c
  BY <1>2, SeqEqual
<1> QED BY <1>1, <1>3 DEF c

\* A result that is further away than all others comes last.
LEMMA NewestLast ==
  ASSUME NEW w \in Item, NEW D \in SUBSET Item, NEW x \in Item \ D,
         \A k \in D : Dist(w, k) < Dist(w, x)
  PROVE  InOrder(D \cup {x}, w) = Append(InOrder(D, w), x)
<1> DEFINE E == D \cup {x}
           OD(i) == {j \in D : Dist(w, j) < Dist(w, i)}
           OE(i) == {j \in E : Dist(w, j) < Dist(w, i)}
<1>1. \A k \in E : Dist(w, k) \in Int
  BY DistRange, SharedAssumption
<1>2. \A i \in D : OE(i) = OD(i)
  BY <1>1
<1>3. OE(x) = D
  BY <1>1
<1>4. /\ IsFiniteSet(D) /\ Cardinality(D) \in Nat
      /\ \A i \in D : Cardinality(OD(i)) \in Nat /\ Cardinality(OD(i)) < Cardinality(D)
  BY Older
<1>5. Cardinality(E) = Cardinality(D) + 1
  BY <1>4, FS_AddElement
<1>6. ASSUME NEW n \in 1..Cardinality(D) PROVE Ranked(E, w, n) = Ranked(D, w, n)
  <2>1. Cardinality(OE(x)) # n - 1
    BY <1>3, <1>4
  <2>2. \A i \in D : Cardinality(OE(i)) = Cardinality(OD(i))
    BY <1>2
  <2>3. Ranked(E, w, n) = {i \in E : Cardinality(OE(i)) = n - 1}
    BY DEF Ranked
  <2>4. Ranked(D, w, n) = {i \in D : Cardinality(OD(i)) = n - 1}
    BY DEF Ranked
  <2> HIDE DEF OE, OD
  <2> QED BY <2>1, <2>2, <2>3, <2>4
<1>7. Ranked(E, w, Cardinality(D) + 1) = {x}
  <2>1. Ranked(E, w, Cardinality(D) + 1) = {i \in E : Cardinality(OE(i)) = (Cardinality(D) + 1) - 1}
    BY DEF Ranked
  <2>2. (Cardinality(D) + 1) - 1 = Cardinality(D)
    BY <1>4
  <2>3. \A i \in D : Cardinality(OE(i)) # Cardinality(D)
    BY <1>2, <1>4
  <2>4. Cardinality(OE(x)) = Cardinality(D)
    BY <1>3
  <2> HIDE DEF OE, OD
  <2> QED BY <2>1, <2>2, <2>3, <2>4
<1>8. TheOne({x}) = x
  BY DEF TheOne
<1> DEFINE c == Cardinality(D)
           a == InOrder(D, w)
           b == InOrder(E, w)
           T == {TheOne(Ranked(E, w, n)) : n \in 1..c + 1}
<1>9. /\ c \in Nat /\ x \in T /\ c + 1 \in 1..c + 1 /\ TheOne(Ranked(E, w, c + 1)) = x
      /\ \A n \in 1..c : TheOne(Ranked(E, w, n)) = TheOne(Ranked(D, w, n))
  <2>1. c \in Nat
    BY <1>4
  <2>2. TheOne(Ranked(E, w, c + 1)) = x
    <3>1. Ranked(E, w, c + 1) = {x}
      BY <1>7
    <3> HIDE DEF E, c
    <3> QED BY <3>1, <1>8
  <2>5. c + 1 \in 1..c + 1
    <3> HIDE DEF c
    <3> QED BY <2>1
  <2>3. ASSUME NEW n \in 1..c PROVE TheOne(Ranked(E, w, n)) = TheOne(Ranked(D, w, n))
    <3>1. Ranked(E, w, n) = Ranked(D, w, n)
      BY <1>6
    <3> HIDE DEF E
    <3> QED BY <3>1
  <2>4. x \in T
    <3> HIDE DEF E, c
    <3> QED BY <2>2, <2>5
  <2> HIDE DEF T, E, c
  <2> QED BY <2>1, <2>2, <2>3, <2>4, <2>5
<1>10. \A n \in 1..c : TheOne(Ranked(D, w, n)) \in T
  <2> SUFFICES ASSUME NEW n \in 1..c PROVE TheOne(Ranked(E, w, n)) \in T
    BY <1>9
  <2> HIDE DEF E, c
  <2>1. n \in 1..c + 1
    BY <1>9
  <2> QED BY <2>1
<1>11. /\ a \in Seq(T) /\ Len(a) = c
       /\ \A n \in 1..c : a[n] = TheOne(Ranked(D, w, n))
  <2> HIDE DEF T
  <2> QED BY <1>10, InOrderSeq
<1>12. /\ b \in Seq(T) /\ Len(b) = c + 1
       /\ \A n \in 1..c + 1 : b[n] = TheOne(Ranked(E, w, n))
  <2>1. \A n \in 1..Cardinality(E) : TheOne(Ranked(E, w, n)) \in T
    BY <1>5
  <2>2. E \in SUBSET Item
    OBVIOUS
  <2> HIDE DEF T, E
  <2> QED BY <2>1, <2>2, <1>5, InOrderSeq
<1> HIDE DEF c, a, b, E, T
<1>13. b[c + 1] = x /\ \A n \in 1..c : b[n] = a[n]
  BY <1>9, <1>11, <1>12
<1>14. b = Append(a, x)
  BY <1>9, <1>11, <1>12, <1>13, AppendIs
<1> QED BY <1>14 DEF a, b, E

\* The nearest result comes first, and the others follow as they are.
LEMMA OldestAtHead ==
  ASSUME NEW w \in Item, NEW D \in SUBSET Item, NEW r \in D,
         \A k \in D : Dist(w, r) <= Dist(w, k)
  PROVE  /\ InOrder(D, w) # <<>> /\ Head(InOrder(D, w)) = r
         /\ InOrder(D \ {r}, w) = Tail(InOrder(D, w))
<1> DEFINE E == D \ {r}
           OD(i) == {j \in D : Dist(w, j) < Dist(w, i)}
           OE(i) == {j \in E : Dist(w, j) < Dist(w, i)}
<1>1. \A k \in D : Dist(w, k) \in Int
  BY DistRange, SharedAssumption
<1>2. \A k \in E : Dist(w, r) < Dist(w, k)
  BY <1>1, DistInjective
<1>3. OD(r) = {}
  BY <1>1
<1>4. \A i \in E : OD(i) = OE(i) \cup {r} /\ r \notin OE(i)
  BY <1>1, <1>2
<1>5. /\ IsFiniteSet(D) /\ Cardinality(D) \in Nat
      /\ \A i : IsFiniteSet(OE(i)) /\ Cardinality(OE(i)) \in Nat
  BY Older
<1>6. Cardinality(E) = Cardinality(D) - 1 /\ Cardinality(D) # 0
  BY <1>5, FS_RemoveElement, FS_EmptySet
<1>7. ASSUME NEW i \in E PROVE Cardinality(OD(i)) = Cardinality(OE(i)) + 1
  <2>1. OD(i) = OE(i) \cup {r} /\ r \notin OE(i) /\ IsFiniteSet(OE(i))
    BY <1>4, <1>5
  <2> HIDE DEF OD, OE
  <2> QED BY <2>1, FS_AddElement
<1>8. Cardinality(OD(r)) = 0
  BY <1>3, FS_EmptySet
<1>9. Ranked(D, w, 1) = {r}
  <2>1. Ranked(D, w, 1) = {i \in D : Cardinality(OD(i)) = 1 - 1}
    BY DEF Ranked
  <2>2. ASSUME NEW i \in E PROVE Cardinality(OD(i)) # 0
    <3>1. Cardinality(OD(i)) = Cardinality(OE(i)) + 1 /\ Cardinality(OE(i)) \in Nat
      BY <1>5, <1>7
    <3> HIDE DEF OD, OE
    <3> QED BY <3>1
  <2> HIDE DEF OE, OD
  <2> QED BY <1>8, <2>1, <2>2
<1>10. ASSUME NEW n \in 1..Cardinality(D) - 1 PROVE Ranked(E, w, n) = Ranked(D, w, n + 1)
  <2>1. Ranked(E, w, n) = {i \in E : Cardinality(OE(i)) = n - 1}
    BY DEF Ranked
  <2>2. Ranked(D, w, n + 1) = {i \in D : Cardinality(OD(i)) = (n + 1) - 1}
    BY DEF Ranked
  <2>3. n \in Nat /\ n >= 1
    BY <1>5
  <2>4. \A i \in E : Cardinality(OE(i)) = n - 1 <=> Cardinality(OD(i)) = (n + 1) - 1
    <3> HIDE DEF OE, OD, E
    <3> QED BY <1>5, <1>7, <2>3
  <2>5. Cardinality(OD(r)) # (n + 1) - 1
    BY <1>8, <2>3
  <2> HIDE DEF OE, OD
  <2> QED BY <2>1, <2>2, <2>4, <2>5
<1>11. TheOne({r}) = r
  BY DEF TheOne
<1> DEFINE c == Cardinality(D)
           a == InOrder(D, w)
           b == InOrder(E, w)
           T == {TheOne(Ranked(D, w, n)) : n \in 1..c}
<1>12. c \in Nat /\ c >= 1
  BY <1>5, <1>6
<1>13. /\ a \in Seq(T) /\ Len(a) = c
       /\ \A n \in 1..c : a[n] = TheOne(Ranked(D, w, n))
  <2>1. \A n \in 1..Cardinality(D) : TheOne(Ranked(D, w, n)) \in T
    OBVIOUS
  <2> HIDE DEF T
  <2> QED BY <2>1, InOrderSeq
<1>14. \A n \in 1..c - 1 : /\ n + 1 \in 1..c
                           /\ TheOne(Ranked(E, w, n)) = TheOne(Ranked(D, w, n + 1))
  <2> SUFFICES ASSUME NEW n \in 1..c - 1
               PROVE  n + 1 \in 1..c /\ TheOne(Ranked(E, w, n)) = TheOne(Ranked(D, w, n + 1))
    OBVIOUS
  <2>1. n + 1 \in 1..c
    BY <1>12
  <2>2. Ranked(E, w, n) = Ranked(D, w, n + 1)
    BY <1>10
  <2> QED BY <2>1, <2>2
<1>15. /\ b \in Seq(T) /\ Len(b) = c - 1
       /\ \A n \in 1..c - 1 : b[n] = TheOne(Ranked(E, w, n))
  <2>1. \A n \in 1..Cardinality(E) : TheOne(Ranked(E, w, n)) \in T
    BY <1>6, <1>14
  <2>2. E \in SUBSET Item
    OBVIOUS
  <2> HIDE DEF T, E
  <2> QED BY <2>1, <2>2, <1>6, InOrderSeq
<1> HIDE DEF c, a, b, E, T
<1>16. a[1] = r
  <2>1. 1 \in 1..c
    BY <1>12
  <2> QED BY <2>1, <1>9, <1>11, <1>13
<1>17. \A n \in 1..c - 1 : b[n] = a[n + 1]
  BY <1>13, <1>14, <1>15
<1>18. a # <<>> /\ Head(a) = a[1] /\ b = Tail(a)
  BY <1>12, <1>13, <1>15, <1>17, TailIs
<1> QED BY <1>16, <1>18 DEF a, b, E

\* The order depends on who is nearer, not on how near.
LEMMA SameOrder ==
  ASSUME NEW w, NEW v, NEW D,
         \A i, j \in D : Dist(w, j) < Dist(w, i) <=> Dist(v, j) < Dist(v, i)
  PROVE  InOrder(D, w) = InOrder(D, v)
<1>1. ASSUME NEW i \in D
      PROVE  {j \in D : Dist(w, j) < Dist(w, i)} = {j \in D : Dist(v, j) < Dist(v, i)}
  OBVIOUS
<1>2. ASSUME NEW n PROVE Ranked(D, w, n) = Ranked(D, v, n)
  BY <1>1 DEF Ranked
<1> QED BY <1>2 DEF InOrder
-----------------------------------------------------------------------------
(* Refinement, one lemma per ring operation.                                   *)

Waiting == [t \in Type |-> InOrder(With(t, "done"), wr[t])]
InUse == [t \in Type |-> With(t, "using")]

\* A step that changes one ring changes one line of the queue.
LEMMA OneRing ==
  ASSUME NEW t \in Type, \A u \in Type \ {t} : st'[u] = st[u] /\ wr'[u] = wr[u]
  PROVE  /\ Waiting' = [Waiting EXCEPT ![t] = InOrder(With(t, "done")', wr'[t])]
         /\ InUse' = [InUse EXCEPT ![t] = With(t, "using")']
<1>1. ASSUME NEW u \in Type \ {t}
      PROVE  With(u, "done")' = With(u, "done") /\ With(u, "using")' = With(u, "using") /\ wr'[u] = wr[u]
  BY DEF With
<1>2. Waiting' = [u \in Type |-> InOrder(With(u, "done")', wr'[u])]
  BY DEF Waiting
<1>3. InUse' = [u \in Type |-> With(u, "using")']
  BY DEF InUse
<1> QED BY <1>1, <1>2, <1>3 DEF Waiting, InUse

\* A step that leaves a ring's results and the item in use alone, leaves the
\* queue alone.
LEMMA SameRing ==
  ASSUME NEW t \in Type, \A u \in Type \ {t} : st'[u] = st[u] /\ wr'[u] = wr[u],
         InOrder(With(t, "done")', wr'[t]) = InOrder(With(t, "done"), wr[t]),
         With(t, "using")' = With(t, "using")
  PROVE  UNCHANGED Queue!vars
<1>1. Waiting' = Waiting /\ InUse' = InUse
  BY OneRing DEF Waiting, InUse
<1> QED BY <1>1 DEF Queue!vars, Waiting, InUse

LEMMA GetEmptyRefines ==
  ASSUME RingInv, NEW t \in Type, GetEmpty(t)
  PROVE  [Queue!Next]_Queue!vars
<1> DEFINE w == wr[t]
           n == NextWrite(t, w)
           D == With(t, "done")
<1>1. RingsOK /\ w \in Item /\ st[t] \in [Item -> Status] /\ Good(t)
  BY GoodRings DEF RingsOK
<1>2. /\ n \in Item /\ n # w /\ st[t][n] # "using"
      /\ \A i \in Item \ {w, n} : st[t][i] # "using" => Dist(w, n) < Dist(w, i)
  BY NextWriteFree
<1>3. /\ With(t, "prepare") = {}
      /\ st' = [st EXCEPT ![t] = [@ EXCEPT ![w] = "prepare", ![n] = "empty"]]
      /\ wr' = [wr EXCEPT ![t] = n]
  BY DEF GetEmpty
<1>4. D \subseteq Item /\ w \notin D
  BY <1>1 DEF With, Good
<1> HIDE DEF n
<1>5. wr'[t] = n /\ st'[t] = [st[t] EXCEPT ![w] = "prepare", ![n] = "empty"]
  BY <1>1, <1>3 DEF RingsOK
<1>6. /\ \A i \in Item \ {w, n} : st'[t][i] = st[t][i]
      /\ st'[t][n] = "empty" /\ st'[t][w] = "prepare"
  BY <1>1, <1>2, <1>5
<1>7. With(t, "done")' = D \ {n}
  BY <1>1, <1>2, <1>4, <1>6 DEF With
<1>8. With(t, "using")' = With(t, "using")
  BY <1>1, <1>2, <1>6 DEF With, Good
<1>9. \A u \in Type \ {t} : st'[u] = st[u] /\ wr'[u] = wr[u]
  BY <1>1, <1>3 DEF RingsOK
<1>10. \A i \in D \ {n} : Dist(n, i) = Dist(w, i) - Dist(w, n)
  BY <1>1, <1>2, <1>4, DistShift DEF With
<1>11. \A i \in Item : Dist(w, i) \in Int
  BY <1>1, DistRange, SharedAssumption
<1>12. InOrder(D \ {n}, n) = InOrder(D \ {n}, w)
  <2>1. \A i, j \in D \ {n} : Dist(n, j) < Dist(n, i) <=> Dist(w, j) < Dist(w, i)
    BY <1>2, <1>4, <1>10, <1>11
  <2> QED BY <2>1, SameOrder
<1>13. CASE n \in D
  <2>1. \A k \in D : Dist(w, n) <= Dist(w, k)
    BY <1>2, <1>4, <1>11 DEF With
  <2>2. InOrder(D, w) # <<>> /\ InOrder(D \ {n}, w) = Tail(InOrder(D, w))
    BY <1>1, <1>4, <1>13, <2>1, OldestAtHead
  <2>3. Waiting[t] = InOrder(D, w) /\ InUse[t] = With(t, "using")
    BY DEF Waiting, InUse
  <2>4. /\ Waiting' = [Waiting EXCEPT ![t] = InOrder(With(t, "done")', wr'[t])]
        /\ InUse' = [InUse EXCEPT ![t] = With(t, "using")']
    BY <1>9, OneRing
  <2>5. InUse' = InUse
    BY <1>8, <2>3, <2>4 DEF InUse
  <2>6. Waiting' = [Waiting EXCEPT ![t] = Tail(@)] /\ Waiting[t] # <<>>
    BY <1>5, <1>7, <1>12, <2>2, <2>3, <2>4
  <2>7. Queue!Discard(t)
    BY <2>5, <2>6 DEF Queue!Discard, Waiting, InUse
  <2> QED BY <2>7 DEF Queue!Next
<1>14. CASE n \notin D
  <2>1. D \ {n} = D
    BY <1>14
  <2>2. InOrder(With(t, "done")', wr'[t]) = InOrder(D, w)
    BY <1>5, <1>7, <1>12, <2>1
  <2> QED BY <1>8, <1>9, <2>2, SameRing
<1> QED BY <1>13, <1>14

LEMMA SetDoneRefines ==
  ASSUME RingInv, NEW t \in Type, NEW i \in Item, SetDone(t, i)
  PROVE  [Queue!Next]_Queue!vars
<1> DEFINE D == With(t, "done")
<1>1. RingsOK /\ st[t] \in [Item -> Status] /\ wr[t] \in Item /\ Good(t)
  BY GoodRings DEF RingsOK
<1>2. CASE st[t][i] # "prepare"
  <2>1. UNCHANGED rings
    BY <1>2 DEF SetDone
  <2> QED BY <2>1 DEF rings, Queue!vars, With
<1>3. CASE st[t][i] = "prepare"
  <2>1. st' = [st EXCEPT ![t] = [@ EXCEPT ![i] = "done"]] /\ wr' = wr
    BY <1>3 DEF SetDone
  <2>2. st'[t] = [st[t] EXCEPT ![i] = "done"] /\ wr'[t] = wr[t]
    BY <1>1, <2>1 DEF RingsOK
  <2>3. /\ D \subseteq Item /\ i \notin D /\ With(t, "done")' = D \cup {i}
        /\ With(t, "using")' = With(t, "using")
    BY <1>1, <1>3, <2>2 DEF With
  <2>4. \A k \in D : Dist(wr[t], k) < Dist(wr[t], i)
    BY <1>1, <1>3 DEF Good, With
  <2>5. InOrder(D \cup {i}, wr[t]) = Append(InOrder(D, wr[t]), i)
    BY <1>1, <2>3, <2>4, NewestLast
  <2>6. \A u \in Type \ {t} : st'[u] = st[u] /\ wr'[u] = wr[u]
    BY <1>1, <2>1 DEF RingsOK
  <2>7. /\ Waiting' = [Waiting EXCEPT ![t] = InOrder(With(t, "done")', wr'[t])]
        /\ InUse' = [InUse EXCEPT ![t] = With(t, "using")']
    BY <2>6, OneRing
  <2>8. Waiting[t] = InOrder(D, wr[t]) /\ InUse[t] = With(t, "using")
    BY DEF Waiting, InUse
  <2>9. Waiting' = [Waiting EXCEPT ![t] = Append(@, i)]
    BY <2>2, <2>3, <2>5, <2>7, <2>8
  <2>10. InUse' = InUse
    BY <2>3, <2>7, <2>8 DEF InUse
  <2>11. Queue!Produce(t, i)
    BY <2>9, <2>10 DEF Queue!Produce, Waiting, InUse
  <2> QED BY <2>11 DEF Queue!Next
<1> QED BY <1>2, <1>3

LEMMA TakeOutRefines ==
  ASSUME RingInv, CountInv, NEW t \in Type, NEW s \in {"using", "empty"}, TakeOut(t, s)
  PROVE  [Queue!Next]_Queue!vars
<1> DEFINE D == With(t, "done")
           r == rd[t]
<1>1. RingsOK /\ st[t] \in [Item -> Status] /\ wr[t] \in Item /\ Good(t)
  BY GoodRings DEF RingsOK
<1>2. /\ With(t, "using") = {} /\ r # None /\ st[t][r] = "done"
      /\ st' = [st EXCEPT ![t] = [@ EXCEPT ![r] = s]]
      /\ wr' = wr
  BY NoneInUse DEF TakeOut, CanUse
<1>3. r \in Item /\ r \in D /\ D \subseteq Item
  BY <1>2, TakeOutRing DEF With
<1>4. \A k \in D : Dist(wr[t], r) <= Dist(wr[t], k)
  BY <1>1, <1>2 DEF Good
<1> HIDE DEF r
<1>5. st'[t] = [st[t] EXCEPT ![r] = s] /\ wr'[t] = wr[t]
  BY <1>1, <1>2 DEF RingsOK
<1>6. With(t, "done")' = D \ {r} /\ With(t, "using")' = IF s = "using" THEN {r} ELSE {}
  BY <1>1, <1>2, <1>3, <1>5 DEF With
<1>7. \A u \in Type \ {t} : st'[u] = st[u] /\ wr'[u] = wr[u]
  BY <1>1, <1>2 DEF RingsOK
<1>8. /\ InOrder(D, wr[t]) # <<>> /\ Head(InOrder(D, wr[t])) = r
      /\ InOrder(D \ {r}, wr[t]) = Tail(InOrder(D, wr[t]))
  BY <1>1, <1>3, <1>4, OldestAtHead
<1>9. /\ Waiting' = [Waiting EXCEPT ![t] = InOrder(With(t, "done")', wr'[t])]
      /\ InUse' = [InUse EXCEPT ![t] = With(t, "using")']
  BY <1>7, OneRing
<1>10. Waiting[t] = InOrder(D, wr[t]) /\ InUse[t] = {}
  BY <1>2 DEF Waiting, InUse
<1>11. Waiting[t] # <<>> /\ Waiting' = [Waiting EXCEPT ![t] = Tail(@)]
  BY <1>5, <1>6, <1>8, <1>9, <1>10
<1>12. CASE s = "using"
  <2>1. InUse' = [InUse EXCEPT ![t] = {Head(Waiting[t])}]
    BY <1>6, <1>8, <1>9, <1>10, <1>12
  <2>2. Queue!Take(t)
    BY <1>10, <1>11, <2>1 DEF Queue!Take, Waiting, InUse
  <2> QED BY <2>2 DEF Queue!Next
<1>13. CASE s = "empty"
  <2>1. InUse' = InUse
    BY <1>6, <1>9, <1>10, <1>13 DEF InUse
  <2>2. Queue!Discard(t)
    BY <1>11, <2>1 DEF Queue!Discard, Waiting, InUse
  <2> QED BY <2>2 DEF Queue!Next
<1> QED BY <1>12, <1>13

\* Items that go from using to empty are returned.
LEMMA FreedRefines ==
  ASSUME RingInv, UNCHANGED wr,
         \A t \in Type : \A i \in Item :
           st'[t][i] = st[t][i] \/ (st[t][i] = "using" /\ st'[t][i] = "empty")
  PROVE  [Queue!Next]_Queue!vars
<1> DEFINE kept == {t \in Type : With(t, "using")' = With(t, "using")}
<1>1. \A t \in Type : With(t, "done")' = With(t, "done")
  BY DEF With
<1>2. Waiting' = Waiting
  BY <1>1 DEF Waiting
<1>3. ASSUME NEW t \in Type PROVE With(t, "using")' \in {With(t, "using"), {}}
  <2>1. With(t, "using")' \subseteq With(t, "using")
    BY DEF With
  <2>2. \A i, j \in With(t, "using") : i = j
    BY DEF RingInv, ProducerNeverWaits, With
  <2> QED BY <2>1, <2>2
<1>4. InUse' = [t \in Type |-> IF t \in kept THEN InUse[t] ELSE {}]
  <2>1. InUse' = [t \in Type |-> With(t, "using")']
    BY DEF InUse
  <2>2. \A t \in Type : With(t, "using")' = IF t \in kept THEN InUse[t] ELSE {}
    BY <1>3 DEF InUse
  <2> QED BY <2>1, <2>2
<1>5. kept \in SUBSET Type
  OBVIOUS
<1> HIDE DEF kept
<1>6. Queue!Return
  BY <1>2, <1>4, <1>5 DEF Queue!Return, Waiting, InUse
<1> QED BY <1>6 DEF Queue!Next

LEMMA EmptiedRefines ==
  ASSUME RingInv, NEW F, st' = Emptied(F), UNCHANGED <<rd, wr>>
  PROVE  [Queue!Next]_Queue!vars
BY EmptiedEffect, FreedRefines

LEMMA RefinesStep ==
  ASSUME RingInv, CountInv, HandsOK, [Next]_vars
  PROVE  [Queue!Next]_Queue!vars
<1>1. ASSUME NEW t \in Type, Fill(t) PROVE [Queue!Next]_Queue!vars
  BY <1>1, GetEmptyRefines DEF Fill
<1>2. ASSUME NEW t \in Type, Filled(t) PROVE [Queue!Next]_Queue!vars
  BY <1>2, LocalItem, SetDoneRefines DEF Filled
<1>3. ASSUME NEW t \in Type, Drain(t) PROVE [Queue!Next]_Queue!vars
  BY <1>3, TakeOutRefines DEF Drain, GetDone, GetDoneCaught
<1>4. CASE Pair
  BY <1>4, TakeOutRefines, SharedAssumption DEF Pair, GetDone, GetDoneCaught
<1>5. CASE Unpaired \/ GiveBack \/ Recycle
  BY <1>5, EmptiedRefines DEF Unpaired, GiveBack, Recycle, SetEmpty, SetEmptyCaught
<1>6. ASSUME NEW t \in Type, Apply(t) PROVE [Queue!Next]_Queue!vars
  BY <1>6, EmptiedRefines DEF Apply, SetEmpty
<1>7. CASE Reset \/ \E t \in Type : ResetItem(t)
  BY <1>7, EmptiedRefines DEF Reset, Closed, ResetItem
<1>8. CASE Checked \/ Publish \/ Open \/ FetchBegin \/ FetchEnd \/ Read \/ TakeSet \/ ReadOk \/ Release
            \/ ResetUnlocked \/ ResetEnd
  <2>1. UNCHANGED <<st, wr>>
    BY <1>8 DEF Checked, Publish, Open, FetchBegin, FetchEnd, Read, TakeSet, ReadOk, Release,
         ResetUnlocked, ResetEnd, Closed, rings
  <2> QED BY <2>1 DEF Queue!vars, With
<1>9. CASE Calibration \/ UNCHANGED vars
  <2>1. UNCHANGED rings
    BY <1>9 DEF Calibration, CalBegin, CalCopyBegin, CalCopyEnd, CalEnd, CalTimeout, Others, vars
  <2> QED BY <2>1 DEF rings, Queue!vars, With
<1> QED BY <1>1, <1>2, <1>3, <1>4, <1>5, <1>6, <1>7, <1>8, <1>9 DEF Next, Firmware, Daemon

\* The rings implement the abstract queues: results wait in the order they
\* were produced, at most the oldest is given up, one at a time is in use.
THEOREM RingsImplementQueues == Spec => RefinesStatsQueue
<1>1. Init => Queue!Init
  <2> SUFFICES ASSUME Init PROVE Queue!Init
    OBVIOUS
  <2>1. \A t \in Type : With(t, "done") = {} /\ With(t, "using") = {}
    BY DEF Init, With
  <2>2. \A w : InOrder({}, w) = <<>>
    BY FS_EmptySet DEF InOrder
  <2> QED BY <2>1, <2>2 DEF Queue!Init
<1>2. IInv /\ [Next]_vars => [Queue!Next]_Queue!vars
  BY RefinesStep DEF IInv
<1> QED BY <1>1, <1>2, Inductive, PTL DEF Spec, RefinesStatsQueue, Queue!Spec
=============================================================================
