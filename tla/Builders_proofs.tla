-------------------------- MODULE Builders_proofs --------------------------
(***************************************************************************)
(* What the functors build, for any number of descriptions, clusters and   *)
(* calls.                                                                  *)
(***************************************************************************)
EXTENDS Builders, WellFoundedInduction, TLAPS

\* A nonempty set of numbers has a first element, and only one.
LEMMA FirstOf ==
  ASSUME NEW S \in SUBSET Nat, S # {}
  PROVE  First(S) \in S /\ \A j \in S : First(S) <= j
<1> DEFINE less == OpToRel(<, Nat)
<1>1. less = {ss \in Nat \X Nat : ss[1] < ss[2]}
  BY Zenon DEF OpToRel
<1>2. IsWellFoundedOn(less, Nat)
  BY NatLessThanWellFounded, Zenon
<1> HIDE DEF less
<1>3. PICK i \in S : \A j \in S : ~(<<j, i>> \in less)
  BY <1>2, WFMin, Zenon
<1>4. ASSUME NEW j \in S PROVE i <= j
  <2>1. i \in Nat /\ j \in Nat
    OBVIOUS
  <2>2. CASE j < i
    <3>1. <<j, i>> \in {ss \in Nat \X Nat : ss[1] < ss[2]}
      BY <2>1, <2>2
    <3> QED BY <1>1, <1>3, <3>1, Zenon
  <2> QED BY <2>1, <2>2
<1>5. \A k \in S : (\A j \in S : k <= j) => k = i
  BY <1>4
<1> QED
  BY <1>4 DEF First

\* First is determined by what it says.
LEMMA FirstIs ==
  ASSUME NEW S \in SUBSET Nat, NEW k \in S, \A j \in S : k <= j
  PROVE  First(S) = k
<1>1. First(S) \in S /\ \A j \in S : First(S) <= j
  BY FirstOf
<1>2. First(S) \in Nat /\ k \in Nat /\ First(S) <= k /\ k <= First(S)
  BY <1>1
<1> QED
  BY <1>2

\* A nonempty set of positions has a last one.
LEMMA LastOf ==
  ASSUME NEW n \in Nat, NEW S \in SUBSET (1..n), S # {}
  PROVE  Last(S) \in S /\ \A j \in S : j <= Last(S)
<1> DEFINE T == {n - i : i \in S}
<1>0. \A i \in S : i \in Int /\ i <= n
  OBVIOUS
<1>1. T \in SUBSET Nat /\ T # {}
  <2>1. \A i \in S : n - i \in Nat
    BY <1>0
  <2> QED BY <2>1
<1>2. PICK i \in S : n - i = First(T)
  BY <1>1, FirstOf
<1>3. \A j \in S : n - j \in T
  OBVIOUS
<1> HIDE DEF T
<1>4. \A j \in S : n - i <= n - j
  BY <1>1, <1>2, <1>3, FirstOf
<1>5. \A j \in S : j <= i
  BY <1>4
<1> QED
  BY <1>5 DEF Last

\* Last, too, is determined by what it says.
LEMMA LastIs ==
  ASSUME NEW n \in Nat, NEW S \in SUBSET (1..n), NEW k \in S, \A j \in S : j <= k
  PROVE  Last(S) = k
<1>1. Last(S) \in S /\ \A j \in S : j <= Last(S)
  BY LastOf
<1>2. Last(S) \in 1..n /\ k \in 1..n /\ Last(S) <= k /\ k <= Last(S)
  BY <1>1
<1> QED
  BY <1>2

\* An element of a sequence.
LEMMA ElementOfSeq ==
  ASSUME NEW S, NEW s \in Seq(S), NEW i \in 1..Len(s)
  PROVE  s[i] \in S
OBVIOUS

\* One more element.
LEMMA AppendToSeq ==
  ASSUME NEW S, NEW s \in Seq(S), NEW e \in S
  PROVE  /\ Append(s, e) \in Seq(S)
         /\ Len(Append(s, e)) = Len(s) + 1
         /\ Len(s) \in Nat
         /\ \A i \in 1..Len(s) : Append(s, e)[i] = s[i]
         /\ Append(s, e)[Len(s) + 1] = e
OBVIOUS
-----------------------------------------------------------------------------
(* What one more call changes.                                             *)

\* The calls that name a cluster are the ones there were, and the new one if it
\* is such a call.
LEMMA NamingAfter ==
  ASSUME NEW h \in Seq(FunctorCalls), NEW call \in FunctorCalls, NEW c
  PROVE  /\ Len(h) \in Nat
         /\ NamingCalls(h, c) \subseteq 1..Len(h)
         /\ NamingCalls(Append(h, call), c) = NamingCalls(h, c) \cup
              (IF call.kind = "cluster" /\ call.cluster = c THEN {Len(h) + 1} ELSE {})
         /\ call.kind = "metric" => NamingCalls(Append(h, call), c) = NamingCalls(h, c)
         /\ call.kind = "cluster" =>
              (NamingCalls(Append(h, call), c) # {}
                 <=> NamingCalls(h, c) # {} \/ call.cluster = c)
<1> DEFINE g == Append(h, call)
<1>1. /\ Len(g) = Len(h) + 1 /\ Len(h) \in Nat
      /\ \A i \in 1..Len(h) : g[i] = h[i]
      /\ g[Len(h) + 1] = call
  BY AppendToSeq
<1> HIDE DEF g
<1>2. 1..Len(g) = (1..Len(h)) \cup {Len(h) + 1}
  BY <1>1
<1>3. NamingCalls(g, c) = NamingCalls(h, c) \cup
        (IF call.kind = "cluster" /\ call.cluster = c THEN {Len(h) + 1} ELSE {})
  BY <1>1, <1>2 DEF NamingCalls
<1> QED
  BY <1>1, <1>3 DEF g, NamingCalls

\* So are the calls that add an item.
LEMMA AddingAfter ==
  ASSUME NEW h \in Seq(FunctorCalls), NEW call \in FunctorCalls, NEW c, NEW item
  PROVE  /\ Len(h) \in Nat
         /\ AddingCalls(h, c, item) \subseteq 1..Len(h)
         /\ AddingCalls(Append(h, call), c, item) = AddingCalls(h, c, item) \cup
              (IF call.kind = "metric" /\ call.cluster = c /\ call.item = item
               THEN {Len(h) + 1} ELSE {})
<1> DEFINE g == Append(h, call)
<1>1. /\ Len(g) = Len(h) + 1 /\ Len(h) \in Nat
      /\ \A i \in 1..Len(h) : g[i] = h[i]
      /\ g[Len(h) + 1] = call
  BY AppendToSeq
<1> HIDE DEF g
<1>2. 1..Len(g) = (1..Len(h)) \cup {Len(h) + 1}
  BY <1>1
<1>3. AddingCalls(g, c, item) = AddingCalls(h, c, item) \cup
        (IF call.kind = "metric" /\ call.cluster = c /\ call.item = item
         THEN {Len(h) + 1} ELSE {})
  BY <1>1, <1>2 DEF AddingCalls
<1> QED
  BY <1>1, <1>3 DEF g, AddingCalls

\* S has places up to n, T at most the next.
Then(n, S, T) == n \in Nat /\ S \in SUBSET (1..n) /\ T \in SUBSET {n + 1}

\* A later call does not come first.
LEMMA FirstStays ==
  ASSUME NEW n, NEW S, NEW T, Then(n, S, T)
  PROVE  /\ S # {} => First(S \cup T) = First(S) /\ First(S) \in 1..n
         /\ S = {} /\ T # {} => First(S \cup T) = n + 1
<1> USE DEF Then
<1>1. ASSUME S # {} PROVE First(S \cup T) = First(S) /\ First(S) \in 1..n
  <2>1. First(S) \in S /\ \A j \in S : First(S) <= j
    BY <1>1, FirstOf
  <2>2. S \cup T \in SUBSET Nat /\ First(S) \in S \cup T
    BY <2>1
  <2>3. \A j \in S \cup T : First(S) <= j
    <3>1. First(S) \in 1..n /\ \A j \in T : j = n + 1
      BY <2>1
    <3>2. \A j \in T : First(S) <= j
      BY <3>1
    <3> QED BY <2>1, <3>2
  <2>4. First(S \cup T) = First(S)
    BY <2>2, <2>3, FirstIs
  <2> QED BY <2>1, <2>4
<1>2. ASSUME S = {}, T # {} PROVE First(S \cup T) = n + 1
  <2>1. S \cup T = {n + 1}
    BY <1>2
  <2>2. {n + 1} \in SUBSET Nat /\ n + 1 \in {n + 1} /\ \A j \in {n + 1} : n + 1 <= j
    OBVIOUS
  <2> QED BY <2>1, <2>2, FirstIs
<1> QED
  BY <1>1, <1>2

\* A cluster keeps the name it had first.
LEMMA NameAfter ==
  ASSUME NEW h \in Seq(FunctorCalls), NEW call \in FunctorCalls, NEW c
  PROVE  /\ NamingCalls(h, c) # {} => NameIn(Append(h, call), c) = NameIn(h, c)
         /\ NamingCalls(h, c) = {} /\ call.kind = "cluster" /\ call.cluster = c
              => NameIn(Append(h, call), c) = call.name
<1> DEFINE T == IF call.kind = "cluster" /\ call.cluster = c THEN {Len(h) + 1} ELSE {}
<1>1. /\ Len(h) \in Nat /\ NamingCalls(h, c) \in SUBSET (1..Len(h))
      /\ NamingCalls(Append(h, call), c) = NamingCalls(h, c) \cup T
  BY NamingAfter
<1>2. T \in SUBSET {Len(h) + 1}
  OBVIOUS
<1>3. call.kind = "cluster" /\ call.cluster = c => T # {}
  OBVIOUS
<1> HIDE DEF T
<1>4. /\ NamingCalls(h, c) # {} =>
           First(NamingCalls(Append(h, call), c)) = First(NamingCalls(h, c))
             /\ First(NamingCalls(h, c)) \in 1..Len(h)
      /\ NamingCalls(h, c) = {} /\ T # {} =>
           First(NamingCalls(Append(h, call), c)) = Len(h) + 1
  <2> DEFINE S == NamingCalls(h, c)
             m == Len(h)
  <2>1. Then(m, S, T)
    BY <1>1, <1>2 DEF Then
  <2> HIDE DEF S, m
  <2>2. /\ S # {} => First(S \cup T) = First(S) /\ First(S) \in 1..m
        /\ S = {} /\ T # {} => First(S \cup T) = m + 1
    BY <2>1, FirstStays
  <2> QED BY <1>1, <2>2 DEF S, m
<1>5. /\ \A i \in 1..Len(h) : Append(h, call)[i] = h[i]
      /\ Append(h, call)[Len(h) + 1] = call
  BY AppendToSeq
<1> QED
  BY <1>3, <1>4, <1>5 DEF NameIn

\* An item keeps the metric it had first; other calls add nothing.
LEMMA ItemsAfter ==
  ASSUME NEW h \in Seq(FunctorCalls), NEW call \in FunctorCalls, NEW c
  PROVE  /\ ~(call.kind = "metric" /\ call.cluster = c)
              => ItemsIn(Append(h, call), c) = ItemsIn(h, c)
         /\ call.kind = "metric" /\ call.cluster = c /\ call.item \in ItemIds
              => ItemsIn(Append(h, call), c) =
                   ItemInserted(ItemsIn(h, c), call.item, call.metric)
<1> DEFINE g == Append(h, call)
           T(i) == IF call.kind = "metric" /\ call.cluster = c /\ call.item = i
                   THEN {Len(h) + 1} ELSE {}
<1>1. \A i : /\ Len(h) \in Nat /\ AddingCalls(h, c, i) \in SUBSET (1..Len(h))
             /\ AddingCalls(g, c, i) = AddingCalls(h, c, i) \cup T(i)
             /\ T(i) \in SUBSET {Len(h) + 1}
  BY AddingAfter
<1>2. /\ \A i \in 1..Len(h) : g[i] = h[i]
      /\ g[Len(h) + 1] = call
  BY AppendToSeq
<1>3. \A i : T(i) # {} <=> call.kind = "metric" /\ call.cluster = c /\ call.item = i
  OBVIOUS
<1> HIDE DEF g, T
<1>4. \A i : /\ AddingCalls(h, c, i) # {} =>
                  First(AddingCalls(g, c, i)) = First(AddingCalls(h, c, i))
                    /\ First(AddingCalls(h, c, i)) \in 1..Len(h)
             /\ AddingCalls(h, c, i) = {} /\ T(i) # {} =>
                  First(AddingCalls(g, c, i)) = Len(h) + 1
  <2> TAKE i
  <2> DEFINE S == AddingCalls(h, c, i)
             R == T(i)
             m == Len(h)
  <2>1. Then(m, S, R)
    BY <1>1 DEF Then
  <2> HIDE DEF S, R, m
  <2>2. /\ S # {} => First(S \cup R) = First(S) /\ First(S) \in 1..m
        /\ S = {} /\ R # {} => First(S \cup R) = m + 1
    BY <2>1, FirstStays
  <2> QED BY <1>1, <2>2 DEF S, R, m
<1>5. \A i : /\ AddingCalls(g, c, i) # {} <=> AddingCalls(h, c, i) # {} \/ T(i) # {}
             /\ AddingCalls(h, c, i) # {} =>
                  g[First(AddingCalls(g, c, i))].metric = h[First(AddingCalls(h, c, i))].metric
             /\ AddingCalls(h, c, i) = {} /\ T(i) # {} =>
                  g[First(AddingCalls(g, c, i))].metric = call.metric
  BY <1>1, <1>2, <1>4
<1>6. ASSUME ~(call.kind = "metric" /\ call.cluster = c)
      PROVE  ItemsIn(g, c) = ItemsIn(h, c)
  BY <1>3, <1>5, <1>6 DEF ItemsIn
<1>7. ASSUME call.kind = "metric", call.cluster = c, call.item \in ItemIds
      PROVE  ItemsIn(g, c) = ItemInserted(ItemsIn(h, c), call.item, call.metric)
  BY <1>3, <1>5, <1>7 DEF ItemsIn, ItemInserted
<1> QED
  BY <1>6, <1>7 DEF g

\* What the calls of the actions are.
LEMMA CallTypes ==
  /\ \A c \in ClusterIds, name \in Names :
       LET call == ClusterCall(c, name)
       IN  /\ call \in FunctorCalls
           /\ call.kind = "cluster" /\ call.cluster = c /\ call.name = name
  /\ \A c \in ClusterIds \cup {NoCluster}, item \in ItemIds, metric \in Metrics :
       LET call == MetricCall(c, item, metric)
       IN  /\ call \in FunctorCalls
           /\ call.kind = "metric" /\ call.cluster = c
           /\ call.item = item /\ call.metric = metric
  /\ \A call \in FunctorCalls :
       /\ call.kind = "cluster" => call.cluster \in ClusterIds
       /\ call.cluster \in ClusterIds \cup {NoCluster}
BY DEF ClusterCall, MetricCall, FunctorCalls

\* NamedFirst is kept by every call but a metric for a cluster without a name.
LEMMA NamedFirstAfter ==
  ASSUME NEW h \in Seq(FunctorCalls), NEW call \in FunctorCalls, NamedFirst(h),
         call.kind = "metric" /\ call.cluster # NoCluster
           => NamingCalls(h, call.cluster) # {}
  PROVE  NamedFirst(Append(h, call))
<1> DEFINE g == Append(h, call)
<1>1. /\ Len(g) = Len(h) + 1 /\ Len(h) \in Nat
      /\ \A i \in 1..Len(h) : g[i] = h[i]
      /\ g[Len(h) + 1] = call
  BY AppendToSeq
<1>2. \A c : NamingCalls(h, c) \subseteq NamingCalls(g, c)
  BY NamingAfter
<1> HIDE DEF g
<1>3. ASSUME NEW i \in 1..Len(g), g[i].kind = "metric", g[i].cluster # NoCluster
      PROVE  NamingCalls(h, g[i].cluster) # {}
  <2>1. CASE i = Len(h) + 1
    BY <1>1, <1>3, <2>1
  <2>2. CASE i \in 1..Len(h)
    BY <1>1, <1>3, <2>2 DEF NamedFirst
  <2> QED BY <1>1, <2>1, <2>2
<1>4. NamedFirst(g)
  BY <1>2, <1>3 DEF NamedFirst
<1> QED
  BY <1>4 DEF g

\* The cluster that metrics go to is the one a cluster functor has just named,
\* and stays so while metrics are added.
LEMMA LastNamedAfter ==
  ASSUME NEW h \in Seq(FunctorCalls), NEW call \in FunctorCalls
  PROVE  /\ call.kind = "cluster" => LastNamed(Append(h, call)) = call.cluster
         /\ call.kind = "metric" => LastNamed(Append(h, call)) = LastNamed(h)
<1> DEFINE g == Append(h, call)
           N(s) == {i \in 1..Len(s) : s[i].kind = "cluster"}
<1>1. /\ Len(g) = Len(h) + 1 /\ Len(h) \in Nat /\ Len(g) \in Nat
      /\ \A i \in 1..Len(h) : g[i] = h[i]
      /\ g[Len(h) + 1] = call
  BY AppendToSeq
<1> HIDE DEF g
<1>2. 1..Len(g) = (1..Len(h)) \cup {Len(h) + 1}
  BY <1>1
<1>3. ASSUME call.kind = "cluster" PROVE LastNamed(g) = call.cluster
  <2>1. /\ Len(g) \in N(g) /\ N(g) \in SUBSET (1..Len(g))
        /\ \A j \in N(g) : j <= Len(g)
    BY <1>1, <1>2, <1>3
  <2> HIDE DEF N
  <2>2. Last(N(g)) = Len(g) /\ N(g) # {}
    BY <1>1, <2>1, LastIs
  <2> QED BY <1>1, <2>2 DEF LastNamed, N
<1>4. ASSUME call.kind = "metric" PROVE LastNamed(g) = LastNamed(h)
  <2>1. N(g) = N(h) /\ N(h) \in SUBSET (1..Len(h))
    BY <1>1, <1>2, <1>4
  <2> HIDE DEF N
  <2>2. N(h) # {} => Last(N(h)) \in 1..Len(h)
    BY <1>1, <2>1, LastOf
  <2> QED BY <1>1, <2>1, <2>2 DEF LastNamed, N
<1> QED
  BY <1>3, <1>4 DEF g

\* It has been named.
LEMMA LastNamedIsNamed ==
  ASSUME NEW h \in Seq(FunctorCalls), LastNamed(h) # NoCluster
  PROVE  LastNamed(h) \in ClusterIds /\ NamingCalls(h, LastNamed(h)) # {}
<1> DEFINE N == {i \in 1..Len(h) : h[i].kind = "cluster"}
<1>1. Len(h) \in Nat /\ N \in SUBSET (1..Len(h))
  OBVIOUS
<1>2. N # {}
  BY DEF LastNamed
<1> HIDE DEF N
<1>3. Last(N) \in N
  BY <1>1, <1>2, LastOf
<1>4. LastNamed(h) = h[Last(N)].cluster
  BY <1>2 DEF LastNamed, N
<1>5. /\ Last(N) \in 1..Len(h) /\ h[Last(N)].kind = "cluster"
      /\ h[Last(N)] \in FunctorCalls
  BY <1>3, ElementOfSeq DEF N
<1> QED
  BY <1>4, <1>5, CallTypes DEF NamingCalls

\* No calls describe nothing.
LEMMA NothingDescribed ==
  Described(<<>>) = EmptyMap /\ NamedFirst(<<>>) /\ LastNamed(<<>>) = NoCluster
<1>1. 1..Len(<<>>) = {}
  OBVIOUS
<1> QED
  BY <1>1 DEF Described, EmptyMap, NamedFirst, LastNamed, NamingCalls

\* A cluster functor does to the map what its call adds to the description.
LEMMA ClusterDescribed ==
  ASSUME NEW h \in Seq(FunctorCalls), NamedFirst(h), NEW c \in ClusterIds, NEW name \in Names
  PROVE  Described(Append(h, ClusterCall(c, name))) = ClusterInserted(Described(h), c, name)
<1> DEFINE call == ClusterCall(c, name)
           g == Append(h, call)
<1>1. call \in FunctorCalls /\ call.kind = "cluster" /\ call.cluster = c /\ call.name = name
  BY CallTypes
<1> HIDE DEF call
<1>2. \A d : NamingCalls(g, d) # {} <=> NamingCalls(h, d) # {} \/ d = c
  BY <1>1, NamingAfter
<1>3. \A d : /\ NamingCalls(h, d) # {} => NameIn(g, d) = NameIn(h, d)
             /\ ItemsIn(g, d) = ItemsIn(h, d)
  BY <1>1, NameAfter, ItemsAfter
<1>4. NamingCalls(h, c) = {} => NameIn(g, c) = name
  BY <1>1, NameAfter
<1>5. ASSUME NamingCalls(h, c) = {} PROVE ItemsIn(h, c) = EmptyMap
  <2>1. c # NoCluster
    BY BuildersAssumption
  <2>2. \A i : AddingCalls(h, c, i) = {}
    BY <1>5, <2>1 DEF NamedFirst, AddingCalls
  <2> QED BY <2>2 DEF ItemsIn, EmptyMap
<1> HIDE DEF g
<1> DEFINE D == {d \in ClusterIds : NamingCalls(h, d) # {}}
<1>6. {d \in ClusterIds : NamingCalls(g, d) # {}} = D \cup {c}
  BY <1>2
<1>7. \A d \in D \cup {c} : [name |-> NameIn(g, d), items |-> ItemsIn(g, d)] =
        IF d \in D THEN [name |-> NameIn(h, d), items |-> ItemsIn(h, d)]
        ELSE [name |-> name, items |-> EmptyMap]
  BY <1>3, <1>4, <1>5
<1>8. /\ DOMAIN Described(h) = D
      /\ \A d \in D : Described(h)[d] = [name |-> NameIn(h, d), items |-> ItemsIn(h, d)]
  BY DEF Described
<1>9. Described(g) = [d \in D \cup {c} |-> [name |-> NameIn(g, d), items |-> ItemsIn(g, d)]]
  BY <1>6 DEF Described
<1> HIDE DEF D
<1>10. Described(g) = ClusterInserted(Described(h), c, name)
  BY <1>7, <1>8, <1>9 DEF ClusterInserted
<1> QED
  BY <1>10 DEF g, call

\* A metric functor does to its cluster what its call adds to the description.
LEMMA MetricDescribed ==
  ASSUME NEW h \in Seq(FunctorCalls), NEW c \in ClusterIds, NamingCalls(h, c) # {},
         NEW item \in ItemIds, NEW metric \in Metrics
  PROVE  /\ c \in DOMAIN Described(h)
         /\ Described(Append(h, MetricCall(c, item, metric))) =
              [Described(h) EXCEPT ![c] = MetricInserted(@, item, metric)]
<1> DEFINE call == MetricCall(c, item, metric)
           g == Append(h, call)
<1>1. /\ call \in FunctorCalls /\ call.kind = "metric" /\ call.cluster = c
      /\ call.item = item /\ call.metric = metric
  BY CallTypes
<1> HIDE DEF call
<1>2. \A d : NamingCalls(g, d) = NamingCalls(h, d)
  BY <1>1, NamingAfter
<1>3. \A d : NamingCalls(h, d) # {} => NameIn(g, d) = NameIn(h, d)
  BY <1>1, NameAfter
<1>4. \A d : d # c => ItemsIn(g, d) = ItemsIn(h, d)
  BY <1>1, ItemsAfter
<1>5. ItemsIn(g, c) = ItemInserted(ItemsIn(h, c), item, metric)
  BY <1>1, ItemsAfter
<1> HIDE DEF g
<1> DEFINE D == {d \in ClusterIds : NamingCalls(h, d) # {}}
           R(d) == [name |-> NameIn(h, d), items |-> ItemsIn(h, d)]
<1>6. Described(g) = [d \in D |-> [name |-> NameIn(h, d), items |-> ItemsIn(g, d)]]
  BY <1>2, <1>3 DEF Described
<1>7. Described(h) = [d \in D |-> R(d)] /\ c \in D
  BY DEF Described
<1>8. MetricInserted(R(c), item, metric) = [name |-> NameIn(h, c), items |-> ItemsIn(g, c)]
  BY <1>5 DEF MetricInserted
<1>9. \A d \in D \ {c} : R(d) = [name |-> NameIn(h, d), items |-> ItemsIn(g, d)]
  BY <1>4
<1> HIDE DEF D, R
<1>10. Described(g) = [Described(h) EXCEPT ![c] = MetricInserted(@, item, metric)]
  BY <1>6, <1>7, <1>8, <1>9
<1> QED
  BY <1>7, <1>10 DEF g, call

\* A metric functor without a cluster throws, and describes nothing.
LEMMA NoMetricDescribed ==
  ASSUME NEW h \in Seq(FunctorCalls), NEW item \in ItemIds, NEW metric \in Metrics
  PROVE  Described(Append(h, MetricCall(NoCluster, item, metric))) = Described(h)
<1> DEFINE call == MetricCall(NoCluster, item, metric)
           g == Append(h, call)
<1>1. call \in FunctorCalls /\ call.kind = "metric" /\ call.cluster = NoCluster
  BY CallTypes
<1> HIDE DEF call
<1>2. \A d : NamingCalls(g, d) = NamingCalls(h, d)
  BY <1>1, NamingAfter
<1>3. \A d : NamingCalls(h, d) # {} => NameIn(g, d) = NameIn(h, d)
  BY <1>1, NameAfter
<1>4. \A d : d # NoCluster => ItemsIn(g, d) = ItemsIn(h, d)
  BY <1>1, ItemsAfter
<1> HIDE DEF g
<1>5. \A d \in ClusterIds : d # NoCluster
  BY BuildersAssumption
<1>6. Described(g) = Described(h)
  BY <1>2, <1>3, <1>4, <1>5 DEF Described
<1> QED
  BY <1>6 DEF g, call
-----------------------------------------------------------------------------
(* Types of the maps.                                                      *)

\* The maps with keys in K and values in V.
LEMMA MapsAre ==
  ASSUME NEW K, NEW V, NEW m
  PROVE  m \in Maps(K, V) <=> DOMAIN m \subseteq K /\ m \in [DOMAIN m -> V]
<1>1. ASSUME m \in Maps(K, V) PROVE DOMAIN m \subseteq K /\ m \in [DOMAIN m -> V]
  <2>1. PICK S \in SUBSET K : m \in [S -> V]
    BY <1>1, Zenon DEF Maps
  <2>2. DOMAIN m = S
    BY <2>1
  <2> QED BY <2>1, <2>2
<1>2. ASSUME DOMAIN m \subseteq K, m \in [DOMAIN m -> V] PROVE m \in Maps(K, V)
  BY <1>2, Zenon DEF Maps
<1> QED
  BY <1>1, <1>2

\* The empty one is among them.
LEMMA EmptyIsMap ==
  ASSUME NEW K, NEW V
  PROVE  EmptyMap \in Maps(K, V) /\ DOMAIN EmptyMap = {}
<1>1. DOMAIN EmptyMap = {} /\ EmptyMap \in [DOMAIN EmptyMap -> V]
  BY DEF EmptyMap
<1> QED
  BY <1>1, MapsAre

\* The functors keep the types; clusters stay.
LEMMA ClusterInsertedType ==
  ASSUME NEW m \in Maps(ClusterIds, MetricClusters), NEW c \in ClusterIds, NEW name \in Names
  PROVE  /\ ClusterInserted(m, c, name) \in Maps(ClusterIds, MetricClusters)
         /\ DOMAIN ClusterInserted(m, c, name) = DOMAIN m \cup {c}
<1> DEFINE r == [name |-> name, items |-> EmptyMap]
           f == ClusterInserted(m, c, name)
<1>1. DOMAIN m \subseteq ClusterIds /\ m \in [DOMAIN m -> MetricClusters]
  BY MapsAre
<1>2. r \in MetricClusters
  BY EmptyIsMap DEF MetricClusters
<1>3. f = [d \in DOMAIN m \cup {c} |-> IF d \in DOMAIN m THEN m[d] ELSE r]
  BY DEF ClusterInserted
<1> HIDE DEF f, r
<1>4. DOMAIN f = DOMAIN m \cup {c} /\ f \in [DOMAIN f -> MetricClusters]
  BY <1>1, <1>2, <1>3
<1>5. f \in Maps(ClusterIds, MetricClusters)
  BY <1>1, <1>4, MapsAre
<1> QED
  BY <1>4, <1>5 DEF f

\* A metric inserted into a cluster leaves a map of clusters.
LEMMA MetricInsertedType ==
  ASSUME NEW m \in Maps(ClusterIds, MetricClusters), NEW c \in DOMAIN m,
         NEW item \in ItemIds, NEW metric \in Metrics
  PROVE  /\ [m EXCEPT ![c] = MetricInserted(@, item, metric)] \in Maps(ClusterIds, MetricClusters)
         /\ DOMAIN [m EXCEPT ![c] = MetricInserted(@, item, metric)] = DOMAIN m
<1> DEFINE f == [m EXCEPT ![c] = MetricInserted(@, item, metric)]
           g == ItemInserted(m[c].items, item, metric)
<1>1. DOMAIN m \subseteq ClusterIds /\ m \in [DOMAIN m -> MetricClusters]
  BY MapsAre
<1>2. m[c] \in MetricClusters
  BY <1>1
<1>3. DOMAIN m[c].items \subseteq ItemIds /\ m[c].items \in [DOMAIN m[c].items -> Metrics]
  BY <1>2, MapsAre DEF MetricClusters
<1>4. g \in Maps(ItemIds, Metrics)
  <2>1. DOMAIN g \subseteq ItemIds /\ g \in [DOMAIN g -> Metrics]
    BY <1>3 DEF ItemInserted
  <2> QED BY <2>1, MapsAre
<1>5. MetricInserted(m[c], item, metric) = [m[c] EXCEPT !.items = g]
  BY DEF MetricInserted
<1> HIDE DEF g
<1>6. MetricInserted(m[c], item, metric) \in MetricClusters
  BY <1>2, <1>4, <1>5 DEF MetricClusters
<1>7. DOMAIN f = DOMAIN m /\ f \in [DOMAIN f -> MetricClusters]
  BY <1>1, <1>6
<1> HIDE DEF f
<1>8. f \in Maps(ClusterIds, MetricClusters)
  BY <1>1, <1>7, MapsAre
<1> QED
  BY <1>7, <1>8 DEF f
-----------------------------------------------------------------------------
(* Ind holds initially and every action preserves it.                      *)

\* There are no objects at first.
LEMMA InitInd == Init => Ind
<1> SUFFICES ASSUME Init PROVE Ind
  OBVIOUS
<1>1. TypeOK
  <2>1. clusters \in [Objects -> Maps(ClusterIds, MetricClusters)]
    BY EmptyIsMap DEF Init
  <2>2. ElementsExist
    BY DEF Init, ElementsExist, PointsInto, Invalid
  <2>3. calls \in [Objects -> Seq(FunctorCalls)]
    BY DEF Init
  <2>4. most_recent_cluster \in [Objects -> Iterators]
    BY DEF Init, Iterators
  <2>5. number \in 0..MaxCalls
    BY BuildersAssumption DEF Init
  <2> QED BY <2>1, <2>2, <2>3, <2>4, <2>5 DEF Init, TypeOK
<1>2. FreshIsEmpty /\ OwnIterators /\ RightUnlessStrayed
  BY DEF Init, FreshIsEmpty, OwnIterators, RightUnlessStrayed, AsDescribed
<1> QED
  BY <1>1, <1>2 DEF Ind

\* An iterator, taken apart.
LEMMA IteratorsAre ==
  /\ \A it \in Iterators : it.at # NoCluster =>
       it.of \in Objects /\ it.at \in ClusterIds /\ PointsInto(it, it.of)
  /\ \A o \in Objects, c \in ClusterIds \cup {NoCluster} :
       Element(o, c) \in Iterators /\ Element(o, c).of = o /\ Element(o, c).at = c
  /\ \A o \in Objects : /\ End(o) \in Iterators /\ End(o) # Invalid
                        /\ End(o).of = o /\ End(o).at = NoCluster
  /\ Invalid \in Iterators /\ Invalid.at = NoCluster
  /\ \A c \in ClusterIds : c # NoCluster
BY BuildersAssumption DEF Iterators, Element, End, Invalid, PointsInto

\* A new object is empty, and no iterator has been there before.
LEMMA ConstructInd ==
  ASSUME Ind, NEW o \in Objects, Construct(o)
  PROVE  Ind'
<1> USE DEF Ind, TypeOK
<1>1. /\ o \in fresh /\ o \notin alive
      /\ alive' = alive \cup {o} /\ fresh' = fresh \ {o}
      /\ most_recent_cluster' = [most_recent_cluster EXCEPT ![o] = End(o)]
      /\ UNCHANGED <<clusters, undefined, calls, number, borrowed, strayed>>
  BY DEF Construct
<1>2. TypeOK'
  <2>1. most_recent_cluster' \in [Objects -> Iterators]
    BY <1>1, IteratorsAre
  <2>2. ElementsExist'
    <3> SUFFICES ASSUME NEW p \in Objects, NEW q \in Objects,
                        PointsInto(most_recent_cluster'[p], q)
                 PROVE  q \in alive' /\ most_recent_cluster'[p].at \in DOMAIN clusters'[q]
      BY DEF ElementsExist
    <3>1. p # o
      <4> SUFFICES ASSUME p = o PROVE FALSE
        OBVIOUS
      <4>1. most_recent_cluster'[p] = End(o)
        BY <1>1
      <4> QED BY <4>1, IteratorsAre DEF PointsInto
    <3>2. most_recent_cluster'[p] = most_recent_cluster[p]
      BY <1>1, <3>1
    <3>3. q \in alive /\ most_recent_cluster[p].at \in DOMAIN clusters[q]
      BY <3>2 DEF ElementsExist
    <3> QED BY <1>1, <3>2, <3>3
  <2> QED BY <1>1, <2>1, <2>2
<1>3. FreshIsEmpty'
  BY <1>1 DEF FreshIsEmpty
<1>4. clusters[o] = EmptyMap /\ calls[o] = <<>>
  BY <1>1 DEF FreshIsEmpty
<1>5. OwnIterators'
  BY <1>1, <1>4, NothingDescribed DEF OwnIterators
<1>6. RightUnlessStrayed'
  BY <1>1, <1>4, NothingDescribed DEF RightUnlessStrayed, AsDescribed
<1> QED
  BY <1>2, <1>3, <1>5, <1>6

\* Naming a cluster moves the iterator to it.
LEMMA InsertClusterInd ==
  ASSUME Ind, NEW o \in Objects, NEW c \in ClusterIds, NEW name \in Names,
         InsertCluster(o, c, name)
  PROVE  Ind'
<1> USE DEF Ind, TypeOK
<1> DEFINE call == ClusterCall(c, name)
<1>1. /\ o \in alive
      /\ clusters' = [clusters EXCEPT ![o] = ClusterInserted(clusters[o], c, name)]
      /\ most_recent_cluster' = [most_recent_cluster EXCEPT ![o] = Element(o, c)]
      /\ borrowed' = borrowed \ {o}
      /\ number < MaxCalls /\ number' = number + 1
      /\ calls' = [calls EXCEPT ![o] = Append(calls[o], call)]
      /\ UNCHANGED <<alive, fresh, undefined, strayed>>
  BY DEF InsertCluster, Called
<1>2. /\ call \in FunctorCalls
      /\ call.kind = "cluster" /\ call.cluster = c
  BY CallTypes
<1>3. Described(Append(calls[o], call)) = ClusterInserted(Described(calls[o]), c, name)
         \/ ~NamedFirst(calls[o])
  BY ClusterDescribed
<1> HIDE DEF call
<1>4. /\ ClusterInserted(clusters[o], c, name) \in Maps(ClusterIds, MetricClusters)
      /\ DOMAIN ClusterInserted(clusters[o], c, name) = DOMAIN clusters[o] \cup {c}
  BY ClusterInsertedType
<1>5. TypeOK'
  <2>1. clusters' \in [Objects -> Maps(ClusterIds, MetricClusters)]
    BY <1>1, <1>4
  <2>2. most_recent_cluster' \in [Objects -> Iterators]
    BY <1>1, IteratorsAre
  <2>3. \A p \in Objects : DOMAIN clusters[p] \subseteq DOMAIN clusters'[p]
    BY <1>1, <1>4
  <2>4. ElementsExist'
    <3> SUFFICES ASSUME NEW a \in Objects, NEW p \in Objects,
                        PointsInto(most_recent_cluster'[a], p)
                 PROVE  p \in alive /\ most_recent_cluster'[a].at \in DOMAIN clusters'[p]
      BY <1>1 DEF ElementsExist, PointsInto
    <3>1. CASE a = o
      <4>1. most_recent_cluster'[a] = Element(o, c)
        BY <1>1, <3>1
      <4>2. p = o /\ most_recent_cluster'[a].at = c
        BY <4>1, IteratorsAre DEF PointsInto
      <4>3. c \in DOMAIN clusters'[o]
        BY <1>1, <1>4
      <4> QED BY <1>1, <4>2, <4>3
    <3>2. CASE a # o
      <4>1. most_recent_cluster'[a] = most_recent_cluster[a]
        BY <1>1, <3>2
      <4>2. p \in alive /\ most_recent_cluster[a].at \in DOMAIN clusters[p]
        BY <4>1 DEF ElementsExist
      <4> QED BY <2>3, <4>1, <4>2
    <3> QED BY <3>1, <3>2
  <2>5. calls' \in [Objects -> Seq(FunctorCalls)]
    BY <1>1, <1>2, AppendToSeq
  <2>6. number' \in 0..MaxCalls
    BY <1>1, BuildersAssumption
  <2> QED BY <1>1, <2>1, <2>2, <2>4, <2>5, <2>6
<1>6. \A p \in Objects \ {o} : /\ clusters'[p] = clusters[p] /\ calls'[p] = calls[p]
                               /\ most_recent_cluster'[p] = most_recent_cluster[p]
  BY <1>1
<1>7. /\ clusters'[o] = ClusterInserted(clusters[o], c, name)
      /\ calls'[o] = Append(calls[o], call)
      /\ most_recent_cluster'[o] = Element(o, c)
  BY <1>1
<1>8. FreshIsEmpty'
  BY <1>1, <1>6 DEF FreshIsEmpty
<1>9. OwnIterators'
  <2>1. LastNamed(calls'[o]) = c /\ c # NoCluster
    BY <1>2, <1>7, LastNamedAfter, IteratorsAre
  <2> QED BY <1>1, <1>6, <1>7, <2>1 DEF OwnIterators
<1>10. RightUnlessStrayed'
  <2> SUFFICES ASSUME ~strayed
               PROVE  AsDescribed' /\ \A p \in alive : NamedFirst(calls'[p])
    BY <1>1 DEF RightUnlessStrayed
  <2>1. AsDescribed /\ \A p \in alive : NamedFirst(calls[p])
    BY DEF RightUnlessStrayed
  <2>2. clusters'[o] = Described(calls'[o])
    BY <1>1, <1>3, <1>7, <2>1 DEF AsDescribed
  <2>3. NamedFirst(calls'[o])
    BY <1>1, <1>2, <1>7, <2>1, NamedFirstAfter
  <2> QED BY <1>1, <1>6, <2>1, <2>2, <2>3 DEF AsDescribed
<1> QED
  BY <1>5, <1>8, <1>9, <1>10

\* A metric goes into an element there is, and leaves the clusters in place.
LEMMA MetricKeepsTypes ==
  ASSUME TypeOK, NEW p \in Objects, NEW c \in DOMAIN clusters[p],
         NEW item \in ItemIds, NEW metric \in Metrics,
         clusters' = [clusters EXCEPT ![p][c] = MetricInserted(@, item, metric)]
  PROVE  /\ clusters' \in [Objects -> Maps(ClusterIds, MetricClusters)]
         /\ clusters'[p] = [clusters[p] EXCEPT ![c] = MetricInserted(@, item, metric)]
         /\ \A q \in Objects \ {p} : clusters'[q] = clusters[q]
         /\ \A q \in Objects : DOMAIN clusters'[q] = DOMAIN clusters[q]
<1> DEFINE m == [clusters[p] EXCEPT ![c] = MetricInserted(@, item, metric)]
<1>1. clusters \in [Objects -> Maps(ClusterIds, MetricClusters)]
  BY DEF TypeOK
<1>2. clusters[p] \in Maps(ClusterIds, MetricClusters)
  BY <1>1
<1>3. m \in Maps(ClusterIds, MetricClusters) /\ DOMAIN m = DOMAIN clusters[p]
  BY <1>2, MetricInsertedType
<1>4. clusters' = [clusters EXCEPT ![p] = m]
  BY <1>1
<1> HIDE DEF m
<1>5. clusters' \in [Objects -> Maps(ClusterIds, MetricClusters)] /\ clusters'[p] = m
  BY <1>1, <1>3, <1>4
<1>6. \A q \in Objects \ {p} : clusters'[q] = clusters[q]
  BY <1>1, <1>4
<1> QED
  BY <1>3, <1>5, <1>6 DEF m

\* What InsertMetric and InsertInto have in common: a call that leaves the
\* iterators, and the clusters of each map, where they are.
LEMMA MetricCallInd ==
  ASSUME Ind, NEW o \in alive, NEW call \in FunctorCalls, call.kind = "metric",
         number < MaxCalls, number' = number + 1,
         calls' = [calls EXCEPT ![o] = Append(calls[o], call)],
         UNCHANGED <<alive, fresh, most_recent_cluster, borrowed>>,
         undefined' \in BOOLEAN, strayed' \in BOOLEAN,
         clusters' \in [Objects -> Maps(ClusterIds, MetricClusters)],
         \A p \in Objects : DOMAIN clusters'[p] = DOMAIN clusters[p],
         \A p \in Objects \ alive : clusters'[p] = clusters[p]
  PROVE  /\ TypeOK' /\ FreshIsEmpty' /\ OwnIterators'
         /\ calls'[o] = Append(calls[o], call)
         /\ \A p \in Objects \ {o} : calls'[p] = calls[p]
<1> USE DEF Ind
<1>1. TypeOK'
  <2>1. calls' \in [Objects -> Seq(FunctorCalls)]
    BY AppendToSeq DEF TypeOK
  <2>2. number' \in 0..MaxCalls
    BY BuildersAssumption DEF TypeOK
  <2>3. ElementsExist'
    BY DEF TypeOK, ElementsExist
  <2> QED BY <2>1, <2>2, <2>3 DEF TypeOK
<1>2. /\ calls'[o] = Append(calls[o], call) /\ calls[o] \in Seq(FunctorCalls)
      /\ \A p \in Objects \ {o} : calls'[p] = calls[p]
  BY DEF TypeOK
<1>3. FreshIsEmpty'
  BY <1>2 DEF TypeOK, FreshIsEmpty
<1>4. LastNamed(calls'[o]) = LastNamed(calls[o])
  BY <1>2, LastNamedAfter
<1>5. OwnIterators'
  BY <1>2, <1>4 DEF TypeOK, OwnIterators
<1> QED
  BY <1>1, <1>2, <1>3, <1>5

\* A metric goes to the cluster it names, wherever the iterator is.
LEMMA InsertIntoInd ==
  ASSUME Ind, NEW o \in Objects, NEW c \in ClusterIds, NEW item \in ItemIds,
         NEW metric \in Metrics, InsertInto(o, c, item, metric)
  PROVE  Ind'
<1> USE DEF Ind
<1> DEFINE call == MetricCall(c, item, metric)
<1>1. /\ o \in alive /\ c \in DOMAIN clusters[o]
      /\ number < MaxCalls /\ number' = number + 1
      /\ calls' = [calls EXCEPT ![o] = Append(calls[o], call)]
      /\ clusters' = [clusters EXCEPT ![o][c] = MetricInserted(@, item, metric)]
      /\ UNCHANGED <<alive, fresh, most_recent_cluster, undefined, borrowed, strayed>>
  BY DEF InsertInto, Called
<1>2. call \in FunctorCalls /\ call.kind = "metric" /\ call.cluster = c
  BY CallTypes
<1>3. /\ clusters' \in [Objects -> Maps(ClusterIds, MetricClusters)]
      /\ clusters'[o] = [clusters[o] EXCEPT ![c] = MetricInserted(@, item, metric)]
      /\ \A q \in Objects \ {o} : clusters'[q] = clusters[q]
      /\ \A q \in Objects : DOMAIN clusters'[q] = DOMAIN clusters[q]
  BY <1>1, MetricKeepsTypes
<1>4. ASSUME NamingCalls(calls[o], c) # {}
      PROVE  Described(Append(calls[o], call)) =
               [Described(calls[o]) EXCEPT ![c] = MetricInserted(@, item, metric)]
  BY <1>1, <1>4, MetricDescribed DEF TypeOK
<1> HIDE DEF call
<1>5. undefined' \in BOOLEAN /\ strayed' \in BOOLEAN
  BY <1>1 DEF TypeOK
<1>6. /\ TypeOK' /\ FreshIsEmpty' /\ OwnIterators'
      /\ calls'[o] = Append(calls[o], call)
      /\ \A p \in Objects \ {o} : calls'[p] = calls[p]
  <2>1. \A p \in Objects \ alive : clusters'[p] = clusters[p]
    BY <1>1, <1>3
  <2>2. UNCHANGED <<alive, fresh, most_recent_cluster, borrowed>>
    BY <1>1
  <2> QED BY <1>1, <1>2, <1>3, <1>5, <2>1, <2>2, MetricCallInd
<1>7. RightUnlessStrayed'
  <2> SUFFICES ASSUME ~strayed
               PROVE  AsDescribed' /\ \A p \in alive : NamedFirst(calls'[p])
    BY <1>1 DEF RightUnlessStrayed
  <2>1. AsDescribed /\ \A p \in alive : NamedFirst(calls[p])
    BY DEF RightUnlessStrayed
  <2>2. clusters[o] = Described(calls[o]) /\ NamedFirst(calls[o])
    BY <1>1, <2>1 DEF AsDescribed
  <2>3. NamingCalls(calls[o], c) # {}
    BY <1>1, <2>2 DEF Described
  <2>4. clusters'[o] = Described(calls'[o])
    BY <1>3, <1>4, <1>6, <2>2, <2>3
  <2>5. NamedFirst(calls'[o])
    BY <1>1, <1>2, <1>6, <2>2, <2>3, NamedFirstAfter DEF TypeOK
  <2>6. alive \subseteq Objects
    BY DEF TypeOK
  <2> QED BY <1>1, <1>3, <1>6, <2>1, <2>4, <2>5, <2>6 DEF AsDescribed
<1> QED
  BY <1>6, <1>7

\* A metric goes where the iterator is, or is refused.
LEMMA InsertMetricInd ==
  ASSUME Ind, NEW o \in Objects, NEW item \in ItemIds, NEW metric \in Metrics,
         InsertMetric(o, item, metric)
  PROVE  Ind'
<1> USE DEF Ind
<1> DEFINE it == most_recent_cluster[o]
           into == LastNamed(calls[o])
           call == MetricCall(into, item, metric)
<1>1. /\ o \in alive /\ number < MaxCalls /\ number' = number + 1
      /\ calls' = [calls EXCEPT ![o] = Append(calls[o], call)]
      /\ undefined' = (it # End(o) /\ it.at = NoCluster)
      /\ clusters' = IF it.at = NoCluster THEN clusters
                     ELSE [clusters EXCEPT ![it.of][it.at] = MetricInserted(@, item, metric)]
      /\ strayed' = (strayed \/ o \in borrowed)
      /\ UNCHANGED <<alive, fresh, most_recent_cluster, borrowed>>
  BY DEF InsertMetric, Called
<1>2. it \in Iterators /\ calls[o] \in Seq(FunctorCalls)
  BY DEF TypeOK
<1>3. into # NoCluster => into \in ClusterIds /\ NamingCalls(calls[o], into) # {}
  BY <1>2, LastNamedIsNamed
<1>4. call \in FunctorCalls /\ call.kind = "metric" /\ call.cluster = into
  BY <1>3, CallTypes
<1>5. /\ into # NoCluster =>
           Described(Append(calls[o], call)) =
             [Described(calls[o]) EXCEPT ![into] = MetricInserted(@, item, metric)]
      /\ into = NoCluster => Described(Append(calls[o], call)) = Described(calls[o])
  BY <1>2, <1>3, MetricDescribed, NoMetricDescribed
<1>6. ~(o \in borrowed) => it = IF into = NoCluster THEN End(o) ELSE Element(o, into)
  BY <1>1 DEF OwnIterators
<1> HIDE DEF it, into, call
<1>7. it.at # NoCluster =>
        it.of \in Objects /\ it.of \in alive /\ it.at \in DOMAIN clusters[it.of]
  BY <1>2, IteratorsAre DEF TypeOK, ElementsExist, it
<1>8. /\ clusters' \in [Objects -> Maps(ClusterIds, MetricClusters)]
      /\ \A q \in Objects : DOMAIN clusters'[q] = DOMAIN clusters[q]
      /\ \A q \in Objects : it.at = NoCluster \/ q # it.of => clusters'[q] = clusters[q]
      /\ it.at # NoCluster =>
           clusters'[it.of] = [clusters[it.of] EXCEPT ![it.at] = MetricInserted(@, item, metric)]
  <2>1. CASE it.at = NoCluster
    BY <1>1, <2>1 DEF TypeOK
  <2>2. CASE it.at # NoCluster
    <3>1. clusters' = [clusters EXCEPT ![it.of][it.at] = MetricInserted(@, item, metric)]
      BY <1>1, <2>2
    <3> DEFINE p == it.of
               c == it.at
    <3>2. p \in Objects /\ c \in DOMAIN clusters[p]
      BY <1>7, <2>2
    <3> HIDE DEF p, c
    <3>3. clusters' = [clusters EXCEPT ![p][c] = MetricInserted(@, item, metric)]
      BY <3>1 DEF p, c
    <3>4. /\ clusters' \in [Objects -> Maps(ClusterIds, MetricClusters)]
          /\ clusters'[p] = [clusters[p] EXCEPT ![c] = MetricInserted(@, item, metric)]
          /\ \A q \in Objects \ {p} : clusters'[q] = clusters[q]
          /\ \A q \in Objects : DOMAIN clusters'[q] = DOMAIN clusters[q]
      BY <3>2, <3>3, MetricKeepsTypes
    <3> QED BY <2>2, <3>4 DEF p, c
  <2> QED BY <2>1, <2>2
<1>9. undefined' \in BOOLEAN /\ strayed' \in BOOLEAN
  BY <1>1, Zenon DEF TypeOK
<1>10. \A p \in Objects \ alive : clusters'[p] = clusters[p]
  BY <1>7, <1>8
<1>11. UNCHANGED <<alive, fresh, most_recent_cluster, borrowed>>
  BY <1>1
<1>12. /\ TypeOK' /\ FreshIsEmpty' /\ OwnIterators'
       /\ calls'[o] = Append(calls[o], call)
       /\ \A p \in Objects \ {o} : calls'[p] = calls[p]
  BY <1>1, <1>4, <1>8, <1>9, <1>10, <1>11, MetricCallInd
<1>13. RightUnlessStrayed'
  <2> SUFFICES ASSUME ~strayed, ~(o \in borrowed)
               PROVE  AsDescribed' /\ \A p \in alive : NamedFirst(calls'[p])
    BY <1>1 DEF RightUnlessStrayed
  <2>1. AsDescribed /\ \A p \in alive : NamedFirst(calls[p])
    BY DEF RightUnlessStrayed
  <2>2. clusters[o] = Described(calls[o]) /\ NamedFirst(calls[o])
    BY <1>1, <2>1 DEF AsDescribed
  <2>3. /\ clusters'[o] = Described(calls'[o])
        /\ ~undefined'
        /\ \A q \in Objects \ {o} : clusters'[q] = clusters[q]
    <3>1. CASE into = NoCluster
      <4>1. it = End(o) /\ it.at = NoCluster
        BY <1>6, <3>1, IteratorsAre
      <4> QED BY <1>1, <1>5, <1>8, <1>12, <2>2, <3>1, <4>1
    <3>2. CASE into # NoCluster
      <4>1. it.of = o /\ it.at = into /\ it.at # NoCluster
        BY <1>3, <1>6, <3>2, IteratorsAre
      <4> QED BY <1>1, <1>5, <1>8, <1>12, <2>2, <3>2, <4>1
    <3> QED BY <3>1, <3>2
  <2>4. NamedFirst(calls'[o])
    BY <1>2, <1>3, <1>4, <1>12, <2>2, NamedFirstAfter
  <2>5. alive \subseteq Objects
    BY DEF TypeOK
  <2> QED BY <1>1, <1>12, <2>1, <2>3, <2>4, <2>5 DEF AsDescribed
<1> QED
  BY <1>12, <1>13

\* A copy has the calls of the original, and its iterator.
LEMMA CopyInd ==
  ASSUME Ind, NEW p \in Objects, NEW q \in Objects, Copy(p, q)
  PROVE  Ind'
<1> USE DEF Ind
<1>1. /\ p \in alive /\ q \in alive \cup fresh /\ p # q
      /\ alive' = alive \cup {q} /\ fresh' = fresh \ {q}
      /\ clusters' = [clusters EXCEPT ![q] = clusters[p]]
      /\ most_recent_cluster' = [o \in Objects |->
           Lost(most_recent_cluster[IF o = q THEN p ELSE o], q)]
      /\ calls' = [calls EXCEPT ![q] = calls[p]]
      /\ borrowed' = borrowed \cup {q}
      /\ UNCHANGED <<undefined, number, strayed>>
  BY DEF Copy
<1>2. /\ clusters'[q] = clusters[p] /\ calls'[q] = calls[p]
      /\ \A o \in Objects \ {q} : clusters'[o] = clusters[o] /\ calls'[o] = calls[o]
  BY <1>1 DEF TypeOK
<1>3. TypeOK'
  <2>1. /\ clusters' \in [Objects -> Maps(ClusterIds, MetricClusters)]
        /\ calls' \in [Objects -> Seq(FunctorCalls)]
    BY <1>1 DEF TypeOK
  <2>2. most_recent_cluster' \in [Objects -> Iterators]
    BY <1>1, IteratorsAre DEF TypeOK, Lost
  <2>3. ElementsExist'
    <3> SUFFICES ASSUME NEW o \in Objects, NEW x \in Objects,
                        PointsInto(most_recent_cluster'[o], x)
                 PROVE  x \in alive' /\ most_recent_cluster'[o].at \in DOMAIN clusters'[x]
      BY DEF ElementsExist, PointsInto
    <3> DEFINE from == IF o = q THEN p ELSE o
    <3>1. most_recent_cluster'[o] = Lost(most_recent_cluster[from], q) /\ from \in Objects
      BY <1>1
    <3> HIDE DEF from
    <3>2. /\ most_recent_cluster'[o] = most_recent_cluster[from]
          /\ ~PointsInto(most_recent_cluster[from], q)
      BY <3>1, IteratorsAre DEF Lost, PointsInto
    <3>3. x # q /\ x \in alive /\ most_recent_cluster[from].at \in DOMAIN clusters[x]
      BY <3>1, <3>2 DEF TypeOK, ElementsExist
    <3> QED BY <1>1, <1>2, <3>2, <3>3
  <2> QED BY <1>1, <2>1, <2>2, <2>3 DEF TypeOK
<1>4. FreshIsEmpty'
  BY <1>1, <1>2 DEF TypeOK, FreshIsEmpty
<1>5. OwnIterators'
  <2> SUFFICES ASSUME NEW o \in alive' \ borrowed'
               PROVE  most_recent_cluster'[o] =
                        IF LastNamed(calls'[o]) = NoCluster THEN End(o)
                        ELSE Element(o, LastNamed(calls'[o]))
    BY DEF OwnIterators
  <2>1. o \in alive \ borrowed /\ o # q /\ o \in Objects
    BY <1>1 DEF TypeOK
  <2>2. most_recent_cluster[o] = IF LastNamed(calls[o]) = NoCluster THEN End(o)
                                 ELSE Element(o, LastNamed(calls[o]))
    BY <2>1 DEF OwnIterators
  <2>3. most_recent_cluster[o].of = o
    BY <2>2 DEF End, Element
  <2>4. most_recent_cluster'[o] = most_recent_cluster[o]
    BY <1>1, <2>1, <2>3 DEF Lost, PointsInto
  <2> QED BY <1>2, <2>1, <2>2, <2>4
<1>6. RightUnlessStrayed'
  BY <1>1, <1>2 DEF TypeOK, RightUnlessStrayed, AsDescribed
<1> QED
  BY <1>3, <1>4, <1>5, <1>6

\* Iterators into what is destroyed are not used again.
LEMMA DestroyInd ==
  ASSUME Ind, NEW p \in Objects, Destroy(p)
  PROVE  Ind'
<1> USE DEF Ind
<1>1. /\ p \in alive /\ alive' = alive \ {p}
      /\ clusters' = [clusters EXCEPT ![p] = EmptyMap]
      /\ most_recent_cluster' = [o \in Objects |->
           IF most_recent_cluster[o].of = p THEN Invalid ELSE most_recent_cluster[o]]
      /\ calls' = [calls EXCEPT ![p] = <<>>]
      /\ UNCHANGED <<fresh, undefined, number, borrowed, strayed>>
  BY DEF Destroy
<1>2. \A o \in Objects \ {p} : clusters'[o] = clusters[o] /\ calls'[o] = calls[o]
  BY <1>1 DEF TypeOK
<1>3. TypeOK'
  <2>1. /\ clusters' \in [Objects -> Maps(ClusterIds, MetricClusters)]
        /\ calls' \in [Objects -> Seq(FunctorCalls)]
    BY <1>1, EmptyIsMap DEF TypeOK
  <2>2. most_recent_cluster' \in [Objects -> Iterators]
    BY <1>1, IteratorsAre DEF TypeOK
  <2>3. ElementsExist'
    <3> SUFFICES ASSUME NEW o \in Objects, NEW x \in Objects,
                        PointsInto(most_recent_cluster'[o], x)
                 PROVE  x \in alive' /\ most_recent_cluster'[o].at \in DOMAIN clusters'[x]
      BY DEF ElementsExist, PointsInto
    <3>1. /\ most_recent_cluster'[o] = most_recent_cluster[o]
          /\ most_recent_cluster[o].of # p
      BY <1>1, IteratorsAre DEF PointsInto
    <3>2. x # p /\ x \in alive /\ most_recent_cluster[o].at \in DOMAIN clusters[x]
      BY <3>1 DEF TypeOK, ElementsExist, PointsInto
    <3> QED BY <1>1, <1>2, <3>1, <3>2
  <2> QED BY <1>1, <2>1, <2>2, <2>3 DEF TypeOK
<1>4. FreshIsEmpty'
  BY <1>1, <1>2 DEF TypeOK, FreshIsEmpty
<1>5. OwnIterators'
  <2> SUFFICES ASSUME NEW o \in alive' \ borrowed'
               PROVE  most_recent_cluster'[o] =
                        IF LastNamed(calls'[o]) = NoCluster THEN End(o)
                        ELSE Element(o, LastNamed(calls'[o]))
    BY DEF OwnIterators
  <2>1. o \in alive \ borrowed /\ o # p /\ o \in Objects
    BY <1>1 DEF TypeOK
  <2>2. most_recent_cluster[o] = IF LastNamed(calls[o]) = NoCluster THEN End(o)
                                 ELSE Element(o, LastNamed(calls[o]))
    BY <2>1 DEF OwnIterators
  <2>3. most_recent_cluster[o].of = o
    BY <2>2 DEF End, Element
  <2> QED BY <1>1, <1>2, <2>1, <2>2, <2>3
<1>6. RightUnlessStrayed'
  BY <1>1, <1>2 DEF TypeOK, RightUnlessStrayed, AsDescribed
<1> QED
  BY <1>3, <1>4, <1>5, <1>6

\* What is moved keeps its clusters; the iterator goes along.
LEMMA MoveInd ==
  ASSUME Ind, NEW p \in Objects, NEW q \in Objects, Move(p, q)
  PROVE  Ind'
<1> USE DEF Ind
<1>1. /\ p \in alive /\ q \in alive \cup fresh /\ p # q
      /\ alive' = alive \cup {q} /\ fresh' = fresh \ {q}
      /\ clusters' = [clusters EXCEPT ![q] = clusters[p], ![p] = EmptyMap]
      /\ most_recent_cluster' = [o \in Objects |->
           Moved(most_recent_cluster[IF o = q THEN p ELSE o], p, q)]
      /\ calls' = [calls EXCEPT ![q] = calls[p], ![p] = <<>>]
      /\ borrowed' = {p} \cup (IF p \in borrowed \/ most_recent_cluster[p] = End(p)
                               THEN borrowed \cup {q} ELSE borrowed \ {q})
      /\ UNCHANGED <<undefined, number, strayed>>
  BY DEF Move
<1>2. /\ clusters'[q] = clusters[p] /\ calls'[q] = calls[p]
      /\ clusters'[p] = EmptyMap /\ calls'[p] = <<>>
      /\ \A o \in Objects \ {p, q} : clusters'[o] = clusters[o] /\ calls'[o] = calls[o]
  BY <1>1 DEF TypeOK
<1>3. TypeOK'
  <2>1. /\ clusters' \in [Objects -> Maps(ClusterIds, MetricClusters)]
        /\ calls' \in [Objects -> Seq(FunctorCalls)]
    <3> DEFINE V == Maps(ClusterIds, MetricClusters)
               H == Seq(FunctorCalls)
    <3>1. EmptyMap \in V /\ <<>> \in H
      BY EmptyIsMap
    <3>2. clusters \in [Objects -> V] /\ calls \in [Objects -> H]
      BY DEF TypeOK
    <3> HIDE DEF V, H
    <3>3. clusters' \in [Objects -> V] /\ calls' \in [Objects -> H]
      BY <1>1, <3>1, <3>2
    <3> QED BY <3>3 DEF V, H
  <2>2. most_recent_cluster' \in [Objects -> Iterators]
    <3>1. ASSUME NEW it \in Iterators PROVE Moved(it, p, q) \in Iterators
      <4>1. CASE PointsInto(it, p)
        <5>1. it.at \in ClusterIds
          BY <4>1, IteratorsAre DEF PointsInto
        <5> QED BY <4>1, <5>1, IteratorsAre DEF Moved
      <4>2. CASE ~PointsInto(it, p)
        BY <4>2, IteratorsAre DEF Moved, Lost
      <4> QED BY <4>1, <4>2
    <3> QED BY <1>1, <3>1 DEF TypeOK
  <2>3. ElementsExist'
    <3> SUFFICES ASSUME NEW o \in Objects, NEW x \in Objects,
                        PointsInto(most_recent_cluster'[o], x)
                 PROVE  x \in alive' /\ most_recent_cluster'[o].at \in DOMAIN clusters'[x]
      BY DEF ElementsExist, PointsInto
    <3> DEFINE from == IF o = q THEN p ELSE o
               it == most_recent_cluster[from]
    <3>1. most_recent_cluster'[o] = Moved(it, p, q) /\ from \in Objects
      BY <1>1
    <3> HIDE DEF from
    <3>2. it \in Iterators /\ \A y \in Objects :
            PointsInto(it, y) => y \in alive /\ it.at \in DOMAIN clusters[y]
      BY <3>1 DEF TypeOK, ElementsExist
    <3> HIDE DEF it
    <3>3. CASE PointsInto(it, p)
      <4>1. most_recent_cluster'[o] = Element(q, it.at)
        BY <3>1, <3>3 DEF Moved
      <4>2. x = q /\ most_recent_cluster'[o].at = it.at
        BY <4>1 DEF PointsInto, Element
      <4> QED BY <1>1, <1>2, <3>2, <3>3, <4>2
    <3>4. CASE ~PointsInto(it, p)
      <4>1. most_recent_cluster'[o] = it /\ ~PointsInto(it, q)
        BY <3>1, <3>4, IteratorsAre DEF Moved, Lost, PointsInto
      <4>2. x # p /\ x # q /\ x \in alive /\ it.at \in DOMAIN clusters[x]
        BY <3>2, <3>4, <4>1
      <4> QED BY <1>1, <1>2, <4>1, <4>2
    <3> QED BY <3>3, <3>4
  <2> QED BY <1>1, <2>1, <2>2, <2>3 DEF TypeOK
<1>4. FreshIsEmpty'
  BY <1>1, <1>2 DEF TypeOK, FreshIsEmpty
<1>5. OwnIterators'
  <2> SUFFICES ASSUME NEW o \in alive' \ borrowed'
               PROVE  most_recent_cluster'[o] =
                        IF LastNamed(calls'[o]) = NoCluster THEN End(o)
                        ELSE Element(o, LastNamed(calls'[o]))
    BY DEF OwnIterators
  <2>1. o # p /\ o \in Objects
    BY <1>1 DEF TypeOK
  <2> DEFINE from == IF o = q THEN p ELSE o
             it == most_recent_cluster[from]
  <2>2. from \in alive \ borrowed /\ (o = q => it # End(p))
    BY <1>1, <2>1
  <2>3. it = IF LastNamed(calls[from]) = NoCluster THEN End(from)
             ELSE Element(from, LastNamed(calls[from]))
    BY <2>2 DEF OwnIterators
  <2>4. most_recent_cluster'[o] = Moved(it, p, q) /\ calls'[o] = calls[from]
    BY <1>1, <1>2, <2>1
  <2>5. CASE o = q
    <3>1. LastNamed(calls[p]) # NoCluster /\ it = Element(p, LastNamed(calls[p]))
      BY <2>2, <2>3, <2>5
    <3>2. Moved(it, p, q) = Element(q, LastNamed(calls[p]))
      BY <3>1 DEF Moved, PointsInto, Element
    <3> QED BY <2>4, <2>5, <3>1, <3>2
  <2>6. CASE o # q
    <3>1. it.of = o
      BY <2>3, <2>6 DEF End, Element
    <3>2. Moved(it, p, q) = it
      BY <2>1, <2>6, <3>1 DEF Moved, Lost, PointsInto
    <3> QED BY <2>3, <2>4, <2>6, <3>2
  <2> QED BY <2>5, <2>6
<1>6. RightUnlessStrayed'
  BY <1>1, <1>2, NothingDescribed DEF TypeOK, RightUnlessStrayed, AsDescribed
<1> QED
  BY <1>3, <1>4, <1>5, <1>6

\* Every step keeps the invariant.
LEMMA NextInd == Ind /\ [Next]_vars => Ind'
<1> SUFFICES ASSUME Ind, [Next]_vars PROVE Ind'
  OBVIOUS
<1>1. CASE UNCHANGED vars
  BY <1>1 DEF vars, Ind, TypeOK, ElementsExist, FreshIsEmpty, OwnIterators,
              RightUnlessStrayed, AsDescribed
<1>2. ASSUME NEW o \in Objects, Construct(o) PROVE Ind'
  BY <1>2, ConstructInd
<1>3. ASSUME NEW o \in Objects, NEW c \in ClusterIds, NEW name \in Names,
             InsertCluster(o, c, name)
      PROVE  Ind'
  BY <1>3, InsertClusterInd
<1>4. ASSUME NEW o \in Objects, NEW item \in ItemIds, NEW metric \in Metrics,
             InsertMetric(o, item, metric)
      PROVE  Ind'
  BY <1>4, InsertMetricInd
<1>5. ASSUME NEW o \in Objects, NEW c \in ClusterIds, NEW item \in ItemIds,
             NEW metric \in Metrics, InsertInto(o, c, item, metric)
      PROVE  Ind'
  BY <1>5, InsertIntoInd
<1>6. ASSUME NEW o \in Objects, NEW q \in Objects, Copy(o, q) \/ Move(o, q) PROVE Ind'
  BY <1>6, CopyInd, MoveInd
<1>7. ASSUME NEW o \in Objects, Destroy(o) PROVE Ind'
  BY <1>7, DestroyInd
<1> QED
  BY <1>1, <1>2, <1>3, <1>4, <1>5, <1>6, <1>7 DEF Next

\* So it always holds.
LEMMA BuildersInvariant == Spec => []Ind
<1> QED
  BY InitInd, NextInd, PTL DEF Spec

-----------------------------------------------------------------------------
(* Theorems.                                                               *)

\* The descriptions have their types in every state, and no iterator points to
\* a cluster that is not there: whatever is copied, moved or destroyed.
THEOREM BuildersTypeCorrect == Spec => []TypeOK
<1>1. Ind => TypeOK
  BY DEF Ind
<1> QED
  BY <1>1, BuildersInvariant, PTL

\* Every description is what its functor calls say, first come, first kept, if no
\* metric is added after a copy before a cluster is named.
THEOREM DescriptionsRight == Spec => []AsDescribedUnlessStrayed
<1>1. Ind => AsDescribedUnlessStrayed
  BY DEF Ind, RightUnlessStrayed, AsDescribedUnlessStrayed
<1> QED
  BY <1>1, BuildersInvariant, PTL
=============================================================================
