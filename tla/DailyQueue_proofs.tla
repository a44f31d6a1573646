------------------------- MODULE DailyQueue_proofs -------------------------
(* Proofs about DailyQueue: what the rules list for any table of chunks, and *)
(* what get_queue answers while the table changes under its reads.           *)
EXTENDS DailyQueue, Enumeration_proofs

-----------------------------------------------------------------------------
(* The orders of the rules. *)

(* Of two chunks one is earlier in the course, and of two rows one is older. *)
LEMMA OlderThanIsTotal ==
    ASSUME NEW rows \in [Chunks -> Row]
    PROVE  /\ \A k \in Chunks : ~ OlderThan(rows, k, k)
           /\ \A j, k \in Chunks :
                 j # k => OlderThan(rows, j, k) \/ OlderThan(rows, k, j)
           /\ \A i, j, k \in Chunks :
                 OlderThan(rows, i, j) /\ OlderThan(rows, j, k)
                 => OlderThan(rows, i, k)
  <1>1. \A k \in Chunks : k \in Int /\ Ord[k] \in Int /\ rows[k].updatedAt \in Int
    BY ChunksAssumption DEF Row, Time
  <1> QED
    BY <1>1 DEF OlderThan, Earlier

(* Course order, ties broken by the id, is a strict total order.             *)
LEMMA EarlierIsTotal ==
    /\ \A k \in Chunks : ~ Earlier(k, k)
    /\ \A j, k \in Chunks : j # k => Earlier(j, k) \/ Earlier(k, j)
    /\ \A i, j, k \in Chunks : Earlier(i, j) /\ Earlier(j, k) => Earlier(i, k)
  <1>1. \A k \in Chunks : k \in Int /\ Ord[k] \in Int
    BY ChunksAssumption
  <1> QED
    BY <1>1 DEF Earlier

(* The pairs of chunks by age, and by place in the course.                   *)
ByAge(rows, S) == {p \in S \X S : OlderThan(rows, p[1], p[2])}
ByPlace(S) == {p \in S \X S : Earlier(p[1], p[2])}

(* The pairs by age order any set of chunks ...                              *)
LEMMA ByAgeOrders ==
    ASSUME NEW rows \in [Chunks -> Row], NEW S \in SUBSET Chunks
    PROVE  /\ Orders(ByAge(rows, S), S)
           /\ \A j, k \in S : <<j, k>> \in ByAge(rows, S) <=> OlderThan(rows, j, k)
  <1>1. ASSUME NEW j \in S, NEW k \in S
        PROVE  <<j, k>> \in ByAge(rows, S) <=> OlderThan(rows, j, k)
    <2>1. <<j, k>> \in S \X S
      OBVIOUS
    <2>2. <<j, k>>[1] = j /\ <<j, k>>[2] = k
      OBVIOUS
    <2> QED
      BY <2>1, <2>2, Zenon DEF ByAge
  <1>2. Orders(ByAge(rows, S), S)
    BY <1>1, OlderThanIsTotal DEF Orders
  <1> QED
    BY <1>1, <1>2

(* ... and so do the pairs by place.                                         *)
LEMMA ByPlaceOrders ==
    ASSUME NEW S \in SUBSET Chunks
    PROVE  /\ Orders(ByPlace(S), S)
           /\ \A j, k \in S : <<j, k>> \in ByPlace(S) <=> Earlier(j, k)
  <1>1. ASSUME NEW j \in S, NEW k \in S
        PROVE  <<j, k>> \in ByPlace(S) <=> Earlier(j, k)
    <2>1. <<j, k>> \in S \X S
      OBVIOUS
    <2>2. <<j, k>>[1] = j /\ <<j, k>>[2] = k
      OBVIOUS
    <2> QED
      BY <2>1, <2>2, Zenon DEF ByPlace
  <1>2. Orders(ByPlace(S), S)
    BY <1>1, EarlierIsTotal DEF Orders
  <1> QED
    BY <1>1, <1>2

-----------------------------------------------------------------------------
(* What the rules list of a track. *)

(* Of the eligible chunks, those gone stale, those in progress and not       *)
(* stale, and those never started.                                           *)
StaleOf(rows, elig, now) == {k \in elig : IsStale(rows[k], now)}
FreshOf(rows, elig, now) ==
    {k \in elig : rows[k].status = "in_progress" /\ ~IsStale(rows[k], now)}
NewOf(rows, elig) == {k \in elig : rows[k].status = "queued"}

(* The stale chunks are listed once each, the most neglected first.          *)
LEMMA StaleItemsSorted ==
    ASSUME NEW rows \in [Chunks -> Row], NEW elig \in SUBSET Chunks, NEW now,
           NEW s, s = StaleItems(rows, elig, now)
    PROVE  /\ s \in Seq(StaleOf(rows, elig, now))
           /\ Range(s) = StaleOf(rows, elig, now)
           /\ \A i, j \in DOMAIN s : i < j => OlderThan(rows, s[i], s[j])
  <1> DEFINE S == StaleOf(rows, elig, now)
             n == Cardinality(S)
  <1>1. S \subseteq Chunks
    BY DEF StaleOf
  <1>2. IsFiniteSet(S)
    BY <1>1, ChunksAssumption, FS_Subset
  <1>3. s = InOrder(S, ByAge(rows, S))
    BY DEF StaleItems, StaleOf, ByAge
  <1> HIDE DEF S
  <1>4. Orders(ByAge(rows, S), S)
    BY <1>1, ByAgeOrders
  <1>5. /\ s \in [1..n -> S]
        /\ \A x \in S : \E i \in 1..n : s[i] = x
        /\ \A i, j \in 1..n : i < j => <<s[i], s[j]>> \in ByAge(rows, S)
    BY <1>2, <1>3, <1>4, InOrderSorts
  <1>6. n \in Nat
    BY <1>2, FS_CardinalityType
  <1> HIDE DEF n
  <1>7. s \in Seq(S) /\ DOMAIN s = 1..n
    BY <1>5, <1>6
  <1>8. Range(s) = S
    BY <1>5, <1>7 DEF Range
  <1>9. \A i, j \in DOMAIN s : i < j => OlderThan(rows, s[i], s[j])
    BY <1>1, <1>5, <1>7, ByAgeOrders
  <1> QED
    BY <1>7, <1>8, <1>9 DEF S

(* The fresh chunk that is listed is the one touched last.                   *)
LEMMA CurrentItemIsLast ==
    ASSUME NEW rows \in [Chunks -> Row], NEW elig \in SUBSET Chunks, NEW now
    PROVE  /\ FreshOf(rows, elig, now) = {} => CurrentItem(rows, elig, now) = <<>>
           /\ FreshOf(rows, elig, now) # {} =>
                 \E k \in FreshOf(rows, elig, now) :
                    /\ CurrentItem(rows, elig, now) = <<k>>
                    /\ \A j \in FreshOf(rows, elig, now) \ {k} :
                          OlderThan(rows, j, k)
  <1> DEFINE F == FreshOf(rows, elig, now)
             L == {k \in F : \A j \in F \ {k} : OlderThan(rows, j, k)}
  <1>1. CurrentItem(rows, elig, now) = AtMostOne(L)
    BY DEF CurrentItem, FreshOf
  <1>2. F \subseteq Chunks
    BY DEF FreshOf
  <1>3. IsFiniteSet(F)
    BY <1>2, ChunksAssumption, FS_Subset
  <1> HIDE DEF F
  <1>4. F = {} => L = {}
    OBVIOUS
  <1>5. F # {} => L # {}
    <2> SUFFICES ASSUME F # {} PROVE L # {}
      OBVIOUS
    <2>1. PICK x \in F : \A y \in F \ {x} : <<y, x>> \in ByAge(rows, F)
      BY <1>2, <1>3, ByAgeOrders, LastAndFirst
    <2>2. \A y \in F \ {x} : OlderThan(rows, y, x)
      BY <1>2, <2>1, ByAgeOrders
    <2> QED
      BY <2>2
  <1>6. L # {} => \E k \in L : AtMostOne(L) = <<k>>
    BY DEF AtMostOne
  <1>7. L = {} => AtMostOne(L) = <<>>
    BY DEF AtMostOne
  <1> QED
    BY <1>1, <1>4, <1>5, <1>6, <1>7 DEF F

(* The new chunk that is listed is the first of the course.                  *)
LEMMA NextItemIsFirst ==
    ASSUME NEW rows, NEW elig \in SUBSET Chunks
    PROVE  /\ NewOf(rows, elig) = {} => NextItem(rows, elig) = <<>>
           /\ NewOf(rows, elig) # {} =>
                 \E k \in NewOf(rows, elig) :
                    /\ NextItem(rows, elig) = <<k>>
                    /\ \A j \in NewOf(rows, elig) \ {k} : Earlier(k, j)
  <1> DEFINE F == NewOf(rows, elig)
             L == {k \in F : \A j \in F \ {k} : Earlier(k, j)}
  <1>1. NextItem(rows, elig) = AtMostOne(L)
    BY DEF NextItem, NewOf
  <1>2. F \subseteq Chunks
    BY DEF NewOf
  <1>3. IsFiniteSet(F)
    BY <1>2, ChunksAssumption, FS_Subset
  <1> HIDE DEF F
  <1>4. F = {} => L = {}
    OBVIOUS
  <1>5. F # {} => L # {}
    <2> SUFFICES ASSUME F # {} PROVE L # {}
      OBVIOUS
    <2>1. PICK x \in F : \A y \in F \ {x} : <<x, y>> \in ByPlace(F)
      BY <1>2, <1>3, ByPlaceOrders, LastAndFirst
    <2>2. \A y \in F \ {x} : Earlier(x, y)
      BY <1>2, <2>1, ByPlaceOrders
    <2> QED
      BY <2>2
  <1>6. L # {} => \E k \in L : AtMostOne(L) = <<k>>
    BY DEF AtMostOne
  <1>7. L = {} => AtMostOne(L) = <<>>
    BY DEF AtMostOne
  <1> QED
    BY <1>1, <1>4, <1>5, <1>6, <1>7 DEF F

(* The places of three lists put one after the other, the last two short.    *)
Joined(a, b, c) == a \o b \o c
Places(s, a, b, c) ==
    /\ \A i \in DOMAIN s :
          \/ i \in DOMAIN a /\ s[i] = a[i]
          \/ i = Len(a) + 1 /\ 1 \in DOMAIN b /\ s[i] = b[1]
          \/ i = Len(a) + Len(b) + 1 /\ 1 \in DOMAIN c /\ s[i] = c[1]
    /\ \A i \in DOMAIN a : i \in DOMAIN s /\ s[i] = a[i]
    /\ 1 \in DOMAIN b => Len(a) + 1 \in DOMAIN s /\ s[Len(a) + 1] = b[1]
    /\ 1 \in DOMAIN c => /\ Len(a) + Len(b) + 1 \in DOMAIN s
                         /\ s[Len(a) + Len(b) + 1] = c[1]

(* Lists joined hold these places and no other.                              *)
LEMMA ThreeLists ==
    ASSUME NEW T, NEW a \in Seq(T), NEW b \in Seq(T), NEW c \in Seq(T),
           Len(b) <= 1, Len(c) <= 1
    PROVE  Joined(a, b, c) \in Seq(T) /\ Places(Joined(a, b, c), a, b, c)
  BY DEF Joined, Places

(* A list of at most one chunk.                                              *)
LEMMA ShortList ==
    ASSUME NEW S, NEW s, s = <<>> \/ \E k \in S : s = <<k>>
    PROVE  s \in Seq(S) /\ Len(s) <= 1
  <1>1. CASE s = <<>>
    BY <1>1
  <1>2. CASE \E k \in S : s = <<k>>
    BY <1>2
  <1> QED
    BY <1>1, <1>2

(* Items made of a list of chunks.                                           *)
Stale(ks) == [i \in DOMAIN ks |-> [chunk |-> ks[i], stale |-> TRUE]]
Fresh(ks) == [i \in DOMAIN ks |-> [chunk |-> ks[i], stale |-> FALSE]]

(* The items made of a list are as long as it, each with its flag: stale ... *)
LEMMA FlaggedStaleItems ==
    ASSUME NEW ks \in Seq(Chunks)
    PROVE  /\ Stale(ks) \in Seq([chunk : Chunks, stale : BOOLEAN])
           /\ Len(Stale(ks)) = Len(ks) /\ DOMAIN Stale(ks) = DOMAIN ks
           /\ \A i \in DOMAIN ks : /\ Stale(ks)[i].chunk = ks[i]
                                   /\ Stale(ks)[i].stale
  <1> DEFINE n == Len(ks)
             T == [chunk : Chunks, stale : BOOLEAN]
  <1>1. n \in Nat /\ DOMAIN ks = 1..n /\ \A i \in 1..n : ks[i] \in Chunks
    OBVIOUS
  <1> HIDE DEF n
  <1>2. \A i \in 1..n : [chunk |-> ks[i], stale |-> TRUE] \in T
    BY <1>1
  <1>3. Stale(ks) \in [1..n -> T]
    BY <1>1, <1>2 DEF Stale
  <1>4. \A i \in DOMAIN ks : /\ Stale(ks)[i].chunk = ks[i]
                             /\ Stale(ks)[i].stale
    BY <1>1 DEF Stale
  <1> HIDE DEF T
  <1>5. Stale(ks) \in Seq(T) /\ Len(Stale(ks)) = n
    BY <1>1, <1>3, SequenceOf
  <1> QED
    BY <1>1, <1>3, <1>4, <1>5 DEF n, T

(* ... or not.                                                               *)
LEMMA FlaggedFreshItems ==
    ASSUME NEW ks \in Seq(Chunks)
    PROVE  /\ Fresh(ks) \in Seq([chunk : Chunks, stale : BOOLEAN])
           /\ Len(Fresh(ks)) = Len(ks) /\ DOMAIN Fresh(ks) = DOMAIN ks
           /\ \A i \in DOMAIN ks : /\ Fresh(ks)[i].chunk = ks[i]
                                   /\ ~ Fresh(ks)[i].stale
  <1> DEFINE n == Len(ks)
             T == [chunk : Chunks, stale : BOOLEAN]
  <1>1. n \in Nat /\ DOMAIN ks = 1..n /\ \A i \in 1..n : ks[i] \in Chunks
    OBVIOUS
  <1> HIDE DEF n
  <1>2. \A i \in 1..n : [chunk |-> ks[i], stale |-> FALSE] \in T
    BY <1>1
  <1>3. Fresh(ks) \in [1..n -> T]
    BY <1>1, <1>2 DEF Fresh
  <1>4. \A i \in DOMAIN ks : /\ Fresh(ks)[i].chunk = ks[i]
                             /\ ~ Fresh(ks)[i].stale
    BY <1>1 DEF Fresh
  <1> HIDE DEF T
  <1>5. Fresh(ks) \in Seq(T) /\ Len(Fresh(ks)) = n
    BY <1>1, <1>3, SequenceOf
  <1> QED
    BY <1>1, <1>3, <1>4, <1>5 DEF n, T

(* The chunks a list of items shows.                                         *)
ChunksOf(items) == {items[i].chunk : i \in DOMAIN items}

(* A list of items starts with its stale ones, the most neglected first, and *)
(* shows no chunk twice.                                                     *)
WellOrdered(items, rows) ==
    \A i, j \in DOMAIN items : i < j =>
        /\ items[i].chunk # items[j].chunk
        /\ items[j].stale =>
              items[i].stale /\ OlderThan(rows, items[i].chunk, items[j].chunk)

(* Items of three kinds, stale, in progress and new, put together.           *)
ListOf(items, rows, u, v, w) ==
    /\ items \in Seq([chunk : Chunks, stale : BOOLEAN])
    /\ ChunksOf(items) = Range(u) \union Range(v) \union Range(w)
    /\ \A i \in DOMAIN items : items[i].stale => items[i].chunk \in Range(u)
    /\ WellOrdered(items, rows)

(* A stale list, a current and a next chunk joined are a well-ordered list.  *)
LEMMA ItemsTogether ==
    ASSUME NEW A \in SUBSET Chunks, NEW B \in SUBSET Chunks,
           NEW C \in SUBSET Chunks, A \cap B = {}, A \cap C = {}, B \cap C = {},
           NEW rows \in [Chunks -> Row],
           NEW u \in Seq(A), NEW v \in Seq(B), NEW w \in Seq(C),
           Len(v) <= 1, Len(w) <= 1,
           \A i, j \in DOMAIN u : i < j => OlderThan(rows, u[i], u[j])
    PROVE  ListOf(Joined(Stale(u), Fresh(v), Fresh(w)), rows, u, v, w)
  <1> DEFINE T == [chunk : Chunks, stale : BOOLEAN]
             a == Stale(u)
             b == Fresh(v)
             c == Fresh(w)
             items == Joined(a, b, c)
  <1>1. /\ u \in Seq(Chunks) /\ v \in Seq(Chunks) /\ w \in Seq(Chunks)
        /\ \A i \in DOMAIN u : u[i] \in A
        /\ \A i \in DOMAIN v : v[i] \in B /\ i = 1
        /\ \A i \in DOMAIN w : w[i] \in C /\ i = 1
    OBVIOUS
  <1>2. /\ a \in Seq(T) /\ DOMAIN a = DOMAIN u
        /\ \A i \in DOMAIN a : a[i].chunk = u[i] /\ a[i].stale
    BY <1>1, FlaggedStaleItems
  <1>3. /\ b \in Seq(T) /\ DOMAIN b = DOMAIN v /\ Len(b) <= 1
        /\ \A i \in DOMAIN b : b[i].chunk = v[i] /\ ~ b[i].stale
    BY <1>1, FlaggedFreshItems
  <1>4. /\ c \in Seq(T) /\ DOMAIN c = DOMAIN w /\ Len(c) <= 1
        /\ \A i \in DOMAIN c : c[i].chunk = w[i] /\ ~ c[i].stale
    BY <1>1, FlaggedFreshItems
  <1> HIDE DEF T, a, b, c
  <1>5. /\ a \in Seq(T) /\ b \in Seq(T) /\ c \in Seq(T)
        /\ Len(b) <= 1 /\ Len(c) <= 1
    BY <1>2, <1>3, <1>4
  <1>6. items \in Seq(T) /\ Places(items, a, b, c)
    BY <1>5, ThreeLists
  <1> HIDE DEF items
  <1>7. ASSUME NEW i \in DOMAIN items
        PROVE  \/ i \in DOMAIN a /\ items[i] = a[i]
               \/ i = Len(a) + 1 /\ 1 \in DOMAIN b /\ items[i] = b[1]
               \/ /\ i = Len(a) + Len(b) + 1
                  /\ 1 \in DOMAIN c /\ items[i] = c[1]
    BY <1>6 DEF Places
  <1>8. \A i \in DOMAIN a : i \in DOMAIN items /\ items[i] = a[i]
    BY <1>6 DEF Places
  <1>9. 1 \in DOMAIN b => /\ Len(a) + 1 \in DOMAIN items
                         /\ items[Len(a) + 1] = b[1]
    BY <1>6 DEF Places
  <1>10. 1 \in DOMAIN c => /\ Len(a) + Len(b) + 1 \in DOMAIN items
                          /\ items[Len(a) + Len(b) + 1] = c[1]
    BY <1>6 DEF Places
  <1>11. /\ \A i \in DOMAIN u : u[i] \in Range(u)
         /\ \A i \in DOMAIN v : v[i] \in Range(v)
         /\ \A i \in DOMAIN w : w[i] \in Range(w)
    BY DEF Range
  <1>12. ChunksOf(items) = Range(u) \union Range(v) \union Range(w)
    <2>1. ASSUME NEW i \in DOMAIN items
          PROVE  items[i].chunk \in Range(u) \union Range(v) \union Range(w)
      BY <1>2, <1>3, <1>4, <1>7, <1>11
    <2>2. ASSUME NEW i \in DOMAIN u PROVE u[i] \in ChunksOf(items)
      <3>1. i \in DOMAIN items /\ items[i].chunk = u[i]
        BY <1>2, <1>8
      <3> QED
        BY <3>1 DEF ChunksOf
    <2>3. ASSUME NEW i \in DOMAIN v PROVE v[i] \in ChunksOf(items)
      <3>1. Len(a) + 1 \in DOMAIN items /\ items[Len(a) + 1].chunk = v[i]
        BY <1>1, <1>3, <1>9
      <3> QED
        BY <3>1 DEF ChunksOf
    <2>4. ASSUME NEW i \in DOMAIN w PROVE w[i] \in ChunksOf(items)
      <3> DEFINE n == Len(a) + Len(b) + 1
      <3>1. n \in DOMAIN items /\ items[n].chunk = w[i]
        BY <1>1, <1>4, <1>10
      <3> QED
        BY <3>1 DEF ChunksOf
    <2> QED
      BY <2>1, <2>2, <2>3, <2>4 DEF ChunksOf, Range
  <1>13. \A i \in DOMAIN items : items[i].stale => items[i].chunk \in Range(u)
    <2> SUFFICES ASSUME NEW i \in DOMAIN items, items[i].stale
                 PROVE  items[i].chunk \in Range(u)
      OBVIOUS
    <2>1. items[i] # b[1] \/ 1 \notin DOMAIN b
      BY <1>3, Zenon
    <2>2. items[i] # c[1] \/ 1 \notin DOMAIN c
      BY <1>4, Zenon
    <2>3. i \in DOMAIN a /\ items[i] = a[i]
      BY <1>7, <2>1, <2>2, Zenon
    <2> QED
      BY <1>2, <1>11, <2>3, Zenon
  <1>14. WellOrdered(items, rows)
    <2> SUFFICES ASSUME NEW i \in DOMAIN items, NEW j \in DOMAIN items, i < j
                 PROVE  /\ items[i].chunk # items[j].chunk
                        /\ items[j].stale =>
                              /\ items[i].stale
                              /\ OlderThan(rows, items[i].chunk, items[j].chunk)
      BY DEF WellOrdered
    <2>1. /\ Len(a) \in Nat /\ Len(b) \in Nat
          /\ DOMAIN a = 1..Len(a) /\ i \in Int /\ j \in Int /\ 1 <= i
      BY <1>5, <1>6
    <2>2. CASE j \in DOMAIN a /\ items[j] = a[j]
      <3>1. i \in DOMAIN a /\ items[i] = a[i]
        BY <1>6, <2>1, <2>2 DEF Places
      <3>2. OlderThan(rows, items[i].chunk, items[j].chunk)
            /\ items[i].chunk \in Chunks
        BY <1>1, <1>2, <2>2, <3>1
      <3> QED
        BY <1>2, <2>2, <3>1, <3>2, OlderThanIsTotal
    <2>3. CASE j = Len(a) + 1 /\ 1 \in DOMAIN b /\ items[j] = b[1]
      <3>1. i \in DOMAIN a /\ items[i] = a[i]
        BY <1>6, <2>1, <2>3 DEF Places
      <3>2. items[i].chunk \in A
        BY <1>1, <1>2, <3>1
      <3>3. items[j].chunk \in B /\ ~ items[j].stale
        BY <1>1, <1>3, <2>3
      <3> QED
        BY <3>2, <3>3
    <2>4. CASE j = Len(a) + Len(b) + 1 /\ 1 \in DOMAIN c /\ items[j] = c[1]
      <3>1. items[j].chunk \in C /\ ~ items[j].stale
        BY <1>1, <1>4, <2>4
      <3>2. \/ i \in DOMAIN a /\ items[i] = a[i]
            \/ 1 \in DOMAIN b /\ items[i] = b[1]
        BY <1>6, <2>1, <2>4 DEF Places
      <3>3. items[i].chunk \in A \union B
        BY <1>1, <1>2, <1>3, <3>2
      <3> QED
        BY <3>1, <3>3
    <2> QED
      BY <1>6, <2>2, <2>3, <2>4 DEF Places
  <1> QED
    BY <1>6, <1>12, <1>13, <1>14 DEF ListOf, T, items, a, b, c

(* The items of a track: its stale chunks in order, then at most one chunk   *)
(* in progress, then at most one new one.                                    *)
ItemsAre(items, rows, elig, now) ==
    /\ items \in Seq([chunk : Chunks, stale : BOOLEAN])
    /\ ChunksOf(items) = StaleOf(rows, elig, now)
              \union Range(CurrentItem(rows, elig, now))
              \union Range(NextItem(rows, elig))
    /\ \A i \in DOMAIN items :
          items[i].stale => items[i].chunk \in StaleOf(rows, elig, now)
    /\ WellOrdered(items, rows)

(* track_items lists all eligible stale chunks, then at most one current and *)
(* at most one new chunk.                                                    *)
LEMMA TrackItemsAre ==
    ASSUME NEW rows \in [Chunks -> Row], NEW t, NEW at, NEW now
    PROVE  ItemsAre(TrackItems(rows, t, at, now), rows,
                    Eligible(Candidates(rows, t), at), now)
  <1> DEFINE elig == Eligible(Candidates(rows, t), at)
             items == TrackItems(rows, t, at, now)
             A == StaleOf(rows, elig, now)
             B == FreshOf(rows, elig, now)
             C == NewOf(rows, elig)
             u == StaleItems(rows, elig, now)
             v == CurrentItem(rows, elig, now)
             w == NextItem(rows, elig)
  <1>1. items = Joined(Stale(u), Fresh(v), Fresh(w))
    BY DEF TrackItems, Stale, Fresh, Joined
  <1>2. elig \in SUBSET Chunks
    BY DEF Eligible, Candidates
  <1>3. /\ u \in Seq(A) /\ Range(u) = A
        /\ \A i, j \in DOMAIN u : i < j => OlderThan(rows, u[i], u[j])
    BY <1>2, StaleItemsSorted
  <1>4. v = <<>> \/ \E k \in B : v = <<k>>
    BY <1>2, CurrentItemIsLast
  <1>5. w = <<>> \/ \E k \in C : w = <<k>>
    BY <1>2, NextItemIsFirst
  <1>6. /\ A \in SUBSET Chunks /\ B \in SUBSET Chunks /\ C \in SUBSET Chunks
        /\ A \cap B = {} /\ A \cap C = {} /\ B \cap C = {}
    BY <1>2 DEF StaleOf, FreshOf, NewOf, IsStale
  <1> HIDE DEF elig, items, A, B, C, u, v, w
  <1>7. v \in Seq(B) /\ w \in Seq(C) /\ Len(v) <= 1 /\ Len(w) <= 1
    BY <1>4, <1>5, ShortList
  <1>8. ListOf(items, rows, u, v, w)
    <2>1. ListOf(Joined(Stale(u), Fresh(v), Fresh(w)), rows, u, v, w)
      BY <1>3, <1>6, <1>7, ItemsTogether
    <2> QED
      BY <1>1, <2>1, Zenon
  <1> QED
    BY <1>3, <1>8 DEF ListOf, ItemsAre, elig, items, A, v, w

(* A track has an item exactly when it has an eligible chunk.                *)
LEMMA ItemsWhenEligible ==
    ASSUME NEW rows \in [Chunks -> Row], NEW t, NEW at, NEW now
    PROVE  TrackItems(rows, t, at, now) # <<>>
           <=> Eligible(Candidates(rows, t), at) # {}
  <1> DEFINE elig == Eligible(Candidates(rows, t), at)
             items == TrackItems(rows, t, at, now)
             A == StaleOf(rows, elig, now)
             B == FreshOf(rows, elig, now)
             C == NewOf(rows, elig)
             v == CurrentItem(rows, elig, now)
             w == NextItem(rows, elig)
  <1>1. items \in Seq([chunk : Chunks, stale : BOOLEAN])
        /\ ChunksOf(items) = A \union Range(v) \union Range(w)
    BY TrackItemsAre DEF ItemsAre
  <1>2. elig \in SUBSET Chunks /\ elig = A \union B \union C
    BY DEF Eligible, Candidates, Open, StaleOf, FreshOf, NewOf
  <1>3. (B = {} /\ v = <<>>) \/ \E k \in B : v = <<k>>
    BY <1>2, CurrentItemIsLast
  <1>4. (C = {} /\ w = <<>>) \/ \E k \in C : w = <<k>>
    BY <1>2, NextItemIsFirst
  <1> HIDE DEF elig, items, A, B, C, v, w
  <1>5. items = <<>> <=> ChunksOf(items) = {}
    <2>1. items = <<>> <=> DOMAIN items = {}
      BY <1>1, EmptySequence
    <2> QED
      BY <2>1 DEF ChunksOf
  <1>6. B = {} <=> Range(v) = {}
    BY <1>3 DEF Range
  <1>7. C = {} <=> Range(w) = {}
    BY <1>4 DEF Range
  <1>8. items # <<>> <=> elig # {}
    BY <1>1, <1>2, <1>5, <1>6, <1>7
  <1> QED
    BY <1>8 DEF items, elig

-----------------------------------------------------------------------------
(* The whole queue. *)

(* Two lists without repetitions and without a common element.               *)
LEMMA TwoLists ==
    ASSUME NEW T, NEW s \in Seq(T), NEW u \in Seq(T), IsInjective(s),
           IsInjective(u), Range(s) \cap Range(u) = {}
    PROVE  /\ s \o u \in Seq(T)
           /\ IsInjective(s \o u)
           /\ Range(s \o u) = Range(s) \union Range(u)
  <1> DEFINE w == s \o u
             m == Len(s)
             n == Len(u)
  <1>1. /\ m \in Nat /\ n \in Nat /\ DOMAIN s = 1..m /\ DOMAIN u = 1..n
        /\ w \in Seq(T) /\ DOMAIN w = 1..(m + n)
        /\ \A i \in 1..m : w[i] = s[i]
        /\ \A i \in 1..n : w[m + i] = u[i]
    OBVIOUS
  <1> HIDE DEF w, m, n
  <1>2. \A i \in 1..(m + n) : /\ i \in 1..m \/ (i - m) \in 1..n
                              /\ m + (i - m) = i
    BY <1>1
  <1>3. /\ \A i \in 1..m : w[i] \in Range(s)
        /\ \A i \in 1..(m + n) : i \notin 1..m => w[i] \in Range(u)
    BY <1>1, <1>2 DEF Range
  <1>4. IsInjective(w)
    <2> SUFFICES ASSUME NEW i \in 1..(m + n), NEW j \in 1..(m + n), w[i] = w[j]
                 PROVE  i = j
      BY <1>1 DEF IsInjective
    <2>1. CASE i \in 1..m /\ j \in 1..m
      BY <1>1, <2>1 DEF IsInjective
    <2>2. CASE i \notin 1..m /\ j \notin 1..m
      <3>1. (i - m) \in 1..n /\ (j - m) \in 1..n
        BY <1>2, <2>2
      <3>2. u[i - m] = u[j - m]
        BY <1>1, <1>2, <2>2, <3>1
      <3>3. i - m = j - m
        BY <1>1, <3>1, <3>2 DEF IsInjective
      <3> QED
        BY <1>1, <3>3
    <2>3. (i \in 1..m) <=> (j \in 1..m)
      BY <1>3
    <2> QED
      BY <2>1, <2>2, <2>3
  <1>5. Range(w) = Range(s) \union Range(u)
    <2>1. Range(w) \subseteq Range(s) \union Range(u)
      BY <1>1, <1>3 DEF Range
    <2>2. \A i \in 1..m : s[i] \in Range(w)
      <3> TAKE i \in 1..m
      <3>1. i \in 1..(m + n) /\ w[i] = s[i]
        BY <1>1
      <3> QED
        BY <1>1, <3>1 DEF Range
    <2>3. \A i \in 1..n : u[i] \in Range(w)
      <3> TAKE i \in 1..n
      <3>1. m + i \in 1..(m + n) /\ w[m + i] = u[i]
        BY <1>1
      <3> QED
        BY <1>1, <3>1 DEF Range
    <2> QED
      <3>1. Range(s) \subseteq Range(w)
        BY <1>1, <2>2 DEF Range
      <3>2. Range(u) \subseteq Range(w)
        BY <1>1, <2>3 DEF Range
      <3> QED
        BY <2>1, <3>1, <3>2
  <1> QED
    BY <1>1, <1>4, <1>5 DEF w

(* The rotation names every track it is given once, known tracks first.      *)
LEMMA RotationNamesAll ==
    ASSUME NEW seen \in SUBSET Tracks
    PROVE  /\ RotationOrder(seen) \in Seq(seen)
           /\ IsInjective(RotationOrder(seen))
           /\ Range(RotationOrder(seen)) = seen
  <1> DEFINE T == Range(Canonical) \union Range(Alphabetical)
             s == Kept(Canonical, seen)
             u == Kept(Alphabetical, seen \ Known)
  <1>1. Tracks \subseteq Range(Alphabetical)
    BY ChunksAssumption DEF Tracks
  <1>2. Canonical \in Seq(T) /\ Alphabetical \in Seq(T)
    BY TracksAssumption, SequenceOfMore
  <1> HIDE DEF T
  <1>3. s \in Seq(T) /\ Range(s) = Range(Canonical) \cap seen /\ IsInjective(s)
    BY <1>2, TracksAssumption, KeptKeeps
  <1>4. u \in Seq(T) /\ Range(u) = Range(Alphabetical) \cap (seen \ Known)
        /\ IsInjective(u)
    BY <1>2, TracksAssumption, KeptKeeps
  <1>5. RotationOrder(seen) = s \o u
    BY DEF RotationOrder
  <1> HIDE DEF s, u
  <1>6. Range(s) \cap Range(u) = {} /\ Range(s) \union Range(u) = seen
    BY <1>1, <1>3, <1>4 DEF Known
  <1>7. /\ RotationOrder(seen) \in Seq(T) /\ IsInjective(RotationOrder(seen))
        /\ Range(RotationOrder(seen)) = seen
    <2>1. /\ s \o u \in Seq(T) /\ IsInjective(s \o u)
          /\ Range(s \o u) = Range(s) \union Range(u)
      BY <1>3, <1>4, <1>6, TwoLists
    <2> QED
      BY <1>5, <1>6, <2>1, Zenon
  <1>8. RotationOrder(seen) \in Seq(seen)
    BY <1>7, SequenceOfItsOwn
  <1> QED
    BY <1>7, <1>8

(* What an answer is made of.                                                *)
Item == [chunk : Chunks, stale : BOOLEAN]
Section == [track : Tracks, items : Seq(Item)]

(* The queue of these rows: one section for each track that has an item.     *)
AnswerOf(answer, rows, at, now) ==
    /\ answer \in Seq(Section)
    /\ \A i \in DOMAIN answer :
          LET t == answer[i].track IN
          answer[i].items # <<>> /\ answer[i].items = TrackItems(rows, t, at[t], now)
    /\ \A i, j \in DOMAIN answer : answer[i].track = answer[j].track => i = j
    /\ \A t \in Tracks : TrackItems(rows, t, at[t], now) # <<>> =>
          \E i \in DOMAIN answer : answer[i].track = t

(* build_queue has exactly one section for each track with something to show.*)
LEMMA QueueAnswers ==
    ASSUME NEW rows \in [Chunks -> Row], NEW at, NEW now
    PROVE  AnswerOf(BuildQueue(rows, at, now), rows, at, now)
  <1> DEFINE list(t) == TrackItems(rows, t, at[t], now)
             seen == {t \in Tracks : Candidates(rows, t) # {}}
             order == RotationOrder(seen)
             sections == [i \in DOMAIN order |->
                            [track |-> order[i], items |-> list(order[i])]]
             full == {s \in Range(sections) : s.items # <<>>}
             answer == Kept(sections, full)
             n == Len(order)
  <1>1. BuildQueue(rows, at, now) = answer
    BY DEF BuildQueue
  <1>2. \A t \in Tracks : list(t) \in Seq(Item)
    BY TrackItemsAre DEF ItemsAre, Item
  <1>3. \A t \in Tracks : list(t) # <<>> => t \in seen
    <2> TAKE t \in Tracks
    <2>1. list(t) # <<>> => Eligible(Candidates(rows, t), at[t]) # {}
      BY ItemsWhenEligible
    <2> QED
      BY <2>1 DEF Eligible
  <1>4. seen \in SUBSET Tracks
    OBVIOUS
  <1> HIDE DEF list, seen
  <1>5. /\ order \in Seq(seen) /\ IsInjective(order)
        /\ Range(order) = seen
    BY <1>4, RotationNamesAll
  <1> HIDE DEF order
  <1>6. n \in Nat /\ DOMAIN order = 1..n /\ \A i \in 1..n : order[i] \in Tracks
    BY <1>4, <1>5
  <1> HIDE DEF n
  <1>7. \A i \in 1..n : /\ sections[i].track = order[i]
                        /\ sections[i].items = list(order[i])
                        /\ sections[i] \in Section
    BY <1>2, <1>6 DEF Section
  <1>8. sections \in Seq(Section) /\ DOMAIN sections = 1..n
    <2>1. sections \in [1..n -> Section]
      BY <1>6, <1>7
    <2> HIDE DEF sections
    <2> QED
      BY <1>6, <2>1, SequenceOf
  <1>9. \A i \in 1..n : sections[i] \in full <=> list(order[i]) # <<>>
    BY <1>7, <1>8 DEF Range
  <1> HIDE DEF sections, full
  <1>10. PICK m, places : KeptAt(sections, full, m, places)
    BY <1>8, KeptInPlace
  <1>11. /\ m \in Nat /\ places \in [1..m -> 1..n]
         /\ answer = [i \in 1..m |-> sections[places[i]]]
         /\ \A i \in 1..m : sections[places[i]] \in full
         /\ \A j \in 1..n : sections[j] \in full => \E i \in 1..m : places[i] = j
         /\ \A i, j \in 1..m : i < j => places[i] < places[j]
    BY <1>8, <1>10 DEF KeptAt
  <1>12. answer \in Seq(Section)
    BY <1>8, KeptKeeps
  <1> HIDE DEF answer
  <1>13. DOMAIN answer = 1..m /\ \A i \in 1..m :
            /\ places[i] \in 1..n
            /\ answer[i].track = order[places[i]]
            /\ answer[i].items = list(order[places[i]])
            /\ list(order[places[i]]) # <<>>
    BY <1>7, <1>9, <1>11
  <1>14. \A i, j \in 1..m : answer[i].track = answer[j].track => i = j
    <2> SUFFICES ASSUME NEW i \in 1..m, NEW j \in 1..m,
                        order[places[i]] = order[places[j]]
                 PROVE  i = j
      BY <1>13
    <2>1. places[i] = places[j] /\ places[i] \in Int
      BY <1>5, <1>6, <1>13 DEF IsInjective
    <2>2. ~ (i < j) /\ ~ (j < i)
      BY <1>11, <2>1
    <2> QED
      BY <2>2
  <1>15. \A t \in Tracks : list(t) # <<>> => \E i \in 1..m : answer[i].track = t
    <2> SUFFICES ASSUME NEW t \in Tracks, list(t) # <<>>
                 PROVE  \E i \in 1..m : answer[i].track = t
      OBVIOUS
    <2>1. PICK j \in 1..n : order[j] = t
      BY <1>3, <1>5, <1>6 DEF Range
    <2>2. PICK i \in 1..m : places[i] = j
      BY <1>9, <1>11, <2>1
    <2> QED
      BY <1>13, <2>1, <2>2
  <1>16. AnswerOf(answer, rows, at, now)
    BY <1>12, <1>13, <1>14, <1>15 DEF AnswerOf, list
  <1> QED
    BY <1>1, <1>16

-----------------------------------------------------------------------------
(* What holds of the queue of any tables. *)

(* Chunks and overrides have their types; all that the rules need.           *)
TablesOK ==
    /\ chunks \in [Chunks -> Row]
    /\ position \in [Tracks -> Overrides \union {Nowhere}]

(* The eligible chunks of a track are its open ones from the override on.    *)
LEMMA EligibleAre ==
    ASSUME TablesOK, NEW t \in Tracks, NEW k
    PROVE  k \in Eligible(Candidates(chunks, t), position[t])
           <=> k \in InTrack(t) /\ Open(chunks[k]) /\ AtOrAfterPosition(k)
  <1>1. \A j \in Chunks : Ord[j] \in Int
    BY ChunksAssumption
  <1> QED
    BY <1>1 DEF Eligible, Candidates, InTrack, AtOrAfterPosition

(* What is shown of a track, in the terms of the properties.                 *)
LEMMA ShownAre ==
    ASSUME TablesOK, NEW t \in Tracks
    PROVE  LET elig == Eligible(Candidates(chunks, t), position[t]) IN
           /\ ItemsAre(Items(t), chunks, elig, clock)
           /\ Shown(t) = StaleOf(chunks, elig, clock)
                  \union Range(CurrentItem(chunks, elig, clock))
                  \union Range(NextItem(chunks, elig))
  <1>1. ItemsAre(Items(t), chunks,
                 Eligible(Candidates(chunks, t), position[t]), clock)
    BY TrackItemsAre DEF Items, TablesOK
  <1>2. Shown(t) = ChunksOf(Items(t))
    BY DEF Shown, ChunksOf
  <1> QED
    BY <1>1, <1>2 DEF ItemsAre

(* A track has its section exactly when it has an eligible chunk.            *)
LEMMA TablesStarveNone == TablesOK => NoTrackStarves
  <1> SUFFICES ASSUME TablesOK, NEW t \in Tracks
               PROVE  LET answer == BuildQueue(chunks, position, clock) IN
                      Cardinality({i \in DOMAIN answer : answer[i].track = t}) =
                        IF \E k \in InTrack(t) :
                              Open(chunks[k]) /\ AtOrAfterPosition(k)
                        THEN 1 ELSE 0
    BY DEF NoTrackStarves
  <1> DEFINE answer == BuildQueue(chunks, position, clock)
             items == TrackItems(chunks, t, position[t], clock)
             sections == {i \in DOMAIN answer : answer[i].track = t}
  <1>1. AnswerOf(answer, chunks, position, clock)
    BY QueueAnswers DEF TablesOK
  <1>2. items # <<>> <=> \E k \in InTrack(t) :
                            Open(chunks[k]) /\ AtOrAfterPosition(k)
    <2>1. items # <<>> <=> Eligible(Candidates(chunks, t), position[t]) # {}
      BY ItemsWhenEligible DEF TablesOK
    <2> HIDE DEF items
    <2> QED
      BY <2>1, EligibleAre
  <1> HIDE DEF answer
  <1>3. CASE items # <<>>
    <2>1. PICK i \in DOMAIN answer : answer[i].track = t
      BY <1>1, <1>3 DEF AnswerOf
    <2>2. sections = {i}
      BY <1>1, <2>1 DEF AnswerOf
    <2>3. Cardinality(sections) = 1
      BY <2>2, FS_Singleton
    <2> QED
      BY <1>2, <1>3, <2>3 DEF answer
  <1>4. CASE items = <<>>
    <2>1. \A i \in DOMAIN answer : answer[i].track # t
      BY <1>1, <1>4 DEF AnswerOf
    <2>2. sections = {}
      BY <2>1
    <2>3. Cardinality(sections) = 0
      BY <2>2, FS_EmptySet
    <2> QED
      BY <1>2, <1>4, <2>3 DEF answer
  <1> QED
    BY <1>3, <1>4

(* A section's stale chunks come first, the most neglected first.            *)
LEMMA TablesStaleFirst == TablesOK => StaleComeFirst
  <1> SUFFICES ASSUME TablesOK, NEW t \in Tracks,
                      NEW i \in DOMAIN Items(t), NEW j \in DOMAIN Items(t), i < j
               PROVE  /\ Items(t)[i].chunk # Items(t)[j].chunk
                      /\ Items(t)[j].stale =>
                            /\ Items(t)[i].stale
                            /\ chunks[Items(t)[i].chunk].updatedAt
                                  <= chunks[Items(t)[j].chunk].updatedAt
    BY DEF StaleComeFirst
  <1>1. Items(t) \in Seq(Item) /\ WellOrdered(Items(t), chunks)
    BY ShownAre DEF ItemsAre, Item
  <1>2. Items(t)[i].chunk \in Chunks /\ Items(t)[j].chunk \in Chunks
    <2>1. Items(t)[i] \in Item /\ Items(t)[j] \in Item
      BY <1>1
    <2> QED
      BY <2>1 DEF Item
  <1>3. \A k \in Chunks : chunks[k].updatedAt \in Int
    BY DEF TablesOK, Row, Time
  <1> QED
    BY <1>1, <1>2, <1>3 DEF WellOrdered, OlderThan

(* A started chunk that is eligible is shown, or it is fresh and one touched *)
(* later is shown in its place.                                              *)
LEMMA StartedShownOrFresher ==
    ASSUME TablesOK, NEW k \in Chunks, NEW t, t = Track[k],
           chunks[k].status = "in_progress", AtOrAfterPosition(k),
           k \notin Shown(t)
    PROVE  /\ ~ IsStale(chunks[k], clock)
           /\ \E j \in Shown(t) : /\ j \in Chunks /\ j # k
                                 /\ chunks[j].status = "in_progress"
                                 /\ OlderThan(chunks, k, j)
  <1> DEFINE elig == Eligible(Candidates(chunks, t), position[t])
             F == FreshOf(chunks, elig, clock)
  <1>1. t \in Tracks /\ k \in InTrack(t) /\ Open(chunks[k])
    BY DEF Tracks, InTrack, Open
  <1>2. k \in elig /\ elig \in SUBSET Chunks
    BY <1>1, EligibleAre DEF Eligible, Candidates
  <1>3. Shown(t) = StaleOf(chunks, elig, clock)
            \union Range(CurrentItem(chunks, elig, clock))
            \union Range(NextItem(chunks, elig))
    BY <1>1, ShownAre
  <1> HIDE DEF elig
  <1>4. ~ IsStale(chunks[k], clock)
    BY <1>2, <1>3 DEF StaleOf
  <1>5. k \in F
    BY <1>2, <1>4 DEF FreshOf
  <1> HIDE DEF F
  <1>6. PICK j \in F : /\ CurrentItem(chunks, elig, clock) = <<j>>
                       /\ \A i \in F \ {j} : OlderThan(chunks, i, j)
    BY <1>2, <1>5, CurrentItemIsLast DEF F, TablesOK
  <1>7. j \in Shown(t)
    <2>1. 1 \in DOMAIN <<j>> /\ <<j>>[1] = j
      OBVIOUS
    <2> QED
      BY <1>3, <1>6, <2>1 DEF Range
  <1>8. j \in Chunks /\ chunks[j].status = "in_progress"
    BY <1>2 DEF F, FreshOf
  <1> QED
    BY <1>4, <1>5, <1>6, <1>7, <1>8

(* A started chunk that is hidden is not stale and gives way to a fresher one.*)
LEMMA TablesHideOnlyOlder == TablesOK /\ clock \in Time => HiddenOnlyBehindFresher
  <1> SUFFICES ASSUME TablesOK, clock \in Time, NEW k \in Chunks,
                      chunks[k].status = "in_progress", AtOrAfterPosition(k),
                      k \notin Shown(Track[k])
               PROVE  /\ clock - chunks[k].updatedAt < StaleAfter
                      /\ \E j \in Shown(Track[k]) :
                            /\ chunks[j].status = "in_progress"
                            /\ chunks[j].updatedAt >= chunks[k].updatedAt
    BY DEF HiddenOnlyBehindFresher
  <1>1. ~ IsStale(chunks[k], clock)
    BY StartedShownOrFresher
  <1>2. PICK j \in Shown(Track[k]) : /\ j \in Chunks
                                     /\ chunks[j].status = "in_progress"
                                     /\ OlderThan(chunks, k, j)
    BY StartedShownOrFresher
  <1>3. /\ chunks[k].updatedAt \in Int /\ chunks[j].updatedAt \in Int
        /\ clock \in Int /\ StaleAfter \in Int
    BY <1>2, TimeAssumption DEF TablesOK, Row, Time
  <1> QED
    BY <1>1, <1>2, <1>3 DEF IsStale, OlderThan

-----------------------------------------------------------------------------
(* What the commands keep true. *)

(* A get_queue has its types; what was done when it was asked for still is,  *)
(* and the rows it has read have none of it and all that is open by now.     *)
QueryOK ==
    /\ query \in [pc : {"idle", "chunks", "settings", "due", "answered"},
                  now : Time, past : SUBSET Chunks,
                  rows : {<<>>} \union [Chunks -> Row], answer : Seq(Section)]
    /\ \A k \in query.past : chunks[k].status = "done"
    /\ query.pc = "settings" =>
          /\ query.rows \in [Chunks -> Row]
          /\ \A k \in Chunks : Open(chunks[k]) => Open(query.rows[k])
          /\ \A k \in query.past : ~ Open(query.rows[k])
    /\ AnswerMissesNoWork

(* It is inductive: the rules need the types, and AnswerMissesNoWork what    *)
(* QueryOK says of the rows before the answer is made of them.               *)
QueueInv ==
    /\ TablesOK
    /\ clock \in Time
    /\ QueryOK

(* On untouched chunks the invariant holds.                                  *)
LEMMA QueueInit == Init => QueueInv
  <1> SUFFICES ASSUME Init PROVE QueueInv
    OBVIOUS
  <1>1. 0 \in Time
    BY TimeAssumption DEF Time
  <1>2. TablesOK
    BY <1>1 DEF Init, TablesOK, Row
  <1>3. <<>> \in Seq(Section)
    OBVIOUS
  <1>4. QueryOK
    BY <1>1, <1>3 DEF Init, QueryOK, NoQuery, AnswerMissesNoWork
  <1> QED
    BY <1>1, <1>2, <1>4 DEF Init, QueueInv

(* Whatever instants are written, no finished chunk is reopened: what is     *)
(* open after a start or a completion was open before.                       *)
LEMMA WriteKeepsFinished ==
    ASSUME QueueInv, NEW j \in Chunks, Start(j) \/ Complete(j)
    PROVE  /\ TablesOK' /\ UNCHANGED <<position, query, clock>>
           /\ \A k \in Chunks : chunks'[k] = chunks[k] \/ chunks'[k].status # "queued"
           /\ \A k \in Chunks : Open(chunks'[k]) => Open(chunks[k])
           /\ \A k \in Chunks : chunks[k].status = "done" => chunks'[k].status = "done"
  <1>1. PICK status \in {"in_progress", "done"}, at \in 0..clock :
           /\ chunks' = [chunks EXCEPT ![j] = [status |-> status, updatedAt |-> at]]
           /\ status = "in_progress" => chunks[j].status # "done"
    BY DEF Start, Complete, Touch
  <1>2. UNCHANGED <<position, query, clock>>
    BY DEF Start, Complete, Touch
  <1>3. at \in Time
    BY TimeAssumption DEF QueueInv, Time
  <1>4. [status |-> status, updatedAt |-> at] \in Row
    BY <1>3 DEF Row
  <1>5. chunks' \in [Chunks -> Row]
    BY <1>1, <1>4 DEF QueueInv, TablesOK
  <1>6. /\ \A k \in Chunks : k # j => chunks'[k] = chunks[k]
        /\ chunks'[j].status = status
    BY <1>1 DEF QueueInv, TablesOK
  <1>7. chunks[j].status \in {"queued", "in_progress", "done"}
    BY DEF QueueInv, TablesOK, Row
  <1> QED
    BY <1>1, <1>2, <1>5, <1>6, <1>7 DEF TablesOK, QueueInv, Open

(* A query in flight is not troubled by what is started or finished.         *)
LEMMA WriteKeeps ==
    ASSUME QueueInv, NEW j \in Chunks, Start(j) \/ Complete(j)
    PROVE  QueueInv'
  <1>1. /\ TablesOK' /\ UNCHANGED <<position, query, clock>>
        /\ \A k \in Chunks : Open(chunks'[k]) => Open(chunks[k])
        /\ \A k \in Chunks : chunks[k].status = "done" => chunks'[k].status = "done"
    BY WriteKeepsFinished
  <1>2. \A t \in Tracks : Candidates(chunks', t) \subseteq Candidates(chunks, t)
    BY <1>1 DEF Candidates
  <1>3. AnswerMissesNoWork'
    BY <1>1, <1>2 DEF AnswerMissesNoWork, QueueInv, QueryOK
  <1>4. query.past \subseteq Chunks
    BY DEF QueueInv, QueryOK
  <1>5. QueryOK'
    BY <1>1, <1>3, <1>4 DEF QueueInv, QueryOK
  <1> QED
    BY <1>1, <1>5 DEF QueueInv

(* The steps of get_queue leave the tables alone.                            *)
LEMMA QueryStepKeeps ==
    ASSUME QueueInv, UNCHANGED <<chunks, position, clock>>, QueryOK'
    PROVE  QueueInv'
  BY DEF QueueInv, TablesOK

(* A get_queue that has no rows in hand and no answer.                       *)
LEMMA NothingInHand ==
    ASSUME QueueInv, UNCHANGED <<chunks, position, clock>>,
           NEW p \in {"idle", "chunks"}, NEW n \in {0, clock},
           NEW done \in SUBSET Chunks, \A k \in done : chunks[k].status = "done",
           query' = [pc |-> p, now |-> n, past |-> done, rows |-> <<>>,
                     answer |-> <<>>]
    PROVE  QueueInv'
  <1>1. n \in Time
    BY TimeAssumption DEF QueueInv, Time
  <1>2. <<>> \in Seq(Section)
    OBVIOUS
  <1>3. QueryOK'
    BY <1>1, <1>2 DEF QueryOK, AnswerMissesNoWork
  <1> QED
    BY <1>3, QueryStepKeeps

(* The rows read have what is open, and nothing that was done before.        *)
LEMMA ReadChunksKeeps ==
    ASSUME QueueInv, ReadChunks PROVE QueueInv'
  <1>1. query' = [query EXCEPT !.pc = "settings", !.rows = chunks]
        /\ UNCHANGED <<chunks, position, clock>>
    BY DEF ReadChunks
  <1>2. /\ query'.pc = "settings" /\ query'.rows = chunks
        /\ query'.past = query.past /\ query'.rows \in [Chunks -> Row]
        /\ query' \in [pc : {"idle", "chunks", "settings", "due", "answered"},
                      now : Time, past : SUBSET Chunks,
                      rows : {<<>>} \union [Chunks -> Row], answer : Seq(Section)]
    BY <1>1 DEF QueueInv, QueryOK, TablesOK
  <1>3. \A k \in query'.past : chunks'[k].status = "done" /\ ~ Open(query'.rows[k])
    BY <1>1, <1>2 DEF QueueInv, QueryOK, Open
  <1>4. AnswerMissesNoWork'
    BY <1>2 DEF AnswerMissesNoWork
  <1>5. QueryOK'
    BY <1>1, <1>2, <1>3, <1>4 DEF QueryOK
  <1> QED
    BY <1>1, <1>5, QueryStepKeeps

(* What a section lists comes from its candidates.                           *)
LEMMA ListedAreOpen ==
    ASSUME NEW rows \in [Chunks -> Row], NEW t, NEW at, NEW now,
           NEW k \in ChunksOf(TrackItems(rows, t, at, now))
    PROVE  k \in Chunks /\ Open(rows[k])
  <1> DEFINE elig == Eligible(Candidates(rows, t), at)
             current == CurrentItem(rows, elig, now)
             next == NextItem(rows, elig)
  <1>1. elig \in SUBSET Chunks /\ \A j \in elig : Open(rows[j])
    BY DEF Eligible, Candidates
  <1>2. k \in StaleOf(rows, elig, now) \union Range(current) \union Range(next)
    BY TrackItemsAre DEF ItemsAre
  <1>3. current = <<>> \/ \E j \in FreshOf(rows, elig, now) : current = <<j>>
    BY <1>1, CurrentItemIsLast
  <1>4. next = <<>> \/ \E j \in NewOf(rows, elig) : next = <<j>>
    BY <1>1, NextItemIsFirst
  <1>5. /\ FreshOf(rows, elig, now) \subseteq elig
        /\ NewOf(rows, elig) \subseteq elig
        /\ StaleOf(rows, elig, now) \subseteq elig
    BY DEF FreshOf, NewOf, StaleOf
  <1> HIDE DEF elig, current, next
  <1>6. Range(current) \subseteq elig
    BY <1>3, <1>5 DEF Range
  <1>7. Range(next) \subseteq elig
    BY <1>4, <1>5 DEF Range
  <1> QED
    BY <1>1, <1>2, <1>5, <1>6, <1>7

(* An override never hides all of a track: the chunk it names is there, or   *)
(* it is ignored.                                                            *)
LEMMA OverrideLeavesSome ==
    ASSUME NEW rows \in [Chunks -> Row], NEW t, NEW at, Candidates(rows, t) # {}
    PROVE  Eligible(Candidates(rows, t), at) # {}
  <1>1. PICK k \in Candidates(rows, t) : TRUE
    OBVIOUS
  <1>2. at \in Candidates(rows, t) => Ord[at] \in Int
    BY ChunksAssumption DEF Candidates
  <1>3. CASE at \in Candidates(rows, t)
    BY <1>2, <1>3 DEF Eligible
  <1>4. CASE at \notin Candidates(rows, t)
    BY <1>1, <1>4 DEF Eligible
  <1> QED
    BY <1>3, <1>4

(* The answer is made of the rows in hand.                                   *)
LEMMA ReadSettingsKeeps ==
    ASSUME QueueInv, ReadSettings PROVE QueueInv'
  <1> DEFINE answer == BuildQueue(query.rows, position, query.now)
  <1>1. /\ query.pc = "settings"
        /\ query' = [query EXCEPT !.pc = "due", !.rows = <<>>, !.answer = answer]
        /\ UNCHANGED <<chunks, position, clock>>
    BY DEF ReadSettings
  <1>2. /\ query.rows \in [Chunks -> Row]
        /\ \A k \in Chunks : Open(chunks[k]) => Open(query.rows[k])
        /\ \A k \in query.past : ~ Open(query.rows[k])
    BY <1>1 DEF QueueInv, QueryOK
  <1>3. AnswerOf(answer, query.rows, position, query.now)
    BY <1>2, QueueAnswers
  <1> HIDE DEF answer
  <1>4. /\ query'.answer = answer /\ query'.past = query.past
        /\ query'.pc = "due"
        /\ query' \in [pc : {"idle", "chunks", "settings", "due", "answered"},
                      now : Time, past : SUBSET Chunks,
                      rows : {<<>>} \union [Chunks -> Row], answer : Seq(Section)]
    BY <1>1, <1>3 DEF QueueInv, QueryOK, AnswerOf
  <1>5. ASSUME NEW t \in Tracks, Candidates(chunks, t) # {}
        PROVE  \E s \in Range(answer) : s.track = t
    <2>1. Candidates(query.rows, t) # {}
      BY <1>2, <1>5 DEF Candidates
    <2>2. TrackItems(query.rows, t, position[t], query.now) # <<>>
      BY <1>2, <2>1, OverrideLeavesSome, ItemsWhenEligible
    <2>3. PICK i \in DOMAIN answer : answer[i].track = t
      BY <1>3, <2>2 DEF AnswerOf
    <2> QED
      BY <2>3 DEF Range
  <1>6. ASSUME NEW s \in Range(answer), NEW i \in DOMAIN s.items
        PROVE  s.items[i].chunk \notin query.past
    <2>1. PICK n \in DOMAIN answer : s = answer[n]
      BY DEF Range
    <2>2. s.items = TrackItems(query.rows, s.track, position[s.track], query.now)
      BY <1>3, <2>1 DEF AnswerOf
    <2>3. s.items[i].chunk \in ChunksOf(s.items)
      BY DEF ChunksOf
    <2>4. Open(query.rows[s.items[i].chunk])
      BY <1>2, <2>2, <2>3, ListedAreOpen
    <2> QED
      BY <1>2, <2>4
  <1>7. AnswerMissesNoWork'
    BY <1>1, <1>4, <1>5, <1>6 DEF AnswerMissesNoWork, Candidates
  <1>8. QueryOK'
    BY <1>1, <1>4, <1>7 DEF QueryOK, QueueInv
  <1> QED
    BY <1>1, <1>8, QueryStepKeeps

(* The due count leaves the answer as it is.                                 *)
LEMMA ReadDueKeeps ==
    ASSUME QueueInv, ReadDue PROVE QueueInv'
  <1>1. /\ query.pc = "due" /\ query' = [query EXCEPT !.pc = "answered"]
        /\ UNCHANGED <<chunks, position, clock>>
    BY DEF ReadDue
  <1>2. /\ query'.pc = "answered" /\ query'.past = query.past
        /\ query'.answer = query.answer
        /\ query' \in [pc : {"idle", "chunks", "settings", "due", "answered"},
                      now : Time, past : SUBSET Chunks,
                      rows : {<<>>} \union [Chunks -> Row], answer : Seq(Section)]
    BY <1>1 DEF QueueInv, QueryOK
  <1>3. AnswerMissesNoWork'
    BY <1>1, <1>2 DEF AnswerMissesNoWork, QueueInv, QueryOK, Candidates
  <1>4. QueryOK'
    BY <1>1, <1>2, <1>3 DEF QueryOK, QueueInv
  <1> QED
    BY <1>1, <1>4, QueryStepKeeps

(* Time passes.                                                              *)
LEMMA TickKeeps ==
    ASSUME QueueInv, Tick PROVE QueueInv'
  <1>1. clock' \in Time
    BY TimeAssumption DEF Tick, QueueInv, Time
  <1>2. UNCHANGED <<chunks, position, query>>
    BY DEF Tick
  <1> QED
    BY <1>1, <1>2 DEF QueueInv, TablesOK, QueryOK, AnswerMissesNoWork, Candidates

(* Every step keeps the invariant.                                           *)
LEMMA QueueStep == QueueInv /\ [Next]_queueVars => QueueInv'
  <1> SUFFICES ASSUME QueueInv, [Next]_queueVars PROVE QueueInv'
    OBVIOUS
  <1>1. ASSUME NEW t \in Tracks, NEW at \in Overrides, SetPosition(t, at)
        PROVE  QueueInv'
    BY <1>1 DEF SetPosition, QueueInv, TablesOK, QueryOK, AnswerMissesNoWork,
                Candidates
  <1>2. CASE GetQueue
    <2>1. query' = [pc |-> "chunks", now |-> clock,
                    past |-> {k \in Chunks : chunks[k].status = "done"},
                    rows |-> <<>>, answer |-> <<>>]
          /\ UNCHANGED <<chunks, position, clock>>
      BY <1>2 DEF GetQueue, NoQuery
    <2> QED
      BY <2>1, NothingInHand
  <1>3. CASE QueryFails \/ Deliver
    <2>1. query' = [pc |-> "idle", now |-> 0, past |-> {}, rows |-> <<>>,
                    answer |-> <<>>]
          /\ UNCHANGED <<chunks, position, clock>>
      BY <1>3 DEF QueryFails, Deliver, NoQuery
    <2> QED
      BY <2>1, NothingInHand
  <1>4. CASE UNCHANGED queueVars
    BY <1>4 DEF queueVars, QueueInv, TablesOK, QueryOK, AnswerMissesNoWork,
                Candidates
  <1> QED
    BY <1>1, <1>2, <1>3, <1>4, WriteKeeps, ReadChunksKeeps, ReadSettingsKeeps,
       ReadDueKeeps, TickKeeps DEF Next

-----------------------------------------------------------------------------
(* The theorems. *)

(* The tables have their types under writes that commit in any order, and a  *)
(* get_queue between two of its reads has in hand all that is open and       *)
(* nothing that was done when it was asked for (application/queue.rs over    *)
(* session_pg.rs and the settings screen's writes).                          *)
THEOREM QueueInvariant == Spec => []QueueInv
  BY QueueInit, QueueStep, PTL DEF Spec

(* Every row, override and query has its type (TypeOK).                      *)
THEOREM QueueTypes == Spec => []TypeOK
  <1>1. QueueInv => TypeOK
    BY DEF QueueInv, TablesOK, QueryOK, TypeOK, Section, Item
  <1> QED
    BY <1>1, QueueInvariant, PTL

(* Whatever is started, stopped, completed or overridden, no track with work *)
(* left goes without its one section (domain/queue.rs rotation_order and     *)
(* build_queue).                                                             *)
THEOREM NoneStarves == Spec => []NoTrackStarves
  <1>1. QueueInv => NoTrackStarves
    BY TablesStarveNone DEF QueueInv
  <1> QED
    BY <1>1, QueueInvariant, PTL

(* Every section begins with its stale chunks, the most neglected first, and *)
(* lists no chunk twice (domain/queue.rs track_items).                       *)
THEOREM StaleLead == Spec => []StaleComeFirst
  <1>1. QueueInv => StaleComeFirst
    BY TablesStaleFirst DEF QueueInv
  <1> QED
    BY <1>1, QueueInvariant, PTL

(* A started chunk that is hidden gives way to one touched no earlier, and   *)
(* is shown once it is stale (domain/queue.rs max_by_key and is_stale).      *)
THEOREM HidesOnlyOlder == Spec => []HiddenOnlyBehindFresher
  <1>1. QueueInv => HiddenOnlyBehindFresher
    BY TablesHideOnlyOlder DEF QueueInv
  <1> QED
    BY <1>1, QueueInvariant, PTL

(* However its reads and the commands interleave, an answer on its way has a *)
(* section for every track that still has work, and nothing that was done    *)
(* before it was asked for (application/queue.rs build_daily_queue).         *)
THEOREM AnswersKeepUp == Spec => []AnswerMissesNoWork
  <1>1. QueueInv => AnswerMissesNoWork
    BY DEF QueueInv, QueryOK
  <1> QED
    BY <1>1, QueueInvariant, PTL

(* What is next is the first new chunk of the eligible ones.                 *)
LEMMA NextIsFirstNew ==
    ASSUME NEW rows \in [Chunks -> Row], NEW t, NEW at,
           NEW k \in Range(NextItem(rows, Eligible(Candidates(rows, t), at)))
    PROVE  /\ k \in NewOf(rows, Eligible(Candidates(rows, t), at))
           /\ \A j \in NewOf(rows, Eligible(Candidates(rows, t), at)) :
                 Ord[k] <= Ord[j]
  <1> DEFINE elig == Eligible(Candidates(rows, t), at)
             next == NextItem(rows, elig)
  <1>1. elig \in SUBSET Chunks
    BY DEF Eligible, Candidates
  <1>2. next = <<>> \/ \E m \in NewOf(rows, elig) :
            /\ next = <<m>>
            /\ \A j \in NewOf(rows, elig) \ {m} : Earlier(m, j)
    BY <1>1, NextItemIsFirst
  <1>3. k \in Range(next)
    OBVIOUS
  <1> HIDE DEF elig, next
  <1>4. /\ k \in NewOf(rows, elig)
        /\ \A j \in NewOf(rows, elig) \ {k} : Earlier(k, j)
    BY <1>2, <1>3 DEF Range
  <1>5. NewOf(rows, elig) \subseteq Chunks
    BY <1>1 DEF NewOf
  <1>6. \A j \in Chunks : Ord[j] \in Int
    BY ChunksAssumption
  <1>7. \A j \in NewOf(rows, elig) : Ord[k] <= Ord[j]
    BY <1>4, <1>5, <1>6 DEF Earlier
  <1> QED
    BY <1>4, <1>7 DEF elig

(* No command makes a chunk new again.                                       *)
LEMMA NewStayBehind ==
    ASSUME QueueInv, [Next]_queueVars, NEW k \in Chunks,
           chunks'[k].status = "queued"
    PROVE  chunks[k].status = "queued"
  <1>1. CASE \E j \in Chunks : Start(j) \/ Complete(j)
    BY <1>1, WriteKeepsFinished
  <1>2. CASE UNCHANGED chunks
    BY <1>2
  <1>3. \/ UNCHANGED chunks \/ \E j \in Chunks : Start(j) \/ Complete(j)
    BY DEF Next, SetPosition, GetQueue, ReadChunks, ReadSettings, ReadDue,
           QueryFails, Deliver, Tick, queueVars
  <1> QED
    BY <1>1, <1>2, <1>3

(* The next new chunk of a track never falls back while its override stands  *)
(* (domain/queue.rs track_items over the writes of session_pg.rs).           *)
THEOREM NextNeverFallsBack == Spec => NextMovesForward
  <1> DEFINE Stands(t) ==
                LET at == position[t] IN
                position'[t] = at /\ (at \in InTrack(t) /\ Open(chunks[at])
                                        => Open(chunks'[at]))
             Forward(t) == \A j \in NextNew(t), k \in NextNew(t)' : Ord[j] <= Ord[k]
  <1>1. ASSUME QueueInv, QueueInv', [Next]_queueVars, NEW t \in Tracks, Stands(t)
        PROVE  Forward(t)
    <2> SUFFICES ASSUME NEW j \in NextNew(t), NEW k \in NextNew(t)'
                 PROVE  Ord[j] <= Ord[k]
      OBVIOUS
    <2> DEFINE at == position[t]
               old == Eligible(Candidates(chunks, t), at)
               new == Eligible(Candidates(chunks', t), at)
    <2>1. chunks \in [Chunks -> Row] /\ chunks' \in [Chunks -> Row]
      BY <1>1 DEF QueueInv, TablesOK
    <2>2. j \in Range(NextItem(chunks, old))
      BY DEF NextNew
    <2>3. k \in Range(NextItem(chunks', new))
      BY <1>1 DEF NextNew, NextItem, Eligible, Candidates
    <2>4. \A i \in NewOf(chunks, old) : Ord[j] <= Ord[i]
      BY <2>1, <2>2, NextIsFirstNew
    <2>5. k \in NewOf(chunks', new)
      BY <2>1, <2>3, NextIsFirstNew
    <2>6. k \in Chunks /\ Track[k] = t
          /\ (at \in Candidates(chunks', t) => Ord[k] >= Ord[at])
      BY <2>5 DEF NewOf, Eligible, Candidates
    <2>7. chunks[k].status = "queued"
      BY <1>1, <2>5, <2>6, NewStayBehind DEF NewOf
    <2>8. at \in Candidates(chunks, t) => at \in Candidates(chunks', t)
      BY <1>1 DEF Candidates, InTrack
    <2>9. k \in NewOf(chunks, old)
      BY <2>6, <2>7, <2>8 DEF NewOf, Eligible, Candidates, Open
    <2> QED
      BY <2>4, <2>9
  <1>2. QueueInv /\ QueueInv' /\ [Next]_queueVars
        => [\A t \in Tracks : Stands(t) => Forward(t)]_<<chunks, position>>
    BY <1>1
  <1>3. [][\A t \in Tracks : Stands(t) => Forward(t)]_<<chunks, position>>
        => NextMovesForward
    BY PTL DEF NextMovesForward
  <1> HIDE DEF Stands, Forward
  <1> QED
    BY <1>2, <1>3, QueueInvariant, PTL DEF Spec
=============================================================================
