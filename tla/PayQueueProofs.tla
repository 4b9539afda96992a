---------------------------- MODULE PayQueueProofs ----------------------------
(***************************************************************************)
(* Theorems about PayQueue for every set of calls, users and media, every  *)
(* choice of faults and any number of restarts.  First its types.  Then    *)
(* the money: a paid mark always has a spend behind it, the table and the  *)
(* economy agree on what was refunded, and the life of each request's      *)
(* money implements PaidSpend.  Then the playlist, the shadow and its      *)
(* table: a restart finds the paid marks memory had, no write loses one,   *)
(* an error answer leaves nothing behind, and nobody plays for free.       *)
(***************************************************************************)
EXTENDS PayQueue, FiniteFacts, FunctionTheorems, SequenceTheorems

-----------------------------------------------------------------------------
(***************************************************************************)
(* The operators on the playlist.                                          *)
(***************************************************************************)


LEMMA IndexOfType ==
  ASSUME NEW S, NEW list \in Seq(S), NEW u, On(list, u)
  PROVE  IndexOf(list, u) \in 1 .. Len(list)
<1>1. DOMAIN list = 1 .. Len(list)
  OBVIOUS
<1>. QED  BY <1>1 DEF IndexOf, On

LEMMA WithoutType ==
  ASSUME NEW S, NEW list \in Seq(S), NEW u
  PROVE  Without(list, u) \in Seq(S)
<1>1. CASE ~On(list, u)
  BY <1>1 DEF Without
<1>2. CASE On(list, u)
  <2>1. IndexOf(list, u) \in 1 .. Len(list)
    BY <1>2, IndexOfType
  <2>. DEFINE k == IndexOf(list, u)
  <2>2. SubSeq(list, 1, k - 1) \in Seq(S) /\ SubSeq(list, k + 1, Len(list)) \in Seq(S)
    BY <2>1
  <2>. QED  BY <1>2, <2>2 DEF Without, RemoveAt
<1>. QED  BY <1>1, <1>2

Single(list) == \A i, j \in DOMAIN list : list[i] = list[j] => i = j

LEMMA WithoutAt ==
  ASSUME NEW S, NEW list \in Seq(S), NEW u, On(list, u)
  PROVE  /\ IndexOf(list, u) \in 1 .. Len(list) /\ list[IndexOf(list, u)] = u
         /\ Without(list, u) \in Seq(S) /\ Len(Without(list, u)) = Len(list) - 1
         /\ \A j \in 1 .. Len(list) - 1 :
              Without(list, u)[j] = list[IF j < IndexOf(list, u) THEN j ELSE j + 1]
<1>. DEFINE n == IndexOf(list, u)
            front == SubSeq(list, 1, n - 1)
            back == SubSeq(list, n + 1, Len(list))
            rest == Without(list, u)
<1>1. n \in 1 .. Len(list) /\ list[n] = u
  BY IndexOfType DEF IndexOf, On
<1>2. rest = front \o back
  BY DEF Without, RemoveAt
<1>. HIDE DEF n, rest
<1>3. /\ front \in Seq(S) /\ Len(front) = n - 1
      /\ \A j \in 1 .. n - 1 : front[j] = list[j]
  BY <1>1
<1>4. /\ back \in Seq(S) /\ Len(back) = Len(list) - n
      /\ \A j \in 1 .. Len(list) - n : back[j] = list[n + j]
  BY <1>1
<1>. HIDE DEF front, back
<1>5. rest \in Seq(S) /\ Len(rest) = Len(list) - 1
  <2>1. front \o back \in Seq(S) /\ Len(front \o back) = Len(front) + Len(back)
    BY <1>3, <1>4, ConcatProperties
  <2>2. n - 1 + (Len(list) - n) = Len(list) - 1
    BY <1>1
  <2>. QED  BY <1>2, <1>3, <1>4, <2>1, <2>2
<1>6. ASSUME NEW j \in 1 .. Len(list) - 1
      PROVE  rest[j] = list[IF j < n THEN j ELSE j + 1]
  <2>1. CASE j < n
    BY <1>1, <1>2, <1>3, <1>4, <2>1, ConcatProperties
  <2>2. CASE ~(j < n)
    <3>1. j - (n - 1) \in 1 .. Len(back) /\ Len(front) + (j - (n - 1)) = j
      <4>1. Len(front) = n - 1 /\ Len(back) = Len(list) - n
        BY <1>3, <1>4
      <4>2. Len(list) \in Nat /\ n \in Nat /\ 1 <= n /\ n <= Len(list)
        BY <1>1
      <4>3. j \in Nat /\ 1 <= j /\ j <= Len(list) - 1 /\ n <= j
        BY <2>2, <4>2
      <4>4. j - (n - 1) \in 1 .. Len(list) - n /\ n - 1 + (j - (n - 1)) = j
        BY <4>2, <4>3
      <4>. QED  BY <4>1, <4>4
    <3>2. rest[Len(front) + (j - (n - 1))] = back[j - (n - 1)]
      BY <1>2, <1>3, <1>4, <3>1, ConcatProperties
    <3>3. back[j - (n - 1)] = list[n + (j - (n - 1))] /\ n + (j - (n - 1)) = j + 1
      BY <1>1, <1>4, <3>1
    <3>. QED  BY <2>2, <3>1, <3>2, <3>3
  <2>. QED  BY <2>1, <2>2
<1>. QED  BY <1>1, <1>5, <1>6 DEF n, rest

LEMMA WithoutOthers ==
  ASSUME NEW S, NEW list \in Seq(S), NEW u, NEW t, u # t, On(list, t)
  PROVE  On(Without(list, u), t)
<1>0. CASE ~On(list, u)
  BY <1>0 DEF Without
<1>1. CASE On(list, u)
  <2>. DEFINE rest == Without(list, u)
  <2>2. rest \in Seq(S)
    BY WithoutType
  <2>3. PICK i \in 1 .. Len(list) : list[i] = t
    BY <1>1 DEF On
  <2>4. /\ IndexOf(list, u) \in 1 .. Len(list) /\ list[IndexOf(list, u)] = u
        /\ Len(rest) = Len(list) - 1
        /\ \A j \in 1 .. Len(list) - 1 : rest[j] = list[IF j < IndexOf(list, u) THEN j ELSE j + 1]
    BY <1>1, WithoutAt
  <2>. DEFINE n == IndexOf(list, u)
              m == IF i < n THEN i ELSE i - 1
  <2>. HIDE DEF n, rest
  <2>5. i # n
    BY <1>1, <2>3, <2>4 DEF n
  <2>6. m \in 1 .. Len(list) - 1 /\ (IF m < n THEN m ELSE m + 1) = i
    BY <2>3, <2>4, <2>5 DEF n
  <2>. HIDE DEF m
  <2>7. rest[m] = t /\ m \in DOMAIN rest
    BY <2>2, <2>3, <2>4, <2>6 DEF n
  <2>. QED  BY <2>7 DEF On, rest
<1>. QED  BY <1>0, <1>1

LEMMA InsertedAt ==
  ASSUME NEW S, NEW list \in Seq(S), NEW e \in S, NEW k \in 1 .. Len(list) + 1
  PROVE  /\ InsertAt(list, k, e) \in Seq(S) /\ Len(InsertAt(list, k, e)) = Len(list) + 1
         /\ \A j \in 1 .. Len(list) + 1 :
              InsertAt(list, k, e)[j] = IF j < k THEN list[j] ELSE IF j = k THEN e ELSE list[j - 1]
<1>. DEFINE front == SubSeq(list, 1, k - 1)
            back == SubSeq(list, k, Len(list))
            mid == <<e>>
            start == front \o mid
            whole == start \o back
<1>1. InsertAt(list, k, e) = whole
  BY DEF InsertAt
<1>2. front \in Seq(S) /\ Len(front) = k - 1 /\ \A j \in 1 .. k - 1 : front[j] = list[j]
  <2>1. \A j \in 1 .. k - 1 : list[j] \in S
    BY ElementOfSeq
  <2>. QED  BY <2>1, SubSeqProperties
<1>3. back \in Seq(S) /\ Len(back) = Len(list) - k + 1
      /\ \A j \in 1 .. Len(list) - k + 1 : back[j] = list[k + j - 1]
  <2>1. \A j \in k .. Len(list) : list[j] \in S
    BY ElementOfSeq
  <2>. QED  BY <2>1, SubSeqProperties
<1>4. mid \in Seq(S) /\ Len(mid) = 1 /\ mid[1] = e
  OBVIOUS
<1>. HIDE DEF front, back, mid
<1>0. Len(list) \in Nat /\ k \in Nat
  BY LenProperties
<1>5. start \in Seq(S) /\ Len(start) = k
  <2>1. front \o mid \in Seq(S) /\ Len(front \o mid) = Len(front) + Len(mid)
    BY <1>2, <1>4, ConcatProperties
  <2>. QED  BY <1>0, <1>2, <1>4, <2>1
<1>6. \A j \in 1 .. k - 1 : start[j] = list[j]
  BY <1>2, <1>4, ConcatProperties
<1>7. start[k] = e
  <2>1. k \in 1 .. Len(front) + Len(mid) /\ ~(k <= Len(front)) /\ k - Len(front) = 1
    BY <1>0, <1>2, <1>4
  <2>2. start[k] = mid[k - Len(front)]
    BY <1>2, <1>4, <2>1, ConcatProperties
  <2>. QED  BY <1>4, <2>1, <2>2
<1>. HIDE DEF start
<1>8. whole \in Seq(S) /\ Len(whole) = Len(list) + 1
  <2>1. start \o back \in Seq(S) /\ Len(start \o back) = Len(start) + Len(back)
    BY <1>3, <1>5, ConcatProperties
  <2>2. Len(start) + Len(back) = Len(list) + 1
    BY <1>0, <1>3, <1>5
  <2>. QED  BY <2>1, <2>2
<1>9. ASSUME NEW j \in 1 .. Len(list) + 1
      PROVE  whole[j] = IF j < k THEN list[j] ELSE IF j = k THEN e ELSE list[j - 1]
  <2>1. CASE j <= k
    BY <1>3, <1>5, <1>6, <1>7, <2>1, ConcatProperties
  <2>2. CASE j > k
    <3>1. j - k \in 1 .. Len(back) /\ Len(start) + (j - k) = j
      BY <1>3, <1>5, <2>2
    <3>2. whole[Len(start) + (j - k)] = back[j - k]
      BY <1>3, <1>5, <3>1, ConcatProperties
    <3>3. back[j - k] = list[k + (j - k) - 1] /\ k + (j - k) - 1 = j - 1
      BY <1>3, <3>1
    <3>. QED  BY <1>0, <2>2, <3>1, <3>2, <3>3
  <2>3. j <= k \/ j > k
    BY <1>0
  <2>. HIDE DEF whole
  <2>. QED  BY <2>1, <2>2, <2>3
<1>. QED  BY <1>1, <1>8, <1>9

LEMMA MovedAfterType ==
  ASSUME NEW S, NEW list \in Seq(S), NEW u, NEW t
  PROVE  MovedAfter(list, u, t) \in Seq(S)
<1>1. CASE ~(u # t /\ On(list, u) /\ On(list, t))
  BY <1>1 DEF MovedAfter
<1>2. CASE u # t /\ On(list, u) /\ On(list, t)
  <2>. DEFINE rest == Without(list, u)
  <2>1. rest \in Seq(S) /\ On(rest, t)
    BY <1>2, WithoutType, WithoutOthers
  <2>2. IndexOf(rest, t) + 1 \in 1 .. Len(rest) + 1 /\ u \in S
    BY <1>2, <2>1, IndexOfType DEF On
  <2>. HIDE DEF rest
  <2>3. InsertAt(rest, IndexOf(rest, t) + 1, u) \in Seq(S)
    BY <2>1, <2>2, InsertedAt
  <2>. QED  BY <1>2, <2>3 DEF MovedAfter, rest
<1>. QED  BY <1>1, <1>2

LEMMA WithoutKeeps ==
  ASSUME NEW S, NEW list \in Seq(S), Single(list), NEW u
  PROVE  /\ Single(Without(list, u)) /\ ~On(Without(list, u), u)
         /\ \A v : On(Without(list, u), v) => On(list, v)
<1>1. CASE ~On(list, u)
  BY <1>1 DEF Without
<1>2. CASE On(list, u)
  <2>. DEFINE n == IndexOf(list, u)
              rest == Without(list, u)
              Old(j) == IF j < n THEN j ELSE j + 1
  <2>1. n \in 1 .. Len(list) /\ list[n] = u /\ DOMAIN list = 1 .. Len(list)
    BY <1>2, WithoutAt
  <2>2. DOMAIN rest = 1 .. Len(list) - 1
    BY <1>2, WithoutAt
  <2>3. \A j \in 1 .. Len(list) - 1 : rest[j] = list[Old(j)]
    BY <1>2, WithoutAt
  <2>. HIDE DEF n, rest
  <2>4. \A j \in 1 .. Len(list) - 1 : Old(j) \in 1 .. Len(list) /\ Old(j) # n
    BY <2>1
  <2>5. \A i, j \in 1 .. Len(list) - 1 : Old(i) = Old(j) => i = j
    BY <2>1
  <2>. HIDE DEF Old
  <2>6. Single(rest)
    BY <2>1, <2>2, <2>3, <2>4, <2>5 DEF Single
  <2>7. ~On(rest, u)
    BY <2>1, <2>2, <2>3, <2>4 DEF On, Single
  <2>8. \A v : On(rest, v) => On(list, v)
    BY <2>1, <2>2, <2>3, <2>4 DEF On
  <2>. QED  BY <2>6, <2>7, <2>8 DEF rest
<1>. QED  BY <1>1, <1>2

LEMMA MovedAfterKeeps ==
  ASSUME NEW S, NEW list \in Seq(S), Single(list), NEW u, NEW t
  PROVE  /\ Single(MovedAfter(list, u, t))
         /\ \A v : On(MovedAfter(list, u, t), v) => On(list, v)
<1>1. CASE ~(u # t /\ On(list, u) /\ On(list, t))
  BY <1>1 DEF MovedAfter
<1>2. CASE u # t /\ On(list, u) /\ On(list, t)
  <2>. DEFINE rest == Without(list, u)
              k == IndexOf(rest, t) + 1
              new == InsertAt(rest, k, u)
  <2>1. MovedAfter(list, u, t) = new
    BY <1>2 DEF MovedAfter
  <2>2. rest \in Seq(S) /\ Single(rest) /\ ~On(rest, u) /\ (\A v : On(rest, v) => On(list, v))
    BY WithoutKeeps, WithoutType
  <2>3. On(rest, t)
    BY <1>2, WithoutOthers
  <2>4. k \in 1 .. Len(rest) + 1 /\ u \in S
    BY <1>2, <2>2, <2>3, IndexOfType DEF On
  <2>. HIDE DEF rest, k
  <2>5. new \in Seq(S) /\ Len(new) = Len(rest) + 1
    BY <2>2, <2>4, InsertedAt
  <2>6. \A j \in 1 .. Len(rest) + 1 :
          new[j] = IF j < k THEN rest[j] ELSE IF j = k THEN u ELSE rest[j - 1]
    BY <2>2, <2>4, InsertedAt
  <2>. HIDE DEF new
  <2>7. DOMAIN new = 1 .. Len(rest) + 1 /\ DOMAIN rest = 1 .. Len(rest) /\ Len(rest) \in Nat
    BY <2>2, <2>5
  <2>8. \A j \in DOMAIN rest : rest[j] # u
    BY <2>2 DEF On
  <2>9. Single(new)
    <3>. SUFFICES ASSUME NEW i \in DOMAIN new, NEW j \in DOMAIN new, new[i] = new[j], i < j
                  PROVE  FALSE
      BY <2>7 DEF Single
    <3>1. CASE i = k
      BY <2>4, <2>6, <2>7, <2>8, <3>1
    <3>2. CASE j = k
      BY <2>4, <2>6, <2>7, <2>8, <3>2
    <3>3. CASE i # k /\ j # k
      <4>. DEFINE a == IF i < k THEN i ELSE i - 1
                  b == IF j < k THEN j ELSE j - 1
      <4>1. a \in DOMAIN rest /\ b \in DOMAIN rest /\ a # b
        BY <2>4, <2>7, <3>3
      <4>2. new[i] = rest[a] /\ new[j] = rest[b]
        BY <2>4, <2>6, <2>7, <3>3
      <4>. QED  BY <2>2, <4>1, <4>2 DEF Single
    <3>. QED  BY <3>1, <3>2, <3>3
  <2>10. ASSUME NEW v, On(new, v) PROVE On(list, v)
    <3>1. PICK j \in DOMAIN new : new[j] = v
      BY <2>10 DEF On
    <3>2. v = u \/ On(rest, v)
      <4>1. CASE j < k
        BY <2>4, <2>6, <2>7, <3>1, <4>1 DEF On
      <4>2. CASE j > k
        <5>1. j - 1 \in DOMAIN rest /\ rest[j - 1] = v
          BY <2>4, <2>6, <2>7, <3>1, <4>2
        <5>. QED  BY <5>1 DEF On
      <4>3. CASE j = k
        BY <2>4, <2>6, <2>7, <3>1, <4>3
      <4>. QED  BY <2>4, <2>7, <3>1, <4>1, <4>2, <4>3
    <3>. QED  BY <1>2, <2>2, <3>2
  <2>. QED  BY <2>1, <2>9, <2>10
<1>. QED  BY <1>1, <1>2

LEMMA FollowingType ==
  ASSUME NEW S, NEW list \in Seq(S), NEW u, On(list, u)
  PROVE  Following(list, u) \in S
<1>1. IndexOf(list, u) \in 1 .. Len(list)
  BY IndexOfType
<1>2. (IndexOf(list, u) % Len(list)) + 1 \in 1 .. Len(list)
  BY <1>1
<1>. QED  BY <1>2 DEF Following

-----------------------------------------------------------------------------
(***************************************************************************)
(* The operators on the shadow list.                                       *)
(***************************************************************************)
LEMMA FirstType ==
  ASSUME NEW list, list \subseteq Entry, list # {}
  PROVE  First(list) \in list
<1>. DEFINE ats == {e.at : e \in list}
<1>1. ats \subseteq Nat /\ ats # {}
  BY DEF Entry
<1>2. \E x \in ats : \A y \in ats : x <= y
  BY <1>1, NatMin
<1>3. \E e \in list : \A f \in list : e.at <= f.at
  BY <1>2
<1>. QED  BY <1>3 DEF First

\* A finite list has a last entry: the one with the fewest entries behind it.
LEMMA LastExists ==
  ASSUME NEW list, list \subseteq Entry, list # {}, IsFiniteSet(list)
  PROVE  \E e \in list : \A f \in list : f.at <= e.at
<1>. DEFINE Behind(e) == {f \in list : f.at > e.at}
            sizes == {Cardinality(Behind(e)) : e \in list}
<1>1. \A e \in list : IsFiniteSet(Behind(e)) /\ Cardinality(Behind(e)) \in Nat
  BY FS_Subset, FS_CardinalityType
<1>2. sizes \subseteq Nat /\ sizes # {}
  BY <1>1
<1>3. PICK k \in sizes : \A j \in sizes : k <= j
  BY <1>2, NatMin
<1>4. PICK e \in list : k = Cardinality(Behind(e))
  BY <1>3
<1>5. ASSUME NEW f \in list, ~(f.at <= e.at)
      PROVE  FALSE
  <2>1. f.at \in Nat /\ e.at \in Nat /\ f.at > e.at
    BY <1>5 DEF Entry
  <2>2. Behind(f) \subseteq Behind(e) /\ f \in Behind(e) /\ f \notin Behind(f)
    BY <2>1 DEF Entry
  <2>3. /\ Cardinality(Behind(f)) <= Cardinality(Behind(e))
        /\ Cardinality(Behind(f)) # Cardinality(Behind(e))
    BY <1>1, <2>2, FS_Subset
  <2>4. Cardinality(Behind(e)) <= Cardinality(Behind(f))
    BY <1>3, <1>4
  <2>5. Cardinality(Behind(f)) \in Nat /\ Cardinality(Behind(e)) \in Nat
    BY <1>1
  <2>. HIDE DEF Behind
  <2>. QED  BY <2>3, <2>4, <2>5
<1>. QED  BY <1>5

LEMMA LastPayUidType ==
  ASSUME NEW list, list \subseteq Entry, IsFiniteSet(list)
  PROVE  LastPayUid(list) \in Uid \cup {NoUid}
<1>. DEFINE paid == {e \in list : Paid(e)}
<1>1. CASE paid = {}
  BY <1>1 DEF LastPayUid
<1>2. CASE paid # {}
  <2>1. paid \subseteq Entry /\ IsFiniteSet(paid)
    BY FS_Subset
  <2>2. \E e \in paid : \A f \in paid : f.at <= e.at
    BY <1>2, <2>1, LastExists
  <2>3. (CHOOSE e \in paid : \A f \in paid : f.at <= e.at) \in Entry
    BY <2>1, <2>2
  <2>4. (CHOOSE e \in paid : \A f \in paid : f.at <= e.at).uid \in Uid
    BY <2>3 DEF Entry
  <2>. QED  BY <1>2, <2>4 DEF LastPayUid
<1>. QED  BY <1>1, <1>2

LEMMA UidOfMediaType ==
  ASSUME NEW list, list \subseteq Entry, NEW f, NEW m
  PROVE  UidOfMedia(list, f, m) \in Uid \cup {NoUid}
<1>. DEFINE hits == {e \in list : f[e.uid] = m}
<1>1. hits \subseteq Entry
  OBVIOUS
<1>2. hits # {} => First(hits) \in Entry
  BY <1>1, FirstType
<1>3. hits # {} => First(hits).uid \in Uid
  BY <1>2 DEF Entry
<1>. QED  BY <1>3 DEF UidOfMedia

LEMMA IndexAfterType ==
  ASSUME NEW list, list \subseteq Entry, IsFiniteSet(list), NEW u
  PROVE  IndexAfter(list, u) \in Nat
<1>. DEFINE hits == {e \in list : e.uid = u}
<1>1. hits \subseteq Entry
  OBVIOUS
<1>2. hits # {} => First(hits) \in Entry
  BY <1>1, FirstType
<1>3. hits # {} => First(hits).at \in Nat
  BY <1>2 DEF Entry
<1>4. Cardinality(list) \in Nat
  BY FS_CardinalityType
<1>. QED  BY <1>3, <1>4 DEF IndexAfter

LEMMA LocalEntryType ==
  ASSUME NEW list, list \subseteq Entry, IsFiniteSet(list), NEW u, Known(list, u)
  PROVE  LocalEntry(list, u) \in list /\ LocalEntry(list, u).uid = u
<1>. DEFINE same == {e \in list : e.uid = u}
<1>1. same \subseteq Entry /\ IsFiniteSet(same) /\ same # {}
  BY FS_Subset DEF Known
<1>2. \E e \in same : \A f \in same : f.at <= e.at
  BY <1>1, LastExists
<1>3. \E e \in list : e.uid = u /\ \A f \in list : f.uid = u => f.at <= e.at
  BY <1>2
<1>. QED  BY <1>3 DEF LocalEntry

LEMMA PlacedType ==
  ASSUME NEW e \in Entry, NEW i \in Nat
  PROVE  Placed(e, i) \in Entry /\ Placed(e, i).uid = e.uid /\ Placed(e, i).by = e.by
BY DEF Placed, Entry

LEMMA ShadowInsertType ==
  ASSUME NEW list, list \subseteq Entry, IsFiniteSet(list), NEW u \in Uid,
         NEW who \in Users \cup {NoUser}, NEW i \in Nat
  PROVE  /\ ShadowInsert(list, u, who, i) \subseteq Entry
         /\ IsFiniteSet(ShadowInsert(list, u, who, i))
<1>. DEFINE f == [e \in list |-> Placed(e, IF e.at >= i THEN e.at + 1 ELSE e.at)]
            old == {f[e] : e \in list}
            new == [uid |-> u, at |-> i, pos |-> i, by |-> who]
<1>1. ShadowInsert(list, u, who, i) = old \cup {new}
  BY DEF ShadowInsert
<1>2. \A e \in list : f[e] \in Entry
  <2>1. \A e \in list : (IF e.at >= i THEN e.at + 1 ELSE e.at) \in Nat
    BY DEF Entry
  <2>. QED  BY <2>1, PlacedType
<1>3. new \in Entry
  BY DEF Entry
<1>4. f = [e \in list |-> f[e]]
  OBVIOUS
<1>. HIDE DEF f, new
<1>5. IsFiniteSet(old)
  BY <1>4, FiniteImage
<1>. QED  BY <1>1, <1>2, <1>3, <1>5, FS_AddElement

LEMMA ShadowRemoveType ==
  ASSUME NEW list, list \subseteq Entry, IsFiniteSet(list), NEW u
  PROVE  ShadowRemove(list, u) \subseteq Entry /\ IsFiniteSet(ShadowRemove(list, u))
<1>. DEFINE kept == {e \in list : e.uid # u}
            f == [e \in kept |-> Placed(e, Cardinality({g \in kept : g.at < e.at}))]
<1>1. kept \subseteq Entry /\ IsFiniteSet(kept)
  BY FS_Subset
<1>2. ShadowRemove(list, u) = {f[e] : e \in kept}
  BY DEF ShadowRemove
<1>3. \A e \in kept : Cardinality({g \in kept : g.at < e.at}) \in Nat
  BY <1>1, FS_Subset, FS_CardinalityType
<1>4. \A e \in kept : f[e] \in Entry
  BY <1>1, <1>3, PlacedType
<1>. HIDE DEF kept
<1>5. f = [e \in kept |-> f[e]]
  OBVIOUS
<1>. HIDE DEF f
<1>6. IsFiniteSet({f[e] : e \in kept})
  BY <1>1, <1>5, FiniteImage
<1>. QED  BY <1>2, <1>4, <1>6

LEMMA ReconciledType ==
  ASSUME NEW list, list \subseteq Entry, IsFiniteSet(list), NEW polled \in Seq(Uid)
  PROVE  Reconciled(list, polled) \subseteq Entry /\ IsFiniteSet(Reconciled(list, polled))
<1>. DEFINE By(i) == IF Known(list, polled[i]) THEN LocalEntry(list, polled[i]).by ELSE NoUser
            f == [i \in DOMAIN polled |->
                    [uid |-> polled[i], at |-> i - 1, pos |-> i - 1, by |-> By(i)]]
<1>1. Reconciled(list, polled) = {f[i] : i \in DOMAIN polled}
  BY DEF Reconciled
<1>2. DOMAIN polled = 1 .. Len(polled) /\ Len(polled) \in Nat
  OBVIOUS
<1>3. \A i \in DOMAIN polled : By(i) \in Users \cup {NoUser}
  BY LocalEntryType DEF Entry
<1>4. \A i \in DOMAIN polled : f[i] \in Entry
  BY <1>2, <1>3 DEF Entry
<1>5. f = [i \in DOMAIN polled |-> f[i]] /\ IsFiniteSet(DOMAIN polled)
  BY <1>2, FS_Interval
<1>. HIDE DEF f
<1>6. IsFiniteSet({f[i] : i \in DOMAIN polled})
  BY <1>5, FiniteImage
<1>. QED  BY <1>1, <1>4, <1>6

LEMMA LoadedType ==
  ASSUME NEW table, table \subseteq Record, IsFiniteSet(table)
  PROVE  Loaded(table) \subseteq Entry /\ IsFiniteSet(Loaded(table))
<1>. DEFINE Ahead(r) == {q \in table : q.pos < r.pos \/ (q.pos = r.pos /\ q.uid < r.uid)}
            f == [r \in table |-> [uid |-> r.uid, pos |-> r.pos, by |-> r.by,
                                   at |-> Cardinality(Ahead(r))]]
<1>1. Loaded(table) = {f[r] : r \in table}
  BY DEF Loaded
<1>2. \A r \in table : Cardinality(Ahead(r)) \in Nat
  BY FS_Subset, FS_CardinalityType
<1>3. \A r \in table : f[r] \in Entry
  BY <1>2 DEF Entry, Record
<1>4. f = [r \in table |-> f[r]]
  OBVIOUS
<1>. HIDE DEF f
<1>5. IsFiniteSet({f[r] : r \in table})
  BY <1>4, FiniteImage
<1>. QED  BY <1>1, <1>3, <1>5

LEMMA ReconciledRowsType ==
  ASSUME NEW table, table \subseteq Record, IsFiniteSet(table),
         NEW list, NEW polled \in Seq(Uid)
  PROVE  /\ ReconciledRows(table, list, polled) \subseteq Record
         /\ IsFiniteSet(ReconciledRows(table, list, polled))
<1>. DEFINE fresh == {i \in DOMAIN polled : ~Known(list, polled[i])}
            moved == {i \in DOMAIN polled \ fresh : LocalEntry(list, polled[i]).pos # i - 1}
            At(r) == {i \in moved : polled[i] = r.uid}
            kept == {r \in table : \A i \in fresh : polled[i] # r.uid}
            f == [r \in kept |-> IF At(r) = {} THEN r
                                 ELSE [r EXCEPT !.pos = (CHOOSE i \in At(r) : TRUE) - 1]]
            g == [i \in fresh |-> [uid |-> polled[i], pos |-> i - 1, by |-> NoUser]]
<1>1. ReconciledRows(table, list, polled) = {f[r] : r \in kept} \cup {g[i] : i \in fresh}
  BY DEF ReconciledRows
<1>2. DOMAIN polled = 1 .. Len(polled) /\ Len(polled) \in Nat
  OBVIOUS
<1>3. \A r \in kept : f[r] \in Record
  <2>. SUFFICES ASSUME NEW r \in kept, At(r) # {}
                PROVE  [r EXCEPT !.pos = (CHOOSE i \in At(r) : TRUE) - 1] \in Record
    OBVIOUS
  <2>1. (CHOOSE i \in At(r) : TRUE) \in 1 .. Len(polled)
    BY <1>2
  <2>2. (CHOOSE i \in At(r) : TRUE) - 1 \in Nat
    BY <2>1
  <2>. HIDE DEF At
  <2>. QED  BY <2>2 DEF Record
<1>4. \A i \in fresh : g[i] \in Record
  BY <1>2 DEF Record
<1>5. IsFiniteSet(kept)
  BY FS_Subset
<1>6. IsFiniteSet(fresh)
  <2>1. fresh \subseteq 1 .. Len(polled) /\ IsFiniteSet(1 .. Len(polled))
    BY <1>2, FS_Interval
  <2>. QED  BY <2>1, FS_Subset
<1>. HIDE DEF kept, fresh
<1>7. f = [r \in kept |-> f[r]] /\ g = [i \in fresh |-> g[i]]
  OBVIOUS
<1>. HIDE DEF f, g
<1>8. IsFiniteSet({f[r] : r \in kept}) /\ IsFiniteSet({g[i] : i \in fresh})
  BY <1>5, <1>6, <1>7, FiniteImage
<1>. QED  BY <1>1, <1>3, <1>4, <1>8, FS_Union

-----------------------------------------------------------------------------
(***************************************************************************)
(* Type correctness.                                                       *)
(***************************************************************************)
USE PayQueueAssumption

LEMMA NowPlayingType ==
  ASSUME TypeOK
  PROVE  NowPlayingUids \subseteq Uid \cup {NoUid}
BY UidOfMediaType DEF TypeOK, ShadowType, NowPlayingUids

LEMMA AnchorsType ==
  ASSUME TypeOK, NEW p \in Procs
  PROVE  Anchors(p) \subseteq Uid \cup {NoUid}
<1>1. LastPayUid(items) \in Uid \cup {NoUid}
  BY LastPayUidType DEF TypeOK, ShadowType
<1>. QED  BY <1>1, NowPlayingType DEF Anchors

LEMMA AppendedType ==
  ASSUME TypeOK, NEW p \in Procs, Appended(p)
  PROVE  CytubeType'
<1>. USE DEF TypeOK, CytubeType, Appended
<1>1. nextUid' \in Uid /\ nextUid \in 1 .. nextUid' - 1 /\ 1 .. nextUid - 1 \subseteq 1 .. nextUid' - 1
  BY DEF Uid
<1>2. playlist \in Seq(1 .. nextUid' - 1)
  BY <1>1, SeqMonotonic
<1>3. Append(playlist, nextUid) \in Seq(1 .. nextUid' - 1)
  BY <1>1, <1>2
<1>4. media' \in [1 .. nextUid' - 1 -> Media]
  BY DEF Uid
<1>. QED  BY <1>1, <1>3, <1>4

LEMMA DeletedType ==
  ASSUME TypeOK, NEW u, Deleted(u)
  PROVE  CytubeType'
<1>1. Without(playlist, u) \in Seq(1 .. nextUid - 1)
  BY WithoutType DEF TypeOK, CytubeType
<1>2. On(playlist, u) => Following(playlist, u) \in 1 .. nextUid - 1
  BY FollowingType DEF TypeOK, CytubeType
<1>. QED  BY <1>1, <1>2 DEF TypeOK, CytubeType, Deleted

\* A call moves to the next label, and keeps what that label requires.
LEMMA GotoType ==
  ASSUME TypeOK, NEW p \in Procs, NEW label \in PC, Stay(p, label) \/ End(p, label),
         \A q \in Procs \ {p} : uid'[q] = uid[q],
         label \in HasUid => uid'[p] # NoUid, label \in {"spend", "save", "undo"} => p \in Payers
  PROVE  ControlType'
<1>1. pc' = [pc EXCEPT ![p] = label] /\ queueLock' \in Procs \cup {NoProc}
  BY DEF TypeOK, ControlType, Stay, End, Goto
<1>2. pc \in [Procs -> PC]
  BY DEF TypeOK, ControlType
<1>3. pc' \in [Procs -> PC] /\ pc'[p] = label /\ \A q \in Procs \ {p} : pc'[q] = pc[q]
  BY <1>1, <1>2
<1>. QED  BY <1>1, <1>3 DEF TypeOK, ControlType

LEMMA TakeNextType ==
  ASSUME TypeOK, NEW p \in Procs, NEW list \in SUBSET [uid : Uid, pos : Nat],
         TakeNext(p, list)
  PROVE  /\ uid' \in [Procs -> Uid \cup {NoUid}]
         /\ todo' \in [Procs -> SUBSET [uid : Uid, pos : Nat]]
         /\ ControlType'
<1>1. CASE list = {} /\ Stay(p, AfterLast(p)) /\ UNCHANGED <<uid, todo>>
  <2>1. AfterLast(p) \in PC /\ AfterLast(p) \notin HasUid \cup {"spend", "save", "undo"}
    BY DEF AfterLast, PC, HasUid, Ended
  <2>. QED  BY <1>1, <2>1, GotoType DEF TypeOK, LocalsType
<1>2. ASSUME NEW e \in list,
             uid' = [uid EXCEPT ![p] = e.uid], todo' = [todo EXCEPT ![p] = list \ {e}],
             Stay(p, "lookup")
      PROVE  /\ uid' \in [Procs -> Uid \cup {NoUid}]
             /\ todo' \in [Procs -> SUBSET [uid : Uid, pos : Nat]]
             /\ ControlType'
  <2>1. /\ uid' \in [Procs -> Uid \cup {NoUid}] /\ todo' \in [Procs -> SUBSET [uid : Uid, pos : Nat]]
        /\ uid'[p] # NoUid /\ \A q \in Procs \ {p} : uid'[q] = uid[q]
    BY <1>2 DEF TypeOK, LocalsType
  <2>2. "lookup" \in PC /\ "lookup" \notin {"spend", "save", "undo"}
    BY DEF PC
  <2>. QED  BY <1>2, <2>1, <2>2, GotoType
<1>. QED  BY <1>1, <1>2 DEF TakeNext

LEMMA InitType == Init => TypeOK
<1>. SUFFICES ASSUME Init PROVE TypeOK
  OBVIOUS
<1>. DEFINE n == Len(InitMedia)
            f == [i \in 1 .. n |-> [uid |-> i, pos |-> i - 1, by |-> NoUser]]
<1>1. n \in Nat /\ 1 .. n \subseteq Uid
  BY DEF Uid
<1>2. rows = {f[i] : i \in 1 .. n}
  BY DEF Init
<1>3. rows \subseteq Record
  BY <1>1, <1>2 DEF Record
<1>4. IsFiniteSet(rows)
  <2>. DEFINE D == 1 .. n
  <2>0. IsFiniteSet(D)
    BY <1>1, FS_Interval
  <2>1. f = [i \in D |-> f[i]] /\ IsFiniteSet(D) /\ rows = {f[i] : i \in D}
    BY <1>2, <2>0
  <2>. HIDE DEF f, D
  <2>2. IsFiniteSet({f[i] : i \in D})
    BY <2>1, FiniteImage
  <2>. QED  BY <2>1, <2>2
<1>5. items \subseteq Entry /\ IsFiniteSet(items)
  BY <1>3, <1>4, LoadedType DEF Init
<1>6. CytubeType
  BY <1>1 DEF Init, CytubeType, Uid
<1>7. TablesType
  BY <1>3, <1>4 DEF Init, TablesType
<1>8. ShadowType
  BY <1>5 DEF Init, ShadowType
<1>9. LocalsType
  BY DEF Init, LocalsType
<1>. QED  BY <1>6, <1>7, <1>8, <1>9 DEF Init, TypeOK, ControlType, PC, HasUid

\* The labels of the insert handlers.
LEMMA InsertLabels ==
  /\ {"list", "spend", "anchor", "add", "move", "save", "insert", "row", "undo", "unadd"}
       \subseteq PC
  /\ {"done", "failed", "raised"} \subseteq PC
  /\ {"list", "spend", "anchor", "add", "undo", "done", "failed", "raised"} \cap HasUid = {}
  /\ {"move", "save", "insert", "row", "unadd"} \subseteq HasUid
BY DEF PC, HasUid, Ended

\* The steps of an insert.
LEMMA InsertStepType ==
  ASSUME TypeOK, NEW p \in Procs, InsertStep(p)
  PROVE  TypeOK'
<1>. DEFINE Unmoved == \A q \in Procs \ {p} : uid'[q] = uid[q]
<1>1. CASE Start(p)
  <2>1. PICK label \in {"spend", "anchor", "list"} :
          Goto(p, label) /\ (label = "spend" => p \in Payers)
    BY <1>1 DEF Start, Payers
  <2>2. ControlType'
    <3>1. pc' = [pc EXCEPT ![p] = label] /\ pc \in [Procs -> PC] /\ label \in PC
      BY <2>1, InsertLabels DEF Goto, TypeOK, ControlType
    <3>2. queueLock' \in Procs \cup {NoProc} /\ UNCHANGED uid
      BY <1>1 DEF Start, locals, TypeOK, ControlType
    <3>. QED  BY <2>1, <3>1, <3>2, InsertLabels DEF TypeOK, ControlType
  <2>. QED  BY <1>1, <2>2 DEF Start, TypeOK, CytubeType, TablesType, ShadowType, LocalsType,
                             cytube, tables, shadow, locals, poller
<1>2. CASE Spend(p)
  <2>1. UNCHANGED uid
    BY <1>2 DEF Spend, locals
  <2>2. Stay(p, "anchor") \/ End(p, "failed") \/ End(p, "raised")
    BY <1>2 DEF Spend
  <2>3. ControlType'
    BY <2>1, <2>2, InsertLabels, GotoType
  <2>4. ledger' \in [Procs -> {"none", "charged", "refunded"}]
    BY <1>2 DEF Spend, TypeOK
  <2>. QED  BY <1>2, <2>3, <2>4 DEF Spend, TypeOK, CytubeType, TablesType, ShadowType,
                             LocalsType, cytube, tables, shadow, locals, poller
<1>3. CASE Anchor(p)
  <2>1. PICK t \in Uid \cup {NoUid} :
          /\ tgt' = [tgt EXCEPT ![p] = t] /\ uid' = [uid EXCEPT ![p] = NoUid]
          /\ Stay(p, "add") \/ (Stay(p, "undo") /\ p \in Payers) \/ End(p, "failed")
    BY <1>3, AnchorsType DEF Anchor, Payers
  <2>2. /\ tgt' \in [Procs -> Uid \cup {NoUid}] /\ uid' \in [Procs -> Uid \cup {NoUid}]
        /\ Unmoved
    BY <2>1 DEF TypeOK, LocalsType
  <2>3. ControlType'
    BY <2>1, <2>2, InsertLabels, GotoType
  <2>. QED  BY <1>3, <2>2, <2>3 DEF Anchor, TypeOK, CytubeType, TablesType, ShadowType,
                             LocalsType, cytube, tables, shadow, poller
<1>4. CASE Add(p)
  <2>1. CytubeType'
    BY <1>4, AppendedType DEF Add, TypeOK, CytubeType, cytube
  <2>2. uid' \in [Procs -> Uid \cup {NoUid}] /\ Unmoved
    <3>1. nextUid \in Uid /\ uid \in [Procs -> Uid \cup {NoUid}]
      BY DEF TypeOK, CytubeType, LocalsType
    <3>2. uid' = [uid EXCEPT ![p] = nextUid] \/ UNCHANGED uid
      BY <1>4 DEF Add
    <3>. QED  BY <3>1, <3>2
  <2>3. \/ Stay(p, "move") /\ uid'[p] # NoUid
        \/ (Stay(p, "undo") /\ p \in Payers) \/ End(p, "failed") \/ End(p, "raised")
    BY <1>4 DEF Add, TypeOK, CytubeType, LocalsType, Payers
  <2>4. ControlType'
    BY <2>2, <2>3, InsertLabels, GotoType
  <2>. QED  BY <1>4, <2>1, <2>2, <2>4 DEF Add, TypeOK, TablesType, ShadowType, LocalsType,
                             tables, shadow, poller
<1>5. CASE Move(p)
  <2>1. MovedAfter(playlist, uid[p], tgt[p]) \in Seq(1 .. nextUid - 1)
    BY MovedAfterType DEF TypeOK, CytubeType
  <2>2. CytubeType'
    BY <1>5, <2>1 DEF Move, TypeOK, CytubeType
  <2>3. UNCHANGED uid /\ uid[p] # NoUid
    BY <1>5, InsertLabels DEF Move, locals, TypeOK, ControlType
  <2>4. \/ Stay(p, "save") /\ p \in Payers
        \/ Stay(p, "insert") \/ (Stay(p, "undo") /\ p \in Payers) \/ Stay(p, "unadd") \/ End(p, "raised")
    BY <1>5 DEF Move, Payers
  <2>5. ControlType'
    BY <2>3, <2>4, InsertLabels, GotoType
  <2>. QED  BY <1>5, <2>2, <2>5 DEF Move, TypeOK, TablesType, ShadowType, LocalsType, tables,
                             shadow, locals, poller
<1>6. CASE Save(p)
  <2>1. uid[p] \in Uid /\ p \in Payers /\ UNCHANGED uid /\ Stay(p, "insert")
    BY <1>6, InsertLabels DEF Save, TypeOK, ControlType, LocalsType, locals
  <2>2. [req |-> p, uid |-> uid[p], refunded |-> FALSE] \in [req : Payers, uid : Uid, refunded : BOOLEAN]
    BY <2>1
  <2>3. TablesType'
    BY <1>6, <2>2 DEF Save, TypeOK, TablesType
  <2>4. ControlType'
    BY <2>1, InsertLabels, GotoType
  <2>. QED  BY <1>6, <2>3, <2>4 DEF Save, TypeOK, CytubeType, ShadowType, LocalsType, cytube,
                             shadow, locals, poller
<1>7. CASE Insert(p)
  <2>1. uid[p] \in Uid /\ UNCHANGED uid /\ Stay(p, "row")
    BY <1>7, InsertLabels DEF Insert, TypeOK, ControlType, LocalsType
  <2>2. IndexAfter(items, tgt[p]) \in Nat
    BY IndexAfterType DEF TypeOK, ShadowType
  <2>3. PaidBy(p) \in Users \cup {NoUser}
    BY DEF PaidBy
  <2>4. items' \subseteq Entry /\ IsFiniteSet(items')
    BY <1>7, <2>1, <2>2, <2>3, ShadowInsertType DEF Insert, TypeOK, ShadowType
  <2>5. slot' \in [Procs -> Nat]
    BY <1>7, <2>2 DEF Insert, TypeOK, LocalsType
  <2>6. ControlType'
    BY <2>1, InsertLabels, GotoType
  <2>. QED  BY <1>7, <2>4, <2>5, <2>6 DEF Insert, TypeOK, CytubeType, TablesType, ShadowType,
                             LocalsType, cytube, tables, poller
<1>8. CASE Row(p)
  <2>1. uid[p] \in Uid /\ slot[p] \in Nat /\ UNCHANGED uid /\ End(p, "done")
    BY <1>8, InsertLabels DEF Row, TypeOK, ControlType, LocalsType, locals
  <2>2. PaidBy(p) \in Users \cup {NoUser}
    BY DEF PaidBy
  <2>. DEFINE kept == {r \in rows : r.uid # uid[p]}
              new == [uid |-> uid[p], pos |-> slot[p], by |-> PaidBy(p)]
  <2>3. new \in Record
    BY <2>1, <2>2 DEF Record
  <2>4. IsFiniteSet(kept)
    BY FS_Subset DEF TypeOK, TablesType
  <2>5. kept \cup {new} \subseteq Record /\ IsFiniteSet(kept \cup {new})
    <3>. HIDE DEF new
    <3>. QED  BY <2>3, <2>4, FS_AddElement DEF TypeOK, TablesType
  <2>6. TablesType'
    BY <1>8, <2>5 DEF Row, TypeOK, TablesType
  <2>7. ControlType'
    BY <2>1, InsertLabels, GotoType
  <2>. QED  BY <1>8, <2>6, <2>7 DEF Row, TypeOK, CytubeType, ShadowType, LocalsType, cytube,
                             locals, poller
<1>9. CASE Undo(p)
  <2>1. UNCHANGED uid /\ (End(p, "failed") \/ (Stay(p, "unadd") /\ uid[p] # NoUid))
    BY <1>9 DEF Undo, locals
  <2>2. ControlType'
    BY <2>1, InsertLabels, GotoType
  <2>3. ledger' \in [Procs -> {"none", "charged", "refunded"}]
    BY <1>9 DEF Undo, TypeOK
  <2>. QED  BY <1>9, <2>2, <2>3 DEF Undo, TypeOK, CytubeType, TablesType, ShadowType,
                             LocalsType, cytube, tables, shadow, locals, poller
<1>10. CASE Unadd(p)
  <2>1. CytubeType'
    BY <1>10, DeletedType DEF Unadd, TypeOK, CytubeType, cytube
  <2>2. UNCHANGED uid /\ End(p, "failed")
    BY <1>10 DEF Unadd, locals
  <2>3. ControlType'
    BY <2>2, InsertLabels, GotoType
  <2>. QED  BY <1>10, <2>1, <2>3 DEF Unadd, TypeOK, TablesType, ShadowType, LocalsType, tables,
                             shadow, locals, poller
<1>. QED  BY <1>1, <1>2, <1>3, <1>4, <1>5, <1>6, <1>7, <1>8, <1>9, <1>10 DEF InsertStep

\* The labels of the handlers that refund.
LEMMA RefundLabels ==
  /\ {"lookup", "refund", "mark", "delete", "forget", "unrow"} \subseteq PC \cap HasUid
  /\ {"done", "raised"} \subseteq PC \ HasUid
BY DEF PC, HasUid, Ended

\* The steps of a handler that refunds.
LEMMA RefundStepType ==
  ASSUME TypeOK, NEW p \in Procs, RefundStep(p)
  PROVE  TypeOK'
<1>. DEFINE Listed == [uid : Uid, pos : Nat]
            Moved == /\ uid' \in [Procs -> Uid \cup {NoUid}] /\ todo' \in [Procs -> SUBSET Listed]
                     /\ ControlType'
<1>a. todo[p] \in SUBSET Listed
  BY DEF TypeOK, LocalsType
<1>b. ASSUME pc[p] \in HasUid, UNCHANGED <<uid, todo>>,
             NEW label \in {"refund", "mark", "delete", "forget", "raised", "done"},
             Stay(p, label) \/ End(p, label)
      PROVE  Moved
  <2>1. uid[p] # NoUid
    BY <1>b DEF TypeOK, ControlType
  <2>. QED  BY <1>b, <2>1, RefundLabels, GotoType DEF TypeOK, LocalsType
<1>c. ASSUME pc[p] \in HasUid, NotRefunded(p) PROVE Moved
  <2>1. CASE Stay(p, "delete") /\ UNCHANGED <<uid, todo>>
    BY <1>b, <1>c, <2>1
  <2>2. CASE TakeNext(p, todo[p])
    BY <1>a, <2>2, TakeNextType
  <2>. QED  BY <1>c, <2>1, <2>2 DEF NotRefunded
<1>1. CASE List(p)
  <2>1. \A u \in 1 .. nextUid - 1 : {[uid |-> u, pos |-> 0]} \in SUBSET Listed
    BY DEF TypeOK, CytubeType, Uid
  <2>2. PaidRows \in SUBSET Listed
    BY DEF PaidRows, TypeOK, TablesType, Record
  <2>3. \A np : {e \in PaidRows : e.uid # np} \in SUBSET Listed
    BY <2>2
  <2>4. \A gone, np : PaidItems(gone, np) \in SUBSET Listed
    BY DEF PaidItems, TypeOK, ShadowType, Entry
  <2>5. \E list \in SUBSET Listed : TakeNext(p, list)
    BY <1>1, <2>1, <2>2, <2>3, <2>4 DEF List
  <2>6. Moved
    BY <2>5, TakeNextType
  <2>. QED  BY <1>1, <2>6 DEF List, TypeOK, CytubeType, TablesType, ShadowType, LocalsType,
                             cytube, tables, shadow, poller
<1>2. CASE Lookup(p)
  <2>1. pc[p] \in HasUid
    BY <1>2, RefundLabels DEF Lookup
  <2>2. req' \in [Procs -> Procs]
    BY <1>2 DEF Lookup, TypeOK, LocalsType, TablesType, Payers
  <2>3. Moved
    <3>1. NotRefunded(p) \/ (Stay(p, "refund") /\ UNCHANGED <<uid, todo>>)
      BY <1>2 DEF Lookup
    <3>. QED  BY <2>1, <3>1, <1>b, <1>c
  <2>. QED  BY <1>2, <2>2, <2>3 DEF Lookup, TypeOK, CytubeType, TablesType, ShadowType,
                             LocalsType, cytube, tables, shadow, poller
<1>3. CASE Refund(p)
  <2>1. pc[p] \in HasUid
    BY <1>3, RefundLabels DEF Refund
  <2>2. ledger' \in [Procs -> {"none", "charged", "refunded"}]
    BY <1>3 DEF Refund, TypeOK
  <2>3. Moved
    <3>1. CASE Stay(p, "mark") /\ UNCHANGED <<uid, todo>>
      BY <2>1, <3>1, <1>b
    <3>2. CASE Raise(p)
      BY <2>1, <3>2, <1>b DEF Raise
    <3>. QED  BY <1>3, <2>1, <3>1, <3>2, <1>c DEF Refund
  <2>. QED  BY <1>3, <2>2, <2>3 DEF Refund, TypeOK, CytubeType, TablesType, ShadowType,
                             LocalsType, cytube, tables, shadow, poller
<1>4. CASE Mark(p)
  <2>1. pc[p] \in HasUid
    BY <1>4, RefundLabels DEF Mark
  <2>. DEFINE Spends == [req : Payers, uid : Uid, refunded : BOOLEAN]
  <2>2. \A s \in spends : s \in Spends /\ [s EXCEPT !.refunded = TRUE] \in Spends
    <3>1. \A s \in Spends : [s EXCEPT !.refunded = TRUE] \in Spends
      OBVIOUS
    <3>. HIDE DEF Spends
    <3>2. spends \subseteq Spends
      BY DEF TypeOK, TablesType, Spends
    <3>. QED  BY <3>1, <3>2
  <2>3. spends' \subseteq Spends
    <3>. HIDE DEF Spends
    <3>. QED  BY <1>4, <2>2 DEF Mark
  <2>4. Moved
    <3>1. TakeNext(p, todo[p]) \/ (Stay(p, "delete") /\ UNCHANGED <<uid, todo>>)
      BY <1>4 DEF Mark
    <3>. QED  BY <2>1, <3>1, <1>a, <1>b, TakeNextType
  <2>. QED  BY <1>4, <2>3, <2>4 DEF Mark, TypeOK, CytubeType, TablesType, ShadowType,
                             LocalsType, cytube, shadow, poller
<1>5. CASE Delete(p)
  <2>1. pc[p] \in HasUid /\ UNCHANGED <<uid, todo>>
    BY <1>5, RefundLabels DEF Delete, locals
  <2>2. CytubeType'
    BY <1>5, DeletedType DEF Delete, TypeOK, CytubeType, cytube
  <2>3. Moved
    BY <1>5, <2>1, <1>b DEF Delete
  <2>4. strays' \subseteq Uid
    BY <1>5, <2>1 DEF Delete, TypeOK, LocalsType, ControlType
  <2>. QED  BY <1>5, <2>2, <2>3, <2>4 DEF Delete, TypeOK, TablesType, ShadowType, LocalsType, tables,
                             shadow, locals
<1>6. CASE Forget(p)
  <2>1. items' \subseteq Entry /\ IsFiniteSet(items')
    BY <1>6, ShadowRemoveType DEF Forget, TypeOK, ShadowType
  <2>2. uid[p] # NoUid /\ UNCHANGED uid
    BY <1>6, RefundLabels DEF Forget, TypeOK, ControlType, locals
  <2>3. ControlType'
    BY <1>6, <2>2, RefundLabels, GotoType DEF Forget
  <2>. QED  BY <1>6, <2>1, <2>3 DEF Forget, TypeOK, CytubeType, TablesType, ShadowType,
                             LocalsType, cytube, tables, locals, poller
<1>7. CASE Unrow(p)
  <2>1. rows' \subseteq Record /\ IsFiniteSet(rows')
    BY <1>7, FS_Subset DEF Unrow, TypeOK, TablesType
  <2>2. Moved
    BY <1>7, <1>a, TakeNextType DEF Unrow
  <2>. QED  BY <1>7, <2>1, <2>2 DEF Unrow, TypeOK, CytubeType, TablesType, ShadowType,
                             LocalsType, cytube, poller
<1>8. CASE Clear(p)
  <2>1. CytubeType'
    <3>1. <<>> \in Seq(1 .. nextUid - 1)
      OBVIOUS
    <3>2. (playlist' = <<>> /\ current' = NoUid) \/ UNCHANGED <<playlist, current>>
      BY <1>8 DEF Clear
    <3>. QED  BY <1>8, <3>1, <3>2 DEF Clear, TypeOK, CytubeType
  <2>2. UNCHANGED uid /\ (End(p, "done") \/ End(p, "raised"))
    BY <1>8 DEF Clear, locals
  <2>3. ControlType'
    BY <2>2, RefundLabels, GotoType
  <2>. QED  BY <1>8, <2>1, <2>3 DEF Clear, TypeOK, TablesType, ShadowType, LocalsType, tables,
                             shadow, locals, poller
<1>. QED  BY <1>1, <1>2, <1>3, <1>4, <1>5, <1>6, <1>7, <1>8 DEF RefundStep

\* The poll loop, playback and a restart.
LEMMA PollStepType ==
  ASSUME TypeOK, PollStep
  PROVE  TypeOK'
<1>. USE DEF TypeOK, CytubeType, TablesType, ShadowType, LocalsType, ControlType, cytube,
             tables, shadow, locals
<1>1. CASE PollRead
  <2>1. playlist \in Seq(Uid)
    <3>1. 1 .. nextUid - 1 \subseteq Uid
      BY DEF Uid
    <3>. QED  BY <3>1, SeqMonotonic
  <2>. QED  BY <1>1, <2>1 DEF PollRead
<1>2. CASE PollError
  BY <1>2 DEF PollError
<1>3. CASE PollPrune
  <2>1. rows' \subseteq Record /\ IsFiniteSet(rows')
    BY <1>3, FS_Subset DEF PollPrune
  <2>2. npCache' \in Media \cup {NoUid}
    BY <1>3 DEF PollPrune
  <2>3. strays' \subseteq Uid
    BY <1>3 DEF PollPrune, Entry
  <2>. QED  BY <1>3, <2>1, <2>2, <2>3 DEF PollPrune
<1>4. CASE PollUpsert
  <2>1. rows' \subseteq Record /\ IsFiniteSet(rows')
    BY <1>4, ReconciledRowsType DEF PollUpsert
  <2>. QED  BY <1>4, <2>1 DEF PollUpsert
<1>5. CASE PollCommit
  <2>1. items' \subseteq Entry /\ IsFiniteSet(items')
    BY <1>5, ReconciledType DEF PollCommit
  <2>. QED  BY <1>5, <2>1 DEF PollCommit
<1>. QED  BY <1>1, <1>2, <1>3, <1>4, <1>5 DEF PollStep

LEMMA PlayType ==
  ASSUME TypeOK, NEW u \in 1 .. nextUid - 1, Play(u)
  PROVE  TypeOK'
<1>1. Without(playlist, current) \in Seq(1 .. nextUid - 1)
  BY WithoutType DEF TypeOK, CytubeType
<1>2. CytubeType'
  BY <1>1 DEF Play, TypeOK, CytubeType
<1>. QED  BY <1>2 DEF Play, TypeOK, TablesType, ShadowType, LocalsType, ControlType, tables, shadow, locals,
                    poller

LEMMA RestartType ==
  ASSUME TypeOK, Restart
  PROVE  TypeOK'
<1>1. items' \subseteq Entry /\ IsFiniteSet(items')
  BY LoadedType DEF Restart, TypeOK, TablesType
<1>. QED  BY <1>1 DEF Restart, TypeOK, CytubeType, TablesType, ShadowType, LocalsType,
                    ControlType, cytube, locals, PC, HasUid, Ended

\* Every state of every behaviour is well typed, whatever the handlers, the
\* poll loop, the failures of calls and the restarts do.
THEOREM TypeCorrect == Spec => []TypeOK
<1>1. TypeOK /\ [Next]_vars => TypeOK'
  <2>. SUFFICES ASSUME TypeOK, [Next]_vars PROVE TypeOK'
    OBVIOUS
  <2>1. CASE UNCHANGED vars
    BY <2>1 DEF vars, TypeOK, CytubeType, TablesType, ShadowType, LocalsType, ControlType,
                cytube, tables, shadow, locals, poller
  <2>. QED  BY <2>1, InsertStepType, RefundStepType, PollStepType, PlayType, RestartType DEF Next
<1>. QED  BY <1>1, InitType, PTL DEF Spec
-----------------------------------------------------------------------------
(***************************************************************************)
(* A step of one call leaves the locals of the others alone.               *)
(***************************************************************************)
Others(p) ==
  \A q \in Procs \ {p} : pc'[q] = pc[q] /\ uid'[q] = uid[q] /\ req'[q] = req[q]

LEMMA GotoOthers ==
  ASSUME TypeOK, NEW p \in Procs, NEW label, Stay(p, label) \/ End(p, label),
         UNCHANGED <<uid, req>>
  PROVE  Others(p) /\ pc'[p] = label
BY DEF Others, Stay, End, Goto, TypeOK, ControlType

LEMMA TakeNextOthers ==
  ASSUME TypeOK, NEW p \in Procs, NEW list, TakeNext(p, list), UNCHANGED req
  PROVE  Others(p) /\ pc'[p] \in {"clear", "anchor", "done", "lookup"}
<1>1. CASE Stay(p, AfterLast(p)) /\ UNCHANGED <<uid, todo>>
  BY <1>1, GotoOthers DEF AfterLast
<1>2. ASSUME NEW e \in list, uid' = [uid EXCEPT ![p] = e.uid], Stay(p, "lookup")
      PROVE  Others(p) /\ pc'[p] = "lookup"
  BY <1>2 DEF Others, Stay, Goto, TypeOK, ControlType, LocalsType
<1>. QED  BY <1>1, <1>2 DEF TakeNext

\* Where each step of an insert leads.
LEMMA InsertOthers ==
  ASSUME TypeOK, NEW p \in Procs, InsertStep(p)
  PROVE  Others(p)
<1>1. CASE Start(p)
  BY <1>1 DEF Start, Goto, Others, TypeOK, ControlType, locals
<1>2. CASE Spend(p)
  BY <1>2, GotoOthers DEF Spend, locals
<1>3. CASE Anchor(p)
  BY <1>3 DEF Anchor, Stay, End, Goto, Others, TypeOK, ControlType, LocalsType
<1>4. CASE Add(p)
  <2>1. pc' = [pc EXCEPT ![p] = pc'[p]]
    BY <1>4 DEF Add, Stay, End, Goto, TypeOK, ControlType
  <2>2. (uid' = [uid EXCEPT ![p] = nextUid] \/ UNCHANGED uid) /\ UNCHANGED req
    BY <1>4 DEF Add
  <2>. QED  BY <2>1, <2>2 DEF Others, TypeOK, ControlType, LocalsType
<1>5. CASE Move(p)
  BY <1>5, GotoOthers DEF Move, locals
<1>6. CASE Save(p)
  BY <1>6, GotoOthers DEF Save, locals
<1>7. CASE Insert(p)
  BY <1>7, GotoOthers DEF Insert
<1>8. CASE Row(p)
  BY <1>8, GotoOthers DEF Row, locals
<1>9. CASE Undo(p)
  BY <1>9, GotoOthers DEF Undo, locals
<1>10. CASE Unadd(p)
  BY <1>10, GotoOthers DEF Unadd, locals
<1>. QED  BY <1>1, <1>2, <1>3, <1>4, <1>5, <1>6, <1>7, <1>8, <1>9, <1>10 DEF InsertStep

LEMMA NotRefundedOthers ==
  ASSUME TypeOK, NEW p \in Procs, NotRefunded(p), UNCHANGED req
  PROVE  Others(p) /\ pc'[p] \in {"clear", "anchor", "done", "lookup", "delete"}
<1>1. CASE Stay(p, "delete") /\ UNCHANGED <<uid, todo>>
  BY <1>1, GotoOthers
<1>2. CASE TakeNext(p, todo[p])
  BY <1>2, TakeNextOthers
<1>. QED  BY <1>1, <1>2 DEF NotRefunded

LEMMA RaiseOthers ==
  ASSUME TypeOK, NEW p \in Procs, Raise(p), UNCHANGED req
  PROVE  Others(p) /\ pc'[p] \in {"delete", "raised"}
BY GotoOthers DEF Raise

\* Where each step of a refunding handler leads.
LEMMA RefundOthers ==
  ASSUME TypeOK, NEW p \in Procs, RefundStep(p)
  PROVE  /\ Others(p)
         /\ pc[p] \notin {"idle", "spend", "anchor", "add", "move", "save", "insert", "row", "undo",
                          "unadd"}
         /\ pc'[p] \in {"clear", "anchor", "done", "lookup", "delete", "raised", "refund", "mark",
                        "forget", "unrow"}
         /\ pc'[p] = "refund" => Lookup(p)
         /\ pc'[p] = "mark" => Refund(p)
<1>1. CASE List(p)
  <2>1. (\E list : TakeNext(p, list)) /\ UNCHANGED req
    BY <1>1 DEF List
  <2>. QED  BY <1>1, <2>1, TakeNextOthers DEF List
<1>2. CASE Lookup(p)
  <2>1. CASE NotRefunded(p) /\ UNCHANGED req
    BY <1>2, <2>1, NotRefundedOthers DEF Lookup
  <2>2. ASSUME NEW s \in spends, req' = [req EXCEPT ![p] = s.req], Stay(p, "refund"),
               UNCHANGED <<uid, todo>>
        PROVE  Others(p) /\ pc'[p] = "refund"
    BY <2>2 DEF Others, Stay, Goto, TypeOK, ControlType, LocalsType
  <2>. QED  BY <1>2, <2>1, <2>2 DEF Lookup
<1>3. CASE Refund(p)
  BY <1>3, GotoOthers, NotRefundedOthers, RaiseOthers DEF Refund
<1>4. CASE Mark(p)
  BY <1>4, GotoOthers, TakeNextOthers DEF Mark
<1>5. CASE Delete(p)
  BY <1>5, GotoOthers DEF Delete, locals
<1>6. CASE Forget(p)
  BY <1>6, GotoOthers DEF Forget, locals
<1>7. CASE Unrow(p)
  BY <1>7, TakeNextOthers DEF Unrow
<1>8. CASE Clear(p)
  BY <1>8, GotoOthers DEF Clear, locals
<1>. QED  BY <1>1, <1>2, <1>3, <1>4, <1>5, <1>6, <1>7, <1>8 DEF RefundStep

-----------------------------------------------------------------------------
(***************************************************************************)
(* Where paid marks come from, and that spends stay.                       *)
(***************************************************************************)
LEMMA SpendsKept ==
  ASSUME TypeOK, [Next]_vars
  PROVE  \A s \in spends : \E t \in spends' : t.req = s.req /\ t.uid = s.uid
<1>1. CASE UNCHANGED spends
  BY <1>1
<1>2. ASSUME NEW p \in Procs, Save(p)
      PROVE  spends \subseteq spends'
  BY <1>2 DEF Save
<1>3. ASSUME NEW p \in Procs, Mark(p), NEW s \in spends
      PROVE  \E t \in spends' : t.req = s.req /\ t.uid = s.uid
  <2>. DEFINE t == IF s.req = req[p] THEN [s EXCEPT !.refunded = TRUE] ELSE s
  <2>1. t \in spends'
    BY <1>3 DEF Mark
  <2>2. t.req = s.req /\ t.uid = s.uid
    BY DEF TypeOK, TablesType
  <2>. QED  BY <2>1, <2>2
<1>4. ASSUME NEW p \in Procs, InsertStep(p), ~Save(p)
      PROVE  UNCHANGED spends
  BY <1>4 DEF InsertStep, Start, Spend, Anchor, Add, Move, Insert, Row, Undo, Unadd, tables
<1>5. ASSUME NEW p \in Procs, RefundStep(p), ~Mark(p)
      PROVE  UNCHANGED spends
  BY <1>5 DEF RefundStep, List, Lookup, Refund, Delete, Forget, Unrow, Clear, tables
<1>6. ASSUME PollStep PROVE UNCHANGED spends
  BY <1>6 DEF PollStep, PollRead, PollError, PollPrune, PollUpsert, PollCommit, tables
<1>7. ASSUME (\E u \in 1 .. nextUid - 1 : Play(u)) \/ Restart \/ UNCHANGED vars
      PROVE  UNCHANGED spends
  BY <1>7 DEF Play, Restart, vars, tables
<1>. QED  BY <1>1, <1>2, <1>3, <1>4, <1>5, <1>6, <1>7 DEF Next

\* Some entry of a list or of a table has this uid and this payer.
Marks(set, u, who) == \E f \in set : f.uid = u /\ f.by = who

LEMMA ShadowInsertMarks ==
  ASSUME NEW list, list \subseteq Entry, NEW u, NEW who, NEW i \in Nat,
         NEW e \in ShadowInsert(list, u, who, i)
  PROVE  Marks(list, e.uid, e.by) \/ (e.uid = u /\ e.by = who)
<1>. DEFINE new == [uid |-> u, at |-> i, pos |-> i, by |-> who]
<1>1. CASE e = new
  BY <1>1
<1>2. CASE e # new
  <2>1. PICK f \in list : e = Placed(f, IF f.at >= i THEN f.at + 1 ELSE f.at)
    BY <1>2 DEF ShadowInsert
  <2>2. (IF f.at >= i THEN f.at + 1 ELSE f.at) \in Nat
    BY DEF Entry
  <2>. QED  BY <2>1, <2>2, PlacedType DEF Marks
<1>. QED  BY <1>1, <1>2

LEMMA ShadowRemoveMarks ==
  ASSUME NEW list, list \subseteq Entry, IsFiniteSet(list), NEW u,
         NEW e \in ShadowRemove(list, u)
  PROVE  Marks(list, e.uid, e.by)
<1>. DEFINE kept == {f \in list : f.uid # u}
<1>1. PICK f \in kept : e = Placed(f, Cardinality({g \in kept : g.at < f.at}))
  BY DEF ShadowRemove
<1>2. IsFiniteSet({g \in kept : g.at < f.at})
  BY FS_Subset
<1>3. Cardinality({g \in kept : g.at < f.at}) \in Nat
  BY <1>2, FS_CardinalityType
<1>. QED  BY <1>1, <1>3, PlacedType DEF Marks

LEMMA ReconciledMarks ==
  ASSUME NEW list, list \subseteq Entry, IsFiniteSet(list), NEW polled,
         NEW e \in Reconciled(list, polled), Paid(e)
  PROVE  Marks(list, e.uid, e.by)
<1>1. PICK i \in DOMAIN polled :
        /\ e.uid = polled[i]
        /\ e.by = IF Known(list, polled[i]) THEN LocalEntry(list, polled[i]).by ELSE NoUser
  BY DEF Reconciled
<1>2. Known(list, polled[i]) /\ e.by = LocalEntry(list, polled[i]).by
  BY <1>1 DEF Paid
<1>. QED  BY <1>1, <1>2, LocalEntryType DEF Marks

LEMMA ReconciledRowsMarks ==
  ASSUME NEW table, table \subseteq Record, NEW list, NEW polled,
         NEW e \in ReconciledRows(table, list, polled), Paid(e)
  PROVE  Marks(table, e.uid, e.by)
<1>. DEFINE fresh == {i \in DOMAIN polled : ~Known(list, polled[i])}
            moved == {i \in DOMAIN polled \ fresh : LocalEntry(list, polled[i]).pos # i - 1}
            At(r) == {i \in moved : polled[i] = r.uid}
            f(r) == IF At(r) = {} THEN r ELSE [r EXCEPT !.pos = (CHOOSE i \in At(r) : TRUE) - 1]
<1>1. e \notin {[uid |-> polled[i], pos |-> i - 1, by |-> NoUser] : i \in fresh}
  BY DEF Paid
<1>2. PICK r \in table : e = f(r)
  BY <1>1 DEF ReconciledRows
<1>3. e.uid = r.uid /\ e.by = r.by
  BY <1>2 DEF Record
<1>. QED  BY <1>3 DEF Marks

LEMMA LoadedMarks ==
  ASSUME NEW table, NEW e \in Loaded(table)
  PROVE  Marks(table, e.uid, e.by)
<1>. DEFINE Ahead(r) == {q \in table : q.pos < r.pos \/ (q.pos = r.pos /\ q.uid < r.uid)}
<1>1. PICK r \in table : e = [uid |-> r.uid, pos |-> r.pos, by |-> r.by,
                             at |-> Cardinality(Ahead(r))]
  BY DEF Loaded
<1>. HIDE DEF Ahead
<1>2. e.uid = r.uid /\ e.by = r.by
  BY <1>1
<1>. QED  BY <1>2 DEF Marks

\* A paid mark after a step was there before, or a paying call that has
\* recorded its spend makes it.
MarkMade(u, who) ==
  \E p \in Payers : pc[p] \in {"insert", "row"} /\ u = uid[p] /\ who = Owner[p]

LEMMA MarksCome ==
  ASSUME TypeOK, [Next]_vars, NEW e \in items' \cup rows', Paid(e)
  PROVE  Marks(items \cup rows, e.uid, e.by) \/ MarkMade(e.uid, e.by)
<1>. DEFINE Goal == Marks(items \cup rows, e.uid, e.by) \/ MarkMade(e.uid, e.by)
<1>0. /\ e \in items \cup rows => Goal
      /\ Marks(items, e.uid, e.by) => Goal
      /\ Marks(rows, e.uid, e.by) => Goal
  BY DEF Marks
<1>1. CASE UNCHANGED <<items, rows>>
  BY <1>0, <1>1
<1>2. ASSUME NEW p \in Procs, Insert(p) PROVE Goal
  <2>1. IndexAfter(items, tgt[p]) \in Nat
    BY IndexAfterType DEF TypeOK, ShadowType
  <2>2. e \in rows \/ Marks(items, e.uid, e.by) \/ (e.uid = uid[p] /\ e.by = PaidBy(p))
    BY <1>2, <2>1, ShadowInsertMarks DEF Insert, tables, TypeOK, ShadowType
  <2>. QED  BY <1>0, <1>2, <2>2 DEF Insert, MarkMade, PaidBy, Paid, Payers
<1>3. ASSUME NEW p \in Procs, Row(p) PROVE Goal
  <2>1. e \in items \cup rows \/ (e.uid = uid[p] /\ e.by = PaidBy(p))
    BY <1>3 DEF Row
  <2>. QED  BY <1>0, <1>3, <2>1 DEF Row, MarkMade, PaidBy, Paid, Payers
<1>4. ASSUME NEW p \in Procs, Forget(p) PROVE Goal
  BY <1>0, <1>4, ShadowRemoveMarks DEF Forget, tables, TypeOK, ShadowType
<1>5. ASSUME NEW p \in Procs, Unrow(p) PROVE Goal
  BY <1>0, <1>5 DEF Unrow
<1>6. ASSUME PollPrune PROVE Goal
  BY <1>0, <1>6 DEF PollPrune
<1>7. ASSUME PollUpsert PROVE Goal
  BY <1>0, <1>7, ReconciledRowsMarks DEF PollUpsert, shadow, TypeOK, TablesType
<1>8. ASSUME PollCommit PROVE Goal
  BY <1>0, <1>8, ReconciledMarks DEF PollCommit, tables, TypeOK, ShadowType
<1>9. ASSUME Restart PROVE Goal
  BY <1>0, <1>9, LoadedMarks DEF Restart
<1>10. ASSUME NEW p \in Procs, InsertStep(p), ~Insert(p), ~Row(p)
       PROVE  UNCHANGED <<items, rows>>
  BY <1>10 DEF InsertStep, Start, Spend, Anchor, Add, Move, Save, Undo, Unadd, tables, shadow
<1>11. ASSUME NEW p \in Procs, RefundStep(p), ~Forget(p), ~Unrow(p)
       PROVE  UNCHANGED <<items, rows>>
  BY <1>11 DEF RefundStep, List, Lookup, Refund, Mark, Delete, Clear, tables, shadow
<1>12. ASSUME PollRead \/ PollError \/ (\E u \in 1 .. nextUid - 1 : Play(u)) \/ UNCHANGED vars
       PROVE  UNCHANGED <<items, rows>>
  BY <1>12 DEF PollRead, PollError, Play, vars, tables, shadow
<1>. QED  BY <1>1, <1>2, <1>3, <1>4, <1>5, <1>6, <1>7, <1>8, <1>9, <1>10, <1>11, <1>12
          DEF Next, PollStep

-----------------------------------------------------------------------------
(***************************************************************************)
(* Paid marks are backed.  On its own PaidBacked is not inductive: a call  *)
(* about to insert its item must have recorded its spend.                  *)
(***************************************************************************)
HasSpend(p) == \E s \in spends : s.req = p /\ s.uid = uid[p]
Recorded == \A p \in Payers : pc[p] \in {"insert", "row", "done"} => HasSpend(p)
BackedInv == TypeOK /\ PaidBacked /\ Recorded

\* A paying call enters "insert" from "save" only, and goes on to "row".
LEMMA PayerOrder ==
  ASSUME TypeOK, NEW p \in Payers, InsertStep(p)
  PROVE  /\ pc'[p] = "insert" => Save(p)
         /\ pc'[p] = "row" => Insert(p)
         /\ pc'[p] = "done" => Row(p)
         /\ pc[p] \in {"insert", "row"} => UNCHANGED uid
<1>1. CASE Start(p)
  BY <1>1 DEF Start, Goto, TypeOK, ControlType
<1>2. CASE Spend(p)
  BY <1>2 DEF Spend, Stay, End, Goto, TypeOK, ControlType
<1>3. CASE Anchor(p)
  <2>1. pc[p] = "anchor" /\ (Goto(p, "add") \/ Goto(p, "undo") \/ Goto(p, "failed"))
    BY <1>3 DEF Anchor, Stay, End
  <2>. QED  BY <2>1 DEF Goto, TypeOK, ControlType
<1>4. CASE Add(p)
  BY <1>4 DEF Add, Stay, End, Goto, TypeOK, ControlType
<1>5. CASE Move(p)
  BY <1>5 DEF Move, Stay, End, Goto, TypeOK, ControlType, Payers
<1>6. CASE Save(p)
  BY <1>6 DEF Save, Stay, Goto, TypeOK, ControlType
<1>7. CASE Insert(p)
  <2>1. pc'[p] = "row" /\ UNCHANGED uid
    BY <1>7 DEF Insert, Stay, Goto, TypeOK, ControlType, Payers
  <2>. QED  BY <1>7, <2>1
<1>8. CASE Row(p)
  <2>1. pc'[p] = "done" /\ UNCHANGED uid
    BY <1>8 DEF Row, End, Goto, TypeOK, ControlType, locals, Payers
  <2>. QED  BY <1>8, <2>1
<1>9. CASE Undo(p)
  <2>1. pc[p] = "undo" /\ (Goto(p, "failed") \/ Goto(p, "unadd"))
    BY <1>9 DEF Undo, Stay, End
  <2>. QED  BY <2>1 DEF Goto, TypeOK, ControlType
<1>10. CASE Unadd(p)
  BY <1>10 DEF Unadd, Stay, End, Goto, TypeOK, ControlType
<1>. QED  BY <1>1, <1>2, <1>3, <1>4, <1>5, <1>6, <1>7, <1>8, <1>9, <1>10 DEF InsertStep

\* Paying calls stay out of the labels of the handlers that refund.
InsertOnly == {"idle", "spend", "anchor", "add", "move", "save", "insert", "row", "undo", "unadd"}
              \cup Ended
PayersInsert == \A p \in Payers : pc[p] \in InsertOnly

LEMMA PayersInsertStep == TypeOK /\ PayersInsert /\ [Next]_vars => PayersInsert'
<1>. SUFFICES ASSUME TypeOK, PayersInsert, [Next]_vars, NEW p \in Payers
              PROVE  pc'[p] \in InsertOnly
  BY DEF PayersInsert
<1>0. p \in Procs /\ Kind[p] \in PayKinds /\ pc[p] \in InsertOnly
  BY DEF Payers, PayersInsert
<1>1. CASE InsertStep(p)
  <2>. USE <1>0, <1>1 DEF Stay, End, Goto, TypeOK, ControlType, InsertOnly, Ended
  <2>1. CASE Start(p)
    BY <2>1 DEF Start
  <2>2. CASE Spend(p)
    BY <2>2 DEF Spend
  <2>3. CASE Anchor(p)
    BY <2>3 DEF Anchor
  <2>4. CASE Add(p)
    BY <2>4 DEF Add
  <2>5. CASE Move(p)
    BY <2>5 DEF Move
  <2>6. CASE Save(p)
    BY <2>6 DEF Save
  <2>7. CASE Insert(p)
    BY <2>7 DEF Insert
  <2>8. CASE Row(p)
    BY <2>8 DEF Row
  <2>9. CASE Undo(p)
    BY <2>9 DEF Undo
  <2>10. CASE Unadd(p)
    BY <2>10 DEF Unadd
  <2>. QED  BY <2>1, <2>2, <2>3, <2>4, <2>5, <2>6, <2>7, <2>8, <2>9, <2>10 DEF InsertStep
<1>2. CASE RefundStep(p)
  BY <1>0, <1>2, RefundOthers DEF InsertOnly, Ended, RefundStep, List, Lookup, Refund, Mark, Delete,
                          Forget, Unrow, Clear
<1>3. ASSUME NEW q \in Procs \ {p}, InsertStep(q) \/ RefundStep(q)
      PROVE  pc'[p] = pc[p]
  BY <1>0, <1>3, InsertOthers, RefundOthers DEF Others
<1>4. CASE PollStep \/ (\E u \in 1 .. nextUid - 1 : Play(u)) \/ UNCHANGED vars
  BY <1>0, <1>4 DEF PollStep, PollRead, PollError, PollPrune, PollUpsert, PollCommit, Play, vars
<1>5. CASE Restart
  BY <1>0, <1>5 DEF Restart, InsertOnly, Ended, TypeOK, ControlType
<1>. QED  BY <1>0, <1>1, <1>2, <1>3, <1>4, <1>5 DEF Next

LEMMA RecordedStep == TypeOK /\ PayersInsert /\ Recorded /\ [Next]_vars => Recorded'
<1>. SUFFICES ASSUME TypeOK, PayersInsert, Recorded, [Next]_vars, NEW p \in Payers,
                     pc'[p] \in {"insert", "row", "done"}
              PROVE  HasSpend(p)'
  BY DEF Recorded
<1>0. p \in Procs
  BY DEF Payers
<1>1. HasSpend(p) /\ uid'[p] = uid[p] => HasSpend(p)'
  BY SpendsKept DEF HasSpend
<1>2. CASE pc'[p] = pc[p] /\ uid'[p] = uid[p]
  BY <1>1, <1>2 DEF Recorded
<1>3. CASE InsertStep(p)
  <2>1. CASE Save(p)
    <3>. DEFINE s == [req |-> p, uid |-> uid[p], refunded |-> FALSE]
    <3>1. s \in spends' /\ UNCHANGED uid
      BY <2>1 DEF Save, locals
    <3>2. s.req = p /\ s.uid = uid[p]
      OBVIOUS
    <3>. HIDE DEF s
    <3>. QED  BY <3>1, <3>2 DEF HasSpend
  <2>2. CASE Insert(p) \/ Row(p)
    BY <1>0, <1>1, <2>2 DEF Insert, Row, locals, Recorded
  <2>. QED  BY <1>3, <2>1, <2>2, PayerOrder
<1>4. CASE RefundStep(p)
  <2>1. pc[p] \in {"list", "lookup", "refund", "mark", "delete", "forget", "unrow", "clear"}
    BY <1>4 DEF RefundStep, List, Lookup, Refund, Mark, Delete, Forget, Unrow, Clear
  <2>. QED  BY <2>1 DEF PayersInsert, InsertOnly, Ended
<1>5. ASSUME NEW q \in Procs \ {p}, InsertStep(q) \/ RefundStep(q)
      PROVE  pc'[p] = pc[p] /\ uid'[p] = uid[p]
  BY <1>0, <1>5, InsertOthers, RefundOthers DEF Others
<1>6. CASE PollStep \/ (\E u \in 1 .. nextUid - 1 : Play(u)) \/ UNCHANGED vars
  BY <1>2, <1>6 DEF PollStep, PollRead, PollError, PollPrune, PollUpsert, PollCommit, Play, vars,
                    locals
<1>7. CASE Restart
  BY <1>0, <1>2, <1>7 DEF Restart, Ended, TypeOK, ControlType, locals
<1>. QED  BY <1>0, <1>2, <1>3, <1>4, <1>5, <1>6, <1>7 DEF Next

LEMMA BackedStep == BackedInv /\ PayersInsert /\ [Next]_vars => PaidBacked'
<1>. SUFFICES ASSUME BackedInv, PayersInsert, [Next]_vars,
                     NEW e \in items' \cup rows', Paid(e)
              PROVE  \E s \in spends' : s.uid = e.uid /\ Owner[s.req] = e.by
  BY DEF PaidBacked, Backed, Paid
<1>1. \E s \in spends : s.uid = e.uid /\ Owner[s.req] = e.by
  <2>1. CASE Marks(items \cup rows, e.uid, e.by)
    BY <2>1 DEF BackedInv, PaidBacked, Backed, Marks, Paid
  <2>2. CASE MarkMade(e.uid, e.by)
    BY <2>2 DEF BackedInv, Recorded, HasSpend, MarkMade
  <2>. QED  BY <2>1, <2>2, MarksCome DEF BackedInv
<1>. QED  BY <1>1, SpendsKept DEF BackedInv

LEMMA InitBacked == Init => PayersInsert /\ PaidBacked /\ Recorded
<1>. SUFFICES ASSUME Init PROVE PayersInsert /\ PaidBacked /\ Recorded
  OBVIOUS
<1>1. \A e \in rows : ~Paid(e)
  BY DEF Init, Paid
<1>2. \A e \in items : ~Paid(e)
  BY <1>1, LoadedMarks DEF Init, Marks, Paid
<1>. QED  BY <1>1, <1>2 DEF Init, PayersInsert, InsertOnly, PaidBacked, Backed, Recorded, Payers

THEOREM RecordedCorrect == Spec => [](PayersInsert /\ Recorded)
<1>1. TypeOK /\ PayersInsert /\ Recorded /\ [Next]_vars => (PayersInsert /\ Recorded)'
  BY PayersInsertStep, RecordedStep
<1>. QED  BY <1>1, InitBacked, TypeCorrect, PTL DEF Spec

\* Whoever removes an item marked as paid, in memory or in the table, finds the
\* spend to refund, whatever polls, failures and restarts came before.
THEOREM PaidBackedCorrect == Spec => []PaidBacked
<1>1. BackedInv /\ PayersInsert /\ [Next]_vars => PaidBacked'
  BY BackedStep
<1>2. TypeOK /\ PaidBacked /\ Recorded => BackedInv
  BY DEF BackedInv
<1>. QED  BY <1>1, <1>2, InitBacked, TypeCorrect, RecordedCorrect, PTL DEF Spec

-----------------------------------------------------------------------------
(***************************************************************************)
(* The ledger and the spend table.  RefundRecorded needs to know where     *)
(* each request's money is at every label of its call, that a spend row    *)
(* appears only for a call past its charge, and that a handler about to    *)
(* refund or to mark has such a row in hand.                               *)
(***************************************************************************)
Unspent == {"idle", "spend"}
Holding == {"anchor", "add", "move", "save", "undo"}
Bought == {"insert", "row", "done", "raised"}

Fits(p) ==
  /\ pc[p] \in Unspent => ledger[p] = "none"
  /\ pc[p] \in Holding => ledger[p] = "charged"
  /\ pc[p] = "unadd" => ledger[p] # "none"
  /\ pc[p] \in {"unadd", "failed"} => (ledger[p] = "charged" => May("refund_refused"))
AllFit == \A p \in Payers : Fits(p)

SpendsFit == \A s \in spends : pc[s.req] \in Bought /\ ledger[s.req] # "none"
InHand(q) ==
  /\ pc[q] \in {"refund", "mark"} => \E s \in spends : s.req = req[q]
  /\ pc[q] = "mark" => ledger[req[q]] = "refunded"
AllInHand == \A q \in Procs : InHand(q)

Settled(s) ==
  /\ s.refunded => ledger[s.req] = "refunded"
  /\ ledger[s.req] = "refunded" /\ ~s.refunded =>
       \/ \E q \in Procs : pc[q] = "mark" /\ req[q] = s.req
       \/ restarts > 0 \/ May("lost_answer")

MoneyInv == AllFit /\ SpendsFit /\ AllInHand /\ RefundRecorded
Informed == TypeOK /\ PayersInsert /\ MoneyInv

\* A step of one call that changes neither the ledger nor the spends, and is
\* not at "mark": only where the call itself gets to matters.
LEMMA MoneyFrame ==
  ASSUME Informed, NEW p \in Procs, Others(p), UNCHANGED <<ledger, spends, restarts>>,
         pc[p] # "mark", p \in Payers => Fits(p)', InHand(p)',
         \A s \in spends : s.req = p => pc'[p] \in Bought
  PROVE  MoneyInv'
<1>. USE DEF Informed, MoneyInv
<1>1. AllFit'
  BY DEF AllFit, Fits, Others, Payers
<1>2. SpendsFit'
  <2>1. \A s \in spends : s.req \in Procs
    BY DEF TypeOK, TablesType, Payers
  <2>. QED  BY <2>1 DEF SpendsFit, Others
<1>3. AllInHand'
  BY DEF AllInHand, InHand, Others
<1>4. RefundRecorded'
  <2>1. \A q \in Procs : pc[q] = "mark" => pc'[q] = "mark" /\ req'[q] = req[q]
    BY DEF Others
  <2>. QED  BY <2>1 DEF RefundRecorded
<1>. QED  BY <1>1, <1>2, <1>3, <1>4

LEMMA InsertMoney ==
  ASSUME Informed, NEW p \in Procs, InsertStep(p)
  PROVE  MoneyInv'
<1>0. /\ TypeOK /\ Others(p) /\ pc'[p] \in PC /\ UNCHANGED restarts
      /\ p \in Payers => Fits(p)
      /\ \A s \in spends : s.req = p => pc[p] \in Bought
      /\ pc \in [Procs -> PC] /\ ledger \in [Procs -> {"none", "charged", "refunded"}]
  <2>1. TypeOK'
    BY InsertStepType DEF Informed
  <2>2. UNCHANGED restarts
    BY DEF InsertStep, Start, Spend, Anchor, Add, Move, Save, Insert, Row, Undo, Unadd, tables
  <2>. QED  BY <2>1, <2>2, InsertOthers DEF Informed, TypeOK, ControlType, MoneyInv, AllFit, SpendsFit
<1>. USE DEF Unspent, Holding, Bought, Fits, InHand, Stay, End, Goto
<1>1. CASE Start(p)
  BY <1>0, <1>1, MoneyFrame DEF Start, Payers, tables
<1>2. CASE Spend(p)
  <2>0. \A s \in spends : s.req # p
    BY <1>0, <1>2 DEF Spend
  <2>1. p \in Payers
    BY <1>0, <1>2 DEF Spend, TypeOK, ControlType
  <2>2. \A q \in Procs \ {p} : ledger'[q] = ledger[q]
    BY <1>0, <1>2 DEF Spend
  <2>3. UNCHANGED spends /\ pc'[p] \in {"anchor", "failed", "raised"}
    BY <1>0, <1>2 DEF Spend, tables
  <2>4. Fits(p)'
    BY <1>0, <1>2, <2>1 DEF Spend
  <2>5. AllFit'
    BY <2>2, <2>4, <1>0 DEF AllFit, Others, Informed, MoneyInv, Payers
  <2>6. \A s \in spends : s.req \in Procs \ {p}
    BY <1>0, <2>0 DEF TypeOK, TablesType, Payers
  <2>7. SpendsFit'
    BY <2>2, <2>3, <2>6, <1>0 DEF SpendsFit, Others, Informed, MoneyInv
  <2>8. AllInHand'
    BY <2>2, <2>3, <2>6, <1>0 DEF AllInHand, Others, Informed, MoneyInv
  <2>9. RefundRecorded'
    <3>1. \A q \in Procs : pc[q] = "mark" => pc'[q] = "mark" /\ req'[q] = req[q]
      BY <1>0, <1>2 DEF Others, Spend
    <3>. QED  BY <2>2, <2>3, <2>6, <3>1, <1>0 DEF RefundRecorded, Informed, MoneyInv
  <2>. QED  BY <2>5, <2>7, <2>8, <2>9 DEF MoneyInv
<1>3. CASE Anchor(p)
  <2>1. UNCHANGED <<ledger, spends>> /\ pc[p] = "anchor"
    BY <1>3 DEF Anchor, tables
  <2>2. pc'[p] \in {"add", "undo"} \/ (p \notin Payers /\ pc'[p] = "failed")
    BY <1>0, <1>3 DEF Anchor, Payers
  <2>. QED  BY <1>0, <2>1, <2>2, MoneyFrame
<1>4. CASE Add(p)
  <2>1. UNCHANGED <<ledger, spends>> /\ pc[p] = "add"
    BY <1>4 DEF Add, tables
  <2>2. pc'[p] \in {"move", "undo", "raised"} \/ (p \notin Payers /\ pc'[p] = "failed")
    BY <1>0, <1>4 DEF Add, Payers
  <2>. QED  BY <1>0, <2>1, <2>2, MoneyFrame
<1>5. CASE Move(p)
  <2>1. UNCHANGED <<ledger, spends>> /\ pc[p] = "move"
    BY <1>5 DEF Move, tables
  <2>2. pc'[p] \in {"save", "undo", "raised"} \/ (p \notin Payers /\ pc'[p] \in {"insert", "unadd"})
    BY <1>0, <1>5 DEF Move, Payers
  <2>. QED  BY <1>0, <2>1, <2>2, MoneyFrame
<1>6. CASE Save(p)
  <2>. DEFINE new == [req |-> p, uid |-> uid[p], refunded |-> FALSE]
  <2>1. p \in Payers /\ ledger[p] = "charged" /\ UNCHANGED ledger
    BY <1>0, <1>6 DEF Save, Informed, TypeOK, ControlType
  <2>2. pc[p] = "save" /\ pc'[p] = "insert" /\ spends' = spends \cup {new}
    BY <1>0, <1>6 DEF Save
  <2>3. new.req = p /\ new.refunded = FALSE
    OBVIOUS
  <2>. HIDE DEF new
  <2>4. \A s \in spends : s.req \in Procs \ {p}
    BY <1>0, <2>2 DEF TypeOK, TablesType, Payers
  <2>5. AllFit'
    BY <2>1, <2>2, <1>0 DEF AllFit, Others, Informed, MoneyInv, Payers
  <2>6. SpendsFit'
    BY <2>1, <2>2, <2>3, <2>4, <1>0 DEF SpendsFit, Others, Informed, MoneyInv
  <2>7. AllInHand'
    BY <2>1, <2>2, <1>0 DEF AllInHand, Others, Informed, MoneyInv
  <2>8. RefundRecorded'
    <3>1. \A q \in Procs : pc[q] = "mark" => pc'[q] = "mark" /\ req'[q] = req[q]
      BY <1>0, <2>2 DEF Others
    <3>. QED  BY <2>1, <2>2, <2>3, <3>1, <1>0 DEF RefundRecorded, Informed, MoneyInv
  <2>. QED  BY <2>5, <2>6, <2>7, <2>8 DEF MoneyInv
<1>7. CASE Insert(p)
  <2>1. UNCHANGED <<ledger, spends>> /\ pc[p] = "insert" /\ pc'[p] = "row"
    BY <1>0, <1>7 DEF Insert, tables
  <2>. QED  BY <1>0, <2>1, MoneyFrame
<1>8. CASE Row(p)
  <2>1. UNCHANGED <<ledger, spends>> /\ pc[p] = "row" /\ pc'[p] = "done"
    BY <1>0, <1>8 DEF Row
  <2>. QED  BY <1>0, <2>1, MoneyFrame
<1>9. CASE Undo(p)
  <2>1. UNCHANGED spends /\ pc[p] = "undo" /\ pc'[p] \in {"unadd", "failed"}
    BY <1>0, <1>9 DEF Undo, tables
  <2>2. \A q \in Procs \ {p} : ledger'[q] = ledger[q]
    BY <1>0, <1>9 DEF Undo
  <2>3. \A s \in spends : s.req \in Procs \ {p}
    BY <1>0, <2>1 DEF TypeOK, TablesType, Payers
  <2>4. p \in Payers => Fits(p)'
    BY <1>0, <1>9, <2>1 DEF Undo
  <2>5. AllFit'
    BY <2>2, <2>4, <1>0 DEF AllFit, Others, Informed, MoneyInv, Payers
  <2>6. SpendsFit'
    BY <2>1, <2>2, <2>3, <1>0 DEF SpendsFit, Others, Informed, MoneyInv
  <2>7. AllInHand'
    BY <2>1, <2>2, <2>3, <1>0, SMTT(30) DEF AllInHand, Others, Informed, MoneyInv
  <2>8. RefundRecorded'
    <3>1. \A q \in Procs : pc[q] = "mark" => pc'[q] = "mark" /\ req'[q] = req[q]
      BY <1>0, <2>1 DEF Others
    <3>. QED  BY <2>1, <2>2, <2>3, <3>1, <1>0 DEF RefundRecorded, Informed, MoneyInv
  <2>. QED  BY <2>5, <2>6, <2>7, <2>8 DEF MoneyInv
<1>10. CASE Unadd(p)
  <2>1. UNCHANGED <<ledger, spends>> /\ pc[p] = "unadd" /\ pc'[p] = "failed"
    BY <1>0, <1>10 DEF Unadd, tables
  <2>. QED  BY <1>0, <2>1, MoneyFrame
<1>. QED  BY <1>1, <1>2, <1>3, <1>4, <1>5, <1>6, <1>7, <1>8, <1>9, <1>10 DEF InsertStep

LEMMA RefundMoney ==
  ASSUME Informed, NEW p \in Procs, RefundStep(p)
  PROVE  MoneyInv'
<1>0. /\ p \notin Payers /\ Others(p) /\ \A s \in spends : s.req \in Procs \ {p}
      /\ pc \in [Procs -> PC] /\ ledger \in [Procs -> {"none", "charged", "refunded"}]
      /\ req \in [Procs -> Procs]
  <2>1. p \notin Payers
    BY DEF RefundStep, List, Lookup, Refund, Mark, Delete, Forget, Unrow, Clear, Informed,
           PayersInsert, InsertOnly, Ended
  <2>. QED  BY <2>1, RefundOthers DEF Informed, TypeOK, TablesType, ControlType, LocalsType, Payers
<1>. USE DEF InHand
<1>1. CASE ~Refund(p) /\ ~Mark(p) /\ ~Lookup(p)
  <2>1. UNCHANGED <<ledger, spends, restarts>> /\ pc[p] # "mark"
    BY <1>1 DEF RefundStep, List, Delete, Forget, Unrow, Clear, tables
  <2>2. pc'[p] \notin {"refund", "mark"}
    BY <1>1, RefundOthers DEF Informed
  <2>. QED  BY <1>0, <2>1, <2>2, MoneyFrame
<1>2. CASE Lookup(p)
  <2>1. UNCHANGED <<ledger, spends, restarts>> /\ pc[p] = "lookup"
    BY <1>2 DEF Lookup, tables
  <2>2. pc'[p] # "mark"
    BY <1>2, <2>1, RefundOthers DEF Informed, Refund
  <2>3. pc'[p] = "refund" => \E s \in spends : s.req = req'[p]
    <3>1. CASE NotRefunded(p) /\ UNCHANGED req
      BY <3>1, NotRefundedOthers DEF Informed
    <3>2. ASSUME NEW s \in spends, req' = [req EXCEPT ![p] = s.req]
          PROVE  req'[p] = s.req
      BY <1>0, <3>2
    <3>. QED  BY <1>2, <3>1, <3>2 DEF Lookup
  <2>. QED  BY <1>0, <2>1, <2>2, <2>3, MoneyFrame
<1>3. CASE Refund(p)
  <2>. DEFINE r == req[p]
  <2>1. UNCHANGED <<spends, restarts, req>> /\ pc[p] = "refund"
    BY <1>3 DEF Refund, tables
  <2>2. PICK s0 \in spends : s0.req = r
    BY <2>1 DEF Informed, MoneyInv, AllInHand
  <2>3. r \in Payers /\ r # p /\ pc[r] \in Bought /\ pc'[r] = pc[r]
    BY <1>0, <2>2 DEF Informed, MoneyInv, SpendsFit, TypeOK, TablesType, Others
  <2>4. \/ ledger' = [ledger EXCEPT ![r] = "refunded"] /\ (pc'[p] = "mark" \/ May("lost_answer"))
        \/ UNCHANGED ledger /\ pc'[p] # "mark"
    <3>1. CASE Stay(p, "mark") /\ ledger' = [ledger EXCEPT ![r] = "refunded"]
      BY <1>0, <3>1 DEF Stay, Goto
    <3>2. CASE UNCHANGED ledger /\ (NotRefunded(p) \/ Raise(p))
      BY <2>1, <3>2, NotRefundedOthers, RaiseOthers DEF Informed
    <3>3. CASE May("lost_answer") /\ ledger' \in {ledger, [ledger EXCEPT ![r] = "refunded"]} /\ Raise(p)
      BY <2>1, <3>3, RaiseOthers DEF Informed
    <3>. QED  BY <1>3, <3>1, <3>2, <3>3 DEF Refund
  <2>5. \A q \in Procs : ledger'[q] = ledger[q] \/ (q = r /\ ledger'[q] = "refunded")
    BY <1>0, <2>4
  <2>6. AllFit'
    BY <1>0, <2>3, <2>5 DEF AllFit, Fits, Others, Informed, MoneyInv, Payers, Bought, Unspent, Holding
  <2>7. SpendsFit'
    BY <1>0, <2>1, <2>5 DEF SpendsFit, Others, Informed, MoneyInv
  <2>8. AllInHand'
    <3>1. InHand(p)'
      <4>1. pc'[p] # "mark" \/ ledger'[r] = "refunded"
        BY <1>0, <2>4
      <4>. QED  BY <2>1, <2>2, <4>1
    <3>2. \A q \in Procs \ {p} : InHand(q)'
      <4>1. \A q \in Procs : req[q] \in Procs
        BY <1>0
      <4>. QED  BY <1>0, <2>1, <2>5, <4>1 DEF AllInHand, Others, Informed, MoneyInv
    <3>. QED  BY <3>1, <3>2 DEF AllInHand
  <2>9. RefundRecorded'
    <3>1. \A q \in Procs : pc[q] = "mark" => pc'[q] = "mark" /\ req'[q] = req[q]
      BY <1>0, <2>1 DEF Others
    <3>2. ASSUME NEW s \in spends, s.req = r, ledger' = [ledger EXCEPT ![r] = "refunded"]
          PROVE  Settled(s)'
      BY <1>0, <2>1, <2>4, <3>1, <3>2 DEF Settled, RefundRecorded, Informed, MoneyInv
    <3>3. ASSUME NEW s \in spends, s.req # r \/ UNCHANGED ledger
          PROVE  Settled(s)'
      BY <1>0, <2>1, <2>4, <2>5, <3>1, <3>3 DEF Settled, RefundRecorded, Informed, MoneyInv
    <3>. QED  BY <2>1, <2>4, <3>2, <3>3 DEF RefundRecorded, Settled
  <2>. QED  BY <2>6, <2>7, <2>8, <2>9 DEF MoneyInv
<1>4. CASE Mark(p)
  <2>. DEFINE f(s) == IF s.req = req[p] THEN [s EXCEPT !.refunded = TRUE] ELSE s
  <2>1. UNCHANGED <<ledger, restarts, req>> /\ pc[p] = "mark" /\ spends' = {f(s) : s \in spends}
    BY <1>4 DEF Mark
  <2>2. \A s \in spends : f(s).req = s.req /\ f(s).refunded = (s.refunded \/ s.req = req[p])
    <3>1. TAKE s \in spends
    <3>2. s \in [req : Payers, uid : Uid, refunded : BOOLEAN]
      BY DEF Informed, TypeOK, TablesType
    <3>3. CASE s.req = req[p]
      <4>1. f(s) = [s EXCEPT !.refunded = TRUE]
        BY <3>3
      <4>. HIDE DEF f
      <4>2. f(s).req = s.req /\ f(s).refunded = TRUE
        BY <3>2, <4>1
      <4>. QED  BY <3>2, <3>3, <4>2
    <3>4. CASE s.req # req[p]
      <4>1. f(s) = s
        BY <3>4
      <4>. HIDE DEF f
      <4>. QED  BY <3>2, <3>4, <4>1
    <3>. QED  BY <3>3, <3>4
  <2>. HIDE DEF f
  <2>3. pc'[p] \notin {"refund", "mark"}
    BY <1>4, <2>1, RefundOthers DEF Informed, Lookup, Refund
  <2>4. ledger[req[p]] = "refunded"
    BY <2>1 DEF Informed, MoneyInv, AllInHand
  <2>5. AllFit'
    BY <1>0, <2>1 DEF AllFit, Fits, Others, Informed, MoneyInv, Payers
  <2>6. SpendsFit'
    BY <1>0, <2>1, <2>2 DEF SpendsFit, Others, Informed, MoneyInv
  <2>7. AllInHand'
    BY <1>0, <2>1, <2>2, <2>3 DEF AllInHand, Others, Informed, MoneyInv
  <2>8. ASSUME NEW t \in spends' PROVE Settled(t)'
    <3>1. PICK s \in spends : t.req = s.req /\ t.refunded = (s.refunded \/ s.req = req[p])
      BY <2>1, <2>2, <2>8
    <3>2. CASE s.req = req[p]
      BY <2>1, <2>4, <3>1, <3>2 DEF Settled
    <3>3. CASE s.req # req[p]
      <4>1. \A q \in Procs : pc[q] = "mark" /\ req[q] = s.req => pc'[q] = "mark" /\ req'[q] = s.req
        BY <1>0, <2>1, <3>3 DEF Others
      <4>2. Settled(s)
        BY DEF Settled, RefundRecorded, Informed, MoneyInv
      <4>. QED  BY <2>1, <3>1, <3>3, <4>1, <4>2 DEF Settled
    <3>. QED  BY <3>2, <3>3
  <2>9. RefundRecorded'
    BY <2>1, <2>8 DEF RefundRecorded, Settled
  <2>. QED  BY <2>5, <2>6, <2>7, <2>9 DEF MoneyInv
<1>. QED  BY <1>1, <1>2, <1>3, <1>4

LEMMA MoneyStep == Informed /\ [Next]_vars => MoneyInv'
<1>. SUFFICES ASSUME Informed, [Next]_vars PROVE MoneyInv'
  OBVIOUS
<1>. DEFINE Still == UNCHANGED <<ledger, spends, restarts, pc, req>>
<1>1. ASSUME Still PROVE MoneyInv'
  BY <1>1 DEF Informed, MoneyInv, AllFit, Fits, SpendsFit, AllInHand, InHand, RefundRecorded
<1>2. PollStep \/ (\E u \in 1 .. nextUid - 1 : Play(u)) \/ UNCHANGED vars => Still
  BY DEF PollStep, PollRead, PollError, PollPrune, PollUpsert, PollCommit, Play, vars, tables, locals
<1>3. CASE Restart
  <2>1. UNCHANGED <<ledger, spends, req>> /\ restarts' > 0
    BY <1>3 DEF Restart, locals, Informed, TypeOK, TablesType
  <2>2. \A q \in Procs : pc'[q] = IF pc[q] \in Ended \cup {"idle"} THEN pc[q] ELSE "raised"
    BY <1>3 DEF Restart
  <2>3. AllFit'
    BY <2>1, <2>2 DEF AllFit, Fits, Unspent, Holding, Ended, Informed, MoneyInv, Payers
  <2>4. SpendsFit'
    <3>1. \A s \in spends : s.req \in Procs
      BY DEF Informed, TypeOK, TablesType, Payers
    <3>. QED  BY <2>1, <2>2, <3>1 DEF SpendsFit, Bought, Ended, Informed, MoneyInv
  <2>5. AllInHand'
    BY <2>1, <2>2 DEF AllInHand, InHand, Ended
  <2>6. RefundRecorded'
    BY <2>1 DEF RefundRecorded, Informed, MoneyInv
  <2>. QED  BY <2>3, <2>4, <2>5, <2>6 DEF MoneyInv
<1>. QED  BY <1>1, <1>2, <1>3, InsertMoney, RefundMoney DEF Next

LEMMA InitMoney == Init => MoneyInv
BY DEF Init, MoneyInv, AllFit, Fits, SpendsFit, AllInHand, InHand, RefundRecorded, Unspent, Holding,
       Payers

LEMMA MoneyCorrect == Spec => []MoneyInv
<1>1. TypeOK /\ PayersInsert /\ MoneyInv /\ [Next]_vars => MoneyInv'
  BY MoneyStep DEF Informed
<1>. QED  BY <1>1, InitMoney, TypeCorrect, RecordedCorrect, PTL DEF Spec

\* The spend table never claims a refund the economy did not make, and misses
\* one only after a lost answer or a restart.
THEOREM RefundRecordedCorrect == Spec => []RefundRecorded
<1>1. MoneyInv => RefundRecorded
  BY DEF MoneyInv
<1>. QED  BY <1>1, MoneyCorrect, PTL

-----------------------------------------------------------------------------
(***************************************************************************)
(* PayQueue implements PaidSpend under the mapping of Money and Answer.    *)
(***************************************************************************)
MoneyFacts == Informed /\ Recorded

\* An answer is final.
LEMMA EndedStays ==
  ASSUME TypeOK, PayersInsert, [Next]_vars, NEW r \in Payers, pc[r] \in Ended
  PROVE  pc'[r] = pc[r]
<1>0. r \in Procs
  BY DEF Payers
<1>1. ~InsertStep(r)
  BY DEF InsertStep, Start, Spend, Anchor, Add, Move, Save, Insert, Row, Undo, Unadd, Ended
<1>2. ~RefundStep(r)
  BY DEF RefundStep, List, Lookup, Refund, Mark, Delete, Forget, Unrow, Clear, Ended
<1>3. ASSUME NEW q \in Procs \ {r}, InsertStep(q) \/ RefundStep(q) PROVE pc'[r] = pc[r]
  BY <1>0, <1>3, InsertOthers, RefundOthers DEF Others
<1>4. CASE PollStep \/ (\E u \in 1 .. nextUid - 1 : Play(u)) \/ UNCHANGED vars
  BY <1>4 DEF PollStep, PollRead, PollError, PollPrune, PollUpsert, PollCommit, Play, vars
<1>5. CASE Restart
  BY <1>0, <1>5 DEF Restart
<1>. QED  BY <1>1, <1>2, <1>3, <1>4, <1>5 DEF Next

Spent(r) == \E s \in spends : s.req = r

\* What one step may do to the money of a request.
LEMMA MoneyMoves ==
  ASSUME MoneyFacts, [Next]_vars, NEW r \in Payers
  PROVE  \/ ledger'[r] = ledger[r] /\ (Spent(r)' <=> Spent(r))
         \/ pc[r] = "save" /\ ledger[r] = "charged" /\ ledger'[r] = "charged" /\ ~Spent(r) /\ Spent(r)'
         \/ pc[r] = "spend" /\ ledger[r] = "none" /\ ledger'[r] \in {"none", "charged"} /\ ~Spent(r)
              /\ ~Spent(r)'
         \/ pc[r] = "undo" /\ ledger[r] = "charged" /\ ledger'[r] \in {"refunded", "charged"}
              /\ ~Spent(r) /\ ~Spent(r)'
         \/ ledger[r] \in {"charged", "refunded"} /\ ledger'[r] = "refunded" /\ Spent(r) /\ Spent(r)'
<1>. DEFINE Goal ==
         \/ ledger'[r] = ledger[r] /\ (Spent(r)' <=> Spent(r))
         \/ pc[r] = "save" /\ ledger[r] = "charged" /\ ledger'[r] = "charged" /\ ~Spent(r) /\ Spent(r)'
         \/ pc[r] = "spend" /\ ledger[r] = "none" /\ ledger'[r] \in {"none", "charged"} /\ ~Spent(r)
              /\ ~Spent(r)'
         \/ pc[r] = "undo" /\ ledger[r] = "charged" /\ ledger'[r] \in {"refunded", "charged"}
              /\ ~Spent(r) /\ ~Spent(r)'
         \/ ledger[r] \in {"charged", "refunded"} /\ ledger'[r] = "refunded" /\ Spent(r) /\ Spent(r)'
<1>0. /\ r \in Procs /\ Fits(r) /\ (pc[r] \notin Bought => ~Spent(r))
      /\ ledger \in [Procs -> {"none", "charged", "refunded"}]
  BY DEF Payers, MoneyFacts, Informed, MoneyInv, AllFit, SpendsFit, Spent, TypeOK
<1>1. CASE UNCHANGED <<ledger, spends>>
  BY <1>1 DEF Spent
<1>2. ASSUME NEW p \in Procs, Spend(p) PROVE Goal
  <2>1. UNCHANGED spends /\ pc[p] = "spend" /\ ledger' \in {ledger, [ledger EXCEPT ![p] = "charged"]}
    BY <1>2 DEF Spend, tables
  <2>2. p = r => ledger[r] = "none" /\ ~Spent(r)
    BY <1>0, <2>1 DEF Fits, Unspent, Bought
  <2>. QED  BY <1>0, <2>1, <2>2 DEF Spent
<1>3. ASSUME NEW p \in Procs, Undo(p) PROVE Goal
  <2>1. UNCHANGED spends /\ pc[p] = "undo" /\ ledger' \in {ledger, [ledger EXCEPT ![p] = "refunded"]}
    BY <1>3 DEF Undo, tables
  <2>2. p = r => ledger[r] = "charged" /\ ~Spent(r)
    BY <1>0, <2>1 DEF Fits, Holding, Bought
  <2>. QED  BY <1>0, <2>1, <2>2 DEF Spent
<1>4. ASSUME NEW p \in Procs, Save(p) PROVE Goal
  <2>. DEFINE new == [req |-> p, uid |-> uid[p], refunded |-> FALSE]
  <2>1. UNCHANGED ledger /\ pc[p] = "save" /\ spends' = spends \cup {new} /\ new.req = p
    BY <1>4 DEF Save
  <2>. HIDE DEF new
  <2>2. p = r => ledger[r] = "charged" /\ ~Spent(r)
    BY <1>0, <2>1 DEF Fits, Holding, Bought
  <2>. QED  BY <1>0, <2>1, <2>2 DEF Spent
<1>5. ASSUME NEW p \in Procs, Mark(p) PROVE Goal
  <2>. DEFINE f(s) == IF s.req = req[p] THEN [s EXCEPT !.refunded = TRUE] ELSE s
  <2>1. UNCHANGED ledger /\ spends' = {f(s) : s \in spends}
    BY <1>5 DEF Mark
  <2>2. \A s \in spends : f(s).req = s.req
    BY DEF MoneyFacts, Informed, TypeOK, TablesType
  <2>. HIDE DEF f
  <2>. QED  BY <2>1, <2>2 DEF Spent
<1>6. ASSUME NEW p \in Procs, Refund(p) PROVE Goal
  <2>1. UNCHANGED spends /\ pc[p] = "refund" /\ ledger' \in {ledger, [ledger EXCEPT ![req[p]] = "refunded"]}
    BY <1>6 DEF Refund, tables
  <2>2. r = req[p] => Spent(r)
    BY <2>1 DEF Spent, MoneyFacts, Informed, MoneyInv, AllInHand, InHand
  <2>3. Spent(r) => ledger[r] \in {"charged", "refunded"}
    BY <1>0 DEF Spent, MoneyFacts, Informed, MoneyInv, SpendsFit
  <2>. QED  BY <1>0, <2>1, <2>2, <2>3 DEF Spent
<1>7. ASSUME NEW p \in Procs, InsertStep(p), ~Spend(p), ~Undo(p), ~Save(p)
      PROVE  UNCHANGED <<ledger, spends>>
  BY <1>7 DEF InsertStep, Start, Anchor, Add, Move, Insert, Row, Unadd, tables
<1>8. ASSUME NEW p \in Procs, RefundStep(p), ~Mark(p), ~Refund(p)
      PROVE  UNCHANGED <<ledger, spends>>
  BY <1>8 DEF RefundStep, List, Lookup, Delete, Forget, Unrow, Clear, tables
<1>9. ASSUME PollStep \/ (\E u \in 1 .. nextUid - 1 : Play(u)) \/ Restart \/ UNCHANGED vars
      PROVE  UNCHANGED <<ledger, spends>>
  BY <1>9 DEF PollStep, PollRead, PollError, PollPrune, PollUpsert, PollCommit, Play, Restart, vars,
              tables
<1>. QED  BY <1>1, <1>2, <1>3, <1>4, <1>5, <1>6, <1>7, <1>8, <1>9 DEF Next

\* The answers a state allows: read off the invariants.
AnswerFits == \A r \in Payers : pc[r] \in Ended => Answer(r) \in Promise!Answers(Money(r))

LEMMA AnswersAllowed == MoneyFacts => AnswerFits
<1>. SUFFICES ASSUME MoneyFacts, NEW r \in Payers, pc[r] \in Ended
              PROVE  Answer(r) \in Promise!Answers(Money(r))
  BY DEF AnswerFits
<1>0. Fits(r) /\ (Spent(r) => pc[r] \in Bought /\ ledger[r] # "none")
      /\ ledger[r] \in {"none", "charged", "refunded"}
  BY DEF Payers, MoneyFacts, Informed, MoneyInv, AllFit, SpendsFit, Spent, TypeOK
<1>1. Money(r) = IF ledger[r] = "charged" /\ Spent(r) THEN "recorded" ELSE ledger[r]
  BY DEF Money, Spent
<1>2. CASE pc[r] = "done"
  <2>1. Spent(r)
    BY <1>2 DEF MoneyFacts, Recorded, HasSpend, Spent
  <2>. QED  BY <1>0, <1>1, <1>2, <2>1 DEF Answer, Promise!Answers
<1>3. CASE pc[r] = "failed"
  BY <1>0, <1>1, <1>3 DEF Answer, Promise!Answers, Fits, Bought
<1>4. CASE pc[r] = "raised"
  BY <1>4 DEF Answer, Promise!Answers
<1>. QED  BY <1>2, <1>3, <1>4 DEF Ended

LEMMA SettleStep ==
  ASSUME MoneyFacts, AnswerFits', [Next]_vars
  PROVE  Promise!Next
<1>. SUFFICES ASSUME NEW r \in Payers PROVE Promise!Settle(r)
  BY DEF Promise!Next
<1>1. /\ Money(r) = IF ledger[r] = "charged" /\ Spent(r) THEN "recorded" ELSE ledger[r]
      /\ Money(r)' = IF ledger'[r] = "charged" /\ Spent(r)' THEN "recorded" ELSE ledger'[r]
  BY DEF Money, Spent
<1>2. pc[r] \in Ended <=> Answer(r) # "open"
  BY DEF Answer, Ended
<1>3. pc'[r] \in Ended <=> Answer(r)' # "open"
  BY DEF Answer, Ended
<1>4. Money(r)' # Money(r) =>
        /\ <<Money(r), Money(r)'>> \in Promise!Moves
        /\ Money(r) \in {"none", "charged"} => Answer(r) = "open"
  BY <1>1, <1>2, MoneyMoves DEF Promise!Moves, Ended
<1>5. Answer(r)' # Answer(r) => Answer(r) = "open" /\ Answer(r)' \in Promise!Answers(Money(r)')
  <2>1. pc[r] \in Ended => Answer(r)' = Answer(r)
    BY EndedStays DEF MoneyFacts, Informed, Answer
  <2>2. pc'[r] \in Ended => Answer(r)' \in Promise!Answers(Money(r)')
    BY DEF AnswerFits, Promise!Answers
  <2>3. pc[r] \notin Ended /\ pc'[r] \notin Ended => Answer(r)' = Answer(r)
    BY <1>2, <1>3
  <2>. QED  BY <1>2, <2>1, <2>2, <2>3
<1>. QED  BY <1>4, <1>5 DEF Promise!Settle

LEMMA InitSettled == Init => Promise!Init
<1>. SUFFICES ASSUME Init PROVE Promise!Init
  OBVIOUS
<1>1. \A p \in Payers : Money(p) = "none" /\ Answer(p) = "open"
  BY DEF Init, Payers, Money, Answer
<1>. QED  BY <1>1 DEF Promise!Init

\* Each request is charged at most once, refunded at most once and only for
\* itself, answered once, and its answer fits its money.
THEOREM MoneyKeptCorrect == Spec => MoneyKept
<1>1. Spec => []MoneyFacts
  <2>1. TypeOK /\ PayersInsert /\ Recorded /\ MoneyInv => MoneyFacts
    BY DEF MoneyFacts, Informed
  <2>. QED  BY <2>1, TypeCorrect, RecordedCorrect, MoneyCorrect, PTL
<1>2. Spec => []AnswerFits
  BY <1>1, AnswersAllowed, PTL
<1>3. MoneyFacts /\ AnswerFits' /\ [Next]_vars => Promise!Next
  BY SettleStep
<1>. QED  BY <1>1, <1>2, <1>3, InitSettled, PTL DEF Spec, MoneyKept, Promise!Spec

\* No call, poll, failure or restart breaks the types or leaves a paid mark
\* without its spend (ordering.py:278, _queue.py:14).
THEOREM PaidSafeCorrect == Spec => []PaidSafe
  BY TypeCorrect, PaidBackedCorrect, PTL DEF PaidSafe

-----------------------------------------------------------------------------
(***************************************************************************)
(* Uids.  The playlist never holds one twice, and the uid an inserting     *)
(* call works on is its own: CyTube gave it to this call and to no other.  *)
(* A refunding call may hold the uid of any item.                          *)
(***************************************************************************)
Inserting == {"move", "save", "insert", "row", "unadd"}
Mine(p) == IF p \in Payers THEN uid[p] # NoUid ELSE pc[p] \in Inserting

Own == \A p \in Procs : Mine(p) => uid[p] < nextUid /\ \A q \in Payers \ {p} : uid[q] # uid[p]
Unset == \A p \in Payers : pc[p] \in {"idle", "spend", "anchor", "add"} => uid[p] = NoUid
SpendUids == \A s \in spends : s.uid = uid[s.req]

UidInv == Single(playlist) /\ Own /\ Unset /\ SpendUids

LEMMA PlaylistSteps ==
  ASSUME TypeOK, Single(playlist), [Next]_vars
  PROVE  /\ Single(playlist')
         /\ \A v : On(playlist', v) => On(playlist, v) \/ (v = nextUid /\ nextUid' = nextUid + 1)
         /\ nextUid' \in {nextUid, nextUid + 1}
<1>. DEFINE Goal == /\ Single(playlist')
                    /\ \A v : On(playlist', v) => On(playlist, v) \/ (v = nextUid /\ nextUid' = nextUid + 1)
                    /\ nextUid' \in {nextUid, nextUid + 1}
<1>. DEFINE S == 1 .. nextUid - 1
<1>0. playlist \in Seq(S) /\ nextUid \in Nat
  BY DEF TypeOK, CytubeType, Uid
<1>1. CASE UNCHANGED <<playlist, nextUid>>
  BY <1>1
<1>2. ASSUME NEW p \in Procs, Appended(p) PROVE Goal
  <2>. DEFINE new == Append(playlist, nextUid)
  <2>1. playlist' = new /\ nextUid' = nextUid + 1
    BY <1>2 DEF Appended
  <2>2. DOMAIN new = 1 .. Len(playlist) + 1 /\ DOMAIN playlist = 1 .. Len(playlist) /\ Len(playlist) \in Nat
    BY <1>0
  <2>3. \A i \in 1 .. Len(playlist) : new[i] = playlist[i] /\ playlist[i] # nextUid
    BY <1>0
  <2>4. new[Len(playlist) + 1] = nextUid
    BY <1>0
  <2>. HIDE DEF new
  <2>5. \A i \in DOMAIN new : i \in DOMAIN playlist \/ i = Len(playlist) + 1
    BY <2>2
  <2>6. Single(new)
    BY <2>2, <2>3, <2>4, <2>5 DEF Single
  <2>7. \A v : On(new, v) => On(playlist, v) \/ v = nextUid
    BY <2>2, <2>3, <2>4, <2>5 DEF On
  <2>. QED  BY <2>1, <2>6, <2>7
<1>3. ASSUME NEW u, playlist' = Without(playlist, u), UNCHANGED nextUid PROVE Goal
  BY <1>0, <1>3, WithoutKeeps
<1>4. ASSUME NEW u, NEW t, playlist' = MovedAfter(playlist, u, t), UNCHANGED nextUid PROVE Goal
  BY <1>0, <1>4, MovedAfterKeeps
<1>5. ASSUME playlist' = <<>>, UNCHANGED nextUid PROVE Goal
  BY <1>5 DEF Single, On
<1>6. ASSUME NEW p \in Procs, InsertStep(p), ~Add(p), ~Move(p), ~Unadd(p) PROVE UNCHANGED <<playlist, nextUid>>
  BY <1>6 DEF InsertStep, Start, Spend, Anchor, Save, Insert, Row, Undo, cytube
<1>7. ASSUME NEW p \in Procs, Add(p) PROVE Goal
  BY <1>1, <1>2, <1>7 DEF Add, cytube
<1>8. ASSUME NEW p \in Procs, Move(p) PROVE Goal
  BY <1>1, <1>4, <1>8 DEF Move
<1>9. ASSUME NEW p \in Procs, Unadd(p) \/ Delete(p) PROVE Goal
  BY <1>1, <1>3, <1>9 DEF Unadd, Delete, Deleted, cytube
<1>10. ASSUME NEW p \in Procs, Clear(p) PROVE Goal
  BY <1>1, <1>5, <1>10 DEF Clear
<1>11. ASSUME NEW p \in Procs, RefundStep(p), ~Delete(p), ~Clear(p) PROVE UNCHANGED <<playlist, nextUid>>
  BY <1>11 DEF RefundStep, List, Lookup, Refund, Mark, Forget, Unrow, cytube
<1>12. ASSUME NEW u, Play(u) PROVE Goal
  BY <1>1, <1>3, <1>12 DEF Play
<1>13. ASSUME PollStep \/ Restart \/ UNCHANGED vars PROVE UNCHANGED <<playlist, nextUid>>
  BY <1>13 DEF PollStep, PollRead, PollError, PollPrune, PollUpsert, PollCommit, Restart, vars, cytube
<1>. HIDE DEF Goal
<1>14. Goal
  BY <1>1, <1>6, <1>7, <1>8, <1>9, <1>10, <1>11, <1>12, <1>13 DEF Next, Goal
<1>. QED  BY <1>14 DEF Goal

\* What a step does to the uid of a call.
UidMove(q) ==
  \/ uid'[q] = uid[q] /\ (Mine(q)' => Mine(q))
  \/ uid'[q] = NoUid /\ ~Mine(q)'
  \/ uid'[q] = nextUid /\ nextUid' = nextUid + 1 /\ \A r \in Procs \ {q} : uid'[r] = uid[r]
  \/ q \notin Payers /\ ~Mine(q)'

LEMMA UidMoves ==
  ASSUME TypeOK, PayersInsert, [Next]_vars, NEW q \in Procs
  PROVE  /\ UidMove(q)
         /\ q \in Payers /\ pc[q] \notin {"anchor", "add"} => uid'[q] = uid[q]
<1>. DEFINE Goal == /\ UidMove(q)
                    /\ q \in Payers /\ pc[q] \notin {"anchor", "add"} => uid'[q] = uid[q]
<1>a. Mine(q) => q \in Payers \/ pc[q] \in Inserting
  BY DEF Mine
<1>b. ASSUME uid'[q] = uid[q], pc'[q] \in Inserting => pc[q] \in Inserting PROVE Goal
  BY <1>b DEF UidMove, Mine
<1>c. ASSUME uid'[q] = uid[q], q \in Payers \/ pc'[q] \notin Inserting PROVE Goal
  BY <1>c DEF UidMove, Mine
<1>1. CASE InsertStep(q)
  <2>. USE <1>1 DEF Stay, End, Goto, TypeOK, ControlType, LocalsType, Inserting, locals
  <2>1. CASE Start(q)
    BY <1>c, <2>1 DEF Start
  <2>2. CASE Spend(q)
    BY <1>c, <2>2 DEF Spend
  <2>3. CASE Anchor(q)
    <3>1. uid'[q] = NoUid /\ pc'[q] \notin Inserting /\ pc[q] = "anchor"
      BY <2>3 DEF Anchor
    <3>. QED  BY <3>1 DEF UidMove, Mine
  <2>4. CASE Add(q)
    <3>1. CASE Appended(q) /\ uid' = [uid EXCEPT ![q] = nextUid]
      BY <2>4, <3>1 DEF Add, Appended, UidMove
    <3>2. CASE UNCHANGED uid /\ pc'[q] \notin Inserting
      BY <1>c, <3>2
    <3>. QED  BY <2>4, <3>1, <3>2 DEF Add
  <2>5. CASE Move(q)
    BY <1>b, <2>5 DEF Move
  <2>6. CASE Save(q)
    BY <1>b, <2>6 DEF Save
  <2>7. CASE Insert(q)
    BY <1>b, <2>7 DEF Insert
  <2>8. CASE Row(q)
    BY <1>c, <2>8 DEF Row
  <2>9. CASE Undo(q)
    <3>1. uid'[q] = uid[q] /\ pc[q] = "undo" /\ pc'[q] \in {"failed", "unadd"}
      BY <2>9 DEF Undo
    <3>. QED  BY <3>1, <2>9, <1>c
  <2>10. CASE Unadd(q)
    BY <1>c, <2>10 DEF Unadd
  <2>. QED  BY <1>1, <2>1, <2>2, <2>3, <2>4, <2>5, <2>6, <2>7, <2>8, <2>9, <2>10 DEF InsertStep
<1>2. CASE RefundStep(q)
  <2>1. q \notin Payers
    <3>1. pc[q] \in {"list", "lookup", "refund", "mark", "delete", "forget", "unrow", "clear"}
      BY <1>2 DEF RefundStep, List, Lookup, Refund, Mark, Delete, Forget, Unrow, Clear
    <3>. QED  BY <3>1 DEF PayersInsert, InsertOnly, Ended
  <2>2. pc'[q] \notin Inserting
    BY <1>2, RefundOthers DEF Inserting
  <2>. QED  BY <2>1, <2>2 DEF UidMove, Mine
<1>3. ASSUME NEW p \in Procs \ {q}, InsertStep(p) \/ RefundStep(p) PROVE Goal
  <2>1. pc'[q] = pc[q] /\ uid'[q] = uid[q]
    BY <1>3, InsertOthers, RefundOthers DEF Others
  <2>. QED  BY <2>1, <1>b
<1>4. CASE PollStep \/ (\E u \in 1 .. nextUid - 1 : Play(u)) \/ UNCHANGED vars
  <2>1. UNCHANGED <<pc, uid>>
    BY <1>4 DEF PollStep, PollRead, PollError, PollPrune, PollUpsert, PollCommit, Play, vars, locals
  <2>. QED  BY <2>1, <1>b
<1>5. CASE Restart
  <2>1. UNCHANGED uid /\ pc'[q] \notin Inserting
    BY <1>5 DEF Restart, locals, Inserting, Ended, TypeOK, ControlType
  <2>. QED  BY <2>1, <1>c
<1>. HIDE DEF Goal
<1>6. Goal
  BY <1>1, <1>2, <1>3, <1>4, <1>5 DEF Next, Goal
<1>. QED  BY <1>6 DEF Goal

LEMMA OwnStep == TypeOK /\ PayersInsert /\ Own /\ [Next]_vars => Own'
<1>. SUFFICES ASSUME TypeOK, PayersInsert, Own, [Next]_vars, NEW p \in Procs, Mine(p)'
              PROVE  uid'[p] < nextUid' /\ \A q \in Payers \ {p} : uid'[q] # uid'[p]
  BY DEF Own, Payers
<1>0. /\ nextUid \in Nat /\ nextUid' \in Nat /\ nextUid' \in {nextUid, nextUid + 1} /\ NoUid \notin Uid
      /\ nextUid > 0
  <2>1. nextUid' \in {nextUid, nextUid + 1}
    <3>1. ASSUME NEW q \in Procs, InsertStep(q) PROVE nextUid' \in {nextUid, nextUid + 1}
      BY <3>1 DEF InsertStep, Start, Spend, Anchor, Add, Appended, Move, Save, Insert, Row, Undo, Unadd, Deleted, cytube
    <3>2. ASSUME NEW q \in Procs, RefundStep(q) PROVE UNCHANGED nextUid
      BY <3>2 DEF RefundStep, List, Lookup, Refund, Mark, Delete, Deleted, Forget, Unrow, Clear, cytube
    <3>3. ASSUME PollStep \/ (\E u \in 1 .. nextUid - 1 : Play(u)) \/ Restart \/ UNCHANGED vars PROVE UNCHANGED nextUid
      BY <3>3 DEF PollStep, PollRead, PollError, PollPrune, PollUpsert, PollCommit, Play, Restart, vars, cytube
    <3>. QED  BY <3>1, <3>2, <3>3 DEF Next
  <2>2. nextUid \in Nat \ {0}
    BY DEF TypeOK, CytubeType, Uid
  <2>3. NoUid \notin Uid
    BY PayQueueAssumption
  <2>. QED  BY <2>1, <2>2, <2>3
<1>1. \A q \in Procs : Mine(q) => uid[q] \in Uid /\ uid[q] < nextUid
  BY DEF Own, Mine, TypeOK, ControlType, LocalsType, Inserting, HasUid
<1>2. \A q \in Payers : q \in Procs /\ UidMove(q) /\ (uid[q] # NoUid => Mine(q)) /\ (Mine(q)' <=> uid'[q] # NoUid)
  BY UidMoves DEF Payers, Mine
<1>3. CASE uid'[p] = uid[p] /\ Mine(p)
  <2>1. uid[p] \in Uid /\ uid[p] < nextUid /\ \A q \in Payers \ {p} : uid[q] # uid[p]
    BY <1>1, <1>3 DEF Own
  <2>2. ASSUME NEW q \in Payers \ {p} PROVE uid'[q] # uid[p]
    <3>1. uid'[q] \in {uid[q], NoUid, nextUid}
      BY <1>2 DEF UidMove
    <3>2. uid[p] # NoUid /\ uid[p] # nextUid
      BY <1>0, <2>1 DEF Uid
    <3>. QED  BY <2>1, <3>1, <3>2
  <2>. QED  BY <1>0, <1>3, <2>1, <2>2 DEF Uid
<1>4. CASE uid'[p] = nextUid /\ nextUid' = nextUid + 1 /\ \A r \in Procs \ {p} : uid'[r] = uid[r]
  <2>1. ASSUME NEW q \in Payers \ {p} PROVE uid[q] # nextUid
    <3>1. uid[q] = NoUid \/ (uid[q] \in Uid /\ uid[q] < nextUid)
      BY <1>1, <1>2
    <3>. QED  BY <1>0, <3>1 DEF Uid
  <2>. QED  BY <1>0, <1>2, <1>4, <2>1
<1>5. UidMove(p)
  BY UidMoves
<1>. QED  BY <1>3, <1>4, <1>5 DEF UidMove

LEMMA UnsetStep == TypeOK /\ PayersInsert /\ Unset /\ [Next]_vars => Unset'
<1>. SUFFICES ASSUME TypeOK, PayersInsert, Unset, [Next]_vars, NEW p \in Payers,
                     pc'[p] \in {"idle", "spend", "anchor", "add"}
              PROVE  uid'[p] = NoUid
  BY DEF Unset
<1>0. p \in Procs /\ (pc[p] \in {"idle", "spend", "anchor", "add"} => uid[p] = NoUid)
  BY DEF Payers, Unset
<1>1. CASE InsertStep(p)
  <2>. USE <1>1, <1>0 DEF Stay, End, Goto, TypeOK, ControlType, LocalsType, locals
  <2>1. Start(p) => uid'[p] = NoUid
    BY DEF Start
  <2>2. Spend(p) => uid'[p] = NoUid
    BY DEF Spend
  <2>3. Anchor(p) => uid'[p] = NoUid
    BY DEF Anchor
  <2>4. ~(Add(p) \/ Move(p) \/ Save(p) \/ Insert(p) \/ Row(p) \/ Undo(p) \/ Unadd(p))
    BY DEF Add, Move, Save, Insert, Row, Undo, Unadd
  <2>. QED  BY <2>1, <2>2, <2>3, <2>4 DEF InsertStep
<1>2. CASE RefundStep(p)
  <2>1. pc[p] \in {"list", "lookup", "refund", "mark", "delete", "forget", "unrow", "clear"}
    BY <1>2 DEF RefundStep, List, Lookup, Refund, Mark, Delete, Forget, Unrow, Clear
  <2>. QED  BY <2>1 DEF PayersInsert, InsertOnly, Ended
<1>3. ASSUME NEW q \in Procs \ {p}, InsertStep(q) \/ RefundStep(q) PROVE pc'[p] = pc[p] /\ uid'[p] = uid[p]
  BY <1>0, <1>3, InsertOthers, RefundOthers DEF Others
<1>4. CASE PollStep \/ (\E u \in 1 .. nextUid - 1 : Play(u)) \/ UNCHANGED vars
  BY <1>0, <1>4 DEF PollStep, PollRead, PollError, PollPrune, PollUpsert, PollCommit, Play, vars, locals
<1>5. CASE Restart
  BY <1>0, <1>5 DEF Restart, locals, Ended, TypeOK, ControlType
<1>. QED  BY <1>0, <1>1, <1>2, <1>3, <1>4, <1>5 DEF Next

\* A spend row is written by the call that paid, and changed by Mark only.
LEMMA SpendsCome ==
  ASSUME TypeOK, [Next]_vars, NEW s \in spends'
  PROVE  \/ \E t \in spends : /\ s.req = t.req /\ s.uid = t.uid
                              /\ s.refunded = t.refunded \/ \E p \in Procs : Mark(p) /\ req[p] = t.req
         \/ \E p \in Procs : Save(p) /\ s.req = p /\ s.uid = uid[p] /\ ~s.refunded
<1>1. CASE UNCHANGED spends
  BY <1>1
<1>2. ASSUME NEW p \in Procs, Save(p), s \notin spends
      PROVE  s.req = p /\ s.uid = uid[p] /\ ~s.refunded
  <2>1. s = [req |-> p, uid |-> uid[p], refunded |-> FALSE]
    BY <1>2 DEF Save
  <2>. QED  BY <2>1
<1>3. ASSUME NEW p \in Procs, Mark(p)
      PROVE  \E t \in spends : s.req = t.req /\ s.uid = t.uid /\ (s.refunded = t.refunded \/ req[p] = t.req)
  <2>1. PICK t \in spends : s = IF t.req = req[p] THEN [t EXCEPT !.refunded = TRUE] ELSE t
    BY <1>3 DEF Mark
  <2>2. t \in [req : Payers, uid : Uid, refunded : BOOLEAN]
    BY DEF TypeOK, TablesType
  <2>3. s.req = t.req /\ s.uid = t.uid /\ (s.refunded = t.refunded \/ req[p] = t.req)
    BY <2>1, <2>2
  <2>. QED  BY <2>3
<1>4. ASSUME NEW p \in Procs, InsertStep(p), ~Save(p)
      PROVE  UNCHANGED spends
  BY <1>4 DEF InsertStep, Start, Spend, Anchor, Add, Move, Insert, Row, Undo, Unadd, tables
<1>5. ASSUME NEW p \in Procs, RefundStep(p), ~Mark(p)
      PROVE  UNCHANGED spends
  BY <1>5 DEF RefundStep, List, Lookup, Refund, Delete, Forget, Unrow, Clear, tables
<1>6. ASSUME PollStep PROVE UNCHANGED spends
  BY <1>6 DEF PollStep, PollRead, PollError, PollPrune, PollUpsert, PollCommit, tables
<1>7. ASSUME (\E u \in 1 .. nextUid - 1 : Play(u)) \/ Restart \/ UNCHANGED vars
      PROVE  UNCHANGED spends
  BY <1>7 DEF Play, Restart, vars, tables
<1>8. s \in spends => \E t \in spends : s.req = t.req /\ s.uid = t.uid /\ s.refunded = t.refunded
  OBVIOUS
<1>9. CASE \E p \in Procs : InsertStep(p)
  BY <1>2, <1>4, <1>8, <1>9
<1>10. CASE \E p \in Procs : RefundStep(p)
  BY <1>3, <1>5, <1>8, <1>10
<1>. QED  BY <1>6, <1>7, <1>8, <1>9, <1>10 DEF Next

LEMMA SpendUidsStep == Informed /\ SpendUids /\ [Next]_vars => SpendUids'
<1>. SUFFICES ASSUME Informed, SpendUids, [Next]_vars, NEW s \in spends'
              PROVE  s.uid = uid'[s.req]
  BY DEF SpendUids
<1>0. TypeOK /\ PayersInsert
  BY DEF Informed
<1>1. ASSUME NEW t \in spends, s.req = t.req, s.uid = t.uid PROVE s.uid = uid'[s.req]
  <2>1. t.req \in Payers /\ t.req \in Procs /\ t.uid = uid[t.req]
    BY <1>0 DEF SpendUids, TypeOK, TablesType, Payers
  <2>2. pc[t.req] \notin {"anchor", "add"}
    BY DEF Informed, MoneyInv, SpendsFit, Bought
  <2>3. uid'[t.req] = uid[t.req]
    BY <1>0, <2>1, <2>2, UidMoves
  <2>. QED  BY <1>1, <2>1, <2>3
<1>2. ASSUME NEW p \in Procs, Save(p), s.req = p, s.uid = uid[p] PROVE s.uid = uid'[s.req]
  BY <1>2 DEF Save, locals
<1>. QED  BY <1>0, <1>1, <1>2, SpendsCome

LEMMA InitUid == Init => UidInv
<1>. SUFFICES ASSUME Init PROVE UidInv
  OBVIOUS
<1>1. Len(InitMedia) \in Nat
  OBVIOUS
<1>2. Single(playlist)
  BY <1>1 DEF Init, Single
<1>3. \A p \in Procs : ~Mine(p)
  BY DEF Init, Mine, Inserting
<1>. QED  BY <1>2, <1>3 DEF Init, UidInv, Own, Unset, SpendUids, Payers

LEMMA UidCorrect == Spec => []UidInv
<1>1. Informed /\ UidInv /\ [Next]_vars => UidInv'
  BY PlaylistSteps, OwnStep, UnsetStep, SpendUidsStep DEF Informed, UidInv
<1>2. Spec => []Informed
  <2>1. TypeOK /\ PayersInsert /\ Recorded /\ MoneyInv => Informed
    BY DEF Informed
  <2>. QED  BY <2>1, TypeCorrect, RecordedCorrect, MoneyCorrect, PTL
<1>. QED  BY <1>1, <1>2, InitUid, PTL DEF Spec

-----------------------------------------------------------------------------
(***************************************************************************)
(* Errors are free.  The money is Fits; that the item is gone needs that   *)
(* a uid once off the playlist never comes back.                           *)
(***************************************************************************)
Gone(p) == pc[p] = "failed" /\ uid[p] # NoUid /\ On(playlist, uid[p]) => May("delete_refused")
AllGone == \A p \in Payers : Gone(p)

LEMMA GoneStep == TypeOK /\ PayersInsert /\ UidInv /\ AllGone /\ [Next]_vars => AllGone'
<1>. SUFFICES ASSUME TypeOK, PayersInsert, UidInv, AllGone, [Next]_vars, NEW p \in Payers,
                     pc'[p] = "failed", uid'[p] # NoUid, On(playlist', uid'[p]), ~May("delete_refused")
              PROVE  FALSE
  BY DEF AllGone, Gone, May
<1>0. p \in Procs
  BY DEF Payers
<1>1. CASE pc[p] = "failed"
  <2>1. uid'[p] = uid[p]
    BY <1>0, <1>1, UidMoves
  <2>2. uid[p] \in Uid /\ nextUid \in Uid /\ uid[p] < nextUid
    BY <1>0, <2>1 DEF UidInv, Own, Mine, TypeOK, LocalsType, CytubeType
  <2>3. On(playlist, uid[p])
    <3>1. On(playlist, uid[p]) \/ uid[p] = nextUid
      BY <2>1, PlaylistSteps DEF UidInv
    <3>. QED  BY <2>2, <3>1 DEF Uid
  <2>. QED  BY <1>1, <2>1, <2>3 DEF AllGone, Gone
<1>2. CASE pc[p] # "failed" /\ InsertStep(p)
  <2>. USE <1>0, <1>2 DEF Stay, End, Goto, TypeOK, ControlType, LocalsType, locals, Payers
  <2>1. ~Spend(p)
    BY DEF Spend, UidInv, Unset
  <2>2. ~Undo(p)
    BY DEF Undo
  <2>3. ~Unadd(p)
    <3>1. Unadd(p) => playlist' = Without(playlist, uid[p]) /\ UNCHANGED uid
      BY DEF Unadd, Deleted
    <3>. QED  BY <3>1, WithoutKeeps DEF UidInv, CytubeType
  <2>4. ~(Start(p) \/ Anchor(p) \/ Save(p) \/ Insert(p) \/ Row(p))
    BY DEF Start, Anchor, Save, Insert, Row
  <2>5. ~(Add(p) \/ Move(p))
    BY DEF Add, Move
  <2>. QED  BY <2>1, <2>2, <2>3, <2>4, <2>5 DEF InsertStep
<1>3. CASE RefundStep(p)
  <2>1. pc'[p] # "failed"
    BY <1>0, <1>3, RefundOthers
  <2>. QED  BY <2>1
<1>4. ASSUME pc[p] # "failed", NEW q \in Procs \ {p}, InsertStep(q) \/ RefundStep(q) PROVE FALSE
  BY <1>0, <1>4, InsertOthers, RefundOthers DEF Others
<1>5. CASE pc[p] # "failed" /\ (PollStep \/ (\E u \in 1 .. nextUid - 1 : Play(u)) \/ UNCHANGED vars)
  BY <1>5 DEF PollStep, PollRead, PollError, PollPrune, PollUpsert, PollCommit, Play, vars
<1>6. CASE pc[p] # "failed" /\ Restart
  BY <1>0, <1>6 DEF Restart
<1>. QED  BY <1>0, <1>1, <1>2, <1>3, <1>4, <1>5, <1>6 DEF Next

\* A caller that is told of an error has paid nothing and left nothing on the
\* playlist, unless the refund or the delete that compensates is itself refused
\* (the compensation of ordering.py).
THEOREM ErrorIsFreeCorrect == Spec => []ErrorIsFree
<1>1. Init => AllGone
  BY DEF Init, AllGone, Gone, Payers
<1>2. TypeOK /\ PayersInsert /\ UidInv /\ AllGone /\ [Next]_vars => AllGone'
  BY GoneStep
<1>3. MoneyInv /\ AllGone => ErrorIsFree
  BY DEF MoneyInv, AllFit, Fits, AllGone, Gone, ErrorIsFree
<1>. QED  BY <1>1, <1>2, <1>3, TypeCorrect, RecordedCorrect, MoneyCorrect, UidCorrect, PTL DEF Spec

-----------------------------------------------------------------------------
(***************************************************************************)
(* The mirror.  MirrorDurable speaks of the moments when nobody is inside  *)
(* a shadow operation.  The invariant says, for each holder of the lock    *)
(* and each point it may be at, how far the table is behind the shadow:    *)
(* the one uid of an insert or a removal, or the uids a poll has not yet   *)
(* dealt with.                                                             *)
(***************************************************************************)
Uids(set) == {e.uid : e \in set}
Keyed(table) == \A r, q \in table : r.uid = q.uid => r = q
Polled == {snap[i] : i \in DOMAIN snap}

\* Every paid mark of the list for one of these uids is in the table.
Carried(list, table, ids) ==
  \A e \in list : Paid(e) /\ e.uid \in ids => Marks(table, e.uid, e.by)

Locks ==
  /\ \A p \in Procs : pc[p] \in {"row", "unrow"} <=> shadowLock = p
  /\ ppc \in {"upsert", "commit"} <=> shadowLock = "poller"

Behind ==
  /\ shadowLock = NoProc => Uids(items) = Uids(rows) /\ Carried(items, rows, Uid)
  /\ \A p \in Procs : pc[p] = "row" =>
       Uids(items) = Uids(rows) \cup {uid[p]} /\ Carried(items, rows, Uid \ {uid[p]})
  /\ \A p \in Procs : pc[p] = "unrow" =>
       Uids(items) = Uids(rows) \ {uid[p]} /\ Carried(items, rows, Uid)
  /\ ppc = "upsert" => Uids(rows) = Uids(items) \cap Polled /\ Carried(items, rows, Polled)
  /\ ppc = "commit" => Uids(rows) = Polled /\ Carried(items, rows, Polled)

MirrorInv == Locks /\ Behind /\ Keyed(rows) /\ Single(snap)

\* What the operators do to the uids and to the marks.
LEMMA ShadowInsertUids ==
  ASSUME NEW list, list \subseteq Entry, NEW u, NEW who, NEW i \in Nat
  PROVE  Uids(ShadowInsert(list, u, who, i)) = Uids(list) \cup {u}
<1>. DEFINE new == [uid |-> u, at |-> i, pos |-> i, by |-> who]
            At(e) == IF e.at >= i THEN e.at + 1 ELSE e.at
            f(e) == Placed(e, At(e))
<1>1. ShadowInsert(list, u, who, i) = {f(e) : e \in list} \cup {new} /\ new.uid = u
  BY DEF ShadowInsert
<1>2. \A e \in list : f(e).uid = e.uid
  <2>1. \A e \in list : At(e) \in Nat
    BY DEF Entry
  <2>. HIDE DEF At
  <2>. QED  BY <2>1, PlacedType
<1>. HIDE DEF new, f
<1>. QED  BY <1>1, <1>2 DEF Uids

LEMMA ShadowRemoveUids ==
  ASSUME NEW list, list \subseteq Entry, IsFiniteSet(list), NEW u
  PROVE  Uids(ShadowRemove(list, u)) = Uids(list) \ {u}
<1>. DEFINE kept == {e \in list : e.uid # u}
            At(e) == Cardinality({g \in kept : g.at < e.at})
            f(e) == Placed(e, At(e))
<1>1. ShadowRemove(list, u) = {f(e) : e \in kept}
  BY DEF ShadowRemove
<1>2. \A e \in kept : f(e).uid = e.uid
  <2>1. \A e \in kept : IsFiniteSet({g \in kept : g.at < e.at})
    BY FS_Subset
  <2>2. \A e \in kept : At(e) \in Nat
    BY <2>1, FS_CardinalityType
  <2>. HIDE DEF At
  <2>. QED  BY <2>2, PlacedType
<1>. HIDE DEF f
<1>. QED  BY <1>1, <1>2 DEF Uids

LEMMA ReconciledUids ==
  ASSUME NEW list, NEW polled
  PROVE  Uids(Reconciled(list, polled)) = {polled[i] : i \in DOMAIN polled}
<1>. DEFINE f(i) == [uid |-> polled[i], at |-> i - 1, pos |-> i - 1,
                     by |-> IF Known(list, polled[i]) THEN LocalEntry(list, polled[i]).by ELSE NoUser]
<1>1. Reconciled(list, polled) = {f(i) : i \in DOMAIN polled} /\ \A i : f(i).uid = polled[i]
  BY DEF Reconciled
<1>. HIDE DEF f
<1>. QED  BY <1>1 DEF Uids

LEMMA LoadedUids ==
  ASSUME NEW table
  PROVE  Uids(Loaded(table)) = Uids(table)
<1>. DEFINE f(r) == [uid |-> r.uid, pos |-> r.pos, by |-> r.by,
                     at |-> Cardinality({q \in table : q.pos < r.pos \/ (q.pos = r.pos /\ q.uid < r.uid)})]
<1>1. Loaded(table) = {f(r) : r \in table} /\ \A r : f(r).uid = r.uid
  BY DEF Loaded
<1>. HIDE DEF f
<1>. QED  BY <1>1 DEF Uids

\* The table after a poll: rows of known uids stay with their marks, a fresh
\* uid gets one unpaid row.
LEMMA ReconciledRowsUids ==
  ASSUME NEW table, table \subseteq Record, NEW list, NEW polled
  PROVE  LET new == ReconciledRows(table, list, polled)
         IN  /\ Keyed(table) /\ Single(polled) => Keyed(new)
             /\ \A r \in table : Known(list, r.uid) => Marks(new, r.uid, r.by)
             /\ \A i \in DOMAIN polled : ~Known(list, polled[i]) => polled[i] \in Uids(new)
             /\ \A e \in new : \/ Marks(table, e.uid, e.by)
                               \/ ~Known(list, e.uid) /\ e.uid \in {polled[i] : i \in DOMAIN polled}
<1>. DEFINE fresh == {i \in DOMAIN polled : ~Known(list, polled[i])}
            moved == {i \in DOMAIN polled \ fresh : LocalEntry(list, polled[i]).pos # i - 1}
            At(r) == {i \in moved : polled[i] = r.uid}
            f(r) == IF At(r) = {} THEN r ELSE [r EXCEPT !.pos = (CHOOSE i \in At(r) : TRUE) - 1]
            g(i) == [uid |-> polled[i], pos |-> i - 1, by |-> NoUser]
            kept == {r \in table : \A i \in fresh : polled[i] # r.uid}
            new == {f(r) : r \in kept} \cup {g(i) : i \in fresh}
<1>1. ReconciledRows(table, list, polled) = new
  BY DEF ReconciledRows
<1>2. \A r \in table : f(r).uid = r.uid /\ f(r).by = r.by
  BY DEF Record
<1>3. \A i \in fresh : g(i).uid = polled[i]
  OBVIOUS
<1>. HIDE DEF f, g
<1>4. ASSUME Keyed(table), Single(polled), NEW d \in new, NEW e \in new, d.uid = e.uid
      PROVE  d = e
  <2>1. ASSUME NEW r \in kept, NEW q \in kept, d = f(r), e = f(q) PROVE d = e
    <3>1. r \in table /\ q \in table /\ r.uid = q.uid
      BY <1>2, <1>4, <2>1
    <3>2. r = q
      BY <1>4, <3>1 DEF Keyed
    <3>. QED  BY <2>1, <3>2
  <2>2. ASSUME NEW i \in fresh, NEW j \in fresh, d = g(i), e = g(j) PROVE d = e
    <3>1. polled[i] = polled[j] /\ i \in DOMAIN polled /\ j \in DOMAIN polled
      BY <1>3, <1>4, <2>2
    <3>2. i = j
      BY <1>4, <3>1 DEF Single
    <3>. QED  BY <2>2, <3>2
  <2>3. ASSUME NEW r \in kept, NEW i \in fresh PROVE f(r).uid # g(i).uid
    BY <1>2, <1>3
  <2>. QED  BY <1>4, <2>1, <2>2, <2>3
<1>5. ASSUME NEW r \in table, Known(list, r.uid) PROVE Marks(new, r.uid, r.by)
  <2>1. r \in kept
    BY <1>5
  <2>. QED  BY <1>2, <2>1 DEF Marks
<1>6. \A i \in fresh : polled[i] \in Uids(new)
  BY <1>3 DEF Uids
<1>7. ASSUME NEW e \in new
      PROVE  Marks(table, e.uid, e.by) \/ (~Known(list, e.uid) /\ e.uid \in {polled[i] : i \in DOMAIN polled})
  <2>1. ASSUME NEW r \in kept, e = f(r) PROVE Marks(table, e.uid, e.by)
    BY <1>2, <2>1 DEF Marks
  <2>2. ASSUME NEW i \in fresh, e = g(i) PROVE ~Known(list, e.uid) /\ e.uid \in {polled[j] : j \in DOMAIN polled}
    BY <1>3, <2>2
  <2>. QED  BY <2>1, <2>2
<1>. QED  BY <1>1, <1>4, <1>5, <1>6, <1>7 DEF Keyed

\* The only paid mark an inserted uid can have is its own call's.
Grounds == Informed /\ UidInv /\ PaidBacked

LEMMA OwnMark ==
  ASSUME Grounds, NEW p \in Procs, pc[p] \in {"insert", "row"},
         NEW e \in items \cup rows, Paid(e), e.uid = uid[p]
  PROVE  e.by = PaidBy(p)
<1>1. PICK s \in spends : s.uid = e.uid /\ Owner[s.req] = e.by
  BY DEF Grounds, PaidBacked, Backed
<1>2. s.req \in Payers /\ uid[s.req] = uid[p]
  BY <1>1 DEF Grounds, UidInv, SpendUids, Informed, TypeOK, TablesType
<1>3. Mine(p)
  BY DEF Mine, Inserting, Grounds, Informed, TypeOK, ControlType, HasUid
<1>4. s.req = p
  BY <1>2, <1>3 DEF Grounds, UidInv, Own
<1>. QED  BY <1>1, <1>2, <1>4 DEF PaidBy, Payers

\* Steps outside the shadow operations leave the mirror alone.
LEMMA MirrorFrame ==
  ASSUME MirrorInv, UNCHANGED <<items, rows, shadowLock>>,
         \A p \in Procs : (pc'[p] \in {"row", "unrow"} \/ pc[p] \in {"row", "unrow"}) => pc'[p] = pc[p] /\ uid'[p] = uid[p],
         Single(snap'),
         UNCHANGED <<ppc, snap>> \/ {ppc, ppc'} \cap {"upsert", "commit"} = {}
  PROVE  MirrorInv'
<1>1. Locks'
  BY DEF MirrorInv, Locks
<1>2. Behind'
  <2>1. (shadowLock = NoProc => Uids(items) = Uids(rows) /\ Carried(items, rows, Uid))'
    BY DEF MirrorInv, Behind, Uids, Carried, Marks
  <2>2. ASSUME NEW p \in Procs, pc'[p] \in {"row", "unrow"}
        PROVE  /\ (pc[p] = "row" => Uids(items) = Uids(rows) \cup {uid[p]} /\ Carried(items, rows, Uid \ {uid[p]}))'
               /\ (pc[p] = "unrow" => Uids(items) = Uids(rows) \ {uid[p]} /\ Carried(items, rows, Uid))'
    <3>1. pc'[p] = pc[p] /\ uid'[p] = uid[p]
      BY <2>2
    <3>. QED  BY <3>1 DEF MirrorInv, Behind, Uids, Carried, Marks
  <2>0. {ppc, ppc'} \cap {"upsert", "commit"} # {} => ppc' = ppc /\ Polled' = Polled
    BY DEF Polled
  <2>3. (ppc = "upsert" => Uids(rows) = Uids(items) \cap Polled /\ Carried(items, rows, Polled))'
    <3>. SUFFICES ASSUME ppc' = "upsert" PROVE (Uids(rows) = Uids(items) \cap Polled /\ Carried(items, rows, Polled))'
      OBVIOUS
    <3>1. Uids(rows) = Uids(items) \cap Polled /\ Carried(items, rows, Polled)
      BY <2>0 DEF MirrorInv, Behind
    <3>. QED  BY <2>0, <3>1 DEF Uids, Carried, Marks
  <2>4. (ppc = "commit" => Uids(rows) = Polled /\ Carried(items, rows, Polled))'
    <3>. SUFFICES ASSUME ppc' = "commit" PROVE (Uids(rows) = Polled /\ Carried(items, rows, Polled))'
      OBVIOUS
    <3>1. Uids(rows) = Polled /\ Carried(items, rows, Polled)
      BY <2>0 DEF MirrorInv, Behind
    <3>. QED  BY <2>0, <3>1 DEF Uids, Carried, Marks
  <2>. QED  BY <2>1, <2>2, <2>3, <2>4 DEF Behind
<1>. QED  BY <1>1, <1>2 DEF MirrorInv, Keyed

\* One operation of the shadow at a time: the two halves of an insert.
LEMMA InsertMirror ==
  ASSUME Grounds, MirrorInv, NEW p \in Procs, Insert(p) \/ Row(p)
  PROVE  MirrorInv'
<1>. DEFINE u == uid[p]
<1>0. TypeOK /\ u \in Uid /\ "poller" \notin Procs /\ NoProc \notin Procs /\ NoProc # "poller"
      /\ items \subseteq Entry /\ IsFiniteSet(items) /\ rows \subseteq Record
  <2>1. TypeOK /\ pc[p] \in {"insert", "row"}
    BY DEF Insert, Row, Grounds, Informed
  <2>. QED  BY <2>1, PayQueueAssumption DEF TypeOK, ControlType, LocalsType, ShadowType, TablesType, HasUid
<1>1. CASE Insert(p)
  <2>1. /\ shadowLock = NoProc /\ shadowLock' = p /\ UNCHANGED <<rows, uid, ppc, snap>>
        /\ pc[p] = "insert" /\ pc'[p] = "row" /\ \A q \in Procs \ {p} : pc'[q] = pc[q]
    BY <1>0, <1>1 DEF Insert, Stay, Goto, tables, poller, TypeOK, ControlType
  <2>2. /\ IndexAfter(items, tgt[p]) \in Nat
        /\ items' = ShadowInsert(items, u, PaidBy(p), IndexAfter(items, tgt[p]))
    BY <1>0, <1>1, IndexAfterType DEF Insert
  <2>3. Uids(items) = Uids(rows) /\ Carried(items, rows, Uid)
    BY <2>1 DEF MirrorInv, Behind
  <2>4. Locks'
    BY <1>0, <2>1 DEF MirrorInv, Locks
  <2>5. Uids(items') = Uids(rows) \cup {u}
    BY <1>0, <2>2, <2>3, ShadowInsertUids
  <2>6. Carried(items', rows, Uid \ {u})
    <3>1. \A e \in items' : Marks(items, e.uid, e.by) \/ e.uid = u
      BY <1>0, <2>2, ShadowInsertMarks
    <3>. QED  BY <2>3, <3>1 DEF Carried, Marks, Paid
  <2>7. \A q \in Procs : pc'[q] \in {"row", "unrow"} => q = p
    BY <2>1, <2>4 DEF Locks
  <2>8. ppc \notin {"upsert", "commit"}
    BY <1>0, <2>1 DEF MirrorInv, Locks
  <2>9. Behind'
    <3>1. Uids(items)' = Uids(items') /\ Uids(rows)' = Uids(rows) /\ uid'[p] = u
      BY <2>1 DEF Uids
    <3>2. Carried(items, rows, Uid \ {uid[p]})' <=> Carried(items', rows, Uid \ {u})
      BY <2>1 DEF Carried, Marks
    <3>3. ASSUME NEW q \in Procs, pc'[q] \in {"row", "unrow"}
          PROVE  /\ (pc[q] = "row" => Uids(items) = Uids(rows) \cup {uid[q]} /\ Carried(items, rows, Uid \ {uid[q]}))'
                 /\ (pc[q] = "unrow" => Uids(items) = Uids(rows) \ {uid[q]} /\ Carried(items, rows, Uid))'
      <4>1. q = p
        BY <2>7, <3>3
      <4>. QED  BY <2>1, <2>5, <2>6, <3>1, <3>2, <4>1
    <3>. QED  BY <1>0, <2>1, <2>8, <3>3 DEF Behind
  <2>. QED  BY <2>1, <2>4, <2>9 DEF MirrorInv, Keyed
<1>2. CASE Row(p)
  <2>. DEFINE new == [uid |-> u, pos |-> slot[p], by |-> PaidBy(p)]
              kept == {r \in rows : r.uid # u}
  <2>1. /\ shadowLock = p /\ shadowLock' = NoProc /\ UNCHANGED <<items, uid, ppc, snap>>
        /\ pc[p] = "row" /\ pc'[p] = "done" /\ \A q \in Procs \ {p} : pc'[q] = pc[q]
    BY <1>0, <1>2 DEF Row, End, Goto, locals, poller, TypeOK, ControlType, MirrorInv, Locks
  <2>2. rows' = kept \cup {new} /\ new.uid = u /\ new.by = PaidBy(p)
    BY <1>2 DEF Row
  <2>. HIDE DEF new
  <2>3. Uids(items) = Uids(rows) \cup {u} /\ Carried(items, rows, Uid \ {u})
    BY <2>1 DEF MirrorInv, Behind
  <2>4. \A q \in Procs : pc'[q] \notin {"row", "unrow"}
    BY <2>1 DEF MirrorInv, Locks
  <2>5. ppc \notin {"upsert", "commit"}
    BY <1>0, <2>1 DEF MirrorInv, Locks
  <2>6. Locks'
    BY <1>0, <2>1, <2>4, <2>5 DEF Locks
  <2>7. Uids(rows') = Uids(rows) \cup {u}
    BY <2>2 DEF Uids
  <2>8. ASSUME NEW e \in items, Paid(e) PROVE Marks(rows', e.uid, e.by)
    <3>1. CASE e.uid = u
      <4>1. e.by = PaidBy(p)
        BY <2>1, <2>8, <3>1, OwnMark
      <4>. QED  BY <2>2, <3>1, <4>1 DEF Marks
    <3>2. CASE e.uid # u
      <4>1. e.uid \in Uid \ {u}
        BY <1>0, <3>2 DEF Entry
      <4>2. Marks(rows, e.uid, e.by)
        BY <2>3, <2>8, <4>1 DEF Carried
      <4>. QED  BY <2>2, <3>2, <4>2 DEF Marks
    <3>. QED  BY <3>1, <3>2
  <2>9. Behind'
    <3>1. (Uids(items) = Uids(rows))'
      BY <2>1, <2>3, <2>7 DEF Uids
    <3>2. Carried(items, rows, Uid)'
      BY <2>1, <2>8 DEF Carried, Marks
    <3>. QED  BY <2>1, <2>4, <2>5, <3>1, <3>2 DEF Behind
  <2>10. Keyed(rows')
    BY <2>2 DEF Keyed, MirrorInv
  <2>. QED  BY <2>1, <2>6, <2>9, <2>10 DEF MirrorInv, Keyed
<1>. QED  BY <1>1, <1>2

\* The two halves of a removal.
LEMMA RemoveMirror ==
  ASSUME Grounds, MirrorInv, NEW p \in Procs, Forget(p) \/ Unrow(p)
  PROVE  MirrorInv'
<1>. DEFINE u == uid[p]
<1>0. TypeOK /\ "poller" \notin Procs /\ NoProc \notin Procs /\ NoProc # "poller"
      /\ items \subseteq Entry /\ IsFiniteSet(items) /\ rows \subseteq Record
  BY PayQueueAssumption DEF Grounds, Informed, TypeOK, ShadowType, TablesType
<1>1. CASE Forget(p)
  <2>1. /\ shadowLock = NoProc /\ shadowLock' = p /\ UNCHANGED <<rows, uid, ppc, snap>>
        /\ pc[p] = "forget" /\ pc'[p] = "unrow" /\ \A q \in Procs \ {p} : pc'[q] = pc[q]
    BY <1>0, <1>1 DEF Forget, Stay, Goto, tables, locals, poller, TypeOK, ControlType
  <2>2. items' = ShadowRemove(items, u)
    BY <1>1 DEF Forget
  <2>3. Uids(items) = Uids(rows) /\ Carried(items, rows, Uid)
    BY <2>1 DEF MirrorInv, Behind
  <2>4. Locks'
    BY <1>0, <2>1 DEF MirrorInv, Locks
  <2>5. Uids(items') = Uids(rows) \ {u}
    BY <1>0, <2>2, <2>3, ShadowRemoveUids
  <2>6. Carried(items', rows, Uid)
    <3>1. \A e \in items' : Marks(items, e.uid, e.by)
      BY <1>0, <2>2, ShadowRemoveMarks
    <3>. QED  BY <2>3, <3>1 DEF Carried, Marks, Paid
  <2>7. \A q \in Procs : pc'[q] \in {"row", "unrow"} => q = p
    BY <2>1, <2>4 DEF Locks
  <2>8. ppc \notin {"upsert", "commit"}
    BY <1>0, <2>1 DEF MirrorInv, Locks
  <2>9. Behind'
    <3>1. Uids(items)' = Uids(items') /\ Uids(rows)' = Uids(rows) /\ uid'[p] = u
      BY <2>1 DEF Uids
    <3>2. Carried(items, rows, Uid)' <=> Carried(items', rows, Uid)
      BY <2>1 DEF Carried, Marks
    <3>3. ASSUME NEW q \in Procs, pc'[q] \in {"row", "unrow"}
          PROVE  /\ (pc[q] = "row" => Uids(items) = Uids(rows) \cup {uid[q]} /\ Carried(items, rows, Uid \ {uid[q]}))'
                 /\ (pc[q] = "unrow" => Uids(items) = Uids(rows) \ {uid[q]} /\ Carried(items, rows, Uid))'
      <4>1. q = p
        BY <2>7, <3>3
      <4>. QED  BY <2>1, <2>5, <2>6, <3>1, <3>2, <4>1
    <3>. QED  BY <1>0, <2>1, <2>8, <3>3 DEF Behind
  <2>. QED  BY <2>1, <2>4, <2>9 DEF MirrorInv, Keyed
<1>2. CASE Unrow(p)
  <2>1. /\ shadowLock = p /\ shadowLock' = NoProc /\ UNCHANGED <<items, ppc, snap>> /\ pc[p] = "unrow"
    BY <1>0, <1>2 DEF Unrow, poller, MirrorInv, Locks
  <2>2. pc'[p] \notin {"row", "unrow"} /\ Others(p)
    BY <1>0, <1>2, TakeNextOthers DEF Unrow
  <2>3. rows' = {r \in rows : r.uid # u}
    BY <1>2 DEF Unrow
  <2>4. Uids(items) = Uids(rows) \ {u} /\ Carried(items, rows, Uid)
    BY <2>1 DEF MirrorInv, Behind
  <2>5. \A q \in Procs : pc'[q] \notin {"row", "unrow"}
    BY <2>1, <2>2 DEF MirrorInv, Locks, Others
  <2>6. ppc \notin {"upsert", "commit"}
    BY <1>0, <2>1 DEF MirrorInv, Locks
  <2>7. Locks'
    BY <1>0, <2>1, <2>5, <2>6 DEF Locks
  <2>8. Uids(rows') = Uids(items)
    BY <2>3, <2>4 DEF Uids
  <2>9. ASSUME NEW e \in items, Paid(e), e.uid \in Uid PROVE Marks(rows', e.uid, e.by)
    <3>1. Marks(rows, e.uid, e.by)
      BY <2>4, <2>9 DEF Carried
    <3>2. e.uid # u
      BY <2>4 DEF Uids
    <3>. QED  BY <2>3, <3>1, <3>2 DEF Marks
  <2>10. Behind'
    <3>1. (Uids(items) = Uids(rows))'
      BY <2>1, <2>8 DEF Uids
    <3>2. Carried(items, rows, Uid)'
      BY <2>1, <2>9 DEF Carried, Marks
    <3>. QED  BY <2>1, <2>5, <2>6, <3>1, <3>2 DEF Behind
  <2>11. Keyed(rows')
    BY <2>3 DEF Keyed, MirrorInv
  <2>. QED  BY <2>1, <2>7, <2>10, <2>11 DEF MirrorInv, Keyed
<1>. QED  BY <1>1, <1>2

\* The three parts of a poll that write.
LEMMA PollMirror ==
  ASSUME Grounds, MirrorInv, PollPrune \/ PollUpsert \/ PollCommit
  PROVE  MirrorInv'
<1>0. TypeOK /\ "poller" \notin Procs /\ NoProc \notin Procs /\ NoProc # "poller"
      /\ items \subseteq Entry /\ IsFiniteSet(items) /\ rows \subseteq Record
  BY PayQueueAssumption DEF Grounds, Informed, TypeOK, ShadowType, TablesType
<1>1. UNCHANGED <<pc, uid>>
  BY DEF PollPrune, PollUpsert, PollCommit, locals
<1>2. \A p \in Procs : pc[p] \notin {"row", "unrow"}
  BY <1>0 DEF PollPrune, PollUpsert, PollCommit, MirrorInv, Locks
<1>3. Uids(items) \subseteq Uid /\ Uids(rows) \subseteq Uid
  BY <1>0 DEF Uids, Entry, Record
<1>4. \A e \in items : e.uid \in Uids(items)
  BY DEF Uids
<1>5. \A r : Known(items, r) <=> r \in Uids(items)
  BY DEF Known, Uids
<1>6. \A i \in DOMAIN snap : snap[i] \in Polled
  BY DEF Polled
<1>7. \A r : On(snap, r) <=> r \in Polled
  BY DEF On, Polled
<1>8. CASE PollPrune
  <2>1. ppc' = "upsert" /\ shadowLock = NoProc /\ shadowLock' = "poller" /\ UNCHANGED <<items, snap>>
        /\ rows' = {r \in rows : Known(items, r.uid) => On(snap, r.uid)}
    BY <1>8 DEF PollPrune
  <2>2. Uids(items) = Uids(rows) /\ Carried(items, rows, Uid)
    BY <2>1 DEF MirrorInv, Behind
  <2>3. rows' = {r \in rows : r.uid \in Polled}
    BY <1>5, <1>7, <2>1, <2>2 DEF Uids
  <2>4. Uids(rows') = Uids(items) \cap Polled
    <3>1. Uids(rows') = Uids(rows) \cap Polled
      BY <2>3 DEF Uids
    <3>. QED  BY <2>2, <3>1
  <2>5. Carried(items, rows', Polled)
    BY <1>3, <1>4, <2>2, <2>3 DEF Carried, Marks
  <2>6. Locks'
    BY <1>0, <1>1, <1>2, <2>1 DEF Locks
  <2>7. Behind'
    <3>0. Polled' = Polled
      BY <2>1 DEF Polled
    <3>1. (Uids(rows) = Uids(items) \cap Polled /\ Carried(items, rows, Polled))'
      BY <2>1, <2>4, <2>5, <3>0 DEF Uids, Carried, Marks
    <3>. QED  BY <1>0, <1>1, <1>2, <2>1, <3>1 DEF Behind
  <2>8. Keyed(rows')
    BY <2>3 DEF MirrorInv, Keyed
  <2>. QED  BY <2>1, <2>6, <2>7, <2>8 DEF MirrorInv, Keyed
<1>9. CASE PollUpsert
  <2>1. ppc = "upsert" /\ ppc' = "commit" /\ UNCHANGED <<items, shadowLock, snap>>
        /\ rows' = ReconciledRows(rows, items, snap)
    BY <1>9 DEF PollUpsert, shadow
  <2>2. Uids(rows) = Uids(items) \cap Polled /\ Carried(items, rows, Polled) /\ Keyed(rows) /\ Single(snap)
    BY <2>1 DEF MirrorInv, Behind
  <2>3. /\ Keyed(rows')
        /\ \A r \in rows : Known(items, r.uid) => Marks(rows', r.uid, r.by)
        /\ \A i \in DOMAIN snap : ~Known(items, snap[i]) => snap[i] \in Uids(rows')
        /\ \A e \in rows' : Marks(rows, e.uid, e.by) \/ (~Known(items, e.uid) /\ e.uid \in Polled)
    BY <1>0, <2>1, <2>2, ReconciledRowsUids DEF Polled
  <2>4. Uids(rows') = Polled
    <3>1. ASSUME NEW e \in rows' PROVE e.uid \in Polled
      BY <2>2, <2>3 DEF Marks, Uids
    <3>2. ASSUME NEW i \in DOMAIN snap PROVE snap[i] \in Uids(rows')
      <4>1. CASE Known(items, snap[i])
        <5>1. PICK r \in rows : r.uid = snap[i]
          BY <1>5, <1>6, <2>2, <4>1 DEF Uids
        <5>. QED  BY <2>3, <4>1, <5>1 DEF Marks, Uids
      <4>. QED  BY <2>3, <4>1
    <3>. QED  BY <3>1, <3>2 DEF Uids, Polled
  <2>5. Carried(items, rows', Polled)
    <3>. SUFFICES ASSUME NEW e \in items, Paid(e), e.uid \in Polled PROVE Marks(rows', e.uid, e.by)
      BY DEF Carried
    <3>1. PICK r \in rows : r.uid = e.uid /\ r.by = e.by
      BY <2>2 DEF Carried, Marks
    <3>2. Known(items, r.uid)
      BY <3>1 DEF Known
    <3>3. Marks(rows', r.uid, r.by)
      BY <2>3, <3>2
    <3>. QED  BY <3>1, <3>3
  <2>6. Locks'
    BY <1>0, <1>1, <2>1 DEF MirrorInv, Locks
  <2>7. Behind'
    <3>0. Polled' = Polled
      BY <2>1 DEF Polled
    <3>1. (Uids(rows) = Polled /\ Carried(items, rows, Polled))'
      BY <2>1, <2>4, <2>5, <3>0 DEF Uids, Carried, Marks
    <3>2. shadowLock' # NoProc
      BY <1>0, <2>1 DEF MirrorInv, Locks
    <3>. QED  BY <1>0, <1>1, <1>2, <2>1, <3>1, <3>2 DEF Behind
  <2>. QED  BY <2>1, <2>2, <2>3, <2>6, <2>7 DEF MirrorInv, Keyed
<1>10. CASE PollCommit
  <2>1. ppc = "commit" /\ ppc' = "idle" /\ shadowLock' = NoProc /\ snap' = <<>> /\ UNCHANGED rows
        /\ items' = Reconciled(items, snap)
    BY <1>10 DEF PollCommit, tables
  <2>2. Uids(rows) = Polled /\ Carried(items, rows, Polled)
    BY <2>1 DEF MirrorInv, Behind
  <2>3. Uids(items') = Polled
    BY <2>1, ReconciledUids DEF Polled
  <2>4. ASSUME NEW e \in items', Paid(e) PROVE Marks(rows, e.uid, e.by)
    <3>1. Marks(items, e.uid, e.by)
      BY <1>0, <2>1, <2>4, ReconciledMarks
    <3>2. e.uid \in Polled
      BY <2>3 DEF Uids
    <3>. QED  BY <2>2, <2>4, <3>1, <3>2 DEF Carried, Marks, Paid
  <2>5. Locks'
    BY <1>0, <1>1, <1>2, <2>1 DEF Locks
  <2>6. Behind'
    <3>1. (Uids(items) = Uids(rows))' /\ Carried(items, rows, Uid)'
      BY <2>1, <2>2, <2>3, <2>4 DEF Uids, Carried, Marks
    <3>. QED  BY <1>0, <1>1, <1>2, <2>1, <3>1 DEF Behind
  <2>7. Single(snap')
    BY <2>1 DEF Single
  <2>. QED  BY <2>1, <2>5, <2>6, <2>7 DEF MirrorInv, Keyed
<1>. QED  BY <1>8, <1>9, <1>10

LEMMA RestartMirror ==
  ASSUME Grounds, MirrorInv, Restart
  PROVE  MirrorInv'
<1>0. TypeOK /\ "poller" \notin Procs /\ NoProc \notin Procs /\ NoProc # "poller"
  BY PayQueueAssumption DEF Grounds, Informed
<1>1. /\ items' = Loaded(rows) /\ UNCHANGED rows /\ shadowLock' = NoProc /\ ppc' = "idle" /\ snap' = <<>>
      /\ \A p \in Procs : pc'[p] \notin {"row", "unrow"}
  BY <1>0 DEF Restart, Ended, TypeOK, ControlType
<1>2. Uids(items') = Uids(rows) /\ \A e \in items' : Marks(rows, e.uid, e.by)
  BY <1>1, LoadedUids, LoadedMarks
<1>3. (Uids(items) = Uids(rows))' /\ Carried(items, rows, Uid)'
  BY <1>1, <1>2 DEF Uids, Carried, Marks
<1>4. Locks' /\ Behind'
  BY <1>0, <1>1, <1>3 DEF Locks, Behind
<1>5. Single(snap')
  BY <1>1 DEF Single
<1>. QED  BY <1>1, <1>4, <1>5 DEF MirrorInv, Keyed

LEMMA MirrorStep == Grounds /\ MirrorInv /\ [Next]_vars => MirrorInv'
<1>. SUFFICES ASSUME Grounds, MirrorInv, [Next]_vars PROVE MirrorInv'
  OBVIOUS
<1>. DEFINE Aside(p) == pc'[p] \in {"row", "unrow"} \/ pc[p] \in {"row", "unrow"} => pc'[p] = pc[p] /\ uid'[p] = uid[p]
<1>0. TypeOK /\ Single(snap)
  BY DEF Grounds, Informed, MirrorInv
<1>1. ASSUME NEW p \in Procs, InsertStep(p), ~Insert(p), ~Row(p) PROVE MirrorInv'
  <2>1. UNCHANGED <<items, rows, shadowLock, ppc, snap>>
    BY <1>1 DEF InsertStep, Start, Spend, Anchor, Add, Move, Save, Undo, Unadd, tables, shadow, poller
  <2>2. pc[p] \notin {"row", "unrow"} /\ pc'[p] \notin {"row", "unrow"}
    <3>. USE <1>0, <1>1 DEF Stay, End, Goto, TypeOK, ControlType
    <3>1. CASE Start(p) BY <3>1 DEF Start
    <3>2. CASE Spend(p) BY <3>2 DEF Spend
    <3>3. CASE Anchor(p) BY <3>3 DEF Anchor
    <3>4. CASE Add(p) BY <3>4 DEF Add
    <3>5. CASE Move(p) BY <3>5 DEF Move
    <3>6. CASE Save(p) BY <3>6 DEF Save
    <3>7. CASE Undo(p) BY <3>7 DEF Undo
    <3>8. CASE Unadd(p) BY <3>8 DEF Unadd
    <3>. QED  BY <3>1, <3>2, <3>3, <3>4, <3>5, <3>6, <3>7, <3>8 DEF InsertStep
  <2>3. \A q \in Procs : Aside(q)
    BY <1>0, <1>1, <2>2, InsertOthers DEF Others
  <2>. QED  BY <1>0, <2>1, <2>3, MirrorFrame
<1>2. ASSUME NEW p \in Procs, RefundStep(p), ~Forget(p), ~Unrow(p) PROVE MirrorInv'
  <2>1. UNCHANGED <<items, rows, shadowLock, ppc, snap>>
    BY <1>2 DEF RefundStep, List, Lookup, Refund, Mark, Delete, Clear, tables, shadow, poller
  <2>2. pc[p] \notin {"row", "unrow"} /\ pc'[p] # "row"
    BY <1>0, <1>2, RefundOthers DEF RefundStep, List, Lookup, Refund, Mark, Delete, Clear
  <2>3. pc'[p] # "unrow"
    <3>. USE <1>0, <1>2 DEF Stay, End, Goto, TypeOK, ControlType
    <3>1. CASE List(p) \/ Mark(p) \/ Lookup(p) \/ Refund(p)
      <4>1. CASE \E list : TakeNext(p, list)
        BY <4>1 DEF TakeNext, AfterLast
      <4>2. CASE \E label \in {"refund", "mark", "delete", "raised"} : Goto(p, label)
        BY <4>2
      <4>. QED  BY <3>1, <4>1, <4>2 DEF List, Mark, Lookup, Refund, NotRefunded, Raise
    <3>2. CASE Delete(p) \/ Clear(p)
      BY <3>2 DEF Delete, Clear
    <3>. QED  BY <3>1, <3>2 DEF RefundStep
  <2>4. \A q \in Procs : Aside(q)
    BY <1>0, <1>2, <2>2, <2>3, RefundOthers DEF Others
  <2>. QED  BY <1>0, <2>1, <2>4, MirrorFrame
<1>3. ASSUME PollRead \/ PollError \/ (\E u \in 1 .. nextUid - 1 : Play(u)) \/ UNCHANGED vars PROVE MirrorInv'
  <2>1. UNCHANGED <<items, rows, shadowLock, pc, uid>>
    BY <1>3 DEF PollRead, PollError, Play, vars, tables, shadow, locals
  <2>2. UNCHANGED <<ppc, snap>> \/ {ppc, ppc'} \cap {"upsert", "commit"} = {}
    BY <1>3 DEF PollRead, PollError, Play, vars, poller
  <2>3. Single(snap')
    <3>1. Single(<<>>) /\ Single(playlist)
      BY DEF Single, Grounds, UidInv
    <3>2. snap' \in {snap, <<>>, playlist}
      BY <1>3 DEF PollRead, PollError, Play, vars, poller
    <3>. QED  BY <1>0, <3>1, <3>2
  <2>. QED  BY <2>1, <2>2, <2>3, MirrorFrame
<1>. QED  BY <1>1, <1>2, <1>3, InsertMirror, RemoveMirror, PollMirror, RestartMirror DEF Next, PollStep

LEMMA InitMirror == Init => MirrorInv
<1>. SUFFICES ASSUME Init PROVE MirrorInv
  OBVIOUS
<1>0. "poller" \notin Procs /\ NoProc \notin Procs /\ NoProc # "poller"
  BY PayQueueAssumption
<1>1. Uids(items) = Uids(rows) /\ Carried(items, rows, Uid)
  BY LoadedUids, LoadedMarks DEF Init, Carried
<1>2. Locks
  BY <1>0 DEF Init, Locks
<1>3. Behind
  BY <1>1 DEF Init, Behind
<1>4. Keyed(rows)
  <2>1. rows = {[uid |-> i, pos |-> i - 1, by |-> NoUser] : i \in 1 .. Len(InitMedia)}
    BY DEF Init
  <2>. QED  BY <2>1 DEF Keyed
<1>5. Single(snap)
  BY DEF Init, Single
<1>. QED  BY <1>2, <1>3, <1>4, <1>5 DEF MirrorInv

LEMMA GroundsCorrect == Spec => []Grounds
<1>1. TypeOK /\ PayersInsert /\ Recorded /\ MoneyInv /\ UidInv /\ PaidBacked => Grounds
  BY DEF Grounds, Informed
<1>. QED  BY <1>1, TypeCorrect, RecordedCorrect, MoneyCorrect, UidCorrect, PaidBackedCorrect, PTL

LEMMA MirrorCorrect == Spec => []MirrorInv
BY MirrorStep, InitMirror, GroundsCorrect, PTL DEF Spec

\* Whenever no shadow operation is under way the table has exactly the shadow's
\* uids, and each paid mark of memory is in the table under the same user: a
\* restart at that moment loses none (queue/shadow.py, load_from_db).
THEOREM MirrorDurableCorrect == Spec => []MirrorDurable
<1>1. Grounds /\ MirrorInv => MirrorDurable
  <2>. SUFFICES ASSUME Grounds, MirrorInv, shadowLock = NoProc
                PROVE  /\ Uids(items) = Uids(rows)
                       /\ \A e \in items : Paid(e) => \E r \in rows : r.uid = e.uid /\ r.by = e.by
    BY DEF MirrorDurable, Uids
  <2>1. Uids(items) = Uids(rows) /\ Carried(items, rows, Uid)
    BY DEF MirrorInv, Behind
  <2>2. \A e \in items : e.uid \in Uid
    BY DEF Grounds, Informed, TypeOK, ShadowType, Entry
  <2>. QED  BY <2>1, <2>2 DEF Carried, Marks
<1>. QED  BY <1>1, GroundsCorrect, MirrorCorrect, PTL

\* A written row keeps the mark of the row it replaces.
NotDemoted == \A r \in rows, q \in rows' : r.uid = q.uid /\ Paid(r) => q.by = r.by

LEMMA RowsKept == Grounds /\ MirrorInv /\ [Next]_vars => NotDemoted
<1>. SUFFICES ASSUME Grounds, MirrorInv, [Next]_vars,
                     NEW r \in rows, NEW q \in rows', r.uid = q.uid, Paid(r)
              PROVE  q.by = r.by
  BY DEF NotDemoted
<1>0. /\ items \subseteq Entry /\ rows \subseteq Record
      /\ \A t \in rows : t.uid = r.uid => t = r
  BY DEF Grounds, Informed, TypeOK, ShadowType, TablesType, MirrorInv, Keyed
<1>1. CASE q \in rows
  BY <1>0, <1>1
<1>2. ASSUME NEW p \in Procs, Row(p), q \notin rows PROVE q.by = r.by
  <2>1. q = [uid |-> uid[p], pos |-> slot[p], by |-> PaidBy(p)]
    BY <1>2 DEF Row
  <2>2. q.uid = uid[p] /\ q.by = PaidBy(p) /\ pc[p] = "row"
    BY <1>2, <2>1 DEF Row
  <2>3. r \in items \cup rows /\ r.uid = uid[p]
    BY <2>2
  <2>. QED  BY <2>2, <2>3, OwnMark
<1>3. CASE PollUpsert
  <2>1. /\ rows' = ReconciledRows(rows, items, snap)
        /\ Uids(rows) = Uids(items) \cap Polled
    BY <1>3 DEF PollUpsert, MirrorInv, Behind
  <2>2. Marks(rows, q.uid, q.by) \/ ~Known(items, q.uid)
    BY <1>0, <2>1, ReconciledRowsUids
  <2>3. Known(items, r.uid)
    BY <2>1 DEF Known, Uids
  <2>. QED  BY <1>0, <2>2, <2>3 DEF Marks
<1>4. ASSUME NEW p \in Procs, InsertStep(p), ~Row(p) PROVE UNCHANGED rows
  BY <1>4 DEF InsertStep, Start, Spend, Anchor, Add, Move, Save, Insert, Undo, Unadd, tables
<1>5. ASSUME NEW p \in Procs, RefundStep(p) PROVE rows' \subseteq rows
  BY <1>5 DEF RefundStep, List, Lookup, Refund, Mark, Delete, Forget, Unrow, Clear, tables
<1>6. ASSUME PollStep, ~PollUpsert PROVE rows' \subseteq rows
  BY <1>6 DEF PollStep, PollRead, PollError, PollPrune, PollCommit, tables
<1>7. ASSUME (\E u \in 1 .. nextUid - 1 : Play(u)) \/ Restart \/ UNCHANGED vars PROVE UNCHANGED rows
  BY <1>7 DEF Play, Restart, vars, tables
<1>. QED  BY <1>1, <1>2, <1>3, <1>4, <1>5, <1>6, <1>7 DEF Next

-----------------------------------------------------------------------------
(***************************************************************************)
(* What was paid for stays marked.  A row is not demoted (RowsKept), so a  *)
(* mark goes only with its row: to a poll whose list does not have the     *)
(* item, or to a handler that forgets it.  The latter has seen the item    *)
(* off the playlist, where its uid never comes back to, or the delete      *)
(* refused (Dropped).                                                      *)
(***************************************************************************)
\* The uids calls work on, or will, have been given out.
Given == \A q \in Procs : (uid[q] # NoUid => uid[q] < nextUid) /\ \A e \in todo[q] : e.uid < nextUid

Dropped == \A q \in Procs : pc[q] \in {"forget", "unrow"} => uid[q] \in strays \/ ~On(playlist, uid[q])

KeptMarks ==
  \A p \in Payers : pc[p] = "done" /\ On(playlist, uid[p]) /\ uid[p] \notin strays => Marks(rows, uid[p], Owner[p])

LEMMA SpendGiven == ASSUME Informed, UidInv, NEW s \in spends PROVE s.uid < nextUid
<1>1. s.req \in Payers /\ s.req \in Procs /\ s.uid = uid[s.req] /\ s.uid \in Uid
  BY DEF Informed, UidInv, SpendUids, TypeOK, TablesType, Payers
<1>2. Mine(s.req)
  BY <1>1, PayQueueAssumption DEF Mine
<1>. QED  BY <1>1, <1>2 DEF UidInv, Own

LEMMA GivenStep == Grounds /\ Given /\ [Next]_vars => Given'
<1>. SUFFICES ASSUME Grounds, Given, [Next]_vars PROVE Given'
  OBVIOUS
<1>. DEFINE Listed == [uid : Uid, pos : Nat]
<1>0. /\ TypeOK /\ nextUid \in Nat /\ nextUid' \in Nat /\ nextUid <= nextUid' /\ NoUid \notin Nat \ {0}
      /\ uid \in [Procs -> Uid \cup {NoUid}] /\ todo \in [Procs -> SUBSET Listed]
  <2>1. TypeOK /\ Single(playlist)
    BY DEF Grounds, Informed, UidInv
  <2>2. nextUid' \in {nextUid, nextUid + 1}
    BY <2>1, PlaylistSteps
  <2>. QED  BY <2>1, <2>2, PayQueueAssumption DEF TypeOK, CytubeType, LocalsType, Uid
<1>1. ASSUME UNCHANGED <<uid, todo>> PROVE Given'
  BY <1>0, <1>1 DEF Given, Uid
<1>2. ASSUME NEW p \in Procs, NEW list \in SUBSET Listed, \A e \in list : e.uid < nextUid, TakeNext(p, list) PROVE Given'
  <2>1. CASE UNCHANGED <<uid, todo>>
    BY <1>1, <2>1
  <2>2. ASSUME NEW e \in list, uid' = [uid EXCEPT ![p] = e.uid], todo' = [todo EXCEPT ![p] = list \ {e}] PROVE Given'
    <3>1. e.uid \in Uid /\ e.uid < nextUid /\ \A f \in list : f.uid \in Uid /\ f.uid < nextUid
      BY <1>2, <2>2
    <3>2. ASSUME NEW q \in Procs, q # p PROVE (uid'[q] # NoUid => uid'[q] < nextUid') /\ \A f \in todo'[q] : f.uid < nextUid'
      BY <1>0, <2>2, <3>2 DEF Given, Uid
    <3>3. uid'[p] = e.uid /\ todo'[p] = list \ {e}
      BY <1>0, <2>2
    <3>. QED  BY <1>0, <3>1, <3>2, <3>3 DEF Given, Uid
  <2>. QED  BY <1>2, <2>1, <2>2 DEF TakeNext
<1>3. ASSUME NEW p \in Procs, InsertStep(p) PROVE Given'
  <2>1. CASE Anchor(p)
    <3>1. uid' = [uid EXCEPT ![p] = NoUid] /\ UNCHANGED todo
      BY <2>1 DEF Anchor
    <3>. QED  BY <1>0, <3>1 DEF Given, Uid
  <2>2. CASE Add(p)
    <3>1. UNCHANGED todo /\ (UNCHANGED uid \/ (uid' = [uid EXCEPT ![p] = nextUid] /\ nextUid' = nextUid + 1))
      BY <2>2 DEF Add, Appended
    <3>. QED  BY <1>0, <1>1, <3>1 DEF Given, Uid
  <2>3. CASE ~Anchor(p) /\ ~Add(p)
    <3>1. UNCHANGED <<uid, todo>>
      BY <1>3, <2>3 DEF InsertStep, Start, Spend, Move, Save, Insert, Row, Undo, Unadd, locals
    <3>. QED  BY <1>1, <3>1
  <2>. QED  BY <2>1, <2>2, <2>3
<1>4. ASSUME NEW p \in Procs, TakeNext(p, todo[p]) PROVE Given'
  BY <1>0, <1>2, <1>4 DEF Given
<1>5. ASSUME NEW p \in Procs, NotRefunded(p) \/ Raise(p) PROVE Given'
  BY <1>1, <1>4, <1>5 DEF NotRefunded, Raise
<1>6. ASSUME NEW p \in Procs, List(p) PROVE Given'
  <2>1. ASSUME NEW e \in items \cup rows, Paid(e) PROVE e.uid < nextUid
    BY <2>1, SpendGiven DEF Grounds, PaidBacked, Backed
  <2>2. \A u \in 1 .. nextUid - 1 : /\ {[uid |-> u, pos |-> 0]} \in SUBSET Listed
                                    /\ \A e \in {[uid |-> u, pos |-> 0]} : e.uid < nextUid
    BY <1>0 DEF Uid
  <2>3. PaidRows \in SUBSET Listed /\ \A e \in PaidRows : e.uid < nextUid
    BY <1>0, <2>1 DEF PaidRows, TypeOK, TablesType, Record
  <2>4. \A np : {e \in PaidRows : e.uid # np} \in SUBSET Listed
    BY <2>3
  <2>5. ASSUME NEW gone \in SUBSET Users, NEW np
        PROVE  PaidItems(gone, np) \in SUBSET Listed /\ \A e \in PaidItems(gone, np) : e.uid < nextUid
    <3>1. \A e \in items : e.by \in gone => Paid(e)
      BY PayQueueAssumption DEF Paid
    <3>. QED  BY <1>0, <2>1, <3>1 DEF PaidItems, TypeOK, ShadowType, Entry
  <2>6. \E list \in SUBSET Listed : (\A e \in list : e.uid < nextUid) /\ TakeNext(p, list)
    BY <1>6, <2>2, <2>3, <2>4, <2>5 DEF List
  <2>. QED  BY <1>2, <2>6
<1>7. ASSUME NEW p \in Procs, RefundStep(p), ~List(p) PROVE Given'
  <2>1. CASE Lookup(p)
    BY <1>1, <1>5, <2>1 DEF Lookup
  <2>2. CASE Refund(p)
    BY <1>1, <1>5, <2>2 DEF Refund
  <2>3. CASE Mark(p)
    BY <1>1, <1>4, <2>3 DEF Mark
  <2>4. CASE Unrow(p)
    BY <1>4, <2>4 DEF Unrow
  <2>5. CASE Delete(p) \/ Forget(p) \/ Clear(p)
    BY <1>1, <2>5 DEF Delete, Forget, Clear, locals
  <2>. QED  BY <1>7, <2>1, <2>2, <2>3, <2>4, <2>5 DEF RefundStep
<1>8. ASSUME PollStep \/ (\E u \in 1 .. nextUid - 1 : Play(u)) \/ Restart \/ UNCHANGED vars PROVE Given'
  BY <1>1, <1>8 DEF PollStep, PollRead, PollError, PollPrune, PollUpsert, PollCommit, Play, Restart, vars, locals
<1>. QED  BY <1>3, <1>6, <1>7, <1>8 DEF Next

\* What webqueue has let go of, it has for good.
LEMMA StraysGrow == [Next]_vars => strays \subseteq strays'
<1>1. ASSUME NEW p \in Procs, InsertStep(p) PROVE UNCHANGED strays
  BY <1>1 DEF InsertStep, Start, Spend, Anchor, Add, Move, Save, Insert, Row, Undo, Unadd, poller
<1>2. ASSUME NEW p \in Procs, RefundStep(p) PROVE strays \subseteq strays'
  BY <1>2 DEF RefundStep, List, Lookup, Refund, Mark, Delete, Forget, Unrow, Clear, poller
<1>3. PollStep => strays \subseteq strays'
  BY DEF PollStep, PollRead, PollError, PollPrune, PollUpsert, PollCommit
<1>4. (\E u \in 1 .. nextUid - 1 : Play(u)) \/ Restart \/ UNCHANGED vars => UNCHANGED strays
  BY DEF Play, Restart, vars, poller
<1>. QED  BY <1>1, <1>2, <1>3, <1>4 DEF Next

LEMMA DroppedStep == Grounds /\ Given /\ Dropped /\ [Next]_vars => Dropped'
<1>. SUFFICES ASSUME Grounds, Given, Dropped, [Next]_vars, NEW q \in Procs, pc'[q] \in {"forget", "unrow"}
              PROVE  uid'[q] \in strays' \/ ~On(playlist', uid'[q])
  BY DEF Dropped
<1>0. TypeOK /\ Single(playlist) /\ playlist \in Seq(1 .. nextUid - 1) /\ strays \subseteq strays'
  BY StraysGrow DEF Grounds, Informed, UidInv, TypeOK, CytubeType
<1>1. CASE pc[q] \in {"forget", "unrow"} /\ uid'[q] = uid[q]
  <2>1. uid[q] \in Uid /\ uid[q] < nextUid /\ nextUid \in Nat
    BY <1>0, <1>1 DEF Given, TypeOK, ControlType, LocalsType, CytubeType, HasUid, Uid
  <2>2. On(playlist', uid[q]) => On(playlist, uid[q])
    <3>1. uid[q] # nextUid
      BY <2>1 DEF Uid
    <3>. QED  BY <1>0, <3>1, PlaylistSteps
  <2>. QED  BY <1>0, <1>1, <2>2 DEF Dropped
<1>2. CASE InsertStep(q)
  <2>. USE <1>0 DEF Stay, End, Goto, TypeOK, ControlType
  <2>1. ~Start(q)   BY DEF Start
  <2>2. ~Spend(q)   BY DEF Spend
  <2>3. ~Anchor(q)  BY DEF Anchor
  <2>4. ~Add(q)     BY DEF Add
  <2>5. ~Move(q)    BY DEF Move
  <2>6. ~Save(q)    BY DEF Save
  <2>7. ~Insert(q)  BY DEF Insert
  <2>8. ~Row(q)     BY DEF Row
  <2>9. ~Undo(q)    BY DEF Undo
  <2>10. ~Unadd(q)  BY DEF Unadd
  <2>. QED  BY <1>2, <2>1, <2>2, <2>3, <2>4, <2>5, <2>6, <2>7, <2>8, <2>9, <2>10 DEF InsertStep
<1>3. CASE RefundStep(q)
  <2>1. ASSUME NEW list, TakeNext(q, list), UNCHANGED req PROVE FALSE
    BY <1>0, <2>1, TakeNextOthers
  <2>2. ASSUME NotRefunded(q) \/ Raise(q), UNCHANGED req PROVE FALSE
    BY <1>0, <2>2, NotRefundedOthers, RaiseOthers
  <2>3. ASSUME NEW label, label \notin {"forget", "unrow"}, Stay(q, label) \/ End(q, label) PROVE FALSE
    BY <1>0, <2>3 DEF Stay, End, Goto, TypeOK, ControlType
  <2>4. ~List(q)
    BY <2>1 DEF List
  <2>5. ~Lookup(q)
    BY <2>2, <2>3 DEF Lookup
  <2>6. ~Refund(q)
    BY <2>2, <2>3 DEF Refund
  <2>7. ~Mark(q)
    BY <2>1, <2>3 DEF Mark
  <2>8. ~Unrow(q)
    BY <2>1 DEF Unrow
  <2>9. ~Clear(q)
    BY <2>3 DEF Clear
  <2>10. CASE Forget(q)
    BY <1>1, <2>10 DEF Forget, locals
  <2>11. CASE Delete(q)
    <3>1. uid'[q] = uid[q]
      BY <2>11 DEF Delete, locals
    <3>2. CASE Deleted(uid[q])
      BY <1>0, <3>1, <3>2, WithoutKeeps DEF Deleted
    <3>3. CASE strays' = strays \cup {uid[q]}
      BY <3>1, <3>3
    <3>4. ~End(q, "raised")
      BY <2>3
    <3>. QED  BY <2>11, <3>2, <3>3, <3>4 DEF Delete
  <2>. QED  BY <1>3, <2>4, <2>5, <2>6, <2>7, <2>8, <2>9, <2>10, <2>11 DEF RefundStep
<1>4. ASSUME NEW p \in Procs \ {q}, InsertStep(p) \/ RefundStep(p) PROVE pc'[q] = pc[q] /\ uid'[q] = uid[q]
  BY <1>0, <1>4, InsertOthers, RefundOthers DEF Others
<1>5. ASSUME PollStep \/ (\E u \in 1 .. nextUid - 1 : Play(u)) \/ UNCHANGED vars PROVE pc' = pc /\ uid' = uid
  BY <1>5 DEF PollStep, PollRead, PollError, PollPrune, PollUpsert, PollCommit, Play, vars, locals
<1>6. ~Restart
  BY <1>0 DEF Restart, Ended, TypeOK, ControlType
<1>. QED  BY <1>1, <1>2, <1>3, <1>4, <1>5, <1>6 DEF Next

LEMMA KeptStep == Grounds /\ MirrorInv /\ Dropped /\ KeptMarks /\ [Next]_vars => KeptMarks'
<1>. SUFFICES ASSUME Grounds, MirrorInv, Dropped, KeptMarks, [Next]_vars, NEW p \in Payers,
                     pc'[p] = "done", On(playlist', uid'[p]), uid'[p] \notin strays'
              PROVE  Marks(rows', uid'[p], Owner[p])
  BY DEF KeptMarks
<1>0. /\ TypeOK /\ PayersInsert /\ UidInv /\ p \in Procs /\ rows \subseteq Record /\ pc[p] \in InsertOnly
      /\ strays \subseteq strays' /\ NotDemoted
  BY StraysGrow, RowsKept DEF Grounds, Informed, Payers, TypeOK, TablesType, PayersInsert
<1>. DEFINE u == uid[p]
<1>1. CASE pc[p] = "done"
  <2>1. uid'[p] = u /\ u \notin strays
    BY <1>0, <1>1, UidMoves
  <2>2. u # nextUid
    <3>1. nextUid \in Uid /\ NoUid \notin Uid
      BY <1>0, PayQueueAssumption DEF TypeOK, CytubeType
    <3>2. CASE u # NoUid
      <4>1. u \in Uid /\ u < nextUid
        BY <1>0, <3>2 DEF UidInv, Own, Mine, TypeOK, LocalsType
      <4>. QED  BY <3>1, <4>1 DEF Uid
    <3>. QED  BY <3>1, <3>2
  <2>3. On(playlist, u)
    BY <1>0, <2>1, <2>2, PlaylistSteps DEF UidInv
  <2>4. Marks(rows, u, Owner[p])
    BY <1>1, <2>1, <2>3 DEF KeptMarks
  <2>5. PICK r \in rows : r.uid = u /\ r.by = Owner[p]
    BY <2>4 DEF Marks
  <2>6. Paid(r)
    BY <2>5, PayQueueAssumption DEF Paid, Payers
  <2>7. ASSUME NEW q \in rows', q.uid = u PROVE Marks(rows', u, Owner[p])
    BY <1>0, <2>5, <2>6, <2>7 DEF NotDemoted, Marks
  <2>. HIDE DEF u
  <2>8. ASSUME UNCHANGED rows PROVE \E q \in rows' : q.uid = u
    BY <2>5, <2>8
  <2>9. ASSUME NEW c \in Procs, Row(c) PROVE \E q \in rows' : q.uid = u
    <3>. DEFINE new == [uid |-> uid[c], pos |-> slot[c], by |-> PaidBy(c)]
    <3>1. rows' = {q \in rows : q.uid # uid[c]} \cup {new}
      BY <2>9 DEF Row
    <3>2. new.uid = uid[c]
      OBVIOUS
    <3>. HIDE DEF new
    <3>. QED  BY <2>5, <3>1, <3>2
  <2>10. ASSUME NEW c \in Procs, Unrow(c) PROVE \E q \in rows' : q.uid = u
    <3>1. pc[c] = "unrow" /\ rows' = {q \in rows : q.uid # uid[c]}
      BY <2>10 DEF Unrow
    <3>2. uid[c] # u
      BY <2>1, <2>3, <3>1 DEF Dropped
    <3>. QED  BY <2>5, <3>1, <3>2
  <2>11. ASSUME PollPrune PROVE \E q \in rows' : q.uid = u
    <3>1. \A e \in items : e.uid = u => On(snap, u)
      <4>. SUFFICES ASSUME NEW e \in items, e.uid = u, ~On(snap, u) PROVE FALSE
        OBVIOUS
      <4>1. u \in strays'
        BY <2>3, <2>11 DEF PollPrune
      <4>. QED  BY <2>1, <4>1
    <3>2. r \in rows'
      BY <2>5, <2>11, <3>1 DEF PollPrune, Known
    <3>. QED  BY <2>5, <3>2
  <2>12. ASSUME PollUpsert PROVE \E q \in rows' : q.uid = u
    <3>1. rows' = ReconciledRows(rows, items, snap) /\ Uids(rows) = Uids(items) \cap Polled
      BY <2>12 DEF PollUpsert, MirrorInv, Behind
    <3>2. Known(items, r.uid)
      BY <3>1 DEF Known, Uids
    <3>3. Marks(rows', r.uid, r.by)
      BY <1>0, <3>1, <3>2, ReconciledRowsUids
    <3>. QED  BY <2>5, <3>3 DEF Marks
  <2>13. ASSUME NEW c \in Procs, InsertStep(c), ~Row(c) PROVE UNCHANGED rows
    BY <2>13 DEF InsertStep, Start, Spend, Anchor, Add, Move, Save, Insert, Undo, Unadd, tables
  <2>14. ASSUME NEW c \in Procs, RefundStep(c), ~Unrow(c) PROVE UNCHANGED rows
    BY <2>14 DEF RefundStep, List, Lookup, Refund, Mark, Delete, Forget, Clear, tables
  <2>15. ASSUME PollStep, ~PollUpsert, ~PollPrune PROVE UNCHANGED rows
    BY <2>15 DEF PollStep, PollRead, PollError, PollCommit, tables
  <2>16. ASSUME (\E v \in 1 .. nextUid - 1 : Play(v)) \/ Restart \/ UNCHANGED vars PROVE UNCHANGED rows
    BY <2>16 DEF Play, Restart, vars, tables
  <2>17. \E q \in rows' : q.uid = u
    BY <2>8, <2>9, <2>10, <2>11, <2>12, <2>13, <2>14, <2>15, <2>16 DEF Next
  <2>. QED  BY <2>1, <2>7, <2>17
<1>2. CASE Row(p)
  <2>1. [uid |-> u, pos |-> slot[p], by |-> Owner[p]] \in rows' /\ uid' = uid
    BY <1>2 DEF Row, PaidBy, Payers, locals
  <2>. QED  BY <2>1 DEF Marks
<1>3. CASE pc[p] # "done" /\ ~Row(p)
  <2>1. ~InsertStep(p)
    <3>. USE <1>0, <1>3 DEF Stay, End, Goto, TypeOK, ControlType
    <3>1. ~Start(p)   BY DEF Start
    <3>2. ~Spend(p)   BY DEF Spend
    <3>3. ~Anchor(p)  BY DEF Anchor
    <3>4. ~Add(p)     BY DEF Add
    <3>5. ~Move(p)    BY DEF Move
    <3>6. ~Save(p)    BY DEF Save
    <3>7. ~Insert(p)  BY DEF Insert
    <3>8. ~Undo(p)    BY DEF Undo
    <3>9. ~Unadd(p)   BY DEF Unadd
    <3>. QED  BY <3>1, <3>2, <3>3, <3>4, <3>5, <3>6, <3>7, <3>8, <3>9 DEF InsertStep
  <2>2. ~RefundStep(p)
    <3>1. pc[p] \notin {"list", "lookup", "refund", "mark", "delete", "forget", "unrow", "clear"}
      BY <1>0 DEF InsertOnly, Ended
    <3>. QED  BY <3>1 DEF RefundStep, List, Lookup, Refund, Mark, Delete, Forget, Unrow, Clear
  <2>3. ASSUME NEW c \in Procs \ {p}, InsertStep(c) \/ RefundStep(c) PROVE pc'[p] = pc[p]
    BY <1>0, <2>3, InsertOthers, RefundOthers DEF Others
  <2>4. ASSUME PollStep \/ (\E v \in 1 .. nextUid - 1 : Play(v)) \/ UNCHANGED vars PROVE pc' = pc
    BY <2>4 DEF PollStep, PollRead, PollError, PollPrune, PollUpsert, PollCommit, Play, vars
  <2>5. ~Restart
    BY <1>0, <1>3 DEF Restart, Ended, TypeOK, ControlType
  <2>. QED  BY <1>3, <2>1, <2>2, <2>3, <2>4, <2>5 DEF Next
<1>. QED  BY <1>1, <1>2, <1>3

\* An item that a call has paid for and answered for has its paid row as long
\* as it is on the playlist: no poll, call, failure or restart takes the mark,
\* at once or in several steps, unless a poll applied a list read before the
\* item was added or a handler forgot it after a refused delete (shadow.py).
THEOREM PaidMarkStaysCorrect == Spec => []PaidMarkStays
<1>1. Init => Given /\ Dropped /\ KeptMarks
  BY DEF Init, Given, Dropped, KeptMarks, Payers
<1>2. Spec => [](Grounds /\ MirrorInv)
  BY GroundsCorrect, MirrorCorrect, PTL
<1>3. Grounds /\ MirrorInv /\ Given /\ Dropped /\ KeptMarks /\ [Next]_vars => (Given /\ Dropped /\ KeptMarks)'
  BY GivenStep, DroppedStep, KeptStep
<1>4. MirrorInv /\ KeptMarks => PaidMarkStays
  <2>. SUFFICES ASSUME MirrorInv, KeptMarks, NEW p \in Payers, pc[p] = "done", On(playlist, uid[p]), uid[p] \notin strays
                PROVE  {r.by : r \in {r \in rows : r.uid = uid[p]}} = {Owner[p]}
    BY DEF PaidMarkStays
  <2>1. PICK r \in rows : r.uid = uid[p] /\ r.by = Owner[p]
    BY DEF KeptMarks, Marks
  <2>2. {q \in rows : q.uid = uid[p]} = {r}
    BY <2>1 DEF MirrorInv, Keyed
  <2>. QED  BY <2>1, <2>2
<1>. QED  BY <1>1, <1>2, <1>3, <1>4, PTL DEF Spec

-----------------------------------------------------------------------------
(***************************************************************************)
(* Nobody plays for free.  This is true only while handlers run to their   *)
(* end: a restart, a refused delete or clear, and for POST /queue/clear a  *)
(* refund that raises half way, leave refunded items on the playlist.      *)
(***************************************************************************)
Calm ==
  /\ MaxRestarts = 0 /\ Faults \cap {"delete_refused", "clear_refused"} = {}
  /\ (\E p \in Procs : Kind[p] = "clear") => Faults \cap {"refund_refused", "lost_answer"} = {}

\* The request a handler is about to refund is the one that bought its item.
Aimed == \A q \in Procs : pc[q] \in {"refund", "mark"} => uid[req[q]] = uid[q]

ClearLabels == {"idle", "list", "lookup", "refund", "mark", "clear"} \cup Ended
ClearsClear == \A q \in Procs : Kind[q] = "clear" => pc[q] \in ClearLabels

LEMMA AimedStep == Informed /\ UidInv /\ Aimed /\ [Next]_vars => Aimed'
<1>. SUFFICES ASSUME Informed, UidInv, Aimed, [Next]_vars, NEW q \in Procs, pc'[q] \in {"refund", "mark"}
              PROVE  uid'[req'[q]] = uid'[q]
  BY DEF Aimed
<1>0. TypeOK /\ PayersInsert
  BY DEF Informed
<1>1. ASSUME NEW s \in spends PROVE uid'[s.req] = uid[s.req] /\ s.uid = uid[s.req]
  <2>1. s.req \in Payers /\ s.req \in Procs
    BY <1>0 DEF TypeOK, TablesType, Payers
  <2>2. pc[s.req] \notin {"anchor", "add"}
    BY DEF Informed, MoneyInv, SpendsFit, Bought
  <2>. QED  BY <1>0, <2>1, <2>2, UidMoves DEF UidInv, SpendUids
<1>2. CASE pc'[q] = pc[q] /\ uid'[q] = uid[q] /\ req'[q] = req[q]
  <2>1. PICK s \in spends : s.req = req[q]
    BY <1>2 DEF Informed, MoneyInv, AllInHand, InHand
  <2>. QED  BY <1>1, <1>2, <2>1 DEF Aimed
<1>3. CASE InsertStep(q)
  <2>. USE <1>0 DEF Stay, End, Goto, TypeOK, ControlType
  <2>1. CASE Start(q) BY <2>1 DEF Start
  <2>2. CASE Spend(q) BY <2>2 DEF Spend
  <2>3. CASE Anchor(q) BY <2>3 DEF Anchor
  <2>4. CASE Add(q) BY <2>4 DEF Add
  <2>5. CASE Move(q) BY <2>5 DEF Move
  <2>6. CASE Save(q) BY <2>6 DEF Save
  <2>7. CASE Insert(q) BY <2>7 DEF Insert
  <2>8. CASE Row(q) BY <2>8 DEF Row
  <2>9. CASE Undo(q) BY <2>9 DEF Undo
  <2>10. CASE Unadd(q) BY <2>10 DEF Unadd
  <2>. QED  BY <1>3, <2>1, <2>2, <2>3, <2>4, <2>5, <2>6, <2>7, <2>8, <2>9, <2>10 DEF InsertStep
<1>4. CASE RefundStep(q) /\ pc'[q] = "refund"
  <2>1. Lookup(q)
    BY <1>0, <1>4, RefundOthers
  <2>2. ~(NotRefunded(q) /\ UNCHANGED req)
    BY <1>0, <1>4, NotRefundedOthers
  <2>3. PICK s \in spends : s.uid = uid[q] /\ req' = [req EXCEPT ![q] = s.req] /\ UNCHANGED uid
    BY <2>1, <2>2 DEF Lookup
  <2>4. req'[q] = s.req
    BY <1>0, <2>3 DEF TypeOK, LocalsType
  <2>. QED  BY <1>1, <2>3, <2>4
<1>5. CASE RefundStep(q) /\ pc'[q] = "mark"
  <2>1. Refund(q) /\ UNCHANGED req /\ pc[q] = "refund"
    BY <1>0, <1>5, RefundOthers DEF Refund
  <2>2. ~NotRefunded(q) /\ ~Raise(q)
    BY <1>0, <1>5, <2>1, NotRefundedOthers, RaiseOthers
  <2>3. UNCHANGED uid
    BY <2>1, <2>2 DEF Refund
  <2>. QED  BY <2>1, <2>3 DEF Aimed
<1>6. ASSUME NEW p \in Procs \ {q}, InsertStep(p) \/ RefundStep(p)
      PROVE  pc'[q] = pc[q] /\ uid'[q] = uid[q] /\ req'[q] = req[q]
  BY <1>0, <1>6, InsertOthers, RefundOthers DEF Others
<1>7. CASE PollStep \/ (\E u \in 1 .. nextUid - 1 : Play(u)) \/ UNCHANGED vars
  BY <1>2, <1>7 DEF PollStep, PollRead, PollError, PollPrune, PollUpsert, PollCommit, Play, vars, locals
<1>8. CASE Restart
  BY <1>0, <1>2, <1>8 DEF Restart, locals, Ended
<1>. QED  BY <1>2, <1>3, <1>4, <1>5, <1>6, <1>7, <1>8 DEF Next

\* Where a clear goes: to its end only with the playlist emptied, if nothing
\* raises.
LEMMA ClearStep ==
  ASSUME TypeOK, ClearsClear, NEW q \in Procs, Kind[q] = "clear", InsertStep(q) \/ RefundStep(q)
  PROVE  /\ pc'[q] \in ClearLabels
         /\ pc'[q] \in Ended => \/ playlist' = <<>> \/ May("clear_refused")
                                \/ May("refund_refused") \/ May("lost_answer")
<1>. USE DEF Stay, End, Goto, TypeOK, ControlType, ClearLabels
<1>0. pc[q] \in ClearLabels
  BY DEF ClearsClear
<1>1. CASE InsertStep(q)
  <2>1. Start(q)
    BY <1>0, <1>1 DEF InsertStep, Spend, Anchor, Add, Move, Save, Insert, Row, Undo, Unadd, Ended
  <2>2. pc'[q] = "list"
    BY <2>1 DEF Start, InsertKinds, PayKinds
  <2>. QED  BY <2>2 DEF Ended
<1>2. ASSUME NEW list, TakeNext(q, list) PROVE pc'[q] \in {"clear", "lookup"}
  BY <1>2 DEF TakeNext, AfterLast
<1>3. NotRefunded(q) => pc'[q] \in {"clear", "lookup"}
  BY <1>2 DEF NotRefunded
<1>4. CASE List(q)
  BY <1>2, <1>4 DEF List, Ended
<1>5. CASE Lookup(q)
  BY <1>3, <1>5 DEF Lookup, Ended
<1>6. CASE Refund(q)
  <2>1. CASE Stay(q, "mark")
    BY <2>1 DEF Ended
  <2>2. CASE (May("refund_refused") \/ May("lost_answer")) /\ Raise(q)
    BY <2>2 DEF Raise, Ended
  <2>. QED  BY <1>3, <1>6, <2>1, <2>2 DEF Refund, Ended
<1>7. CASE Mark(q)
  BY <1>2, <1>7 DEF Mark, Ended
<1>8. CASE Clear(q)
  BY <1>8 DEF Clear, Ended
<1>9. ~(Delete(q) \/ Forget(q) \/ Unrow(q))
  BY <1>0 DEF Delete, Forget, Unrow, Ended
<1>. QED  BY <1>1, <1>4, <1>5, <1>6, <1>7, <1>8, <1>9 DEF RefundStep

LEMMA ClearsClearStep == TypeOK /\ ClearsClear /\ [Next]_vars => ClearsClear'
<1>. SUFFICES ASSUME TypeOK, ClearsClear, [Next]_vars, NEW q \in Procs, Kind[q] = "clear"
              PROVE  pc'[q] \in ClearLabels
  BY DEF ClearsClear
<1>0. pc[q] \in ClearLabels
  BY DEF ClearsClear
<1>1. ASSUME NEW p \in Procs \ {q}, InsertStep(p) \/ RefundStep(p) PROVE pc'[q] = pc[q]
  BY <1>1, InsertOthers, RefundOthers DEF Others
<1>2. CASE PollStep \/ (\E u \in 1 .. nextUid - 1 : Play(u)) \/ UNCHANGED vars
  BY <1>0, <1>2 DEF PollStep, PollRead, PollError, PollPrune, PollUpsert, PollCommit, Play, vars
<1>3. CASE Restart
  BY <1>0, <1>3 DEF Restart, ClearLabels, Ended
<1>. QED  BY <1>0, <1>1, <1>2, <1>3, ClearStep DEF Next

\* A handler that is removing an item is still doing so after any step, or the
\* item is gone.
LEMMA RemovingStays ==
  ASSUME Calm, TypeOK, UidInv, ClearsClear, [Next]_vars, NEW q \in Procs, NEW u, Removing(q, u)
  PROVE  Removing(q, u)' \/ ~On(playlist', u)
<1>0. /\ ~May("delete_refused") /\ ~May("clear_refused")
      /\ Kind[q] = "clear" => ~May("refund_refused") /\ ~May("lost_answer")
  BY DEF Calm, May
<1>1. CASE pc'[q] = pc[q] /\ uid'[q] = uid[q]
  BY <1>1 DEF Removing
<1>2. CASE Kind[q] = "clear" /\ (InsertStep(q) \/ RefundStep(q))
  <2>1. pc'[q] \notin Ended \/ playlist' = <<>>
    BY <1>0, <1>2, ClearStep
  <2>2. playlist' = <<>> => ~On(playlist', u)
    BY DEF On
  <2>. QED  BY <1>2, <2>1, <2>2 DEF Removing
<1>3. CASE Kind[q] # "clear" /\ (InsertStep(q) \/ RefundStep(q))
  <2>1. pc[q] \in {"mark", "delete", "unadd"} /\ uid[q] = u
    BY <1>3 DEF Removing
  <2>2. CASE Mark(q)
    <3>1. pc'[q] = "delete" /\ uid'[q] = u
      BY <1>3, <2>1, <2>2 DEF Mark, Stay, Goto, TypeOK, ControlType
    <3>. QED  BY <3>1 DEF Removing
  <2>3. CASE Delete(q) \/ Unadd(q)
    <3>1. playlist' = Without(playlist, u)
      BY <1>0, <2>1, <2>3 DEF Delete, Unadd, Deleted
    <3>2. playlist \in Seq(1 .. nextUid - 1) /\ Single(playlist)
      BY DEF TypeOK, CytubeType, UidInv
    <3>. QED  BY <3>1, <3>2, WithoutKeeps
  <2>. QED  BY <1>3, <2>1, <2>2, <2>3 DEF InsertStep, RefundStep, Start, Spend, Anchor, Add, Move, Save, Insert,
                Row, Undo, List, Lookup, Refund, Forget, Unrow, Clear
<1>4. ASSUME NEW p \in Procs \ {q}, InsertStep(p) \/ RefundStep(p) PROVE pc'[q] = pc[q] /\ uid'[q] = uid[q]
  BY <1>4, InsertOthers, RefundOthers DEF Others
<1>5. CASE PollStep \/ (\E v \in 1 .. nextUid - 1 : Play(v)) \/ UNCHANGED vars
  BY <1>1, <1>5 DEF PollStep, PollRead, PollError, PollPrune, PollUpsert, PollCommit, Play, vars, locals
<1>6. ~Restart
  BY DEF Restart, Calm, TypeOK, TablesType
<1>. QED  BY <1>1, <1>2, <1>3, <1>4, <1>5, <1>6 DEF Next

LEMMA FreeRideStep ==
  ASSUME Calm, Informed, UidInv, Aimed, ClearsClear, NoFreeRide, [Next]_vars
  PROVE  NoFreeRide'
<1>0. TypeOK
  BY DEF Informed
<1>. SUFFICES ASSUME NEW s \in spends', s.refunded, On(playlist', s.uid)
              PROVE  \E q \in Procs : Removing(q, s.uid)'
  BY DEF NoFreeRide, Removing, On
<1>1. PICK t \in spends : /\ s.req = t.req /\ s.uid = t.uid
                          /\ s.refunded = t.refunded \/ \E p \in Procs : Mark(p) /\ req[p] = t.req
  BY <1>0, SpendsCome
<1>2. t.req \in Procs /\ t.uid = uid[t.req] /\ t.uid \in Uid /\ t.uid < nextUid
  <2>1. t.req \in Payers /\ t.req \in Procs /\ t.uid = uid[t.req] /\ t.uid \in Uid
    BY <1>0 DEF UidInv, SpendUids, TypeOK, TablesType, Payers
  <2>2. Mine(t.req)
    BY <2>1, PayQueueAssumption DEF Mine
  <2>. QED  BY <2>1, <2>2 DEF UidInv, Own
<1>3. On(playlist, t.uid)
  <2>1. On(playlist, t.uid) \/ t.uid = nextUid
    BY <1>0, <1>1, PlaylistSteps DEF UidInv
  <2>2. t.uid # nextUid
    BY <1>0, <1>2 DEF TypeOK, CytubeType, Uid
  <2>. QED  BY <2>1, <2>2
<1>4. CASE t.refunded
  <2>1. PICK q \in Procs : Removing(q, t.uid)
    BY <1>3, <1>4 DEF NoFreeRide
  <2>. QED  BY <1>0, <1>1, <2>1, RemovingStays
<1>5. ASSUME NEW p \in Procs, Mark(p), req[p] = t.req PROVE Removing(p, s.uid)'
  <2>1. pc[p] = "mark" /\ uid[p] = s.uid
    BY <1>1, <1>2, <1>5 DEF Mark, Aimed
  <2>2. CASE Kind[p] = "clear"
    <3>1. TakeNext(p, todo[p])
      BY <1>5, <2>2 DEF Mark
    <3>2. pc'[p] \in {"clear", "lookup"}
      BY <1>0, <2>2, <3>1 DEF TakeNext, AfterLast, Stay, Goto, TypeOK, ControlType
    <3>. QED  BY <2>2, <3>2 DEF Removing, Ended
  <2>3. CASE Kind[p] # "clear"
    <3>1. pc'[p] = "delete" /\ uid'[p] = uid[p]
      BY <1>0, <1>5, <2>3 DEF Mark, Stay, Goto, TypeOK, ControlType
    <3>. QED  BY <2>1, <3>1 DEF Removing
  <2>. QED  BY <2>2, <2>3
<1>. QED  BY <1>1, <1>4, <1>5

\* An item whose price went back is off the playlist, or some handler is about
\* to take it off: as long as the service runs through, deletes and clears are
\* carried out, and no clear is cut short by a refund that raises
\* (admin_queue.py, presence.py).
THEOREM NoFreeRideCorrect ==
  ASSUME Calm
  PROVE  Spec => []NoFreeRide
<1>1. Init => Aimed /\ ClearsClear /\ NoFreeRide
  BY DEF Init, Aimed, ClearsClear, ClearLabels, NoFreeRide
<1>2. Spec => [](Informed /\ UidInv)
  <2>1. Grounds => Informed /\ UidInv
    BY DEF Grounds
  <2>. QED  BY <2>1, GroundsCorrect, PTL
<1>3. Informed /\ UidInv /\ Aimed /\ ClearsClear /\ NoFreeRide /\ [Next]_vars => (Aimed /\ ClearsClear /\ NoFreeRide)'
  BY AimedStep, ClearsClearStep, FreeRideStep DEF Informed
<1>. QED  BY <1>1, <1>2, <1>3, PTL DEF Spec
====
