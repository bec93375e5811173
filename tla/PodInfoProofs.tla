--------------------------- MODULE PodInfoProofs ---------------------------
(***************************************************************************)
(* Proofs about PodInfo, for any pods, names, addresses and bounds.        *)
(***************************************************************************)
EXTENDS PodInfo, FiniteSetTheorems, SequenceTheorems, TLAPS

-----------------------------------------------------------------------------
(***************************************************************************)
(* Sequences.                                                              *)
(***************************************************************************)
\* A sequence without its element at j: the others move up.
LEMMA RemoveAtOK ==
  ASSUME NEW S, NEW s \in Seq(S), NEW j \in 1..Len(s)
  PROVE  /\ RemoveAt(s, j) \in Seq(S)
         /\ Len(RemoveAt(s, j)) = Len(s) - 1
         /\ \A i \in 1..Len(s) - 1 : RemoveAt(s, j)[i] = IF i < j THEN s[i] ELSE s[i + 1]
<1> DEFINE a == SubSeq(s, 1, j - 1)
           b == SubSeq(s, j + 1, Len(s))
<1>1. Len(s) \in Nat /\ \A i \in 1..Len(s) : s[i] \in S
  BY LenProperties, ElementOfSeq
<1>2. a \in Seq(S) /\ Len(a) = j - 1 /\ \A i \in 1..j - 1 : a[i] = s[i]
  BY <1>1, SubSeqProperties
<1>3. b \in Seq(S) /\ Len(b) = Len(s) - j /\ \A i \in 1..Len(s) - j : b[i] = s[j + i]
  BY <1>1, SubSeqProperties
<1> HIDE DEF a, b
<1>4. /\ a \o b \in Seq(S)
      /\ Len(a \o b) = Len(s) - 1
      /\ \A i \in 1..Len(s) - 1 : (a \o b)[i] = IF i <= j - 1 THEN a[i] ELSE b[i - (j - 1)]
  <2>1. /\ a \o b \in Seq(S) /\ Len(a \o b) = Len(a) + Len(b)
        /\ \A i \in 1..Len(a) + Len(b) : (a \o b)[i] = IF i <= Len(a) THEN a[i] ELSE b[i - Len(a)]
    BY <1>2, <1>3, ConcatProperties
  <2>2. Len(a) + Len(b) = Len(s) - 1
    BY <1>1, <1>2, <1>3
  <2>3. QED
    BY <1>2, <2>1, <2>2
<1>5. \A i \in 1..Len(s) - 1 : (a \o b)[i] = IF i < j THEN s[i] ELSE s[i + 1]
  <2> SUFFICES ASSUME NEW i \in 1..Len(s) - 1
               PROVE  (a \o b)[i] = IF i < j THEN s[i] ELSE s[i + 1]
    OBVIOUS
  <2>1. CASE i < j
    <3>1. i \in 1..j - 1 /\ i <= j - 1
      BY <1>1, <2>1
    <3>2. QED
      BY <1>2, <1>4, <2>1, <3>1
  <2>2. CASE ~(i < j)
    <3>1. /\ i - (j - 1) \in 1..Len(s) - j /\ ~(i <= j - 1)
          /\ j + (i - (j - 1)) = i + 1
      BY <1>1, <2>2
    <3>2. QED
      BY <1>3, <1>4, <2>2, <3>1
  <2>3. QED
    BY <2>1, <2>2
<1>6. RemoveAt(s, j) = a \o b
  BY DEF RemoveAt, a, b
<1>7. QED
  BY <1>4, <1>5, <1>6

-----------------------------------------------------------------------------
(***************************************************************************)
(* Counting the entries of a list that have one name, address and value.   *)
(***************************************************************************)
At(list, k, n) == {i \in 1..n : KeyOf(list[i]) = k}
Occ(list, k, n) == Cardinality(At(list, k, n))
All(list, k) == Occ(list, k, Len(list))
Copies(k, bag) == IF k \in BagToSet(bag) THEN bag[k] ELSE 0
One(b) == IF b THEN 1 ELSE 0

LEMMA OccIsNat ==
  ASSUME NEW list, NEW k, NEW n \in Nat
  PROVE  IsFiniteSet(At(list, k, n)) /\ Occ(list, k, n) \in Nat
<1>1. IsFiniteSet(1..n)
  BY FS_Interval
<1>2. At(list, k, n) \in SUBSET (1..n)
  BY DEF At
<1>3. IsFiniteSet(At(list, k, n))
  BY <1>1, <1>2, FS_Subset
<1>4. QED
  BY <1>3, FS_CardinalityType DEF Occ

\* One entry more.
LEMMA OccNext ==
  ASSUME NEW list, NEW k, NEW n \in Nat
  PROVE  Occ(list, k, n + 1) = Occ(list, k, n) + One(KeyOf(list[n + 1]) = k)
<1>1. IsFiniteSet(At(list, k, n)) /\ Occ(list, k, n) \in Nat
  BY OccIsNat
<1>2. n + 1 \notin At(list, k, n)
  BY DEF At
<1>3. CASE KeyOf(list[n + 1]) = k
  <2>1. At(list, k, n + 1) = At(list, k, n) \cup {n + 1}
    BY <1>3 DEF At
  <2>2. QED
    BY <1>1, <1>2, <1>3, <2>1, FS_AddElement DEF Occ, One
<1>4. CASE KeyOf(list[n + 1]) # k
  <2>1. At(list, k, n + 1) = At(list, k, n)
    BY <1>4 DEF At
  <2>2. QED
    BY <1>1, <1>4, <2>1 DEF Occ, One
<1>5. QED
  BY <1>3, <1>4

\* The count depends on the first n entries alone.
LEMMA OccSame ==
  ASSUME NEW list, NEW other, NEW k, NEW n \in Nat, \A i \in 1..n : KeyOf(other[i]) = KeyOf(list[i])
  PROVE  Occ(other, k, n) = Occ(list, k, n)
<1>1. At(other, k, n) = At(list, k, n)
  BY DEF At
<1>2. QED
  BY <1>1 DEF Occ

\* One entry less: the others are counted at their new places.
Closed(other, list, j, n) ==
  \A i \in 1..n - 1 : other[i] = IF i < j THEN list[i] ELSE list[i + 1]

LEMMA OccWithout ==
  ASSUME NEW list, NEW other, NEW k, NEW n \in Nat \ {0}, NEW j \in 1..n, Closed(other, list, j, n)
  PROVE  Occ(other, k, n - 1) + One(KeyOf(list[j]) = k) = Occ(list, k, n)
<1> USE DEF Closed
<1> DEFINE S == At(list, k, n) \ {j}
           T == At(other, k, n - 1)
           f == [i \in S |-> IF i < j THEN i ELSE i - 1]
           g == [i \in T |-> IF i < j THEN i ELSE i + 1]
<1>1. IsFiniteSet(At(list, k, n)) /\ Occ(list, k, n) \in Nat
  BY OccIsNat
<1>2. IsFiniteSet(S) /\ Cardinality(S) = Occ(list, k, n) - One(KeyOf(list[j]) = k)
  <2>1. j \in At(list, k, n) <=> KeyOf(list[j]) = k
    BY DEF At
  <2>2. QED
    BY <1>1, <2>1, FS_RemoveElement DEF Occ, One
<1>3. S \subseteq Nat /\ T \subseteq Nat
  BY DEF At
<1>4. ASSUME NEW i \in S
      PROVE  f[i] \in T /\ (f[i] < j <=> i < j) /\ (i >= j => f[i] = i - 1)
  BY DEF At
<1>5. ASSUME NEW i \in T
      PROVE  g[i] \in S /\ f[g[i]] = i
  <2>1. g[i] \in S
    BY DEF At
  <2>2. f[g[i]] = IF g[i] < j THEN g[i] ELSE g[i] - 1
    BY <2>1
  <2>3. QED
    BY <1>3, <2>1, <2>2
<1>6. f \in Bijection(S, T)
  <2>1. f \in [S -> T]
    BY <1>4
  <2>2. \A x, y \in S : f[x] = f[y] => x = y
    BY <1>3, <1>4
  <2>3. \A y \in T : \E x \in S : f[x] = y
    BY <1>5
  <2> HIDE DEF f, S, T
  <2>4. QED
    BY <2>1, <2>2, <2>3 DEF Bijection, Injection, Surjection, IsInjective
<1>7. ExistsBijection(S, T)
  BY <1>6 DEF ExistsBijection
<1>8. Cardinality(T) = Cardinality(S)
  <2> HIDE DEF S, T
  <2>1. QED
    BY <1>2, <1>7, FS_Bijection
<1>9. QED
  BY <1>1, <1>2, <1>8 DEF Occ, One

LEMMA KeysAreKeys ==
  ASSUME NEW list \in Seq(Entry)
  PROVE  /\ Len(list) \in Nat /\ DOMAIN list = 1..Len(list)
         /\ \A i \in 1..Len(list) : list[i] \in Entry /\ KeyOf(list[i]) \in Key
<1>1. /\ Len(list) \in Nat /\ DOMAIN list = 1..Len(list)
      /\ \A i \in 1..Len(list) : list[i] \in Entry
  BY LenProperties, ElementOfSeq
<1>2. ASSUME NEW e \in Entry
      PROVE  KeyOf(e) \in Key
  BY DEF KeyOf, Key, Entry
<1>3. QED
  BY <1>1, <1>2

\* The bag of a list says how often each pod occurs.
LEMMA KeyBagCounts ==
  ASSUME NEW list \in Seq(Entry)
  PROVE  /\ IsABag(KeyBag(list)) /\ BagToSet(KeyBag(list)) = KeysOf(list) /\ KeysOf(list) \subseteq Key
         /\ \A k \in Key : Copies(k, KeyBag(list)) = All(list, k)
<1> DEFINE f == [i \in DOMAIN list |-> KeyOf(list[i])]
           bag == KeyBag(list)
<1>1. /\ Len(list) \in Nat /\ DOMAIN list = 1..Len(list)
      /\ \A i \in 1..Len(list) : KeyOf(list[i]) \in Key
  BY KeysAreKeys
<1>2. DOMAIN bag = Range(f) /\ Range(f) = KeysOf(list) /\ KeysOf(list) \subseteq Key
  BY <1>1 DEF KeyBag, ToBag, Range, KeysOf, ToSet
<1>3. \A k : {i \in DOMAIN f : f[i] = k} = At(list, k, Len(list))
  BY <1>1 DEF At
<1>4. \A k \in DOMAIN bag : bag[k] = All(list, k)
  BY <1>3 DEF KeyBag, ToBag, All, Occ
<1>5. ASSUME NEW k
      PROVE  k \in DOMAIN bag <=> All(list, k) # 0
  <2>1. k \in DOMAIN bag <=> At(list, k, Len(list)) # {}
    BY <1>1, <1>2 DEF At, Range
  <2>2. IsFiniteSet(At(list, k, Len(list)))
    BY <1>1, OccIsNat
  <2>3. QED
    BY <2>1, <2>2, FS_EmptySet DEF All, Occ
<1>6. \A k : All(list, k) \in Nat
  BY <1>1, OccIsNat DEF All
<1>7. IsABag(bag)
  <2>1. \A k \in DOMAIN bag : bag[k] \in {n \in Nat : n > 0}
    BY <1>4, <1>5, <1>6
  <2>2. bag = [k \in DOMAIN bag |-> bag[k]]
    BY DEF KeyBag, ToBag
  <2> HIDE DEF bag
  <2>3. QED
    BY <2>1, <2>2 DEF IsABag
<1>8. \A k \in Key : Copies(k, bag) = All(list, k)
  BY <1>4, <1>5 DEF Copies, BagToSet
<1>9. QED
  BY <1>2, <1>7, <1>8 DEF BagToSet

\* A list in which each pod occurs as often as in a bag has that bag.
LEMMA SameCounts ==
  ASSUME NEW list \in Seq(Entry), NEW bag, IsABag(bag), BagToSet(bag) \subseteq Key,
         \A k \in Key : Copies(k, bag) = All(list, k)
  PROVE  KeyBag(list) = bag
<1> DEFINE own == KeyBag(list)
<1>1. /\ IsABag(own) /\ BagToSet(own) \subseteq Key
      /\ \A k \in Key : Copies(k, own) = All(list, k)
  BY KeyBagCounts
<1> HIDE DEF own
<1>2. \A k \in DOMAIN bag : k \in Key /\ bag[k] \in Nat /\ bag[k] > 0 /\ Copies(k, bag) = bag[k]
  BY DEF IsABag, Copies, BagToSet
<1>3. \A k \in DOMAIN own : k \in Key /\ own[k] \in Nat /\ own[k] > 0 /\ Copies(k, own) = own[k]
  BY <1>1 DEF IsABag, Copies, BagToSet
<1>4. \A k \in Key : Copies(k, bag) = Copies(k, own)
  BY <1>1
<1>5. \A k \in Key : /\ k \notin DOMAIN bag => Copies(k, bag) = 0
                     /\ k \notin DOMAIN own => Copies(k, own) = 0
  BY DEF Copies, BagToSet
<1>6. DOMAIN own = DOMAIN bag
  <2>1. DOMAIN own \subseteq DOMAIN bag
    BY <1>3, <1>4, <1>5
  <2>2. DOMAIN bag \subseteq DOMAIN own
    BY <1>2, <1>4, <1>5
  <2>3. QED
    BY <2>1, <2>2
<1>7. \A k \in DOMAIN bag : own[k] = bag[k]
  BY <1>2, <1>3, <1>4, <1>6
<1>8. own = [k \in DOMAIN own |-> own[k]] /\ bag = [k \in DOMAIN bag |-> bag[k]]
  BY <1>1 DEF IsABag
<1>9. own = bag
  BY <1>6, <1>7, <1>8
<1>10. QED
  BY <1>9 DEF own

\* A set of numbers that is not empty has a smallest one.
LEMMA Smallest ==
  ASSUME NEW S, S \subseteq Nat, S # {}
  PROVE  \E i \in S : \A k \in S : i <= k
<1> DEFINE less == OpToRel(<, Nat)
<1>1. \E i \in S : \A k \in S : ~(<<k, i>> \in less)
  <2>1. IsWellFoundedOn(less, Nat)
    BY NatLessThanWellFounded
  <2> HIDE DEF less
  <2>2. QED
    BY <2>1, WFMin
<1>2. \A i, k \in Nat : <<k, i>> \in less <=> k < i
  BY DEF OpToRel
<1>3. \A i, k \in S : ~(<<k, i>> \in less) => i <= k
  <2> HIDE DEF less
  <2>1. QED
    BY <1>2
<1> HIDE DEF less
<1>4. QED
  BY <1>1, <1>3

-----------------------------------------------------------------------------
(***************************************************************************)
(* Types.  The entries of an answer have no tag yet; outside a merge the   *)
(* thread is at the head of the list.                                      *)
(***************************************************************************)
ListType ==
  /\ podList \in Seq(Entry) /\ newList \in Seq(Entry)
  /\ \A i \in 1..Len(newList) : newList[i].tag = 0 /\ newList[i].cnt = 0
  /\ pos \in 1..Len(podList) + 1 /\ (pc # "merge" => pos = 1)
  /\ pc \in {"sleep", "merge", "cancelled", "ended"}
PingType ==
  /\ lastTag \in 0..MaxTag /\ registered \subseteq 1..lastTag
  /\ dest \in [Tag -> Ips] /\ cnt \in [Tag -> 0..MaxCnt]
MetricType ==
  /\ updPc \in {"idle", "cleared"}
  /\ states \subseteq Key /\ shown \subseteq Key
  /\ pings \subseteq [name : Names, ip : Ips, cnt : 0..MaxCnt]
BagType == IsABag(merged) /\ BagToSet(merged) \subseteq Key
KubeType == kube \in [Pods -> Status] /\ changes \in 0..MaxChanges
TypeInv == ListType /\ PingType /\ MetricType /\ BagType /\ KubeType

\* What a merge does to the ping items: e takes the place of an entry with tag t, or of
\* the entry old.
Dropped(t, e) ==
  /\ e.tag = 0
  /\ registered' = registered \ {t} /\ UNCHANGED <<lastTag, dest, cnt>>
Renewed(t, e) ==
  /\ Pingable(e) /\ e.tag = lastTag + 1 /\ e.cnt = 0
  /\ lastTag + 1 \in Tag /\ lastTag' = lastTag + 1
  /\ registered' = (registered \ {t}) \cup {lastTag + 1}
  /\ dest' = [dest EXCEPT ![lastTag + 1] = e.ip]
  /\ cnt' = [cnt EXCEPT ![lastTag + 1] = 0]
Kept(old, e) ==
  /\ Pingable(e) /\ e.tag = old.tag /\ e.ip = old.ip
  /\ e.cnt = IF old.tag \in registered THEN cnt[old.tag] ELSE 0
  /\ UNCHANGED pingVars

\* The first entry of the answer that has the name takes the place of the old one.
LEMMA FoundStep ==
  ASSUME TypeInv, MergeFound
  PROVE  /\ pc = "merge" /\ pos \in 1..Len(podList) /\ pos' = pos + 1
         /\ UNCHANGED <<pc, merged, metricVars, kubeVars>>
         /\ \E j \in 1..Len(newList), e \in Entry :
              /\ newList' = RemoveAt(newList, j)
              /\ podList' = [podList EXCEPT ![pos] = e]
              /\ KeyOf(e) = KeyOf(newList[j]) /\ e.name = podList[pos].name
              /\ \/ Dropped(podList[pos].tag, e) \/ Renewed(podList[pos].tag, e)
                 \/ Kept(podList[pos], e)
<1> USE PodAssumption
<1> DEFINE old == podList[pos]
           j == CHOOSE i \in Matches(old) : \A k \in Matches(old) : i <= k
           new == newList[j]
<1>1. /\ pc = "merge" /\ pos <= Len(podList) /\ pos' = pos + 1
      /\ UNCHANGED <<pc, merged, metricVars, kubeVars>>
      /\ Matches(old) # {} /\ newList' = RemoveAt(newList, j)
  BY DEF MergeFound, TakenOut
<1>2. pos \in 1..Len(podList) /\ old \in Entry
  BY <1>1, KeysAreKeys DEF TypeInv, ListType
<1>3. j \in 1..Len(newList) /\ new.name = old.name
  <2>1. DOMAIN newList = 1..Len(newList) /\ Len(newList) \in Nat
    BY KeysAreKeys DEF TypeInv, ListType
  <2>2. Matches(old) \subseteq Nat
    BY <2>1 DEF Matches
  <2>3. \E i \in Matches(old) : \A k \in Matches(old) : i <= k
    BY <1>1, <2>2, Smallest
  <2>4. j \in Matches(old)
    BY <2>3
  <2>5. QED
    BY <2>1, <2>4 DEF Matches
<1>4. new \in Entry /\ new.tag = 0 /\ new.cnt = 0
  BY <1>3, KeysAreKeys DEF TypeInv, ListType
<1>5. \/ ~Pingable(new) /\ registered' = Unregistered(old.tag)
         /\ podList' = [podList EXCEPT ![pos] = Untagged(new)] /\ UNCHANGED <<lastTag, dest, cnt>>
      \/ Pingable(new) /\ Moved(old, new) /\ Renew(old.tag, new.ip)
         /\ podList' = [podList EXCEPT ![pos] = WithCounts(new, lastTag')]
      \/ Pingable(new) /\ ~Moved(old, new) /\ UNCHANGED pingVars
         /\ podList' = [podList EXCEPT ![pos] = WithCounts(new, old.tag)]
  BY DEF MergeFound
<1> HIDE DEF old, j, new
<1> DEFINE Tagged(t, c) == [new EXCEPT !.tag = t, !.cnt = c]
<1>6. ASSUME NEW t \in 0..MaxTag, NEW c \in 0..MaxCnt
      PROVE  /\ Tagged(t, c) \in Entry /\ KeyOf(Tagged(t, c)) = KeyOf(new)
             /\ Tagged(t, c).name = new.name /\ Tagged(t, c).ip = new.ip
             /\ Pingable(new) => Pingable(Tagged(t, c))
             /\ Tagged(t, c).tag = t /\ Tagged(t, c).cnt = c
  BY <1>4 DEF Entry, KeyOf, Pingable
<1>7. \E e \in Entry :
        /\ podList' = [podList EXCEPT ![pos] = e]
        /\ KeyOf(e) = KeyOf(new) /\ e.name = old.name
        /\ Dropped(old.tag, e) \/ Renewed(old.tag, e) \/ Kept(old, e)
  <2>1. CASE ~Pingable(new) /\ registered' = Unregistered(old.tag)
             /\ podList' = [podList EXCEPT ![pos] = Untagged(new)] /\ UNCHANGED <<lastTag, dest, cnt>>
    <3>1. Dropped(old.tag, new)
      BY <1>4, <2>1 DEF Dropped, Unregistered
    <3>2. QED
      BY <1>3, <1>4, <2>1, <3>1 DEF Untagged, new
  <2>2. CASE Pingable(new) /\ Moved(old, new) /\ Renew(old.tag, new.ip)
             /\ podList' = [podList EXCEPT ![pos] = WithCounts(new, lastTag')]
    <3> DEFINE e == Tagged(lastTag + 1, 0)
    <3>1. /\ lastTag + 1 \in Tag /\ lastTag' = lastTag + 1
          /\ registered' = (registered \ {old.tag}) \cup {lastTag + 1}
          /\ dest' = [dest EXCEPT ![lastTag + 1] = new.ip]
          /\ cnt' = [cnt EXCEPT ![lastTag + 1] = 0]
      BY <2>2 DEF Renew, Unregistered, TypeInv, PingType, Tag
    <3>2. cnt'[lastTag + 1] = 0 /\ lastTag + 1 \in registered'
      BY <3>1 DEF TypeInv, PingType
    <3>3. WithCounts(new, lastTag') = e
      BY <3>1, <3>2 DEF WithCounts
    <3>4. /\ e \in Entry /\ KeyOf(e) = KeyOf(new) /\ e.name = new.name /\ Pingable(e)
          /\ e.ip = new.ip /\ e.tag = lastTag + 1 /\ e.cnt = 0
      <4>1. lastTag + 1 \in 0..MaxTag /\ 0 \in 0..MaxCnt
        BY <3>1 DEF Tag
      <4> HIDE DEF Tagged
      <4>2. QED
        BY <1>6, <2>2, <4>1
    <3> HIDE DEF e
    <3>5. Renewed(old.tag, e)
      BY <3>1, <3>4 DEF Renewed
    <3>6. QED
      BY <1>3, <2>2, <3>3, <3>4, <3>5 DEF new
  <2>3. CASE Pingable(new) /\ ~Moved(old, new) /\ UNCHANGED pingVars
             /\ podList' = [podList EXCEPT ![pos] = WithCounts(new, old.tag)]
    <3> DEFINE c == IF old.tag \in registered THEN cnt[old.tag] ELSE 0
               e == Tagged(old.tag, c)
    <3>1. old.tag \in 0..MaxTag /\ c \in 0..MaxCnt
      BY <1>2 DEF Entry, TypeInv, PingType, Tag
    <3>2. WithCounts(new, old.tag) = e
      BY <1>4, <2>3 DEF WithCounts, pingVars
    <3>3. /\ e \in Entry /\ KeyOf(e) = KeyOf(new) /\ e.name = new.name /\ Pingable(e)
          /\ e.ip = new.ip /\ e.tag = old.tag /\ e.cnt = c
      <4> HIDE DEF c, Tagged
      <4>1. QED
        BY <1>6, <2>3, <3>1
    <3> HIDE DEF e
    <3>4. Kept(old, e)
      BY <2>3, <3>3 DEF Kept, Moved
    <3>5. QED
      BY <1>3, <2>3, <3>2, <3>3, <3>4 DEF new
  <2>4. QED
    BY <1>5, <2>1, <2>2, <2>3
<1>8. QED
  BY <1>1, <1>2, <1>3, <1>7 DEF old, new

\* An entry that is left in the answer comes to the end of the list.
LEMMA NewStep ==
  ASSUME TypeInv, MergeNew
  PROVE  /\ pc = "merge" /\ pos = Len(podList) + 1 /\ pos' = Len(podList) + 2
         /\ newList # <<>> /\ newList' = Tail(newList)
         /\ UNCHANGED <<pc, merged, metricVars, kubeVars>>
         /\ \E e \in Entry :
              /\ podList' = Append(podList, e)
              /\ KeyOf(e) = KeyOf(newList[1]) /\ e.name = newList[1].name
              /\ Renewed(0, e) \/ (e.tag = 0 /\ e.cnt = 0 /\ UNCHANGED pingVars)
<1> USE PodAssumption
<1> DEFINE new == newList[1]
<1>1. /\ pc = "merge" /\ pos > Len(podList) /\ pos' = Len(podList) + 2
      /\ newList # <<>> /\ newList' = Tail(newList) /\ Head(newList) = new
      /\ UNCHANGED <<pc, merged, metricVars, kubeVars>>
  BY DEF MergeNew
<1>2. pos = Len(podList) + 1
  BY <1>1, KeysAreKeys DEF TypeInv, ListType
<1>3. new \in Entry /\ new.tag = 0 /\ new.cnt = 0
  <2>1. Len(newList) \in Nat \ {0}
    BY <1>1, EmptySeq DEF TypeInv, ListType
  <2>2. QED
    BY <2>1, KeysAreKeys DEF TypeInv, ListType
<1> HIDE DEF new
<1>4. CASE Pingable(new) /\ Renew(0, new.ip) /\ podList' = Append(podList, [new EXCEPT !.tag = lastTag'])
  <2> DEFINE e == [new EXCEPT !.tag = lastTag + 1]
  <2>1. /\ lastTag + 1 \in Tag /\ lastTag' = lastTag + 1
        /\ registered' = (registered \ {0}) \cup {lastTag + 1}
        /\ dest' = [dest EXCEPT ![lastTag + 1] = new.ip]
        /\ cnt' = [cnt EXCEPT ![lastTag + 1] = 0]
    BY <1>4 DEF Renew, Unregistered, TypeInv, PingType, Tag
  <2>2. /\ e \in Entry /\ KeyOf(e) = KeyOf(new) /\ e.name = new.name /\ Pingable(e)
        /\ e.ip = new.ip /\ e.tag = lastTag + 1 /\ e.cnt = 0
    BY <1>3, <1>4, <2>1 DEF Tag, Entry, KeyOf, Pingable
  <2>3. podList' = Append(podList, e)
    BY <1>4, <2>1
  <2> HIDE DEF e
  <2>4. Renewed(0, e)
    BY <2>1, <2>2 DEF Renewed
  <2>5. QED
    BY <1>1, <1>2, <2>2, <2>3, <2>4 DEF new
<1>5. CASE ~Pingable(new) /\ UNCHANGED pingVars /\ podList' = Append(podList, new)
  BY <1>1, <1>2, <1>3, <1>5 DEF new
<1>6. QED
  BY <1>1, <1>4, <1>5 DEF MergeNew

LEMMA PingTypes ==
  ASSUME PingType, NEW t, NEW e \in Entry, NEW old,
         Dropped(t, e) \/ Renewed(t, e) \/ Kept(old, e)
  PROVE  PingType'
<1> USE PodAssumption
<1>1. CASE Dropped(t, e)
  BY <1>1 DEF Dropped, PingType
<1>2. CASE Kept(old, e)
  BY <1>2 DEF Kept, PingType, pingVars
<1>3. CASE Renewed(t, e)
  <2>1. e.ip \in Ips
    BY DEF Entry
  <2>2. /\ lastTag + 1 \in Tag /\ lastTag' = lastTag + 1
        /\ registered' = (registered \ {t}) \cup {lastTag + 1}
        /\ dest' = [dest EXCEPT ![lastTag + 1] = e.ip]
        /\ cnt' = [cnt EXCEPT ![lastTag + 1] = 0]
    BY <1>3 DEF Renewed
  <2>3. lastTag \in Nat /\ lastTag' \in 0..MaxTag
    BY <2>2 DEF PingType, Tag
  <2>4. registered' \subseteq 1..lastTag'
    <3>1. \A x \in 1..lastTag : x \in 1..lastTag + 1
      BY <2>3
    <3>2. registered \subseteq 1..lastTag /\ lastTag + 1 \in 1..lastTag + 1
      BY <2>3 DEF PingType
    <3>3. QED
      BY <2>2, <3>1, <3>2
  <2>5. dest' \in [Tag -> Ips]
    BY <2>1, <2>2 DEF PingType
  <2>6. cnt' \in [Tag -> 0..MaxCnt]
    <3>1. 0 \in 0..MaxCnt
      OBVIOUS
    <3>2. QED
      BY <2>2, <3>1 DEF PingType
  <2>7. QED
    BY <2>3, <2>4, <2>5, <2>6 DEF PingType
<1>4. QED
  BY <1>1, <1>2, <1>3

\* The answer loses an entry, at j or at its head.
LEMMA TailOK ==
  ASSUME NEW S, NEW s \in Seq(S), s # <<>>
  PROVE  /\ Len(s) \in Nat \ {0} /\ Tail(s) \in Seq(S) /\ Len(Tail(s)) = Len(s) - 1
         /\ \A i \in 1..Len(s) - 1 : Tail(s)[i] = IF i < 1 THEN s[i] ELSE s[i + 1]
<1>1. Len(s) \in Nat \ {0}
  BY EmptySeq
<1>2. QED
  BY <1>1, HeadTailProperties

LEMMA AppendOK ==
  ASSUME NEW S, NEW s \in Seq(S), NEW e \in S
  PROVE  /\ Append(s, e) \in Seq(S) /\ Len(s) \in Nat /\ Len(Append(s, e)) = Len(s) + 1
         /\ Append(s, e)[Len(s) + 1] = e
         /\ \A i \in 1..Len(s) : Append(s, e)[i] = s[i]
<1>1. Len(s) \in Nat
  BY LenProperties
<1>2. QED
  BY <1>1

LEMMA FoundTypes ==
  ASSUME TypeInv, MergeFound
  PROVE  TypeInv'
<1>1. /\ pc = "merge" /\ pos \in 1..Len(podList) /\ pos' = pos + 1
      /\ UNCHANGED <<pc, merged, metricVars, kubeVars>>
  BY FoundStep
<1>2. PICK j \in 1..Len(newList), e \in Entry :
        /\ newList' = RemoveAt(newList, j)
        /\ podList' = [podList EXCEPT ![pos] = e]
        /\ KeyOf(e) = KeyOf(newList[j]) /\ e.name = podList[pos].name
        /\ Dropped(podList[pos].tag, e) \/ Renewed(podList[pos].tag, e) \/ Kept(podList[pos], e)
  BY FoundStep
<1>3. PingType'
  BY <1>2, PingTypes DEF TypeInv
<1>4. podList' \in Seq(Entry) /\ Len(podList') = Len(podList) /\ Len(podList) \in Nat
  BY <1>1, <1>2, ExceptSeq, LenProperties DEF TypeInv, ListType
<1>5. /\ newList' \in Seq(Entry) /\ Len(newList') = Len(newList) - 1 /\ Len(newList) \in Nat
      /\ \A i \in 1..Len(newList) - 1 : newList'[i] = IF i < j THEN newList[i] ELSE newList[i + 1]
  BY <1>2, RemoveAtOK, LenProperties DEF TypeInv, ListType
<1>6. ListType'
  <2>1. \A i \in 1..Len(newList') : newList'[i].tag = 0 /\ newList'[i].cnt = 0
    <3>1. ASSUME NEW i \in 1..Len(newList) - 1
          PROVE  \E l \in 1..Len(newList) : newList'[i] = newList[l]
      <4>1. i \in 1..Len(newList) /\ i + 1 \in 1..Len(newList)
        BY <1>5
      <4>2. newList'[i] = newList[i] \/ newList'[i] = newList[i + 1]
        BY <1>5
      <4>3. QED
        BY <4>1, <4>2
    <3>2. \A l \in 1..Len(newList) : newList[l].tag = 0 /\ newList[l].cnt = 0
      BY DEF TypeInv, ListType
    <3>3. \A i \in 1..Len(newList) - 1 : newList'[i].tag = 0 /\ newList'[i].cnt = 0
      BY <3>1, <3>2
    <3>4. QED
      BY <1>5, <3>3
  <2>2. pos' \in 1..Len(podList') + 1 /\ pc' = "merge"
    BY <1>1, <1>4
  <2>3. QED
    BY <1>4, <1>5, <2>1, <2>2 DEF ListType
<1>7. QED
  BY <1>1, <1>3, <1>6 DEF TypeInv, MetricType, BagType, KubeType, metricVars, kubeVars

LEMMA NewTypes ==
  ASSUME TypeInv, MergeNew
  PROVE  TypeInv'
<1>1. /\ pc = "merge" /\ pos' = Len(podList) + 2
      /\ newList # <<>> /\ newList' = Tail(newList)
      /\ UNCHANGED <<pc, merged, metricVars, kubeVars>>
  BY NewStep
<1>2. PICK e \in Entry :
        /\ podList' = Append(podList, e)
        /\ Renewed(0, e) \/ (e.tag = 0 /\ e.cnt = 0 /\ UNCHANGED pingVars)
  BY NewStep
<1>3. PingType'
  <2>1. CASE Renewed(0, e)
    BY <2>1, PingTypes DEF TypeInv
  <2>2. CASE UNCHANGED pingVars
    BY <2>2 DEF TypeInv, PingType, pingVars
  <2>3. QED
    BY <1>2, <2>1, <2>2
<1>4. podList' \in Seq(Entry) /\ Len(podList') = Len(podList) + 1 /\ Len(podList) \in Nat
  BY <1>2, AppendOK DEF TypeInv, ListType
<1>5. /\ newList' \in Seq(Entry) /\ Len(newList') = Len(newList) - 1 /\ Len(newList) \in Nat
      /\ \A i \in 1..Len(newList) - 1 : newList'[i] = newList[i + 1]
  BY <1>1, TailOK DEF TypeInv, ListType
<1>6. ListType'
  BY <1>1, <1>4, <1>5 DEF TypeInv, ListType
<1>7. QED
  BY <1>1, <1>3, <1>6 DEF TypeInv, MetricType, BagType, KubeType, metricVars, kubeVars

\* An entry that leaves the list takes its ping item with it.
LEMMA LeavesTypes ==
  ASSUME TypeInv, MergeGone \/ DestroyEntry
  PROVE  TypeInv'
<1>1. \E t : registered' = Unregistered(t) /\ UNCHANGED <<lastTag, dest, cnt>>
  BY DEF MergeGone, DestroyEntry
<1>2. PingType'
  BY <1>1 DEF TypeInv, PingType, Unregistered
<1>3. UNCHANGED <<newList, pc, pos, merged, metricVars, kubeVars>>
  BY DEF MergeGone, DestroyEntry, AtRemoved
<1>4. podList' \in Seq(Entry) /\ Len(podList') = Len(podList) - 1 /\ Len(podList) \in Nat
      /\ pos <= Len(podList)
  <2>1. Len(podList) \in Nat /\ pos \in 1..Len(podList) + 1
    BY LenProperties DEF TypeInv, ListType
  <2>2. CASE MergeGone
    <3>1. podList' = RemoveAt(podList, pos) /\ pos \in 1..Len(podList)
      BY <2>1, <2>2 DEF MergeGone
    <3>2. QED
      BY <2>1, <3>1, RemoveAtOK DEF TypeInv, ListType
  <2>3. CASE DestroyEntry
    <3>1. podList' = Tail(podList) /\ podList # <<>> /\ pos = 1
      BY <2>3 DEF DestroyEntry, TypeInv, ListType
    <3>2. QED
      BY <2>1, <3>1, TailOK DEF TypeInv, ListType
  <2>4. QED
    BY <2>2, <2>3
<1>5. ListType'
  BY <1>3, <1>4 DEF TypeInv, ListType
<1>6. QED
  BY <1>2, <1>3, <1>5 DEF TypeInv, MetricType, BagType, KubeType, metricVars, kubeVars

\* The answer is a list of entries without tags.
LEMMA FetchTypes ==
  ASSUME TypeInv, Fetch
  PROVE  TypeInv'
<1> USE PodAssumption
<1>1. /\ pc = "sleep" /\ pc' = "merge" /\ pos' = 1 /\ merged' = KeyBag(newList')
      /\ UNCHANGED <<podList, pingVars, metricVars, kubeVars>>
  BY DEF Fetch
<1>2. PICK order \in SetToSeqs(Answer) : newList' = [i \in DOMAIN order |-> NewEntry(order[i])]
  BY DEF Fetch
<1>3. \A p \in Pods : NewEntry(p) \in Entry /\ NewEntry(p).tag = 0 /\ NewEntry(p).cnt = 0
  BY DEF NewEntry, Entry, Names, TypeInv, KubeType, Status
<1>4. /\ Cardinality(Answer) \in Nat /\ DOMAIN order = 1..Cardinality(Answer)
      /\ \A i \in 1..Cardinality(Answer) : order[i] \in Pods
  <2>1. Answer \in SUBSET Pods
    BY DEF Answer
  <2>2. Cardinality(Answer) \in Nat
    BY <2>1, FS_Subset, FS_CardinalityType
  <2>3. order \in [1..Cardinality(Answer) -> Answer]
    BY <1>2 DEF SetToSeqs
  <2>4. QED
    BY <2>1, <2>2, <2>3
<1>5. /\ newList' \in Seq(Entry)
      /\ \A i \in 1..Len(newList') : newList'[i].tag = 0 /\ newList'[i].cnt = 0
  <2> DEFINE n == Cardinality(Answer)
  <2>1. newList' \in [1..n -> Entry] /\ \A i \in 1..n : newList'[i] = NewEntry(order[i])
    BY <1>2, <1>3, <1>4
  <2> HIDE DEF n
  <2>2. newList' \in Seq(Entry) /\ Len(newList') = n
    BY <1>4, <2>1 DEF n
  <2>3. QED
    BY <1>3, <1>4, <2>1, <2>2 DEF n
<1>6. BagType'
  BY <1>1, <1>5, KeyBagCounts DEF BagType
<1>7. ListType'
  BY <1>1, <1>5, LenProperties DEF TypeInv, ListType
<1>8. QED
  BY <1>1, <1>6, <1>7 DEF TypeInv, PingType, MetricType, KubeType, pingVars, metricVars, kubeVars

LEMMA OtherTypes ==
  ASSUME TypeInv,
         MergeEnd \/ MetricsThread \/ CancelThread \/ DestroyEnd \/ Environment \/ UNCHANGED vars
  PROVE  TypeInv'
<1> USE PodAssumption
<1>1. CASE MergeEnd \/ CancelThread \/ DestroyEnd \/ UNCHANGED vars
  <2>1. /\ UNCHANGED <<podList, newList, merged, pingVars, metricVars, kubeVars>>
        /\ pos' = pos \/ pos' = 1
        /\ pc' # "merge" => pos' = 1
        /\ pc' \in {"sleep", "merge", "cancelled", "ended"}
    BY <1>1 DEF MergeEnd, CancelThread, DestroyEnd, vars, listVars, TypeInv, ListType
  <2>2. ListType'
    BY <2>1, LenProperties DEF TypeInv, ListType
  <2>3. QED
    BY <2>1, <2>2 DEF TypeInv, PingType, MetricType, BagType, KubeType, pingVars, metricVars, kubeVars
<1>2. CASE Clear
  BY <1>2 DEF Clear, TypeInv, ListType, PingType, MetricType, BagType, KubeType, pingVars, listVars,
              kubeVars
<1>3. CASE Publish
  <2>1. UNCHANGED <<pingVars, listVars, kubeVars>>
    BY <1>3 DEF Publish
  <2>2. MetricType'
    <3>1. KeysOf(podList) \subseteq Key
      BY KeyBagCounts DEF TypeInv, ListType
    <3>2. BagToSet(merged) \subseteq Key
      BY DEF TypeInv, BagType
    <3>3. \A e \in ToSet(podList) : e \in Entry
      BY KeysAreKeys DEF TypeInv, ListType, ToSet
    <3>4. pings' \subseteq [name : Names, ip : Ips, cnt : 0..MaxCnt]
      BY <1>3, <3>3 DEF Publish, Entry
    <3>5. QED
      BY <1>3, <3>1, <3>2, <3>4 DEF Publish, MetricType
  <2>3. QED
    BY <2>1, <2>2 DEF TypeInv, ListType, PingType, BagType, KubeType, pingVars, listVars, kubeVars
<1>4. CASE Environment
  <2>1. ASSUME NEW p \in Pods, KubeChange(p)
        PROVE  TypeInv'
    <3>1. UNCHANGED <<pingVars, listVars, metricVars>>
      BY <2>1 DEF KubeChange
    <3>2. KubeType'
      BY <2>1 DEF KubeChange, TypeInv, KubeType
    <3>3. QED
      BY <3>1, <3>2 DEF TypeInv, ListType, PingType, MetricType, BagType, pingVars, listVars, metricVars
  <2>2. ASSUME NEW t \in Tag, Counted(t)
        PROVE  TypeInv'
    <3>1. UNCHANGED <<lastTag, dest, registered, listVars, metricVars, kubeVars>>
      BY <2>2 DEF Counted
    <3>2. cnt' \in [Tag -> 0..MaxCnt]
      <4>1. cnt[t] < MaxCnt /\ cnt' = [cnt EXCEPT ![t] = cnt[t] + 1] /\ cnt[t] \in 0..MaxCnt
        BY <2>2 DEF Counted, TypeInv, PingType
      <4>2. cnt[t] + 1 \in 0..MaxCnt
        BY <4>1
      <4>3. QED
        BY <4>1, <4>2 DEF TypeInv, PingType
    <3>3. QED
      BY <3>1, <3>2 DEF TypeInv, ListType, PingType, MetricType, BagType, KubeType, listVars,
                        metricVars, kubeVars
  <2>3. QED
    BY <1>4, <2>1, <2>2 DEF Environment
<1>5. QED
  BY <1>1, <1>2, <1>3, <1>4 DEF MetricsThread

LEMMA TypeInvHolds == Spec => []TypeInv
<1>1. Init => TypeInv
  <2> SUFFICES ASSUME Init
               PROVE  TypeInv
    OBVIOUS
  <2> USE PodAssumption
  <2>1. ListType
    BY EmptySeq DEF Init, ListType
  <2>2. PingType
    <3>1. NoIp \in Ips /\ 0 \in 0..MaxCnt /\ 0 \in 0..MaxTag
      BY DEF Ips
    <3>2. QED
      BY <3>1 DEF Init, PingType
  <2>3. MetricType
    BY DEF Init, MetricType
  <2>4. BagType
    BY DEF Init, BagType, EmptyBag, SetToBag, IsABag, BagToSet
  <2>5. KubeType
    <3>1. NoStatus \in Status
      BY DEF NoStatus, Status, Ips
    <3>2. kube \in [Pods -> Status]
      BY <3>1 DEF Init
    <3>3. changes \in 0..MaxChanges
      BY DEF Init
    <3>4. QED
      BY <3>2, <3>3 DEF KubeType
  <2>6. QED
    BY <2>1, <2>2, <2>3, <2>4, <2>5 DEF TypeInv
<1>2. TypeInv /\ [Next]_vars => TypeInv'
  BY FoundTypes, NewTypes, LeavesTypes, FetchTypes, OtherTypes
     DEF Next, PodThread, Shutdown, Terminated
<1>3. QED
  BY <1>1, <1>2, PTL DEF Spec

\* The types hold for any pods, names and addresses, also of the bag of an answer.
THEOREM PodTypeOK == Spec => []TypeOK
<1>1. TypeInv => TypeOK
  BY DEF TypeInv, ListType, PingType, MetricType, BagType, KubeType, TypeOK
<1>2. QED
  BY <1>1, TypeInvHolds, PTL

-----------------------------------------------------------------------------
(***************************************************************************)
(* The list and the ping service.  Tidy says entry by entry what           *)
(* ItemsMatchList, OnlyPingablePinged and CountsAreOwn say of the list.    *)
(***************************************************************************)
TidyEntry(i) ==
  podList[i].tag # 0 =>
    /\ podList[i].tag \in registered
    /\ dest[podList[i].tag] = podList[i].ip
    /\ Pingable(podList[i])
    /\ podList[i].cnt <= cnt[podList[i].tag]
TagsApart ==
  \A i, j \in 1..Len(podList) :
    podList[i].tag # 0 /\ podList[j].tag = podList[i].tag => i = j
AllHeld == \A t \in registered : \E i \in 1..Len(podList) : podList[i].tag = t
Tidy == (\A i \in 1..Len(podList) : TidyEntry(i)) /\ TagsApart /\ AllHeld

\* Where p is replaced: by nothing, under a new tag, or under the one it has.
LEMMA ReplacedIsTidy ==
  ASSUME TypeInv, Tidy, NEW p \in 1..Len(podList), NEW e \in Entry,
         podList' = [podList EXCEPT ![p] = e],
         Dropped(podList[p].tag, e) \/ Renewed(podList[p].tag, e) \/ Kept(podList[p], e)
  PROVE  Tidy'
<1> DEFINE n == Len(podList)
           old == podList[p]
<1>1. /\ n \in Nat /\ Len(podList') = n /\ podList'[p] = e
      /\ \A i \in 1..n : i # p => podList'[i] = podList[i]
  BY ExceptSeq, LenProperties DEF TypeInv, ListType
<1>2. \A i \in 1..n : podList[i] \in Entry
  BY KeysAreKeys DEF TypeInv, ListType
<1>3. /\ lastTag \in Nat /\ 0 \notin registered
      /\ \A t \in registered : t \in Nat /\ t <= lastTag /\ t \in Tag
  BY PodAssumption DEF TypeInv, PingType, Tag
<1>4. \A i \in 1..n : podList[i].tag # 0 /\ i # p => podList[i].tag \in registered \ {old.tag}
  BY DEF Tidy, TidyEntry, TagsApart
<1>5. ASSUME NEW t \in registered \ {old.tag}
      PROVE  \E i \in 1..n : i # p /\ podList[i].tag = t
  BY DEF Tidy, AllHeld
<1> HIDE DEF n, old
<1>6. CASE Dropped(old.tag, e)
  <2>1. e.tag = 0 /\ registered' = registered \ {old.tag} /\ UNCHANGED <<dest, cnt>>
    BY <1>6 DEF Dropped
  <2>2. \A i \in 1..n : TidyEntry(i)'
    BY <1>1, <1>4, <2>1 DEF Tidy, TidyEntry, n
  <2>3. TagsApart'
    BY <1>1, <2>1 DEF Tidy, TagsApart, n
  <2>4. AllHeld'
    BY <1>1, <1>5, <2>1 DEF AllHeld
  <2>5. QED
    BY <1>1, <2>2, <2>3, <2>4 DEF Tidy
<1>7. CASE Renewed(old.tag, e)
  <2> DEFINE new == lastTag + 1
  <2>1. /\ Pingable(e) /\ e.tag = new /\ e.cnt = 0 /\ new \in Tag
        /\ registered' = (registered \ {old.tag}) \cup {new}
        /\ dest' = [dest EXCEPT ![new] = e.ip] /\ cnt' = [cnt EXCEPT ![new] = 0]
    BY <1>7 DEF Renewed
  <2>2. new \notin registered /\ new # 0
    BY <1>3
  <2> HIDE DEF new
  <2>3. /\ dest'[new] = e.ip /\ cnt'[new] = 0
        /\ \A t \in registered : dest'[t] = dest[t] /\ cnt'[t] = cnt[t]
    BY <1>3, <2>1, <2>2 DEF TypeInv, PingType
  <2>4. ASSUME NEW i \in 1..n
        PROVE  TidyEntry(i)'
    <3>1. CASE i = p
      <4>1. 0 <= cnt'[new]
        BY <2>3
      <4>2. podList'[i] = e /\ Pingable(podList'[i]) /\ new \in registered'
        BY <1>1, <2>1, <3>1
      <4>3. podList'[i].cnt <= cnt'[podList'[i].tag]
        BY <2>1, <4>1, <4>2
      <4>4. QED
        BY <2>1, <2>3, <4>2, <4>3 DEF TidyEntry, Pingable
    <3>2. CASE i # p
      <4>1. TidyEntry(i) /\ podList'[i] = podList[i]
        BY <1>1, <3>2 DEF Tidy, n
      <4>2. podList[i].tag # 0 => podList[i].tag \in registered' /\ podList[i].tag \in registered
        BY <1>4, <2>1, <3>2
      <4>3. QED
        BY <2>3, <4>1, <4>2 DEF TidyEntry, Pingable
    <3>3. QED
      BY <3>1, <3>2
  <2>5. TagsApart'
    <3>1. \A i \in 1..n : i # p => podList'[i].tag # new
      BY <1>1, <1>4, <2>2
    <3>2. QED
      BY <1>1, <2>1, <3>1 DEF Tidy, TagsApart, n
  <2>6. AllHeld'
    BY <1>1, <1>5, <2>1, p \in 1..n DEF AllHeld, n
  <2>7. QED
    BY <1>1, <2>4, <2>5, <2>6 DEF Tidy
<1>8. CASE Kept(old, e)
  <2>1. /\ Pingable(e) /\ e.tag = old.tag /\ e.ip = old.ip
        /\ e.cnt = IF old.tag \in registered THEN cnt[old.tag] ELSE 0
        /\ UNCHANGED <<registered, dest, cnt>>
    BY <1>8 DEF Kept, pingVars
  <2>2. \A t \in registered : cnt[t] \in Nat
    BY <1>3, PodAssumption DEF TypeInv, PingType
  <2>3. TidyEntry(p)
    BY DEF Tidy
  <2>4. ASSUME NEW i \in 1..n
        PROVE  TidyEntry(i)'
    <3>1. CASE i = p
      <4>1. podList'[i] = e
        BY <1>1, <3>1
      <4>2. e.tag # 0 => e.tag \in registered /\ dest[e.tag] = e.ip /\ e.cnt = cnt[e.tag]
        BY <2>1, <2>3 DEF TidyEntry, old
      <4>3. QED
        BY <2>1, <2>2, <4>1, <4>2 DEF TidyEntry, Pingable
    <3>2. CASE i # p
      BY <1>1, <2>1, <3>2 DEF Tidy, TidyEntry, n, Pingable
    <3>3. QED
      BY <3>1, <3>2
  <2>5. \A i \in 1..n : podList'[i].tag = podList[i].tag
    BY <1>1, <2>1 DEF old
  <2>6. TagsApart' /\ AllHeld'
    BY <1>1, <2>1, <2>5 DEF Tidy, TagsApart, AllHeld, n
  <2>7. QED
    BY <1>1, <2>4, <2>6 DEF Tidy
<1>9. QED
  BY <1>6, <1>7, <1>8 DEF old

LEMMA AppendedIsTidy ==
  ASSUME TypeInv, Tidy, NEW e \in Entry, podList' = Append(podList, e),
         Renewed(0, e) \/ (e.tag = 0 /\ UNCHANGED pingVars)
  PROVE  Tidy'
<1> DEFINE n == Len(podList)
<1>1. /\ n \in Nat /\ Len(podList') = n + 1 /\ podList'[n + 1] = e
      /\ \A i \in 1..n : podList'[i] = podList[i]
  BY AppendOK DEF TypeInv, ListType
<1>2. \A i \in 1..n + 1 : i \in 1..n \/ i = n + 1
  BY <1>1
<1>3. /\ lastTag \in Nat /\ 0 \notin registered
      /\ \A t \in registered : t \in Nat /\ t <= lastTag /\ t \in Tag
  BY PodAssumption DEF TypeInv, PingType, Tag
<1>4. \A i \in 1..n : podList[i].tag # 0 => podList[i].tag \in registered
  BY DEF Tidy, TidyEntry
<1>5. \A t \in registered : \E i \in 1..n : podList[i].tag = t
  BY DEF Tidy, AllHeld
<1> HIDE DEF n
<1>6. CASE e.tag = 0 /\ UNCHANGED pingVars
  <2>1. \A i \in 1..n + 1 : TidyEntry(i)'
    BY <1>1, <1>2, <1>6 DEF Tidy, TidyEntry, n, pingVars, Pingable
  <2>2. TagsApart'
    BY <1>1, <1>2, <1>6 DEF Tidy, TagsApart, n
  <2>3. AllHeld'
    BY <1>1, <1>5, <1>6 DEF AllHeld, pingVars
  <2>4. QED
    BY <1>1, <2>1, <2>2, <2>3 DEF Tidy
<1>7. CASE Renewed(0, e)
  <2> DEFINE new == lastTag + 1
  <2>1. /\ Pingable(e) /\ e.tag = new /\ e.cnt = 0 /\ new \in Tag
        /\ registered' = registered \cup {new}
        /\ dest' = [dest EXCEPT ![new] = e.ip] /\ cnt' = [cnt EXCEPT ![new] = 0]
    BY <1>3, <1>7 DEF Renewed
  <2>2. new \notin registered /\ new # 0
    BY <1>3
  <2> HIDE DEF new
  <2>3. /\ dest'[new] = e.ip /\ cnt'[new] = 0
        /\ \A t \in registered : dest'[t] = dest[t] /\ cnt'[t] = cnt[t]
    BY <1>3, <2>1, <2>2 DEF TypeInv, PingType
  <2>4. ASSUME NEW i \in 1..n + 1
        PROVE  TidyEntry(i)'
    <3>1. CASE i = n + 1
      <4>1. podList'[i] = e /\ Pingable(podList'[i]) /\ new \in registered'
        BY <1>1, <2>1, <3>1
      <4>2. podList'[i].cnt <= cnt'[podList'[i].tag]
        BY <2>1, <2>3, <4>1
      <4>3. QED
        BY <2>1, <2>3, <4>1, <4>2 DEF TidyEntry, Pingable
    <3>2. CASE i \in 1..n
      <4>1. TidyEntry(i) /\ podList'[i] = podList[i]
        BY <1>1, <3>2 DEF Tidy, n
      <4>2. podList[i].tag # 0 => podList[i].tag \in registered' /\ podList[i].tag \in registered
        BY <1>4, <2>1, <3>2
      <4>3. QED
        BY <2>3, <4>1, <4>2 DEF TidyEntry, Pingable
    <3>3. QED
      BY <1>2, <3>1, <3>2
  <2>5. TagsApart'
    <3>1. \A i \in 1..n : podList'[i].tag # new
      BY <1>1, <1>4, <2>2
    <3>2. QED
      BY <1>1, <1>2, <2>1, <3>1 DEF Tidy, TagsApart, n
  <2>6. AllHeld'
    <3>1. n + 1 \in 1..Len(podList') /\ \A i \in 1..n : i \in 1..Len(podList')
      BY <1>1
    <3>2. QED
      BY <1>1, <1>5, <2>1, <3>1 DEF AllHeld
  <2>7. QED
    BY <1>1, <2>4, <2>5, <2>6 DEF Tidy
<1>8. QED
  BY <1>6, <1>7

\* The entry at p is taken out of the list, and its item with it.
LEMMA RemovedIsTidy ==
  ASSUME TypeInv, Tidy, NEW p \in 1..Len(podList), Len(podList') = Len(podList) - 1,
         \A i \in 1..Len(podList) - 1 : podList'[i] = IF i < p THEN podList[i] ELSE podList[i + 1],
         registered' = Unregistered(podList[p].tag), UNCHANGED <<dest, cnt>>
  PROVE  Tidy'
<1> DEFINE n == Len(podList)
           from == [i \in 1..n - 1 |-> IF i < p THEN i ELSE i + 1]
<1>1. n \in Nat /\ p \in 1..n
  BY LenProperties DEF TypeInv, ListType
<1>2. /\ \A i \in 1..n - 1 : from[i] \in 1..n /\ from[i] # p /\ podList'[i] = podList[from[i]]
      /\ \A i, j \in 1..n - 1 : from[i] = from[j] => i = j
  <2>1. \A i \in 1..n - 1 : from[i] = IF i < p THEN i ELSE i + 1
    OBVIOUS
  <2>2. \A i \in 1..n - 1 : podList'[i] = podList[from[i]]
    BY <2>1
  <2> HIDE DEF n, from
  <2>3. \A i \in 1..n - 1 : from[i] \in 1..n /\ from[i] # p
    BY <1>1, <2>1
  <2>4. ASSUME NEW i \in 1..n - 1, NEW j \in 1..n - 1, from[i] = from[j]
        PROVE  i = j
    <3>1. i \in Nat /\ j \in Nat /\ p \in Nat
      BY <1>1
    <3>2. from[i] = (IF i < p THEN i ELSE i + 1) /\ from[j] = (IF j < p THEN j ELSE j + 1)
      BY <2>1
    <3>3. (IF i < p THEN i ELSE i + 1) = (IF j < p THEN j ELSE j + 1)
      BY <2>4, <3>2
    <3>4. QED
      BY <3>1, <3>3
  <2>5. QED
    BY <2>2, <2>3, <2>4
<1>3. \A j \in 1..n : j # p => \E i \in 1..n - 1 : from[i] = j
  <2>1. SUFFICES ASSUME NEW j \in 1..n, j # p
                 PROVE  \E i \in 1..n - 1 : from[i] = j
    OBVIOUS
  <2>2. CASE j < p
    <3>1. j \in 1..n - 1
      BY <1>1, <2>2
    <3>2. QED
      BY <2>2, <3>1
  <2>3. CASE ~(j < p)
    <3>1. j - 1 \in 1..n - 1 /\ ~(j - 1 < p) /\ (j - 1) + 1 = j
      BY <1>1, <2>1, <2>3
    <3>2. from[j - 1] = j
      BY <3>1
    <3>3. QED
      BY <3>1, <3>2
  <2>4. QED
    BY <2>2, <2>3
<1>4. \A i \in 1..n : podList[i].tag # 0 /\ i # p => podList[i].tag \in registered'
  BY DEF Tidy, TidyEntry, TagsApart, Unregistered
<1>5. \A t \in registered' : \E i \in 1..n : i # p /\ podList[i].tag = t
  BY DEF Tidy, AllHeld, Unregistered
<1>6. Len(podList') = n - 1
  OBVIOUS
<1> HIDE DEF n, from
<1>7. ASSUME NEW i \in 1..n - 1
      PROVE  TidyEntry(i)'
  <2>1. TidyEntry(from[i]) /\ podList'[i] = podList[from[i]] /\ from[i] \in 1..n /\ from[i] # p
    BY <1>2 DEF Tidy, n
  <2>2. QED
    BY <1>4, <2>1 DEF TidyEntry, Pingable
<1>8. TagsApart'
  <2>1. SUFFICES ASSUME NEW i \in 1..n - 1, NEW j \in 1..n - 1,
                        podList'[i].tag # 0, podList'[j].tag = podList'[i].tag
                 PROVE  i = j
    BY <1>6 DEF TagsApart
  <2>2. /\ from[i] \in 1..n /\ from[j] \in 1..n
        /\ podList[from[i]].tag # 0 /\ podList[from[j]].tag = podList[from[i]].tag
    BY <1>2, <2>1
  <2>3. from[i] = from[j]
    BY <2>2 DEF Tidy, TagsApart, n
  <2>4. QED
    BY <1>2, <2>3
<1>9. AllHeld'
  <2>1. ASSUME NEW t \in registered'
        PROVE  \E i \in 1..n - 1 : podList'[i].tag = t
    <3>1. PICK j \in 1..n : j # p /\ podList[j].tag = t
      BY <1>5
    <3>2. PICK i \in 1..n - 1 : from[i] = j
      BY <1>3, <3>1
    <3>3. podList'[i].tag = t
      BY <1>2, <3>1, <3>2
    <3>4. QED
      BY <3>3
  <2>2. QED
    BY <1>6, <2>1 DEF AllHeld
<1>10. QED
  BY <1>6, <1>7, <1>8, <1>9 DEF Tidy

\* Nothing else touches the list or the items, but that items count up.
LEMMA OthersAreTidy ==
  ASSUME TypeInv, Tidy,
         Fetch \/ MergeEnd \/ MetricsThread \/ CancelThread \/ DestroyEnd \/ Environment \/ UNCHANGED vars
  PROVE  Tidy'
<1>1. UNCHANGED <<podList, registered, dest>>
  BY DEF Fetch, MergeEnd, MetricsThread, Clear, Publish, CancelThread, DestroyEnd, Environment,
         KubeChange, Counted, pingVars, listVars, vars
<1>2. \A t \in Tag : cnt[t] \in Nat /\ cnt'[t] \in Nat /\ cnt[t] <= cnt'[t]
  <2>1. \A t \in Tag : cnt[t] \in Nat
    BY PodAssumption DEF TypeInv, PingType
  <2>2. CASE UNCHANGED cnt
    BY <2>1, <2>2
  <2>3. ASSUME NEW u \in Tag, Counted(u)
        PROVE  \A t \in Tag : cnt'[t] \in Nat /\ cnt[t] <= cnt'[t]
    <3>1. cnt' = [cnt EXCEPT ![u] = cnt[u] + 1]
      BY <2>3 DEF Counted
    <3>2. QED
      BY <2>1, <3>1 DEF TypeInv, PingType
  <2>4. QED
    BY <2>1, <2>2, <2>3 DEF Fetch, MergeEnd, MetricsThread, Clear, Publish, CancelThread, DestroyEnd,
                            Environment, KubeChange, pingVars, vars
<1>3. ASSUME NEW i \in 1..Len(podList)
      PROVE  TidyEntry(i)'
  <2>1. TidyEntry(i)
    BY DEF Tidy
  <2>2. \A t \in registered : t \in Tag
    BY PodAssumption DEF TypeInv, PingType, Tag
  <2>3. podList[i].cnt \in Nat
    <3>1. podList[i] \in Entry
      BY KeysAreKeys DEF TypeInv, ListType
    <3>2. podList[i].cnt \in 0..MaxCnt
      BY <3>1 DEF Entry
    <3>3. QED
      BY <3>2, PodAssumption
  <2>4. QED
    BY <1>1, <1>2, <2>1, <2>2, <2>3 DEF TidyEntry, Pingable
<1>4. QED
  BY <1>1, <1>3 DEF Tidy, TagsApart, AllHeld

LEMMA TidyHolds == Spec => []Tidy
<1>1. Init => Tidy
  <2>1. Len(<<>>) = 0
    OBVIOUS
  <2>2. QED
    BY <2>1 DEF Init, Tidy, TagsApart, AllHeld
<1>2. TypeInv /\ Tidy /\ [Next]_vars => Tidy'
  <2> SUFFICES ASSUME TypeInv, Tidy, [Next]_vars
               PROVE  Tidy'
    OBVIOUS
  <2>1. CASE MergeFound
    <3>1. pos \in 1..Len(podList)
      BY <2>1, FoundStep
    <3>2. PICK e \in Entry :
            /\ podList' = [podList EXCEPT ![pos] = e]
            /\ \/ Dropped(podList[pos].tag, e) \/ Renewed(podList[pos].tag, e)
               \/ Kept(podList[pos], e)
      BY <2>1, FoundStep
    <3>3. QED
      BY <3>1, <3>2, ReplacedIsTidy
  <2>2. CASE MergeNew
    BY <2>2, NewStep, AppendedIsTidy
  <2>3. CASE MergeGone
    <3>1. /\ pos \in 1..Len(podList) /\ podList' = RemoveAt(podList, pos)
          /\ registered' = Unregistered(podList[pos].tag) /\ UNCHANGED <<dest, cnt>>
      BY <2>3, LenProperties DEF MergeGone, TypeInv, ListType
    <3>2. /\ Len(podList') = Len(podList) - 1
          /\ \A i \in 1..Len(podList) - 1 : podList'[i] = IF i < pos THEN podList[i] ELSE podList[i + 1]
      BY <3>1, RemoveAtOK DEF TypeInv, ListType
    <3>3. QED
      BY <3>1, <3>2, RemovedIsTidy
  <2>4. CASE DestroyEntry
    <3>1. /\ podList # <<>> /\ podList' = Tail(podList) /\ Head(podList) = podList[1]
          /\ registered' = Unregistered(podList[1].tag) /\ UNCHANGED <<dest, cnt>>
      BY <2>4 DEF DestroyEntry
    <3>2. /\ Len(podList) \in Nat \ {0} /\ Len(podList') = Len(podList) - 1
          /\ \A i \in 1..Len(podList) - 1 : podList'[i] = IF i < 1 THEN podList[i] ELSE podList[i + 1]
      BY <3>1, TailOK DEF TypeInv, ListType
    <3>3. 1 \in 1..Len(podList)
      BY <3>2
    <3>4. QED
      BY <3>1, <3>2, <3>3, RemovedIsTidy
  <2>5. QED
    BY <2>1, <2>2, <2>3, <2>4, OthersAreTidy DEF Next, PodThread, Shutdown, Terminated
<1>3. QED
  BY <1>1, <1>2, TypeInvHolds, PTL DEF Spec

\* The ping service pings exactly the tagged entries of the list, each under a tag of
\* its own and at the address of the list, also half-way through a merge.
THEOREM ItemsMatchListHolds == Spec => []ItemsMatchList
<1>1. TypeInv /\ Tidy => ItemsMatchList
  <2> SUFFICES ASSUME TypeInv, Tidy
               PROVE  ItemsMatchList
    OBVIOUS
  <2>1. DOMAIN podList = 1..Len(podList)
    BY KeysAreKeys DEF TypeInv, ListType
  <2>2. 0 \notin registered
    BY PodAssumption DEF TypeInv, PingType
  <2>3. registered = {e.tag : e \in ToSet(podList)} \ {0}
    BY <2>1, <2>2 DEF Tidy, TidyEntry, AllHeld, ToSet
  <2>4. QED
    BY <2>1, <2>3 DEF ItemsMatchList, Tidy, TidyEntry, TagsApart
<1>2. QED
  BY <1>1, TypeInvHolds, TidyHolds, PTL

\* Nothing is pinged but pods that run under an address of their own.
THEOREM OnlyPingablePingedHolds == Spec => []OnlyPingablePinged
<1>1. TypeInv /\ Tidy => OnlyPingablePinged
  BY KeysAreKeys DEF TypeInv, ListType, Tidy, TidyEntry, OnlyPingablePinged
<1>2. QED
  BY <1>1, TypeInvHolds, TidyHolds, PTL

\* The counts of an entry are those of the item it has, never of an earlier one.
THEOREM CountsAreOwnHolds == Spec => []CountsAreOwn
<1>1. TypeInv /\ Tidy => CountsAreOwn
  BY KeysAreKeys DEF TypeInv, ListType, Tidy, TidyEntry, CountsAreOwn
<1>2. QED
  BY <1>1, TypeInvHolds, TidyHolds, PTL

-----------------------------------------------------------------------------
(***************************************************************************)
(* The merge.  Half-way, each pod of the answer is as often in the part of *)
(* the list that is done and in what is left of the answer together as it  *)
(* was in the answer.                                                      *)
(***************************************************************************)
HalfMerged ==
  pc = "merge" => \A k \in Key : Copies(k, merged) = Occ(podList, k, pos - 1) + All(newList, k)
WholeMerged ==
  pc = "sleep" => \A k \in Key : Copies(k, merged) = All(podList, k)
MergeInv == HalfMerged /\ WholeMerged

\* An entry goes from the answer, where it is at j, to the next place in the list.
LEMMA Transferred ==
  ASSUME TypeInv, TypeInv', NEW k, NEW j \in 1..Len(newList), pos' = pos + 1,
         \A i \in 1..pos - 1 : podList'[i] = podList[i],
         KeyOf(podList'[pos]) = KeyOf(newList[j]),
         Len(newList') = Len(newList) - 1,
         \A i \in 1..Len(newList) - 1 : newList'[i] = IF i < j THEN newList[i] ELSE newList[i + 1]
  PROVE  Occ(podList', k, pos' - 1) + All(newList', k) = Occ(podList, k, pos - 1) + All(newList, k)
<1> DEFINE m == pos - 1
           n == Len(newList)
           one == One(KeyOf(newList[j]) = k)
<1>1. m \in Nat /\ pos = m + 1 /\ pos' - 1 = m + 1
  BY LenProperties DEF TypeInv, ListType
<1>2. n \in Nat \ {0} /\ j \in 1..n
  BY LenProperties DEF TypeInv, ListType
<1>3. one \in Nat
  BY DEF One
<1>4. Occ(podList', k, m + 1) = Occ(podList', k, m) + one
  BY <1>1, OccNext DEF One
<1>5. Occ(podList', k, m) = Occ(podList, k, m)
  BY <1>1, OccSame
<1>6. Occ(newList', k, n - 1) + one = Occ(newList, k, n)
  <2>1. Closed(newList', newList, j, n)
    BY DEF Closed
  <2> HIDE DEF n
  <2>2. QED
    BY <1>2, <2>1, OccWithout
<1>7. All(newList', k) = Occ(newList', k, n - 1) /\ All(newList, k) = Occ(newList, k, n)
  BY DEF All
<1>8. Occ(podList, k, m) \in Nat /\ Occ(newList', k, n - 1) \in Nat
  BY <1>1, <1>2, OccIsNat
<1> HIDE DEF m, n, one
<1>9. QED
  BY <1>1, <1>3, <1>4, <1>5, <1>6, <1>7, <1>8 DEF m

LEMMA FoundMerges ==
  ASSUME TypeInv, TypeInv', MergeInv, MergeFound
  PROVE  MergeInv'
<1>1. pc = "merge" /\ pc' = "merge" /\ pos \in 1..Len(podList) /\ pos' = pos + 1 /\ merged' = merged
  BY FoundStep
<1>2. PICK j \in 1..Len(newList), e \in Entry :
        /\ newList' = RemoveAt(newList, j)
        /\ podList' = [podList EXCEPT ![pos] = e]
        /\ KeyOf(e) = KeyOf(newList[j])
  BY FoundStep
<1>3. podList'[pos] = e /\ \A i \in 1..pos - 1 : podList'[i] = podList[i]
  <2>1. Len(podList) \in Nat /\ \A i \in 1..Len(podList) : podList'[i] = IF i = pos THEN e ELSE podList[i]
    BY <1>1, <1>2, ExceptSeq, LenProperties DEF TypeInv, ListType
  <2>2. \A i \in 1..pos - 1 : i \in 1..Len(podList) /\ i # pos
    BY <1>1, <2>1
  <2>3. QED
    BY <1>1, <2>1, <2>2
<1>4. /\ Len(newList') = Len(newList) - 1
      /\ \A i \in 1..Len(newList) - 1 : newList'[i] = IF i < j THEN newList[i] ELSE newList[i + 1]
  BY <1>2, RemoveAtOK DEF TypeInv, ListType
<1>5. \A k : Occ(podList', k, pos' - 1) + All(newList', k) = Occ(podList, k, pos - 1) + All(newList, k)
  BY <1>1, <1>2, <1>3, <1>4, Transferred
<1>6. QED
  BY <1>1, <1>5 DEF MergeInv, HalfMerged, WholeMerged

LEMMA NewMerges ==
  ASSUME TypeInv, TypeInv', MergeInv, MergeNew
  PROVE  MergeInv'
<1>1. /\ pc = "merge" /\ pc' = "merge" /\ pos = Len(podList) + 1 /\ pos' = Len(podList) + 2
      /\ merged' = merged /\ newList # <<>> /\ newList' = Tail(newList)
  BY NewStep
<1>2. PICK e \in Entry : podList' = Append(podList, e) /\ KeyOf(e) = KeyOf(newList[1])
  BY NewStep
<1>3. /\ Len(podList) \in Nat /\ podList'[pos] = e /\ pos' = pos + 1
      /\ \A i \in 1..pos - 1 : podList'[i] = podList[i]
  BY <1>1, <1>2, AppendOK DEF TypeInv, ListType
<1>4. /\ 1 \in 1..Len(newList) /\ Len(newList') = Len(newList) - 1
      /\ \A i \in 1..Len(newList) - 1 : newList'[i] = IF i < 1 THEN newList[i] ELSE newList[i + 1]
  <2>1. newList \in Seq(Entry) /\ newList # <<>>
    BY <1>1 DEF TypeInv, ListType
  <2>2. /\ Len(newList) \in Nat \ {0} /\ Len(Tail(newList)) = Len(newList) - 1
        /\ \A i \in 1..Len(newList) - 1 : Tail(newList)[i] = IF i < 1 THEN newList[i] ELSE newList[i + 1]
    BY <2>1, TailOK
  <2>3. QED
    BY <1>1, <2>2
<1>5. \A k : Occ(podList', k, pos' - 1) + All(newList', k) = Occ(podList, k, pos - 1) + All(newList, k)
  BY <1>2, <1>3, <1>4, Transferred
<1>6. QED
  BY <1>1, <1>5 DEF MergeInv, HalfMerged, WholeMerged

LEMMA GoneMerges ==
  ASSUME TypeInv, MergeInv, MergeGone
  PROVE  MergeInv'
<1>1. /\ pc = "merge" /\ pos <= Len(podList) /\ podList' = RemoveAt(podList, pos)
      /\ UNCHANGED <<pc, pos, newList, merged>>
  BY DEF MergeGone, AtRemoved
<1>2. pos \in 1..Len(podList) /\ Len(podList) \in Nat
  BY <1>1, LenProperties DEF TypeInv, ListType
<1>3. \A i \in 1..pos - 1 : podList'[i] = podList[i]
  <2>1. \A i \in 1..Len(podList) - 1 : podList'[i] = IF i < pos THEN podList[i] ELSE podList[i + 1]
    BY <1>1, <1>2, RemoveAtOK DEF TypeInv, ListType
  <2>2. \A i \in 1..pos - 1 : i \in 1..Len(podList) - 1 /\ i < pos
    BY <1>2
  <2>3. QED
    BY <2>1, <2>2
<1>4. \A k : Occ(podList', k, pos - 1) = Occ(podList, k, pos - 1)
  BY <1>2, <1>3, OccSame
<1>5. QED
  BY <1>1, <1>4 DEF MergeInv, HalfMerged, WholeMerged

\* A merge starts with nothing done and the whole answer left, and ends with the
\* answer empty and the list done.
LEMMA EndsMerge ==
  ASSUME TypeInv, TypeInv', MergeInv, Fetch \/ MergeEnd
  PROVE  MergeInv'
<1>1. \A list, k : Occ(list, k, 0) = 0
  <2>1. \A list, k : At(list, k, 0) = {}
    BY DEF At
  <2>2. QED
    BY <2>1, FS_EmptySet DEF Occ
<1>2. CASE Fetch
  <2>1. pc' = "merge" /\ pos' = 1 /\ merged' = KeyBag(newList')
    BY <1>2 DEF Fetch
  <2>2. newList' \in Seq(Entry)
    BY DEF TypeInv, ListType
  <2>3. \A k \in Key : Copies(k, merged') = All(newList', k) /\ All(newList', k) \in Nat
    BY <2>1, <2>2, KeyBagCounts, OccIsNat, LenProperties DEF All
  <2>4. pos' - 1 = 0
    BY <2>1
  <2>5. QED
    BY <1>1, <2>1, <2>3, <2>4 DEF MergeInv, HalfMerged, WholeMerged
<1>3. CASE MergeEnd
  <2>1. /\ pc = "merge" /\ pc' = "sleep" /\ pos > Len(podList) /\ newList = <<>>
        /\ UNCHANGED <<podList, merged>>
    BY <1>3 DEF MergeEnd
  <2>2. Len(podList) \in Nat /\ pos - 1 = Len(podList)
    BY <2>1, LenProperties DEF TypeInv, ListType
  <2>3. \A k : All(newList, k) = 0
    BY <1>1, <2>1 DEF All
  <2>4. \A k : Occ(podList, k, Len(podList)) \in Nat
    BY <2>2, OccIsNat
  <2>5. \A k \in Key : Copies(k, merged) = Occ(podList, k, Len(podList)) + 0
    BY <2>1, <2>2, <2>3 DEF MergeInv, HalfMerged
  <2>6. \A k \in Key : Copies(k, merged) = All(podList, k)
    BY <2>4, <2>5 DEF All
  <2>7. QED
    BY <2>1, <2>6 DEF MergeInv, HalfMerged, WholeMerged
<1>4. QED
  BY <1>2, <1>3

LEMMA MergeInvHolds == Spec => []MergeInv
<1>1. Init => MergeInv
  <2> SUFFICES ASSUME Init
               PROVE  MergeInv
    OBVIOUS
  <2>1. pc = "sleep" /\ podList = <<>> /\ merged = EmptyBag
    BY DEF Init
  <2>2. \A k : Copies(k, EmptyBag) = 0
    BY DEF Copies, EmptyBag, SetToBag, BagToSet
  <2>3. \A k : All(<<>>, k) = 0
    <3>1. Len(<<>>) = 0 /\ \A k : At(<<>>, k, 0) = {}
      BY DEF At
    <3>2. QED
      BY <3>1, FS_EmptySet DEF All, Occ
  <2>4. QED
    BY <2>1, <2>2, <2>3 DEF MergeInv, HalfMerged, WholeMerged
<1>2. TypeInv /\ TypeInv' /\ MergeInv /\ [Next]_vars => MergeInv'
  <2> SUFFICES ASSUME TypeInv, TypeInv', MergeInv, [Next]_vars
               PROVE  MergeInv'
    OBVIOUS
  <2>1. CASE MetricsThread \/ Environment \/ UNCHANGED vars
    <3>1. UNCHANGED listVars
      BY <2>1 DEF MetricsThread, Clear, Publish, Environment, KubeChange, Counted, vars
    <3>2. QED
      BY <3>1 DEF listVars, MergeInv, HalfMerged, WholeMerged
  <2>2. CASE Shutdown
    <3>1. pc' \in {"cancelled", "ended"}
      BY <2>2 DEF Shutdown, CancelThread, DestroyEntry, DestroyEnd
    <3>2. QED
      BY <3>1 DEF MergeInv, HalfMerged, WholeMerged
  <2>3. QED
    BY <2>1, <2>2, FoundMerges, NewMerges, GoneMerges, EndsMerge DEF Next, PodThread, Terminated
<1>3. QED
  BY <1>1, <1>2, TypeInvHolds, PTL DEF Spec

\* The list a merge leaves is the answer of the kubelet, each pod as often as it has it,
\* in whatever order and under whatever names.
THEOREM MergeYieldsAnswerHolds == Spec => []MergeYieldsAnswer
<1>1. TypeInv /\ MergeInv => MergeYieldsAnswer
  BY SameCounts DEF TypeInv, ListType, BagType, MergeInv, WholeMerged, MergeYieldsAnswer
<1>2. QED
  BY <1>1, TypeInvHolds, MergeInvHolds, PTL

\* What is published is one answer of the kubelet.  Between the clearing of the metrics
\* and their publishing the thread may merge but not end.
PublishInv ==
  /\ updPc = "cleared" => pc \in {"sleep", "merge"}
  /\ PublishedIsOneAnswer

THEOREM PublishedIsOneAnswerHolds == Spec => []PublishedIsOneAnswer
<1>1. Init => PublishInv
  BY DEF Init, PublishInv, PublishedIsOneAnswer
<1>2. TypeInv /\ MergeYieldsAnswer /\ PublishInv /\ [Next]_vars => PublishInv'
  <2> SUFFICES ASSUME TypeInv, MergeYieldsAnswer, PublishInv, [Next]_vars
               PROVE  PublishInv'
    OBVIOUS
  <2>1. CASE Publish
    <3>1. /\ updPc = "cleared" /\ pc # "merge" /\ updPc' = "idle"
          /\ states' = KeysOf(podList) /\ shown' = BagToSet(merged)
      BY <2>1 DEF Publish, LockFree
    <3>2. KeyBag(podList) = merged
      BY <3>1 DEF PublishInv, MergeYieldsAnswer
    <3>3. BagToSet(KeyBag(podList)) = KeysOf(podList)
      BY KeyBagCounts DEF TypeInv, ListType
    <3>4. QED
      BY <3>1, <3>2, <3>3 DEF PublishInv, PublishedIsOneAnswer
  <2>2. CASE Clear
    BY <2>2 DEF Clear, listVars, PublishInv, PublishedIsOneAnswer
  <2>3. CASE PodThread
    <3>1. UNCHANGED metricVars /\ pc' \in {"sleep", "merge"}
      BY <2>3 DEF PodThread, Fetch, MergeFound, MergeGone, MergeNew, MergeEnd
    <3>2. QED
      BY <3>1 DEF metricVars, PublishInv, PublishedIsOneAnswer
  <2>4. CASE Shutdown
    <3>1. UNCHANGED metricVars /\ updPc # "cleared"
      BY <2>4 DEF Shutdown, CancelThread, DestroyEntry, DestroyEnd, PublishInv
    <3>2. QED
      BY <3>1 DEF metricVars, PublishInv, PublishedIsOneAnswer
  <2>5. CASE Environment \/ UNCHANGED vars
    <3>1. UNCHANGED metricVars /\ UNCHANGED pc
      BY <2>5 DEF Environment, KubeChange, Counted, listVars, vars
    <3>2. QED
      BY <3>1 DEF metricVars, PublishInv, PublishedIsOneAnswer
  <2>6. QED
    BY <2>1, <2>2, <2>3, <2>4, <2>5 DEF Next, MetricsThread, Terminated
<1>3. PublishInv => PublishedIsOneAnswer
  BY DEF PublishInv
<1>4. QED
  BY <1>1, <1>2, <1>3, TypeInvHolds, MergeYieldsAnswerHolds, PTL DEF Spec

-----------------------------------------------------------------------------
(***************************************************************************)
(* Ownership, when names tell pods apart.  A name is then at most once in  *)
(* the list and in the answer, and not in both once the merge has done it. *)
(***************************************************************************)
NamesTellApart == \A p, q \in Pods : NameOf[p] = NameOf[q] => p = q
Distinct(list) == \A i, j \in 1..Len(list) : list[i].name = list[j].name => i = j
DoneOnce ==
  pc = "merge" =>
    \A i \in 1..Len(podList), j \in 1..Len(newList) : i < pos => podList[i].name # newList[j].name
NamesInv == Distinct(podList) /\ Distinct(newList) /\ DoneOnce

\* A list from which an entry is taken keeps its names apart, and has no entry of that
\* name any more.
OneTaken(other, list, p) ==
  /\ Distinct(other)
  /\ \A i \in 1..Len(other) : \E j \in 1..Len(list) : j # p /\ other[i] = list[j]
  /\ \A i \in 1..Len(other) : i < p => other[i] = list[i]
  /\ \A j \in 1..Len(list) : j # p => \E i \in 1..Len(other) : other[i] = list[j]

LEMMA ClosedNames ==
  ASSUME NEW S, NEW list \in Seq(S), NEW other, NEW p \in 1..Len(list), Len(other) = Len(list) - 1,
         Closed(other, list, p, Len(list)), Distinct(list)
  PROVE  OneTaken(other, list, p)
<1> DEFINE n == Len(list)
           from == [i \in 1..n - 1 |-> IF i < p THEN i ELSE i + 1]
<1>1. n \in Nat /\ p \in 1..n /\ p \in Nat
  BY LenProperties
<1>2. /\ \A i \in 1..n - 1 : from[i] = IF i < p THEN i ELSE i + 1
      /\ Len(other) = n - 1
  OBVIOUS
<1>3. \A i \in 1..n - 1 : other[i] = list[from[i]]
  BY DEF Closed
<1> HIDE DEF n, from
<1>4. \A i \in 1..n - 1 : from[i] \in 1..n /\ from[i] # p
  BY <1>1, <1>2
<1>5. ASSUME NEW i \in 1..n - 1, NEW j \in 1..n - 1, from[i] = from[j]
      PROVE  i = j
  <2>1. i \in Nat /\ j \in Nat
    BY <1>1
  <2>2. (IF i < p THEN i ELSE i + 1) = (IF j < p THEN j ELSE j + 1)
    BY <1>2, <1>5
  <2>3. QED
    BY <1>1, <2>1, <2>2
<1>6. Distinct(other)
  <2>1. SUFFICES ASSUME NEW i \in 1..n - 1, NEW j \in 1..n - 1, other[i].name = other[j].name
                 PROVE  i = j
    BY <1>2 DEF Distinct
  <2>2. list[from[i]].name = list[from[j]].name
    BY <1>3, <2>1
  <2>3. from[i] \in 1..n /\ from[j] \in 1..n
    BY <1>4
  <2>4. from[i] = from[j]
    BY <2>2, <2>3 DEF Distinct, n
  <2>5. QED
    BY <1>5, <2>4
<1>7. \A i \in 1..n - 1 : i < p => other[i] = list[i]
  BY <1>2, <1>3
<1>8. ASSUME NEW j \in 1..n, j # p
      PROVE  \E i \in 1..n - 1 : other[i] = list[j]
  <2>1. CASE j < p
    <3>1. j \in 1..n - 1
      BY <1>1, <2>1
    <3>2. QED
      BY <1>7, <2>1, <3>1
  <2>2. CASE ~(j < p)
    <3>1. j - 1 \in 1..n - 1 /\ ~(j - 1 < p) /\ (j - 1) + 1 = j
      BY <1>1, <1>8, <2>2
    <3>2. from[j - 1] = j
      BY <1>2, <3>1
    <3>3. QED
      BY <1>3, <3>1, <3>2
  <2>3. QED
    BY <2>1, <2>2
<1>9. \A i \in 1..n - 1 : \E j \in 1..n : j # p /\ other[i] = list[j]
  BY <1>3, <1>4
<1>10. QED
  BY <1>2, <1>6, <1>7, <1>8, <1>9 DEF n, OneTaken

LEMMA FoundNames ==
  ASSUME TypeInv, NamesInv, MergeFound
  PROVE  NamesInv'
<1>1. pc = "merge" /\ pos \in 1..Len(podList) /\ pos' = pos + 1
  BY FoundStep
<1>2. PICK j \in 1..Len(newList), e \in Entry :
        /\ newList' = RemoveAt(newList, j)
        /\ podList' = [podList EXCEPT ![pos] = e]
        /\ KeyOf(e) = KeyOf(newList[j]) /\ e.name = podList[pos].name
  BY FoundStep
<1>3. /\ Len(podList) \in Nat /\ Len(podList') = Len(podList)
      /\ \A i \in 1..Len(podList) : podList'[i].name = podList[i].name
  BY <1>1, <1>2, ExceptSeq, LenProperties DEF TypeInv, ListType
<1>4. newList[j].name = podList[pos].name
  BY <1>2 DEF KeyOf
<1>5. newList \in Seq(Entry) /\ Len(newList') = Len(newList) - 1 /\ Closed(newList', newList, j, Len(newList))
  <2>1. newList \in Seq(Entry)
    BY DEF TypeInv, ListType
  <2>2. QED
    BY <1>2, <2>1, RemoveAtOK DEF Closed
<1>6. /\ Distinct(newList')
      /\ \A i \in 1..Len(newList') : \E l \in 1..Len(newList) : l # j /\ newList'[i] = newList[l]
  <2>1. OneTaken(newList', newList, j)
    BY <1>5, ClosedNames DEF NamesInv
  <2>2. QED
    BY <2>1 DEF OneTaken
<1>7. Distinct(podList')
  BY <1>3 DEF NamesInv, Distinct
<1>8. ASSUME NEW i \in 1..Len(podList), i < pos + 1, NEW l \in 1..Len(newList')
      PROVE  podList'[i].name # newList'[l].name
  <2>1. PICK o \in 1..Len(newList) : o # j /\ newList'[l] = newList[o]
    BY <1>6
  <2>2. newList[o].name # newList[j].name
    BY <2>1 DEF NamesInv, Distinct
  <2>3. CASE i = pos
    BY <1>3, <1>4, <2>1, <2>2, <2>3
  <2>4. CASE i < pos
    BY <1>1, <1>3, <2>1, <2>4 DEF NamesInv, DoneOnce
  <2>5. i = pos \/ i < pos
    BY <1>1, <1>3, <1>8
  <2>6. QED
    BY <2>3, <2>4, <2>5
<1>9. QED
  BY <1>1, <1>3, <1>6, <1>7, <1>8 DEF NamesInv, DoneOnce

LEMMA NewNames ==
  ASSUME TypeInv, NamesInv, MergeNew
  PROVE  /\ NamesInv'
         /\ \A i \in 1..Len(podList) : podList[i].name # newList[1].name
<1>1. /\ pc = "merge" /\ pos = Len(podList) + 1 /\ pos' = Len(podList) + 2
      /\ newList # <<>> /\ newList' = Tail(newList)
  BY NewStep
<1>2. PICK e \in Entry : podList' = Append(podList, e) /\ e.name = newList[1].name
  BY NewStep
<1>3. /\ Len(podList) \in Nat /\ Len(podList') = Len(podList) + 1 /\ podList'[Len(podList) + 1] = e
      /\ \A i \in 1..Len(podList) : podList'[i] = podList[i]
  BY <1>2, AppendOK DEF TypeInv, ListType
<1>4. /\ newList \in Seq(Entry) /\ 1 \in 1..Len(newList) /\ Len(newList') = Len(newList) - 1
      /\ Closed(newList', newList, 1, Len(newList))
  <2>1. newList \in Seq(Entry) /\ newList # <<>>
    BY <1>1 DEF TypeInv, ListType
  <2>2. /\ Len(newList) \in Nat \ {0} /\ Len(Tail(newList)) = Len(newList) - 1
        /\ \A i \in 1..Len(newList) - 1 : Tail(newList)[i] = IF i < 1 THEN newList[i] ELSE newList[i + 1]
    BY <2>1, TailOK
  <2>3. QED
    BY <1>1, <2>1, <2>2 DEF Closed
<1>5. /\ Distinct(newList')
      /\ \A i \in 1..Len(newList') : \E l \in 1..Len(newList) : l # 1 /\ newList'[i] = newList[l]
  <2>1. OneTaken(newList', newList, 1)
    BY <1>4, ClosedNames DEF NamesInv
  <2>2. QED
    BY <2>1 DEF OneTaken
<1>6. \A i \in 1..Len(podList), l \in 1..Len(newList) : podList[i].name # newList[l].name
  <2>1. \A i \in 1..Len(podList) : i < pos
    BY <1>1, <1>3
  <2>2. QED
    BY <1>1, <2>1 DEF NamesInv, DoneOnce
<1>7. \A i \in 1..Len(podList') : i \in 1..Len(podList) \/ i = Len(podList) + 1
  BY <1>3
<1>8. Distinct(podList')
  <2>1. \A i \in 1..Len(podList) : podList'[i].name # podList'[Len(podList) + 1].name
    BY <1>2, <1>3, <1>4, <1>6
  <2>2. \A i, l \in 1..Len(podList) : podList'[i].name = podList'[l].name => i = l
    BY <1>3 DEF NamesInv, Distinct
  <2>3. QED
    BY <1>7, <2>1, <2>2 DEF Distinct
<1>9. ASSUME NEW i \in 1..Len(podList'), NEW l \in 1..Len(newList')
      PROVE  podList'[i].name # newList'[l].name
  <2>1. PICK o \in 1..Len(newList) : o # 1 /\ newList'[l] = newList[o]
    BY <1>5
  <2>2. newList[o].name # newList[1].name
    BY <1>4, <2>1 DEF NamesInv, Distinct
  <2>3. QED
    BY <1>2, <1>3, <1>6, <1>7, <2>1, <2>2
<1>10. QED
  BY <1>4, <1>5, <1>6, <1>8, <1>9 DEF NamesInv, DoneOnce

\* The entry of podList at p is taken out.
LEMMA LeavesNames ==
  ASSUME TypeInv, NamesInv, MergeGone \/ DestroyEntry
  PROVE  /\ NamesInv'
         /\ \E p \in 1..Len(podList) :
              OneTaken(podList', podList, p) /\ registered' = registered \ {podList[p].tag}
<1>1. podList \in Seq(Entry) /\ Len(podList) \in Nat
  BY LenProperties DEF TypeInv, ListType
<1>2. \E p \in 1..Len(podList) :
        /\ Len(podList') = Len(podList) - 1 /\ Closed(podList', podList, p, Len(podList))
        /\ registered' = registered \ {podList[p].tag}
        /\ MergeGone => p = pos
  <2>1. CASE MergeGone
    <3>1. /\ pos \in 1..Len(podList) /\ podList' = RemoveAt(podList, pos)
          /\ registered' = registered \ {podList[pos].tag}
      BY <1>1, <2>1 DEF MergeGone, Unregistered, TypeInv, ListType
    <3>2. Len(podList') = Len(podList) - 1 /\ Closed(podList', podList, pos, Len(podList))
      BY <1>1, <3>1, RemoveAtOK DEF Closed
    <3>3. QED
      BY <3>1, <3>2
  <2>2. CASE DestroyEntry
    <3>1. /\ podList # <<>> /\ podList' = Tail(podList) /\ Head(podList) = podList[1]
          /\ registered' = registered \ {podList[1].tag} /\ pc = "cancelled"
      BY <2>2 DEF DestroyEntry, Unregistered
    <3>2. /\ Len(podList) \in Nat \ {0} /\ Len(podList') = Len(podList) - 1
          /\ Closed(podList', podList, 1, Len(podList))
      BY <1>1, <3>1, TailOK DEF Closed
    <3>3. 1 \in 1..Len(podList) /\ ~MergeGone
      BY <3>1, <3>2 DEF MergeGone
    <3>4. QED
      BY <3>1, <3>2, <3>3
  <2>3. QED
    BY <2>1, <2>2
<1>3. PICK p \in 1..Len(podList) :
        /\ Len(podList') = Len(podList) - 1 /\ Closed(podList', podList, p, Len(podList))
        /\ registered' = registered \ {podList[p].tag}
        /\ MergeGone => p = pos
  BY <1>2
<1>4. OneTaken(podList', podList, p)
  BY <1>1, <1>3, ClosedNames DEF NamesInv
<1>5. UNCHANGED <<newList, pc, pos>>
  BY DEF MergeGone, DestroyEntry, AtRemoved
<1>6. DoneOnce'
  <2>1. SUFFICES ASSUME pc = "merge"
                 PROVE  DoneOnce'
    BY <1>5 DEF DoneOnce
  <2>2. p = pos
    BY <1>3, <2>1 DEF DestroyEntry
  <2>3. ASSUME NEW i \in 1..Len(podList'), i < pos
        PROVE  i \in 1..Len(podList) /\ podList'[i] = podList[i]
    BY <1>1, <1>3, <1>4, <2>2, <2>3 DEF OneTaken
  <2>4. QED
    BY <1>5, <2>1, <2>3 DEF NamesInv, DoneOnce
<1>7. NamesInv'
  BY <1>4, <1>5, <1>6 DEF NamesInv, OneTaken
<1>8. QED
  BY <1>3, <1>4, <1>7

\* The answer has each pod once, so each name once.
LEMMA FetchNames ==
  ASSUME NamesTellApart, TypeInv, TypeInv', NamesInv, Fetch
  PROVE  NamesInv'
<1> USE PodAssumption
<1>1. pos' = 1 /\ podList' = podList
  BY DEF Fetch
<1>2. PICK order \in SetToSeqs(Answer) : newList' = [i \in DOMAIN order |-> NewEntry(order[i])]
  BY DEF Fetch
<1>3. /\ DOMAIN order = 1..Cardinality(Answer)
      /\ \A i \in DOMAIN order : order[i] \in Pods
      /\ \A i, j \in DOMAIN order : order[i] = order[j] => i = j
  BY <1>2 DEF SetToSeqs, Answer
<1>4. DOMAIN newList' = 1..Len(newList') /\ DOMAIN newList' = DOMAIN order
  <2>1. newList' \in Seq(Entry)
    BY DEF TypeInv, ListType
  <2>2. QED
    BY <1>2, <2>1, KeysAreKeys
<1>5. \A i \in DOMAIN order : newList'[i].name = NameOf[order[i]]
  BY <1>2 DEF NewEntry
<1>6. Distinct(newList')
  <2>1. ASSUME NEW i \in DOMAIN order, NEW j \in DOMAIN order, newList'[i].name = newList'[j].name
        PROVE  i = j
    <3>1. NameOf[order[i]] = NameOf[order[j]]
      BY <1>5, <2>1
    <3>2. order[i] = order[j]
      BY <1>3, <3>1 DEF NamesTellApart
    <3>3. QED
      BY <1>3, <3>2
  <2>2. QED
    BY <1>4, <2>1 DEF Distinct
<1>7. DoneOnce'
  <2>1. \A i \in 1..Len(podList) : ~(i < 1)
    BY LenProperties DEF TypeInv, ListType
  <2>2. QED
    BY <1>1, <2>1 DEF DoneOnce
<1>8. QED
  BY <1>1, <1>6, <1>7 DEF NamesInv

LEMMA NamesInvHolds ==
  ASSUME NamesTellApart
  PROVE  Spec => []NamesInv
<1>1. Init => NamesInv
  <2>1. Len(<<>>) = 0
    OBVIOUS
  <2>2. QED
    BY <2>1 DEF Init, NamesInv, Distinct, DoneOnce
<1>2. TypeInv /\ TypeInv' /\ NamesInv /\ [Next]_vars => NamesInv'
  <2> SUFFICES ASSUME TypeInv, TypeInv', NamesInv, [Next]_vars
               PROVE  NamesInv'
    OBVIOUS
  <2>1. CASE MergeEnd \/ MetricsThread \/ CancelThread \/ DestroyEnd \/ Environment \/ UNCHANGED vars
    <3>1. /\ UNCHANGED <<podList, newList>>
          /\ pc' = "merge" => pc = "merge" /\ pos' = pos
      BY <2>1 DEF MergeEnd, MetricsThread, Clear, Publish, CancelThread, DestroyEnd, Environment,
                  KubeChange, Counted, listVars, vars
    <3>2. QED
      BY <3>1 DEF NamesInv, DoneOnce, Distinct
  <2>2. QED
    BY <2>1, FoundNames, NewNames, LeavesNames, FetchNames DEF Next, PodThread, Shutdown, Terminated
<1>3. QED
  BY <1>1, <1>2, TypeInvHolds, PTL DEF Spec

\* The tag of a name in a list, as TagOfName reads it from podList, and what it must be.
TagIn(list, n) ==
  IF \E i \in DOMAIN list : list[i].name = n
  THEN list[CHOOSE i \in DOMAIN list : list[i].name = n].tag
  ELSE 0
HasTag(list, n, t) ==
  \/ \E i \in 1..Len(list) : list[i].name = n /\ list[i].tag = t
  \/ t = 0 /\ \A i \in 1..Len(list) : list[i].name # n
Held == [n \in Names |-> TagOfName(n)]

LEMMA TagInIs ==
  ASSUME NEW list \in Seq(Entry), NEW n
  PROVE  /\ HasTag(list, n, TagIn(list, n))
         /\ Distinct(list) => \A t : HasTag(list, n, t) => TagIn(list, n) = t
<1>1. DOMAIN list = 1..Len(list)
  BY KeysAreKeys
<1>2. CASE \E i \in DOMAIN list : list[i].name = n
  <2> DEFINE c == CHOOSE i \in DOMAIN list : list[i].name = n
  <2>1. c \in 1..Len(list) /\ list[c].name = n
    BY <1>1, <1>2
  <2>2. TagIn(list, n) = list[c].tag
    BY <1>2 DEF TagIn
  <2> HIDE DEF c
  <2>3. QED
    BY <2>1, <2>2 DEF HasTag, Distinct
<1>3. CASE ~\E i \in DOMAIN list : list[i].name = n
  BY <1>1, <1>3 DEF TagIn, HasTag
<1>4. QED
  BY <1>2, <1>3

\* What happens to a list that changes for one name only.
LEMMA HeldChanges ==
  ASSUME TypeInv, TypeInv', Distinct(podList'), NEW o \in Names, NEW t, HasTag(podList', o, t),
         \A n \in Names \ {o} : \A u : HasTag(podList, n, u) => HasTag(podList', n, u)
  PROVE  Held' = [Held EXCEPT ![o] = t]
<1>1. podList \in Seq(Entry) /\ podList' \in Seq(Entry)
  BY DEF TypeInv, ListType
<1>2. /\ \A n : TagOfName(n) = TagIn(podList, n)
      /\ Held' = [n \in Names |-> TagIn(podList', n)]
  BY DEF TagOfName, TagIn, Held
<1>3. TagIn(podList', o) = t
  BY <1>1, TagInIs
<1>4. ASSUME NEW n \in Names \ {o}
      PROVE  TagIn(podList', n) = TagIn(podList, n)
  <2>1. HasTag(podList, n, TagIn(podList, n))
    BY <1>1, TagInIs
  <2>2. HasTag(podList', n, TagIn(podList, n))
    BY <2>1
  <2>3. QED
    BY <1>1, <2>2, TagInIs
<1>5. QED
  BY <1>2, <1>3, <1>4 DEF Held

LEMMA HeldIs ==
  ASSUME TypeInv, NamesInv, NEW i \in 1..Len(podList)
  PROVE  podList[i].name \in Names /\ TagOfName(podList[i].name) = podList[i].tag
<1>1. podList \in Seq(Entry) /\ podList[i] \in Entry
  BY KeysAreKeys DEF TypeInv, ListType
<1>2. HasTag(podList, podList[i].name, podList[i].tag)
  BY DEF HasTag
<1>3. TagIn(podList, podList[i].name) = podList[i].tag
  BY <1>1, <1>2, TagInIs DEF NamesInv
<1>4. QED
  BY <1>1, <1>3 DEF Entry, TagIn, TagOfName

\* The steps of PingOwnership.
LEMMA RenewIsAcquire ==
  ASSUME TypeInv, NEW o \in Names, NEW old, old = Held[o],
         Held' = [Held EXCEPT ![o] = lastTag + 1], lastTag + 1 \in Tag, lastTag' = lastTag + 1,
         registered' = (registered \ {old}) \cup {lastTag + 1}
  PROVE  Ownership!Next
<1>1. lastTag \in Nat /\ lastTag + 1 \in Tag \ 1..lastTag
  BY PodAssumption DEF TypeInv, PingType, Tag
<1>2. 1..lastTag' = (1..lastTag) \cup {lastTag + 1}
  BY <1>1
<1>3. Ownership!Acquire(o)
  BY <1>1, <1>2 DEF Ownership!Acquire, Ownership!Fresh, Ownership!WithoutOwn, Held
<1>4. QED
  BY <1>3 DEF Ownership!Next

LEMMA DropIsRelease ==
  ASSUME TypeInv, NEW o \in Names, NEW old, old = Held[o],
         Held' = [Held EXCEPT ![o] = 0], lastTag' = lastTag, registered' = registered \ {old}
  PROVE  Ownership!Next \/ UNCHANGED <<Held, registered, lastTag>>
<1>1. CASE old # 0
  <2>1. Ownership!Release(o)
    BY <1>1 DEF Ownership!Release, Ownership!WithoutOwn, Held
  <2>2. QED
    BY <2>1 DEF Ownership!Next
<1>2. CASE old = 0
  <2>1. Held' = Held
    BY <1>2 DEF Held
  <2>2. registered' = registered
    BY <1>2, PodAssumption DEF TypeInv, PingType
  <2>3. QED
    BY <2>1, <2>2
<1>3. QED
  BY <1>1, <1>2

\* Two lists with the same entries but for those named o.
SameBut(o, list, other) ==
  /\ \A i \in 1..Len(list) : list[i].name # o => \E j \in 1..Len(other) : other[j] = list[i]
  /\ \A j \in 1..Len(other) : other[j].name # o => \E i \in 1..Len(list) : other[j] = list[i]

LEMMA HeldButOne ==
  ASSUME TypeInv, TypeInv', NamesInv', NEW o \in Names, NEW t, HasTag(podList', o, t),
         SameBut(o, podList, podList')
  PROVE  Held' = [Held EXCEPT ![o] = t]
<1>1. ASSUME NEW n \in Names \ {o}, NEW u, HasTag(podList, n, u)
      PROVE  HasTag(podList', n, u)
  <2>1. CASE \E i \in 1..Len(podList) : podList[i].name = n /\ podList[i].tag = u
    BY <1>1, <2>1 DEF SameBut, HasTag
  <2>2. CASE u = 0 /\ \A i \in 1..Len(podList) : podList[i].name # n
    BY <1>1, <2>2 DEF SameBut, HasTag
  <2>3. QED
    BY <1>1, <2>1, <2>2 DEF HasTag
<1>2. Distinct(podList')
  BY DEF NamesInv
<1>3. QED
  BY <1>1, <1>2, HeldChanges

Unchanged == UNCHANGED <<Held, registered, lastTag>>

LEMMA FoundOwns ==
  ASSUME TypeInv, TypeInv', NamesInv, NamesInv', MergeFound
  PROVE  Ownership!Next \/ Unchanged
<1> DEFINE o == podList[pos].name
<1>1. pos \in 1..Len(podList)
  BY FoundStep
<1>2. PICK e \in Entry :
        /\ podList' = [podList EXCEPT ![pos] = e]
        /\ e.name = podList[pos].name
        /\ \/ Dropped(podList[pos].tag, e) \/ Renewed(podList[pos].tag, e)
           \/ Kept(podList[pos], e)
  BY FoundStep
<1>3. o \in Names /\ Held[o] = podList[pos].tag
  BY <1>1, HeldIs DEF Held
<1>4. /\ Len(podList') = Len(podList) /\ podList'[pos] = e
      /\ \A i \in 1..Len(podList) : i # pos => podList'[i] = podList[i]
  BY <1>1, <1>2, ExceptSeq DEF TypeInv, ListType
<1>5. HasTag(podList', o, e.tag) /\ SameBut(o, podList, podList')
  BY <1>1, <1>2, <1>4 DEF HasTag, SameBut
<1>6. Held' = [Held EXCEPT ![o] = e.tag]
  BY <1>3, <1>5, HeldButOne
<1> HIDE DEF o
<1>7. CASE Dropped(podList[pos].tag, e)
  <2>1. e.tag = 0 /\ registered' = registered \ {podList[pos].tag} /\ lastTag' = lastTag
    BY <1>7 DEF Dropped
  <2>2. QED
    BY <1>3, <1>6, <2>1, DropIsRelease DEF Unchanged
<1>8. CASE Renewed(podList[pos].tag, e)
  <2>1. /\ e.tag = lastTag + 1 /\ lastTag + 1 \in Tag /\ lastTag' = lastTag + 1
        /\ registered' = (registered \ {podList[pos].tag}) \cup {lastTag + 1}
    BY <1>8 DEF Renewed
  <2>2. QED
    BY <1>3, <1>6, <2>1, RenewIsAcquire
<1>9. CASE Kept(podList[pos], e)
  <2>1. e.tag = Held[o] /\ UNCHANGED <<registered, lastTag>>
    BY <1>3, <1>9 DEF Kept, pingVars
  <2>2. Held' = Held
    BY <1>6, <2>1 DEF Held
  <2>3. QED
    BY <2>1, <2>2 DEF Unchanged
<1>10. QED
  BY <1>2, <1>7, <1>8, <1>9

LEMMA NewOwns ==
  ASSUME TypeInv, TypeInv', NamesInv, NamesInv', MergeNew
  PROVE  Ownership!Next \/ Unchanged
<1> DEFINE o == newList[1].name
<1>1. \A i \in 1..Len(podList) : podList[i].name # o
  BY NewNames
<1>2. PICK e \in Entry :
        /\ podList' = Append(podList, e) /\ e.name = o
        /\ Renewed(0, e) \/ (e.tag = 0 /\ UNCHANGED pingVars)
  BY NewStep
<1>3. /\ Len(podList) \in Nat /\ Len(podList') = Len(podList) + 1 /\ podList'[Len(podList) + 1] = e
      /\ \A i \in 1..Len(podList) : podList'[i] = podList[i]
  BY <1>2, AppendOK DEF TypeInv, ListType
<1>4. o \in Names
  BY <1>2 DEF Entry
<1>5. Held[o] = 0
  <2>1. HasTag(podList, o, 0)
    BY <1>1 DEF HasTag
  <2>2. TagIn(podList, o) = 0
    BY <2>1, TagInIs DEF NamesInv, TypeInv, ListType
  <2>3. QED
    BY <1>4, <2>2 DEF Held, TagIn, TagOfName
<1>6. HasTag(podList', o, e.tag) /\ SameBut(o, podList, podList')
  <2>1. Len(podList) + 1 \in 1..Len(podList')
    BY <1>3
  <2>2. \A j \in 1..Len(podList') : j \in 1..Len(podList) \/ j = Len(podList) + 1
    BY <1>3
  <2>3. \A i \in 1..Len(podList) : i \in 1..Len(podList')
    BY <1>3
  <2>4. HasTag(podList', o, e.tag)
    BY <1>2, <1>3, <2>1 DEF HasTag
  <2>5. QED
    BY <1>2, <1>3, <2>2, <2>3, <2>4 DEF SameBut
<1>7. Held' = [Held EXCEPT ![o] = e.tag]
  BY <1>4, <1>6, HeldButOne
<1> HIDE DEF o
<1>8. CASE Renewed(0, e)
  <2>1. /\ e.tag = lastTag + 1 /\ lastTag + 1 \in Tag /\ lastTag' = lastTag + 1
        /\ registered' = (registered \ {0}) \cup {lastTag + 1}
    BY <1>8 DEF Renewed
  <2>2. QED
    BY <1>4, <1>5, <1>7, <2>1, RenewIsAcquire
<1>9. CASE e.tag = 0 /\ UNCHANGED pingVars
  <2>1. Held' = Held
    BY <1>5, <1>7, <1>9 DEF Held
  <2>2. QED
    BY <1>9, <2>1 DEF Unchanged, pingVars
<1>10. QED
  BY <1>2, <1>8, <1>9

LEMMA LeavesOwns ==
  ASSUME TypeInv, TypeInv', NamesInv, MergeGone \/ DestroyEntry
  PROVE  Ownership!Next \/ Unchanged
<1>1. NamesInv'
  BY LeavesNames
<1>2. PICK p \in 1..Len(podList) :
        OneTaken(podList', podList, p) /\ registered' = registered \ {podList[p].tag}
  BY LeavesNames
<1> DEFINE o == podList[p].name
<1>3. o \in Names /\ Held[o] = podList[p].tag
  BY HeldIs DEF Held
<1>4. \A j \in 1..Len(podList) : podList[j].name = o => j = p
  BY DEF NamesInv, Distinct
<1>5. HasTag(podList', o, 0) /\ SameBut(o, podList, podList')
  BY <1>2, <1>4 DEF OneTaken, HasTag, SameBut
<1>6. Held' = [Held EXCEPT ![o] = 0]
  BY <1>1, <1>3, <1>5, HeldButOne
<1>7. lastTag' = lastTag
  BY DEF MergeGone, DestroyEntry
<1> HIDE DEF o
<1>8. QED
  BY <1>2, <1>3, <1>6, <1>7, DropIsRelease DEF Unchanged

LEMMA OthersOwn ==
  ASSUME Fetch \/ MergeEnd \/ MetricsThread \/ CancelThread \/ DestroyEnd \/ Environment \/ UNCHANGED vars
  PROVE  Unchanged
<1>1. UNCHANGED <<podList, registered, lastTag>>
  BY DEF Fetch, MergeEnd, MetricsThread, Clear, Publish, CancelThread, DestroyEnd, Environment,
         KubeChange, Counted, pingVars, listVars, vars
<1>2. QED
  BY <1>1 DEF Unchanged, Held, TagOfName

\* When names tell pods apart, the pod metrics keep the promise of PingOwnership: each
\* name has at most one item, under a tag no other name ever had, and the item is there
\* exactly as long as the pod's entry holds the tag.  Two pods of one name would be one
\* owner with two items.
THEOREM PodInfoImplementsOwnership ==
  ASSUME NamesTellApart
  PROVE  Spec => ImplementsOwnership
<1>1. Init => Ownership!Init
  BY DEF Init, Ownership!Init, TagOfName
<1>2. /\ TypeInv /\ TypeInv' /\ NamesInv /\ NamesInv' /\ [Next]_vars
      => [Ownership!Next]_Ownership!vars
  <2> SUFFICES ASSUME TypeInv, TypeInv', NamesInv, NamesInv', [Next]_vars
               PROVE  Ownership!Next \/ UNCHANGED Ownership!vars
    OBVIOUS
  <2>1. Ownership!Next \/ Unchanged
    BY FoundOwns, NewOwns, LeavesOwns, OthersOwn DEF Next, PodThread, Shutdown, Terminated
  <2>2. Unchanged => UNCHANGED Ownership!vars
    BY DEF Unchanged, Ownership!vars, Held
  <2>3. QED
    BY <2>1, <2>2
<1>3. QED
  BY <1>1, <1>2, TypeInvHolds, NamesInvHolds, PTL DEF Spec, ImplementsOwnership, Ownership!Spec
=============================================================================
