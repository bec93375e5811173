--------------------------- MODULE PromMapProofs ---------------------------
(***************************************************************************)
(* The operations on a hash table of src/prom/src/prom_map.c, for any      *)
(* keys, any hash and any initial size: a new table, setting a key that    *)
(* is not there, growing, storing through a value that was got and         *)
(* deleting all leave a well-formed table, with the keys they should.      *)
(* Setting a key that is there does not, so every caller has to look.      *)
(***************************************************************************)
EXTENDS PromMap, FiniteSetTheorems, TLAPS

\* A key list is made one key at a time: it is finite.
IsTable(m, Values) == IsMap(m, Values) /\ WellFormed(m) /\ IsFiniteSet(m.keys)

LEMMA IndexRange ==
  ASSUME NEW k, NEW max \in Nat \ {0}
  PROVE  Index(k, max) \in 0..(max - 1)
BY DEF Index

\* A node is in the one bucket its key hashes to.
LEMMA NodePlace ==
  ASSUME NEW Values, NEW m, IsMap(m, Values), WellFormed(m), NEW n
  PROVE  n \in NodesOf(m) <=> n.key \in Keys /\ n \in m.addrs[Index(n.key, m.max)]
<1>1. ASSUME n \in NodesOf(m)
      PROVE  n.key \in Keys /\ n \in m.addrs[Index(n.key, m.max)]
  <2>1. PICK b \in 0..(m.max - 1) : n \in m.addrs[b]
    BY <1>1 DEF NodesOf
  <2>2. n.key \in Keys
    BY <2>1 DEF IsMap
  <2>3. QED
    BY <2>1, <2>2 DEF WellFormed
<1>2. ASSUME n.key \in Keys, n \in m.addrs[Index(n.key, m.max)]
      PROVE  n \in NodesOf(m)
  <2>1. Index(n.key, m.max) \in 0..(m.max - 1)
    BY <1>2, IndexRange DEF IsMap
  <2>2. QED
    BY <1>2, <2>1 DEF NodesOf
<1>3. QED
  BY <1>1, <1>2

\* A lookup finds a key exactly if the list has it.
LEMMA HasKeyIsListed ==
  ASSUME NEW Values, NEW m, IsMap(m, Values), WellFormed(m), NEW k \in Keys
  PROVE  HasKey(m, k) <=> k \in m.keys
<1>1. ASSUME HasKey(m, k) PROVE k \in m.keys
  <2>1. PICK n \in m.addrs[Index(k, m.max)] : n.key = k
    BY <1>1 DEF HasKey, Found, Bucket
  <2>2. n \in NodesOf(m)
    BY <2>1, NodePlace
  <2>3. QED
    BY <2>1, <2>2 DEF WellFormed
<1>2. ASSUME k \in m.keys PROVE HasKey(m, k)
  <2>1. PICK n \in NodesOf(m) : n.key = k
    BY <1>2 DEF WellFormed
  <2>2. n \in m.addrs[Index(k, m.max)]
    BY <2>1, NodePlace
  <2>3. QED
    BY <2>1, <2>2 DEF HasKey, Found, Bucket
<1>3. QED
  BY <1>1, <1>2

\* prom_map_new.
LEMMA NewMapOK ==
  ASSUME NEW Values
  PROVE  IsTable(NewMap, Values) /\ NewMap.keys = {} /\ NodesOf(NewMap) = {}
<1>1. InitialSize \in Nat \ {0}
  BY PromMapAssumption
<1>2. NodesOf(NewMap) = {}
  BY DEF NodesOf, NewMap
<1>3. IsMap(NewMap, Values)
  BY <1>1 DEF IsMap, NewMap
<1>4. WellFormed(NewMap)
  BY <1>2, FS_EmptySet DEF WellFormed, NewMap
<1>5. QED
  BY <1>2, <1>3, <1>4, FS_EmptySet DEF IsTable, NewMap

\* prom_map_ensure_space, and the loop of prom_map_set_internal inside it.
LEMMA GrownOK ==
  ASSUME NEW Values, NEW m, IsTable(m, Values)
  PROVE  /\ IsTable(Grown(m), Values)
         /\ Grown(m).keys = m.keys
         /\ NodesOf(Grown(m)) = NodesOf(m)
<1> DEFINE max == 2 * m.max
           g == Grown(m)
<1>m. IsMap(m, Values) /\ WellFormed(m) /\ IsFiniteSet(m.keys)
  BY DEF IsTable
<1>1. max \in Nat \ {0}
  BY <1>m DEF IsMap
<1>2. m.keys = {n.key : n \in NodesOf(m)} /\ m.keys \subseteq Keys
  BY <1>m DEF WellFormed, IsMap
<1>3. NodesOf(m) \subseteq [key : Keys, value : Values]
  BY <1>m DEF NodesOf, IsMap
<1> HIDE DEF max
<1>g. /\ g = [max |-> g.max, addrs |-> g.addrs, keys |-> g.keys,
              dangling |-> g.dangling, size |-> g.size]
      /\ g.max = max /\ g.keys = m.keys /\ g.dangling = {}
      /\ g.size = Cardinality(m.keys)
      /\ g.addrs = [b \in 0..(max - 1) |-> {n \in NodesOf(m) : Index(n.key, max) = b}]
  BY <1>2 DEF Grown, max
<1> HIDE DEF g
<1>4. NodesOf(g) = NodesOf(m)
  <2>1. \A n \in NodesOf(m) : Index(n.key, max) \in 0..(max - 1)
    BY <1>1, <1>3, IndexRange
  <2>2. QED
    BY <1>g, <2>1 DEF NodesOf
<1>5. Cardinality(m.keys) \in Nat
  BY <1>m, FS_CardinalityType
<1>6. IsMap(g, Values)
  BY <1>g, <1>1, <1>2, <1>3, <1>5 DEF IsMap
<1>7. \A n, o \in NodesOf(m) : n.key = o.key => n = o
  <2>1. \A n \in NodesOf(m) : n.key \in Keys /\ n \in m.addrs[Index(n.key, m.max)]
    BY <1>m, NodePlace
  <2>2. \A n \in NodesOf(m) : Index(n.key, m.max) \in 0..(m.max - 1)
    BY <2>1, <1>m, IndexRange DEF IsMap
  <2>3. QED
    BY <2>1, <2>2, <1>m DEF WellFormed
<1>8. WellFormed(g)
  <2>1. g.keys = {n.key : n \in NodesOf(g)}
    BY <1>g, <1>2, <1>4
  <2>2. \A b \in 0..(g.max - 1) : \A n \in g.addrs[b] : Index(n.key, g.max) = b
    BY <1>g
  <2>3. \A b \in 0..(g.max - 1) : \A n, o \in g.addrs[b] : n.key = o.key => n = o
    BY <1>g, <1>7
  <2>4. QED
    BY <2>1, <2>2, <2>3, <1>g DEF WellFormed
<1>9. QED
  BY <1>4, <1>6, <1>8, <1>m, <1>g DEF IsTable, g

LEMMA EnsureSpaceOK ==
  ASSUME NEW Values, NEW m, IsTable(m, Values)
  PROVE  /\ IsTable(EnsureSpace(m), Values)
         /\ EnsureSpace(m).keys = m.keys
         /\ NodesOf(EnsureSpace(m)) = NodesOf(m)
BY GrownOK DEF EnsureSpace

\* Only the keys of the bucket that is changed change.
LEMMA OneBucket ==
  ASSUME NEW Values, NEW m, IsMap(m, Values), WellFormed(m), NEW k \in Keys,
         NEW new, \A n \in new : n.key = k,
         NEW t, t.max = m.max,
         t.addrs = WithBucket(m, k, (Bucket(m, k) \ Found(m, k)) \cup new)
  PROVE  \A n : n \in NodesOf(t) <=> n \in new \/ (n \in NodesOf(m) /\ n.key # k)
<1> DEFINE b == Index(k, m.max)
           B == (m.addrs[b] \ Found(m, k)) \cup new
<1>1. b \in 0..(m.max - 1)
  BY IndexRange DEF IsMap
<1>2. \A c \in 0..(m.max - 1) : t.addrs[c] = IF c = b THEN B ELSE m.addrs[c]
  BY DEF IsMap, WithBucket, Bucket
<1>3. \A n : n \in NodesOf(m) => n \in m.addrs[Index(n.key, m.max)]
  BY NodePlace
<1>4. ASSUME NEW n, n \in NodesOf(t)
      PROVE  n \in new \/ (n \in NodesOf(m) /\ n.key # k)
  <2>1. PICK c \in 0..(m.max - 1) : n \in t.addrs[c]
    BY <1>4 DEF NodesOf
  <2>2. CASE c = b
    BY <2>1, <2>2, <1>1, <1>2 DEF NodesOf, Found, Bucket
  <2>3. CASE c # b
    <3>1. n \in m.addrs[c]
      BY <2>1, <2>3, <1>2
    <3>2. Index(n.key, m.max) = c
      BY <3>1 DEF WellFormed
    <3>3. QED
      BY <3>1, <3>2, <2>3 DEF NodesOf
  <2>4. QED
    BY <2>2, <2>3
<1>5. ASSUME NEW n, n \in new
      PROVE  n \in NodesOf(t)
  BY <1>5, <1>1, <1>2 DEF NodesOf
<1>6. ASSUME NEW n, n \in NodesOf(m), n.key # k
      PROVE  n \in NodesOf(t)
  <2>1. PICK c \in 0..(m.max - 1) : n \in m.addrs[c]
    BY <1>6 DEF NodesOf
  <2>2. n \in t.addrs[c]
    BY <2>1, <1>2, <1>6 DEF Found, Bucket
  <2>3. QED
    BY <2>2 DEF NodesOf
<1>7. QED
  BY <1>4, <1>5, <1>6

\* What one changed bucket leaves of a well-formed table.
LEMMA OneBucketOK ==
  ASSUME NEW Values, NEW m, IsTable(m, Values), NEW k \in Keys,
         NEW new \in SUBSET {Node(k, v) : v \in Values},
         \A n, o \in new : n = o,
         NEW t, IsMap(t, Values), t.max = m.max,
         t.addrs = WithBucket(m, k, (Bucket(m, k) \ Found(m, k)) \cup new),
         t.keys = (m.keys \ {k}) \cup {n.key : n \in new},
         t.dangling = {}, t.size = Cardinality(t.keys)
  PROVE  IsTable(t, Values)
<1> DEFINE b == Index(k, m.max)
<1>m. IsMap(m, Values) /\ WellFormed(m) /\ IsFiniteSet(m.keys)
  BY DEF IsTable
<1>n. \A n \in new : n.key = k
  BY DEF Node
<1>1. b \in 0..(m.max - 1)
  BY <1>m, IndexRange DEF IsMap
<1>2. \A c \in 0..(m.max - 1) :
        t.addrs[c] = IF c = b THEN (m.addrs[b] \ Found(m, k)) \cup new ELSE m.addrs[c]
  BY <1>m DEF IsMap, WithBucket, Bucket
<1>3. \A n : n \in NodesOf(t) <=> n \in new \/ (n \in NodesOf(m) /\ n.key # k)
  BY <1>m, <1>n, OneBucket
<1>4. t.keys = {n.key : n \in NodesOf(t)}
  BY <1>3, <1>n, <1>m DEF WellFormed
<1>5. \A c \in 0..(t.max - 1) : \A n \in t.addrs[c] : Index(n.key, t.max) = c
  <2>1. SUFFICES ASSUME NEW c \in 0..(m.max - 1), NEW n \in t.addrs[c]
                 PROVE  Index(n.key, m.max) = c
    OBVIOUS
  <2>2. CASE n \in new
    BY <2>1, <2>2, <1>1, <1>2, <1>n, <1>m DEF WellFormed
  <2>3. CASE n \notin new
    BY <2>1, <2>3, <1>1, <1>2, <1>m DEF WellFormed
  <2>4. QED
    BY <2>2, <2>3
<1>6. \A c \in 0..(t.max - 1) : \A n, o \in t.addrs[c] : n.key = o.key => n = o
  <2>1. SUFFICES ASSUME NEW c \in 0..(m.max - 1), NEW n \in t.addrs[c], NEW o \in t.addrs[c],
                        n.key = o.key
                 PROVE  n = o
    OBVIOUS
  <2>2. CASE c = b
    BY <2>1, <2>2, <1>1, <1>2, <1>n, <1>m DEF WellFormed, Found, Bucket
  <2>3. CASE c # b
    BY <2>1, <2>3, <1>2, <1>m DEF WellFormed
  <2>4. QED
    BY <2>2, <2>3
<1>7. IsFiniteSet(t.keys)
  <2>1. t.keys = m.keys \ {k} \/ t.keys = (m.keys \ {k}) \cup {k}
    BY <1>n
  <2>2. QED
    BY <2>1, <1>m, FS_RemoveElement, FS_AddElement
<1>8. WellFormed(t)
  BY <1>4, <1>5, <1>6 DEF WellFormed
<1>9. QED
  BY <1>7, <1>8 DEF IsTable
-----------------------------------------------------------------------------
\* Records of a table, for the operations that are written with EXCEPT.
LEMMA AppendedOK ==
  ASSUME NEW Values, NEW v \in Values, NEW m, IsTable(m, Values), NEW k \in Keys,
         k \notin m.keys
  PROVE  /\ IsTable(Appended(m, k, v), Values)
         /\ Appended(m, k, v).keys = m.keys \cup {k}
         /\ NodesOf(Appended(m, k, v)) = NodesOf(m) \cup {Node(k, v)}
<1> DEFINE t == Appended(m, k, v)
           b == Index(k, m.max)
<1>m. IsMap(m, Values) /\ WellFormed(m) /\ IsFiniteSet(m.keys)
  BY DEF IsTable
<1>1. Found(m, k) = {}
  BY <1>m, HasKeyIsListed DEF HasKey
<1>2. b \in 0..(m.max - 1)
  BY <1>m, IndexRange DEF IsMap
<1> DEFINE A == WithBucket(m, k, Bucket(m, k) \cup {Node(k, v)})
<1>a. t = [m EXCEPT !.addrs = A, !.keys = @ \cup {k}, !.size = @ + 1]
  BY DEF Appended
<1> HIDE DEF t, A
<1>r. t = [max |-> m.max, addrs |-> A, keys |-> m.keys \cup {k},
           dangling |-> m.dangling, size |-> m.size + 1]
  BY <1>m, <1>a DEF IsMap
<1>t. /\ t.max = m.max /\ t.keys = m.keys \cup {k} /\ t.dangling = m.dangling
      /\ t.size = m.size + 1
      /\ t.addrs = WithBucket(m, k, Bucket(m, k) \cup {Node(k, v)})
  BY <1>r DEF A
<1>3. t.addrs = WithBucket(m, k, (Bucket(m, k) \ Found(m, k)) \cup {Node(k, v)})
  BY <1>t, <1>1
<1>4. t.addrs \in [0..(m.max - 1) -> SUBSET [key : Keys, value : Values]]
  <2>1. Node(k, v) \in [key : Keys, value : Values]
    BY DEF Node
  <2>2. QED
    BY <2>1, <1>m, <1>t, <1>2 DEF IsMap, WithBucket, Bucket
<1>5. t.size = Cardinality(t.keys)
  BY <1>m, <1>t, FS_AddElement DEF WellFormed
<1>6. IsMap(t, Values)
  <2>1. t.keys \subseteq Keys /\ t.size \in Nat
    BY <1>m, <1>t DEF IsMap
  <2>2. QED
    BY <1>m, <1>r, <1>t, <1>4, <2>1 DEF IsMap
<1>7. t.keys = (m.keys \ {k}) \cup {n.key : n \in {Node(k, v)}}
  BY <1>t DEF Node
<1>8. t.dangling = {}
  BY <1>m, <1>t DEF WellFormed
<1>n. /\ {Node(k, v)} \in SUBSET {Node(k, w) : w \in Values}
      /\ \A n, o \in {Node(k, v)} : n = o
  OBVIOUS
<1>9. IsTable(t, Values)
  BY <1>n, <1>3, <1>5, <1>6, <1>7, <1>8, <1>t, OneBucketOK
<1>10. NodesOf(t) = NodesOf(m) \cup {Node(k, v)}
  <2>1. \A n : n \in NodesOf(t) <=> n \in {Node(k, v)} \/ (n \in NodesOf(m) /\ n.key # k)
    <3> DEFINE new == {Node(k, v)}
    <3>1. \A n \in new : n.key = k
      BY DEF Node
    <3>2. t.max = m.max /\ t.addrs = WithBucket(m, k, (Bucket(m, k) \ Found(m, k)) \cup new)
      BY <1>t, <1>3
    <3> HIDE DEF new
    <3>3. \A n : n \in NodesOf(t) <=> n \in new \/ (n \in NodesOf(m) /\ n.key # k)
      BY <3>1, <3>2, <1>m, OneBucket
    <3>4. QED
      BY <3>3 DEF new
  <2>2. \A n \in NodesOf(m) : n.key # k
    BY <1>m DEF WellFormed
  <2>3. QED
    BY <2>1, <2>2
<1>11. QED
  BY <1>9, <1>10, <1>t DEF t

\* prom_map_set of a key that is not there.
LEMMA SetKeyOK ==
  ASSUME NEW Values, NEW v \in Values, NEW m, IsTable(m, Values), NEW k \in Keys,
         k \notin m.keys
  PROVE  /\ IsTable(SetKey(m, k, v), Values)
         /\ SetKey(m, k, v).keys = m.keys \cup {k}
         /\ NodesOf(SetKey(m, k, v)) = NodesOf(m) \cup {Node(k, v)}
<1> DEFINE e == EnsureSpace(m)
<1>1. IsTable(e, Values) /\ e.keys = m.keys /\ NodesOf(e) = NodesOf(m)
  BY EnsureSpaceOK
<1>2. ~HasKey(e, k)
  BY <1>1, HasKeyIsListed DEF IsTable
<1>3. SetKey(m, k, v) = Appended(e, k, v)
  BY <1>2 DEF SetKey, SetInternal
<1> HIDE DEF e
<1>4. QED
  BY <1>1, <1>3, AppendedOK

\* Storing through the pointer a lookup returned.
LEMMA StoredOK ==
  ASSUME NEW Values, NEW v \in Values, NEW m, IsTable(m, Values), NEW k \in Keys,
         k \in m.keys
  PROVE  /\ IsTable(Stored(m, k, v), Values)
         /\ Stored(m, k, v).keys = m.keys
         /\ NodesOf(Stored(m, k, v)) = {n \in NodesOf(m) : n.key # k} \cup {Node(k, v)}
<1> DEFINE t == Stored(m, k, v)
           b == Index(k, m.max)
<1>m. IsMap(m, Values) /\ WellFormed(m) /\ IsFiniteSet(m.keys)
  BY DEF IsTable
<1>2. b \in 0..(m.max - 1)
  BY <1>m, IndexRange DEF IsMap
<1>t. /\ t = [max |-> t.max, addrs |-> t.addrs, keys |-> t.keys,
              dangling |-> t.dangling, size |-> t.size]
      /\ t.max = m.max /\ t.keys = m.keys /\ t.dangling = m.dangling /\ t.size = m.size
      /\ t.addrs = WithBucket(m, k, (Bucket(m, k) \ Found(m, k)) \cup {Node(k, v)})
  BY <1>m DEF IsMap, Stored, Exchanged
<1> HIDE DEF t
<1>4. t.addrs \in [0..(m.max - 1) -> SUBSET [key : Keys, value : Values]]
  <2>1. Node(k, v) \in [key : Keys, value : Values]
    BY DEF Node
  <2>2. QED
    BY <2>1, <1>m, <1>t, <1>2 DEF IsMap, WithBucket, Bucket
<1>6. IsMap(t, Values)
  BY <1>m, <1>t, <1>4 DEF IsMap
<1>7. t.keys = (m.keys \ {k}) \cup {n.key : n \in {Node(k, v)}}
  BY <1>t DEF Node
<1>8. t.dangling = {} /\ t.size = Cardinality(t.keys)
  BY <1>m, <1>t DEF WellFormed
<1>n. /\ {Node(k, v)} \in SUBSET {Node(k, w) : w \in Values}
      /\ \A n, o \in {Node(k, v)} : n = o
  OBVIOUS
<1>9. IsTable(t, Values)
  BY <1>n, <1>6, <1>7, <1>8, <1>t, OneBucketOK
<1>10. NodesOf(t) = {n \in NodesOf(m) : n.key # k} \cup {Node(k, v)}
  <2>1. \A n \in {Node(k, v)} : n.key = k
    BY DEF Node
  <2>2. /\ t.max = m.max
        /\ t.addrs = WithBucket(m, k, (Bucket(m, k) \ Found(m, k)) \cup {Node(k, v)})
    BY <1>t
  <2>3. \A n : n \in NodesOf(t) <=> n \in {Node(k, v)} \/ (n \in NodesOf(m) /\ n.key # k)
    BY <2>1, <2>2, <1>m, OneBucket
  <2>4. QED
    BY <2>3
<1>11. QED
  BY <1>9, <1>10, <1>t DEF t

\* prom_map_delete, of a key that may or may not be there.
LEMMA DeleteKeyOK ==
  ASSUME NEW Values, NEW m, IsTable(m, Values), NEW k \in Keys
  PROVE  /\ IsTable(DeleteKey(m, k), Values)
         /\ DeleteKey(m, k).keys = m.keys \ {k}
<1> DEFINE t == DeleteKey(m, k)
           b == Index(k, m.max)
<1>m. IsMap(m, Values) /\ WellFormed(m) /\ IsFiniteSet(m.keys)
  BY DEF IsTable
<1>1. HasKey(m, k) <=> k \in m.keys
  BY <1>m, HasKeyIsListed
<1>2. b \in 0..(m.max - 1)
  BY <1>m, IndexRange DEF IsMap
<1>3. CASE ~HasKey(m, k)
  BY <1>1, <1>3 DEF DeleteKey
<1>4. CASE HasKey(m, k)
  <2>t. /\ t = [max |-> t.max, addrs |-> t.addrs, keys |-> t.keys,
                dangling |-> t.dangling, size |-> t.size]
        /\ t.max = m.max /\ t.keys = m.keys \ {k} /\ t.dangling = {}
        /\ t.size = m.size - 1
        /\ t.addrs = WithBucket(m, k, Bucket(m, k) \ Found(m, k))
    BY <1>m, <1>4 DEF IsMap, WellFormed, DeleteKey
  <2> HIDE DEF t
  <2>1. t.addrs \in [0..(m.max - 1) -> SUBSET [key : Keys, value : Values]]
    BY <1>m, <2>t, <1>2 DEF IsMap, WithBucket, Bucket
  <2>2. t.size = Cardinality(t.keys) /\ Cardinality(t.keys) \in Nat
    <3>1. IsFiniteSet(m.keys \ {k}) /\ Cardinality(m.keys \ {k}) = Cardinality(m.keys) - 1
      BY <1>m, <1>1, <1>4, FS_RemoveElement
    <3>2. Cardinality(m.keys \ {k}) \in Nat
      BY <3>1, FS_CardinalityType
    <3>3. QED
      BY <1>m, <2>t, <3>1, <3>2 DEF WellFormed
  <2>3. IsMap(t, Values)
    BY <1>m, <2>t, <2>1, <2>2 DEF IsMap
  <2>4. /\ t.addrs = WithBucket(m, k, (Bucket(m, k) \ Found(m, k)) \cup {})
        /\ t.keys = (m.keys \ {k}) \cup {n.key : n \in {}}
    BY <2>t
  <2>5. {} \in SUBSET {Node(k, v) : v \in Values} /\ \A n, o \in {} : n = o
    OBVIOUS
  <2>6. IsTable(t, Values)
    BY <2>2, <2>3, <2>4, <2>5, <2>t, OneBucketOK
  <2>7. QED
    BY <2>6, <2>t DEF t
<1>5. QED
  BY <1>3, <1>4

\* prom_map_get of a key that is there.
LEMMA GetOK ==
  ASSUME NEW Values, NEW m, IsTable(m, Values), NEW k \in Keys, k \in m.keys
  PROVE  /\ Get(m, k) \in Values
         /\ \E n \in NodesOf(m) : n.key = k /\ Get(m, k) = n.value
<1>m. IsMap(m, Values) /\ WellFormed(m)
  BY DEF IsTable
<1>1. Found(m, k) # {}
  BY <1>m, HasKeyIsListed DEF HasKey
<1>2. PICK n \in Found(m, k) : Get(m, k) = n.value
  BY <1>1 DEF Get
<1>3. Index(k, m.max) \in 0..(m.max - 1)
  BY <1>m, IndexRange DEF IsMap
<1>4. n \in [key : Keys, value : Values]
  BY <1>m, <1>2, <1>3 DEF IsMap, Found, Bucket
<1>5. n \in NodesOf(m) /\ n.key = k
  BY <1>2, <1>3 DEF NodesOf, Found, Bucket
<1>6. QED
  BY <1>2, <1>4, <1>5
=============================================================================
