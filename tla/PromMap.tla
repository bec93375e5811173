------------------------------ MODULE PromMap ------------------------------
(***************************************************************************)
(* The hash table of the metric library, src/prom/src/prom_map.c: buckets  *)
(* of nodes, and beside them a list of the keys, which is what a scrape    *)
(* walks.  A key is allocated once: the list points to the string that     *)
(* belongs to the node, and setting a key that is there frees that string  *)
(* with the node it replaces while the list goes on pointing to it.        *)
(*                                                                         *)
(* A bucket and the key list are sets here: nothing depends on their       *)
(* order.  The hash may be any; the one of the code depends on the number  *)
(* of buckets in each of its steps.  A caller holds the table's lock for   *)
(* the whole of an operation.                                              *)
(***************************************************************************)
EXTENDS Naturals, FiniteSets

CONSTANTS
  Keys,
  Hash(_, _),   \* what a key gives for a number of buckets
  InitialSize   \* PROM_MAP_INITIAL_SIZE

ASSUME PromMapAssumption == InitialSize \in Nat \ {0}

\* Every step of the loop over a key ends with % max; a key that has none gives 0.
Index(k, max) == IF Hash(k, max) \in 0..(max - 1) THEN Hash(k, max) ELSE 0

Node(k, v) == [key |-> k, value |-> v]

\* dangling: the keys whose entry in the list points to freed memory.
NewMap ==
  [max |-> InitialSize, addrs |-> [b \in 0..(InitialSize - 1) |-> {}],
   keys |-> {}, dangling |-> {}, size |-> 0]

NodesOf(m) == UNION {m.addrs[b] : b \in 0..(m.max - 1)}

Bucket(m, k) == m.addrs[Index(k, m.max)]
WithBucket(m, k, nodes) == [m.addrs EXCEPT ![Index(k, m.max)] = nodes]

Found(m, k) == {n \in Bucket(m, k) : n.key = k}
HasKey(m, k) == Found(m, k) # {}
Get(m, k) == (CHOOSE n \in Found(m, k) : TRUE).value
-----------------------------------------------------------------------------
Appended(m, k, v) ==
  [m EXCEPT !.addrs = WithBucket(m, k, Bucket(m, k) \cup {Node(k, v)}),
            !.keys = @ \cup {k}, !.size = @ + 1]

\* The node of k, if there is one, makes place for another.
Exchanged(m, k, v) == WithBucket(m, k, (Bucket(m, k) \ Found(m, k)) \cup {Node(k, v)})

Replaced(m, k, v) == [m EXCEPT !.addrs = Exchanged(m, k, v), !.dangling = @ \cup {k}]

SetInternal(m, k, v) ==
  IF HasKey(m, k) THEN Replaced(m, k, v) ELSE Appended(m, k, v)

\* Twice the buckets: every node goes to its new one and the list is made anew.
Grown(m) ==
  LET max == 2 * m.max
      keys == {n.key : n \in NodesOf(m)}
  IN [max |-> max,
      addrs |-> [b \in 0..(max - 1) |-> {n \in NodesOf(m) : Index(n.key, max) = b}],
      keys |-> keys, dangling |-> {}, size |-> Cardinality(keys)]

EnsureSpace(m) == IF m.size <= m.max \div 2 THEN m ELSE Grown(m)

SetKey(m, k, v) == SetInternal(EnsureSpace(m), k, v)

\* A value that was got is changed where it is.
Stored(m, k, v) == [m EXCEPT !.addrs = Exchanged(m, k, v)]

\* The list is searched for the string of the node itself: an entry that points to one
\* that was freed is not found, and stays.
DeleteKey(m, k) ==
  IF HasKey(m, k)
  THEN [m EXCEPT !.addrs = WithBucket(m, k, Bucket(m, k) \ Found(m, k)),
                 !.keys = IF k \in m.dangling THEN @ ELSE @ \ {k}, !.size = @ - 1]
  ELSE m
-----------------------------------------------------------------------------
\* What a table is to be: every node is in the bucket its key hashes to, once;
\* the list has exactly the keys of the nodes, none of them freed, and the size
\* is their number.
IsMap(m, Values) ==
  /\ m = [max |-> m.max, addrs |-> m.addrs, keys |-> m.keys,
          dangling |-> m.dangling, size |-> m.size]
  /\ m.max \in Nat \ {0}
  /\ m.addrs \in [0..(m.max - 1) -> SUBSET [key : Keys, value : Values]]
  /\ m.keys \subseteq Keys /\ m.dangling \subseteq Keys /\ m.size \in Nat

WellFormed(m) ==
  /\ \A b \in 0..(m.max - 1) : \A n \in m.addrs[b] : Index(n.key, m.max) = b
  /\ \A b \in 0..(m.max - 1) : \A n, o \in m.addrs[b] : n.key = o.key => n = o
  /\ m.keys = {n.key : n \in NodesOf(m)} /\ m.dangling = {}
  /\ m.size = Cardinality(m.keys)
=============================================================================
