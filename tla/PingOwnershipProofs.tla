------------------------ MODULE PingOwnershipProofs ------------------------
(***************************************************************************)
(* What the contract of PingOwnership gives its users, for any owners and  *)
(* any tags among which 0, "no tag", is not.                               *)
(***************************************************************************)
EXTENDS PingOwnership, TLAPS

\* A tag somebody holds was used, so a fresh one is nobody's.
HeldTagsAreUsed == \A o \in Owners : holds[o] \in used \cup {0}

TagAssumption == 0 \notin Tag

IInv == TypeOK /\ HeldTagsAreUsed /\ ExclusiveTags /\ ItemsAreHeld

LEMMA InitInv == ASSUME TagAssumption PROVE Init => IInv
BY DEF TagAssumption, Init, IInv, TypeOK, HeldTagsAreUsed, ExclusiveTags, ItemsAreHeld

LEMMA AcquireInv ==
  ASSUME TagAssumption, IInv, NEW o \in Owners, Acquire(o)
  PROVE  IInv'
<1>1. PICK t \in Tag \ used :
        /\ holds' = [holds EXCEPT ![o] = t]
        /\ items' = (items \ {holds[o]}) \cup {t}
        /\ used' = used \cup {t}
  BY DEF Acquire, Fresh, WithoutOwn
<1> USE DEF TagAssumption, IInv, TypeOK
<1>2. TypeOK'
  BY <1>1
<1>3. \A p \in Owners : holds'[p] = IF p = o THEN t ELSE holds[p]
  BY <1>1
<1>4. t # 0 /\ \A p \in Owners : holds[p] # t
  BY <1>1 DEF HeldTagsAreUsed
<1>5. HeldTagsAreUsed'
  BY <1>1, <1>3 DEF HeldTagsAreUsed
<1>6. ExclusiveTags'
  BY <1>3, <1>4 DEF ExclusiveTags
<1>7. ItemsAreHeld'
  <2>1. ASSUME NEW x \in items'
        PROVE  x \in {holds'[p] : p \in Owners} \ {0}
    <3>1. CASE x = t
      BY <3>1, <1>3, <1>4
    <3>2. CASE x # t
      <4>1. x \in items /\ x # holds[o]
        BY <3>2, <2>1, <1>1
      <4>2. PICK p \in Owners : holds[p] = x /\ x # 0
        BY <4>1 DEF ItemsAreHeld
      <4>3. holds'[p] = x
        BY <4>1, <4>2, <1>3
      <4>4. QED
        BY <4>2, <4>3
    <3>3. QED
      BY <3>1, <3>2
  <2>2. ASSUME NEW p \in Owners, holds'[p] # 0
        PROVE  holds'[p] \in items'
    <3>1. CASE p = o
      BY <3>1, <1>1, <1>3
    <3>2. CASE p # o
      <4>1. holds'[p] = holds[p] /\ holds[p] # 0
        BY <3>2, <2>2, <1>3
      <4>2. holds[p] \in items
        BY <4>1 DEF ItemsAreHeld
      <4>3. holds[p] # holds[o]
        BY <4>1, <3>2 DEF ExclusiveTags
      <4>4. QED
        BY <4>1, <4>2, <4>3, <1>1
    <3>3. QED
      BY <3>1, <3>2
  <2>3. QED
    BY <2>1, <2>2 DEF ItemsAreHeld
<1>8. QED
  BY <1>2, <1>5, <1>6, <1>7

LEMMA ReleaseInv ==
  ASSUME TagAssumption, IInv, NEW o \in Owners, Release(o)
  PROVE  IInv'
<1> USE DEF TagAssumption, IInv, TypeOK
<1>1. /\ holds' = [holds EXCEPT ![o] = 0]
      /\ items' = items \ {holds[o]}
      /\ used' = used
      /\ holds[o] # 0
  BY DEF Release, WithoutOwn
<1>2. TypeOK'
  BY <1>1
<1>3. \A p \in Owners : holds'[p] = IF p = o THEN 0 ELSE holds[p]
  BY <1>1
<1>4. HeldTagsAreUsed'
  BY <1>1, <1>3 DEF HeldTagsAreUsed
<1>5. ExclusiveTags'
  BY <1>3 DEF ExclusiveTags
<1>6. ItemsAreHeld'
  <2>1. ASSUME NEW x \in items'
        PROVE  x \in {holds'[p] : p \in Owners} \ {0}
    <3>1. x \in items /\ x # holds[o]
      BY <2>1, <1>1
    <3>2. PICK p \in Owners : holds[p] = x /\ x # 0
      BY <3>1 DEF ItemsAreHeld
    <3>3. holds'[p] = x
      BY <3>1, <3>2, <1>3
    <3>4. QED
      BY <3>2, <3>3
  <2>2. ASSUME NEW p \in Owners, holds'[p] # 0
        PROVE  holds'[p] \in items'
    <3>1. p # o /\ holds'[p] = holds[p]
      BY <2>2, <1>3
    <3>2. holds[p] \in items /\ holds[p] # holds[o]
      BY <3>1, <2>2 DEF ItemsAreHeld, ExclusiveTags
    <3>3. QED
      BY <3>1, <3>2, <1>1
  <2>3. QED
    BY <2>1, <2>2 DEF ItemsAreHeld
<1>7. QED
  BY <1>2, <1>4, <1>5, <1>6

LEMMA RestartInv == IInv /\ Restart => IInv'
BY DEF Restart, IInv, TypeOK, HeldTagsAreUsed, ExclusiveTags, ItemsAreHeld

LEMMA StutterInv == IInv /\ UNCHANGED vars => IInv'
BY DEF vars, IInv, TypeOK, HeldTagsAreUsed, ExclusiveTags, ItemsAreHeld

\* Whoever implements the contract keeps two owners from sharing a tag, and keeps
\* exactly the items somebody holds.
THEOREM ContractHolds ==
  ASSUME TagAssumption
  PROVE  Spec => [](ExclusiveTags /\ ItemsAreHeld)
<1>1. IInv /\ [Next]_vars => IInv'
  BY AcquireInv, ReleaseInv, RestartInv, StutterInv DEF Next
<1>2. IInv => ExclusiveTags /\ ItemsAreHeld
  BY DEF IInv
<1>3. QED
  BY InitInv, <1>1, <1>2, PTL DEF Spec
=============================================================================
