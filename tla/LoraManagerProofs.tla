------------------------- MODULE LoraManagerProofs --------------------------
(***************************************************************************)
(* Proofs about LoraManager for every number of LoRAs, slots and batches.  *)
(***************************************************************************)
EXTENDS LoraManager, FiniteSetTheorems, SequenceTheorems, WellFoundedInduction, TLAPS

Managers == [registered : Seq(Loras), active : Seq(Loras),
             index : [Slots -> Loras \cup {None}], buffers : [Slots -> Loras \cup {None}]]

\* What SlotsHoldTheirLoras says of the manager.
ManagerInv(m) ==
    /\ m \in Managers
    /\ IsInjective(m.registered) /\ Len(m.registered) <= MaxCpuLoras
    /\ IsInjective(m.active) /\ Len(m.active) <= MaxLoras
    /\ Range(m.active) \subseteq Range(m.registered)
    /\ Range(m.index) \ {None} = Range(m.active)
    /\ \A i \in Slots : m.index[i] # None =>
          /\ m.buffers[i] = m.index[i]
          /\ \A j \in Slots \ {i} : m.index[j] # m.index[i]

\* The members of A are in the cache, and nothing else is as new as they are.
Newest(cache, A) ==
    /\ A \subseteq Range(cache)
    /\ \A i, j \in DOMAIN cache : i < j /\ cache[i] \in A => cache[j] \in A
NewestInBoth(m, A) == Newest(m.registered, A) /\ Newest(m.active, A)

Applied == LorasOf(batch) \ toApply

\* The LoRAs _apply_loras has added are the newest of both caches: they are not
\* evicted for those it has still to add, since all fit the slots.
ApplyInv ==
    pc = "apply" =>
        /\ Cardinality(LorasOf(batch)) <= MaxLoras
        /\ toApply \subseteq LorasOf(batch)
        /\ NewestInBoth(manager, Applied)

\* The indices computed last are those of the last mapping, until a call between
\* two batches or another batch moves LoRAs.
IndicesInv ==
    ~calls /\ (pc \in {"idle", "execute"} \/ (pc = "apply" /\ batch = lastMapping)) =>
        /\ LorasOf(lastMapping) \subseteq Range(manager.active)
        /\ baseIndices = Indices(lastMapping.index)
        /\ samplerIndices = Indices(lastMapping.prompt)

ExecuteInv ==
    pc = "execute" => lastMapping = batch /\ LorasOf(batch) \subseteq Range(manager.active)

LoraInv == LoraTypeOK /\ ManagerInv(manager) /\ ApplyInv /\ IndicesInv /\ ExecuteInv
-----------------------------------------------------------------------------
(***************************************************************************)
(* LRU caches as sequences without repeats                                 *)
(***************************************************************************)

\* A nonempty set of naturals has a least member, which is its Min.
LEMMA LeastNat ==
    ASSUME NEW T \in SUBSET Nat, T # {}
    PROVE  Min(T) \in T /\ \A y \in T : Min(T) <= y
<1> DEFINE R == {ss \in Nat \X Nat : ss[1] < ss[2]}
<1>1. IsWellFoundedOn(R, Nat)
  BY NatLessThanWellFounded DEF OpToRel
<1>2. PICK x \in T : \A y \in T : ~(<<y, x>> \in R)
  BY <1>1, WFMin
<1>3. ASSUME NEW y \in T
      PROVE  x <= y
  <2>1. <<y, x>> \in Nat \X Nat /\ ~(<<y, x>> \in R)
    BY <1>2
  <2>2. ~(y < x)
    BY <2>1
  <2>3. QED
    BY <2>2
<1> DEFINE m == CHOOSE z \in T : \A y \in T : z =< y
<1>4. \E z \in T : \A y \in T : z =< y
  BY <1>3
<1>5. m \in T /\ \A y \in T : m =< y
  BY <1>4
<1>6. Min(T) = m
  BY DEF Min
<1> HIDE DEF m
<1>7. QED
  BY <1>5, <1>6

\* RemoveFirst leaves a cache without the key alone, and closes the gap of a key.
LEMMA RemoveFirstIs ==
    ASSUME NEW S, NEW s \in Seq(S), NEW e
    PROVE  /\ e \notin Range(s) => RemoveFirst(s, e) = s
           /\ e \in Range(s) =>
                \E k \in 1..Len(s) :
                  /\ s[k] = e
                  /\ RemoveFirst(s, e) \in Seq(S)
                  /\ Len(RemoveFirst(s, e)) = Len(s) - 1
                  /\ \A i \in 1..(Len(s) - 1) :
                       RemoveFirst(s, e)[i] = IF i < k THEN s[i] ELSE s[i + 1]
<1>1. CASE e \notin Range(s)
  <2>1. ~\E i \in 1..Len(s) : s[i] = e
    BY <1>1 DEF Range
  <2>2. QED
    BY <1>1, <2>1 DEF RemoveFirst, RemoveAt, SelectInSeq
<1>2. CASE e \in Range(s)
  <2> DEFINE I == {i \in 1..Len(s) : s[i] = e}
             k == Min(I)
             u == SubSeq(s, 1, k - 1) \o SubSeq(s, k + 1, Len(s))
  <2>1. I # {} /\ I \subseteq Nat
    BY <1>2 DEF Range
  <2>2. k \in I
    BY <2>1, LeastNat
  <2>3. k \in 1..Len(s) /\ s[k] = e
    BY <2>2
  <2>4. RemoveFirst(s, e) = u
    BY <1>2, <2>1 DEF RemoveFirst, RemoveAt, SelectInSeq, Range
  <2> HIDE DEF k
  <2>5. /\ u \in Seq(S) /\ Len(u) = Len(s) - 1
        /\ \A i \in 1..(Len(s) - 1) : u[i] = IF i < k THEN s[i] ELSE s[i + 1]
    <3> DEFINE x == SubSeq(s, 1, k - 1)
               y == SubSeq(s, k + 1, Len(s))
    <3>1. x \in Seq(S) /\ Len(x) = k - 1 /\ \A i \in 1..(k - 1) : x[i] = s[i]
      <4>1. \A i \in 1..(k - 1) : s[i] \in S
        BY <2>3
      <4>2. QED
        BY <2>3, <4>1, SubSeqProperties
    <3>2. /\ y \in Seq(S) /\ Len(y) = Len(s) - k
          /\ \A i \in 1..(Len(s) - k) : y[i] = s[k + i]
      <4>1. \A i \in (k + 1)..Len(s) : s[i] \in S
        BY <2>3
      <4>2. QED
        BY <2>3, <4>1, SubSeqProperties
    <3> HIDE DEF x, y
    <3>3. /\ x \o y \in Seq(S) /\ Len(x \o y) = Len(s) - 1
          /\ \A i \in 1..(Len(s) - 1) :
               (x \o y)[i] = IF i <= k - 1 THEN x[i] ELSE y[i - (k - 1)]
      <4>1. /\ x \o y \in Seq(S) /\ Len(x \o y) = Len(x) + Len(y)
            /\ \A i \in 1..(Len(x) + Len(y)) :
                 (x \o y)[i] = IF i <= Len(x) THEN x[i] ELSE y[i - Len(x)]
        BY <3>1, <3>2, ConcatProperties
      <4>2. Len(x) + Len(y) = Len(s) - 1
        BY <2>3, <3>1, <3>2
      <4>3. QED
        BY <3>1, <4>1, <4>2
    <3>4. ASSUME NEW i \in 1..(Len(s) - 1)
          PROVE  (x \o y)[i] = IF i < k THEN s[i] ELSE s[i + 1]
      BY <2>3, <3>1, <3>2, <3>3
    <3>5. QED
      BY <3>3, <3>4 DEF x, y
  <2> HIDE DEF u
  <2>6. QED
    BY <1>2, <2>3, <2>4, <2>5
<1>3. QED
  BY <1>1, <1>2

\* A key removed from a cache is gone, and the rest keep their order.
LEMMA RemoveKey ==
    ASSUME NEW S, NEW s \in Seq(S), IsInjective(s), NEW e
    PROVE  LET u == RemoveFirst(s, e)
           IN  /\ u \in Seq(S) /\ IsInjective(u) /\ Range(u) = Range(s) \ {e}
               /\ Len(u) = IF e \in Range(s) THEN Len(s) - 1 ELSE Len(s)
               /\ \A A : Newest(s, A) => Newest(u, A \ {e})
<1> DEFINE u == RemoveFirst(s, e)
<1>1. CASE e \notin Range(s)
  BY <1>1, RemoveFirstIs DEF Newest
<1>2. CASE e \in Range(s)
  <2>1. PICK k \in 1..Len(s) :
          /\ s[k] = e
          /\ u \in Seq(S) /\ Len(u) = Len(s) - 1
          /\ \A i \in 1..(Len(s) - 1) : u[i] = IF i < k THEN s[i] ELSE s[i + 1]
    BY <1>2, RemoveFirstIs
  <2> HIDE DEF u
  <2>2. /\ DOMAIN s = 1..Len(s) /\ DOMAIN u = 1..(Len(s) - 1) /\ Len(s) \in Nat
        /\ \A i, j \in 1..Len(s) : s[i] = s[j] => i = j
    BY <2>1 DEF IsInjective
  <2>3. IsInjective(u)
    BY <2>1, <2>2 DEF IsInjective
  <2>4. Range(u) = Range(s) \ {e}
    <3>1. Range(u) \subseteq Range(s) \ {e}
      BY <2>1, <2>2 DEF Range
    <3>2. ASSUME NEW x \in Range(s) \ {e}
          PROVE  x \in Range(u)
      <4>1. PICK i \in 1..Len(s) : x = s[i]
        BY <2>2 DEF Range
      <4>2. i # k
        BY <2>1, <4>1
      <4>3. CASE i < k
        BY <2>1, <2>2, <4>1, <4>3 DEF Range
      <4>4. CASE i > k
        <5>1. i - 1 \in 1..(Len(s) - 1) /\ u[i - 1] = s[i]
          BY <2>1, <2>2, <4>4
        <5>2. QED
          BY <2>2, <4>1, <5>1 DEF Range
      <4>5. QED
        BY <2>2, <4>2, <4>3, <4>4
    <3>3. QED
      BY <3>1, <3>2
  <2>5. ASSUME NEW A, Newest(s, A)
        PROVE  Newest(u, A \ {e})
    <3>1. ASSUME NEW i \in DOMAIN u, NEW j \in DOMAIN u, i < j, u[i] \in A \ {e}
          PROVE  u[j] \in A \ {e}
      <4>1. PICK x, y \in 1..Len(s) : x < y /\ u[i] = s[x] /\ u[j] = s[y]
        BY <2>1, <2>2, <3>1
      <4>2. s[y] \in A
        BY <2>2, <2>5, <3>1, <4>1 DEF Newest
      <4>3. u[j] # e
        BY <2>4, <3>1 DEF Range
      <4>4. QED
        BY <4>1, <4>2, <4>3
    <3>2. A \ {e} \subseteq Range(u)
      BY <2>4, <2>5 DEF Newest
    <3>3. QED
      BY <3>1, <3>2 DEF Newest
  <2>6. QED
    BY <1>2, <2>1, <2>3, <2>4, <2>5 DEF u
<1>3. QED
  BY <1>1, <1>2

\* A key appended to a cache is the newest.
LEMMA AppendKey ==
    ASSUME NEW S, NEW s \in Seq(S), IsInjective(s), NEW e \in S, e \notin Range(s)
    PROVE  LET u == Append(s, e)
           IN  /\ u \in Seq(S) /\ IsInjective(u) /\ Range(u) = Range(s) \cup {e}
               /\ Len(u) = Len(s) + 1
               /\ \A A : Newest(s, A) => Newest(u, A \cup {e})
<1> DEFINE u == Append(s, e)
<1>1. /\ u \in Seq(S) /\ Len(u) = Len(s) + 1 /\ Len(s) \in Nat
      /\ DOMAIN u = 1..(Len(s) + 1) /\ DOMAIN s = 1..Len(s)
      /\ \A i \in 1..Len(s) : u[i] = s[i]
      /\ u[Len(s) + 1] = e
  OBVIOUS
<1> HIDE DEF u
<1>2. IsInjective(u)
  BY <1>1 DEF IsInjective, Range
<1>3. Range(u) = Range(s) \cup {e}
  <2>1. Range(u) \subseteq Range(s) \cup {e}
    BY <1>1 DEF Range
  <2>2. Range(s) \subseteq Range(u) /\ e \in Range(u)
    BY <1>1 DEF Range
  <2>3. QED
    BY <2>1, <2>2
<1>4. ASSUME NEW A, Newest(s, A)
      PROVE  Newest(u, A \cup {e})
  <2>1. ASSUME NEW i \in DOMAIN u, NEW j \in DOMAIN u, i < j, u[i] \in A \cup {e}
        PROVE  u[j] \in A \cup {e}
    <3>1. i \in DOMAIN s /\ u[i] = s[i] /\ s[i] \in A
      BY <1>1, <2>1 DEF Range
    <3>2. CASE j \in DOMAIN s
      BY <1>1, <1>4, <2>1, <3>1, <3>2 DEF Newest
    <3>3. CASE j = Len(s) + 1
      BY <1>1, <3>3
    <3>4. QED
      BY <1>1, <2>1, <3>2, <3>3
  <2>2. QED
    BY <1>3, <1>4, <2>1 DEF Newest
<1>5. QED
  BY <1>1, <1>2, <1>3, <1>4 DEF u

\* A key touched in a cache becomes the newest.
LEMMA TouchKey ==
    ASSUME NEW S, NEW s \in Seq(S), IsInjective(s), NEW e \in S
    PROVE  LET u == Touch(s, e)
           IN  /\ u \in Seq(S) /\ IsInjective(u) /\ Range(u) = Range(s) \cup {e}
               /\ Len(u) = IF e \in Range(s) THEN Len(s) ELSE Len(s) + 1
               /\ \A A : Newest(s, A) => Newest(u, A \cup {e})
<1> DEFINE v == RemoveFirst(s, e)
<1>1. /\ v \in Seq(S) /\ IsInjective(v) /\ Range(v) = Range(s) \ {e}
      /\ Len(v) = IF e \in Range(s) THEN Len(s) - 1 ELSE Len(s)
      /\ \A A : Newest(s, A) => Newest(v, A \ {e})
  BY RemoveKey
<1> HIDE DEF v
<1>2. /\ Append(v, e) \in Seq(S) /\ IsInjective(Append(v, e))
      /\ Range(Append(v, e)) = Range(v) \cup {e}
      /\ Len(Append(v, e)) = Len(v) + 1
      /\ \A A : Newest(v, A) => Newest(Append(v, e), A \cup {e})
  BY <1>1, AppendKey
<1>3. ASSUME NEW A, Newest(s, A)
      PROVE  Newest(Append(v, e), A \cup {e})
  <2>1. Newest(Append(v, e), (A \ {e}) \cup {e})
    BY <1>1, <1>2, <1>3
  <2>2. (A \ {e}) \cup {e} = A \cup {e}
    OBVIOUS
  <2>3. QED
    BY <2>1, <2>2
<1>4. Len(s) \in Nat /\ Len(Append(v, e)) = IF e \in Range(s) THEN Len(s) ELSE Len(s) + 1
  BY <1>1, <1>2
<1>5. Range(Append(v, e)) = Range(s) \cup {e}
  BY <1>1, <1>2
<1>6. Touch(s, e) = Append(v, e)
  BY DEF Touch, v
<1>7. QED
  BY <1>2, <1>3, <1>4, <1>5, <1>6

\* A cache has as many keys as places.
LEMMA CardOfCache ==
    ASSUME NEW S, NEW s \in Seq(S), IsInjective(s)
    PROVE  IsFiniteSet(Range(s)) /\ Cardinality(Range(s)) = Len(s)
<1>1. IsFiniteSet(1..Len(s)) /\ Cardinality(1..Len(s)) = Len(s)
  <2>1. Len(s) \in Nat /\ Len(s) \in Int /\ 1 \in Int
    OBVIOUS
  <2>2. /\ IsFiniteSet(1..Len(s))
        /\ Cardinality(1..Len(s)) = IF 1 > Len(s) THEN 0 ELSE Len(s) - 1 + 1
    BY <2>1, FS_Interval, Zenon
  <2>3. QED
    BY <2>1, <2>2
<1>2. s \in [1..Len(s) -> Range(s)] /\ \A x \in Range(s) : \E i \in 1..Len(s) : s[i] = x
  BY DEF Range
<1>3. s \in Surjection(1..Len(s), Range(s)) /\ s \in Injection(1..Len(s), Range(s))
  BY <1>2 DEF Surjection, Injection
<1>4. QED
  BY <1>1, <1>3, FS_Surjection

\* The oldest key is not among the newest ones when those, with one more key,
\* are no more than the cache holds.
LEMMA HeadIsOld ==
    ASSUME NEW S, NEW s \in Seq(S), IsInjective(s), s # << >>,
           NEW A, Newest(s, A), NEW e, e \notin Range(s),
           Cardinality(A \cup {e}) <= Len(s)
    PROVE  Head(s) \in S /\ Head(s) \in Range(s) /\ Head(s) \notin A
<1>1. Len(s) \in Nat \ {0} /\ DOMAIN s = 1..Len(s) /\ Head(s) = s[1] /\ Head(s) \in S
  OBVIOUS
<1>2. Head(s) \in Range(s)
  BY <1>1 DEF Range
<1>3. ASSUME Head(s) \in A
      PROVE  FALSE
  <2>1. Range(s) \subseteq A
    BY <1>1, <1>3 DEF Newest, Range
  <2>2. A = Range(s)
    BY <2>1 DEF Newest
  <2>3. Cardinality(A \cup {e}) = Len(s) + 1
    BY <2>2, CardOfCache, FS_AddElement
  <2>4. QED
    BY <1>1, <2>3
<1>4. QED
  BY <1>1, <1>2, <1>3
-----------------------------------------------------------------------------
(***************************************************************************)
(* The operations of the manager keep what it promises                     *)
(***************************************************************************)

\* None is no LoRA.
LEMMA LorasAreNotNone ==
    ASSUME NEW l \in Loras
    PROVE  l # None
BY LoraAssumption DEF None

\* A LoRA that is deactivated leaves the active ones and its slot.
LEMMA DeactivateKeeps ==
    ASSUME NEW m, ManagerInv(m), NEW l \in Loras
    PROVE  LET d == Deactivate(m, l)
           IN  /\ ManagerInv(d) /\ d.registered = m.registered
               /\ Range(d.active) = Range(m.active) \ {l}
               /\ Len(d.active) = IF l \in Range(m.active) THEN Len(m.active) - 1
                                  ELSE Len(m.active)
               /\ \A A : Newest(m.active, A) /\ l \notin A => Newest(d.active, A)
<1> DEFINE d == Deactivate(m, l)
<1>1. /\ m \in Managers /\ m.active \in Seq(Loras) /\ m.registered \in Seq(Loras)
      /\ IsInjective(m.active) /\ m.index \in [Slots -> Loras \cup {None}]
      /\ m.buffers \in [Slots -> Loras \cup {None}]
      /\ Len(m.active) \in Nat /\ Len(m.active) <= MaxLoras
      /\ l # None
  BY LorasAreNotNone DEF ManagerInv, Managers
<1>2. /\ d = [m EXCEPT !.active = RemoveFirst(m.active, l),
                       !.index = [i \in Slots |-> IF m.index[i] = l THEN None ELSE m.index[i]]]
  BY DEF Deactivate
<1>3. /\ d.active = RemoveFirst(m.active, l) /\ d.registered = m.registered
      /\ d.buffers = m.buffers
      /\ d.index = [i \in Slots |-> IF m.index[i] = l THEN None ELSE m.index[i]]
  BY <1>1, <1>2 DEF Managers
<1>4. /\ d.active \in Seq(Loras) /\ IsInjective(d.active)
      /\ Range(d.active) = Range(m.active) \ {l}
      /\ Len(d.active) = IF l \in Range(m.active) THEN Len(m.active) - 1 ELSE Len(m.active)
      /\ \A A : Newest(m.active, A) => Newest(d.active, A \ {l})
  BY <1>1, <1>3, RemoveKey
<1>5. d \in Managers
  BY <1>1, <1>2, <1>3, <1>4 DEF Managers
<1> HIDE DEF d
<1>6. Range(d.index) \ {None} = Range(d.active)
  <2>1. Range(d.index) \ {None} = (Range(m.index) \ {None}) \ {l}
    BY <1>1, <1>3 DEF Range
  <2>2. Range(m.index) \ {None} = Range(m.active)
    BY DEF ManagerInv
  <2>3. QED
    BY <1>4, <2>1, <2>2
<1>7. \A i \in Slots : d.index[i] # None =>
         /\ d.buffers[i] = d.index[i]
         /\ \A j \in Slots \ {i} : d.index[j] # d.index[i]
  BY <1>1, <1>3 DEF ManagerInv
<1>8. Len(d.active) <= MaxLoras
  BY <1>1, <1>4, LoraAssumption
<1>9. ManagerInv(d)
  BY <1>3, <1>4, <1>5, <1>6, <1>7, <1>8 DEF ManagerInv
<1>10. ASSUME NEW A, Newest(m.active, A), l \notin A
       PROVE  Newest(d.active, A)
  <2>1. A \ {l} = A
    BY <1>10
  <2>2. QED
    BY <1>4, <1>10, <2>1
<1>11. QED
  BY <1>3, <1>4, <1>9, <1>10 DEF d

\* A LoRA that is removed leaves both caches and its slot.
LEMMA UnregisterKeeps ==
    ASSUME NEW m, ManagerInv(m), NEW l \in Loras
    PROVE  LET u == Unregister(m, l)
           IN  /\ ManagerInv(u)
               /\ Range(u.registered) = Range(m.registered) \ {l}
               /\ Len(u.registered) = IF l \in Range(m.registered) THEN Len(m.registered) - 1
                                      ELSE Len(m.registered)
               /\ \A A : NewestInBoth(m, A) /\ l \notin A => NewestInBoth(u, A)
<1> DEFINE d == Deactivate(m, l)
           u == Unregister(m, l)
<1>1. /\ ManagerInv(d) /\ d.registered = m.registered
      /\ Range(d.active) = Range(m.active) \ {l}
      /\ \A A : Newest(m.active, A) /\ l \notin A => Newest(d.active, A)
  BY DeactivateKeeps
<1>2. u = [d EXCEPT !.registered = RemoveFirst(d.registered, l)]
  BY DEF Unregister
<1> HIDE DEF d, u
<1>3. d \in Managers /\ d.registered \in Seq(Loras) /\ IsInjective(d.registered)
  BY <1>1 DEF ManagerInv, Managers
<1>4. /\ u.registered = RemoveFirst(d.registered, l) /\ u.active = d.active
      /\ u.index = d.index /\ u.buffers = d.buffers
  BY <1>2, <1>3 DEF Managers
<1>5. /\ u.registered \in Seq(Loras) /\ IsInjective(u.registered)
      /\ Range(u.registered) = Range(m.registered) \ {l}
      /\ Len(u.registered) = IF l \in Range(m.registered) THEN Len(m.registered) - 1
                             ELSE Len(m.registered)
      /\ \A A : Newest(d.registered, A) => Newest(u.registered, A \ {l})
  BY <1>1, <1>3, <1>4, RemoveKey
<1>6. u \in Managers
  BY <1>2, <1>3, <1>4, <1>5 DEF Managers
<1>7. Len(u.registered) <= MaxCpuLoras
  BY <1>1, <1>3, <1>5, LoraAssumption DEF ManagerInv
<1>8. ManagerInv(u)
  BY <1>1, <1>4, <1>5, <1>6, <1>7 DEF ManagerInv
<1>9. ASSUME NEW A, NewestInBoth(m, A), l \notin A
      PROVE  NewestInBoth(u, A)
  <2>1. A \ {l} = A
    BY <1>9
  <2>2. Newest(d.registered, A) /\ Newest(d.active, A)
    BY <1>1, <1>9 DEF NewestInBoth
  <2>3. QED
    BY <1>4, <1>5, <2>1, <2>2 DEF NewestInBoth
<1>10. QED
  BY <1>5, <1>8, <1>9 DEF u

\* There is a slot for another LoRA: "No free lora slots" is never raised.
LEMMA SlotIsFree ==
    ASSUME NEW m, ManagerInv(m), Len(m.active) < MaxLoras
    PROVE  Min(FreeSlots(m)) \in Slots /\ m.index[Min(FreeSlots(m))] = None
<1>1. FreeSlots(m) # {}
  <2>1. SUFFICES ASSUME FreeSlots(m) = {}
                 PROVE  FALSE
    OBVIOUS
  <2>2. m.index \in Injection(Slots, Range(m.active))
    <3>1. \A i \in Slots : m.index[i] # None
      BY <2>1 DEF FreeSlots
    <3>2. m.index \in [Slots -> Range(m.active)]
      BY <3>1 DEF ManagerInv, Managers, Range
    <3>3. IsInjective(m.index)
      BY <3>1, <3>2 DEF ManagerInv, IsInjective
    <3>4. QED
      BY <3>2, <3>3 DEF Injection
  <2>3. IsFiniteSet(Range(m.active)) /\ Cardinality(Range(m.active)) = Len(m.active)
    BY CardOfCache DEF ManagerInv, Managers
  <2>4. Cardinality(Slots) = MaxLoras
    BY FS_Interval, LoraAssumption DEF Slots
  <2>5. MaxLoras <= Len(m.active)
    BY <2>2, <2>3, <2>4, FS_Injection
  <2>6. QED
    BY <2>5, LoraAssumption DEF ManagerInv, Managers
<1>2. FreeSlots(m) \subseteq Nat
  BY LoraAssumption DEF FreeSlots, Slots
<1>3. Min(FreeSlots(m)) \in FreeSlots(m)
  BY <1>1, <1>2, LeastNat
<1>4. QED
  BY <1>3 DEF FreeSlots

\* A LoRA goes into a free slot and becomes the newest active one.
LEMMA IntoFreeSlotKeeps ==
    ASSUME NEW m, ManagerInv(m), Len(m.active) < MaxLoras,
           NEW l \in Range(m.registered), l \notin Range(m.active)
    PROVE  LET n == IntoFreeSlot(m, l)
           IN  /\ ManagerInv(n) /\ n.registered = m.registered
               /\ Range(n.active) = Range(m.active) \cup {l}
               /\ \A A : Newest(m.active, A) => Newest(n.active, A \cup {l})
<1> DEFINE n == IntoFreeSlot(m, l)
           slot == Min(FreeSlots(m))
<1>1. slot \in Slots /\ m.index[slot] = None
  BY SlotIsFree
<1> HIDE DEF slot
<1>2. /\ m \in Managers /\ m.active \in Seq(Loras) /\ m.registered \in Seq(Loras)
      /\ IsInjective(m.active) /\ m.index \in [Slots -> Loras \cup {None}]
      /\ m.buffers \in [Slots -> Loras \cup {None}]
      /\ Len(m.active) \in Nat
  BY DEF ManagerInv, Managers
<1>3. l \in Loras /\ l # None
  BY <1>2, LorasAreNotNone DEF Range
<1>4. n = [m EXCEPT !.active = Append(m.active, l), !.index[slot] = l, !.buffers[slot] = l]
  BY DEF IntoFreeSlot, slot
<1> HIDE DEF n
<1>5. /\ n.active = Append(m.active, l) /\ n.registered = m.registered
      /\ n.index = [m.index EXCEPT ![slot] = l]
      /\ n.buffers = [m.buffers EXCEPT ![slot] = l]
      /\ DOMAIN n = DOMAIN m
  BY <1>2, <1>4 DEF Managers
<1>6. /\ n.active \in Seq(Loras) /\ IsInjective(n.active)
      /\ Range(n.active) = Range(m.active) \cup {l}
      /\ Len(n.active) = Len(m.active) + 1
      /\ \A A : Newest(m.active, A) => Newest(n.active, A \cup {l})
  BY <1>2, <1>3, <1>5, AppendKey
<1>7. n \in Managers
  <2>1. /\ n.index \in [Slots -> Loras \cup {None}]
        /\ n.buffers \in [Slots -> Loras \cup {None}]
    BY <1>1, <1>2, <1>3, <1>5
  <2>2. QED
    BY <1>2, <1>4, <1>5, <1>6, <2>1 DEF Managers
<1>8. Range(n.index) \ {None} = Range(n.active)
  <2>1. Range(n.index) \ {None} = (Range(m.index) \ {None}) \cup {l}
    BY <1>1, <1>2, <1>3, <1>5 DEF Range
  <2>2. Range(m.index) \ {None} = Range(m.active)
    BY DEF ManagerInv
  <2>3. QED
    BY <1>6, <2>1, <2>2
<1>9. \A i \in Slots : n.index[i] # None =>
         /\ n.buffers[i] = n.index[i]
         /\ \A j \in Slots \ {i} : n.index[j] # n.index[i]
  <2>1. \A i \in Slots : m.index[i] # l
    <3>1. Range(m.index) \ {None} = Range(m.active)
      BY DEF ManagerInv
    <3>2. QED
      BY <1>2, <1>3, <3>1 DEF Range
  <2>2. QED
    BY <1>1, <1>2, <1>5, <2>1 DEF ManagerInv
<1>10. Len(n.active) <= MaxLoras
  BY <1>2, <1>6, LoraAssumption
<1>11. ManagerInv(n)
  BY <1>5, <1>6, <1>7, <1>8, <1>9, <1>10 DEF ManagerInv
<1>12. QED
  BY <1>5, <1>6, <1>11 DEF n

\* activate_lora evicts no LoRA of A, and l becomes the newest active one.
LEMMA ActivateKeeps ==
    ASSUME NEW m, ManagerInv(m), NEW l \in Range(m.registered),
           NEW A, Newest(m.active, A), Cardinality(A \cup {l}) <= MaxLoras
    PROVE  LET n == Activate(m, l)
           IN  /\ ManagerInv(n) /\ n.registered = m.registered
               /\ Newest(n.active, A \cup {l})
               /\ l \in Range(m.active) =>
                    n.index = m.index /\ Range(n.active) = Range(m.active)
<1> DEFINE n == Activate(m, l)
<1>1. /\ m \in Managers /\ m.active \in Seq(Loras) /\ m.registered \in Seq(Loras)
      /\ IsInjective(m.active) /\ Len(m.active) \in Nat /\ Len(m.active) <= MaxLoras
      /\ l \in Loras /\ MaxLoras \in Nat \ {0}
  BY LoraAssumption DEF ManagerInv, Managers, Range
<1>2. CASE l \in Range(m.active)
  <2>1. n = [m EXCEPT !.active = Touch(m.active, l)]
    BY <1>2 DEF Activate
  <2> HIDE DEF n
  <2>2. /\ n.active = Touch(m.active, l) /\ n.registered = m.registered
        /\ n.index = m.index /\ n.buffers = m.buffers
    BY <1>1, <2>1 DEF Managers
  <2>3. /\ n.active \in Seq(Loras) /\ IsInjective(n.active)
        /\ Range(n.active) = Range(m.active) \cup {l} /\ Len(n.active) = Len(m.active)
        /\ Newest(n.active, A \cup {l})
    BY <1>1, <1>2, <2>2, TouchKey
  <2>4. Range(n.active) = Range(m.active)
    BY <1>2, <2>3
  <2>5. n \in Managers
    BY <1>1, <2>1, <2>2, <2>3 DEF Managers
  <2>6. ManagerInv(n)
    BY <1>1, <2>2, <2>3, <2>4, <2>5 DEF ManagerInv
  <2>7. QED
    BY <2>2, <2>3, <2>4, <2>6 DEF n
<1>3. CASE l \notin Range(m.active)
  <2> DEFINE d == MakeSlot(m)
  <2>1. /\ ManagerInv(d) /\ d.registered = m.registered /\ l \notin Range(d.active)
        /\ Len(d.active) < MaxLoras /\ Newest(d.active, A)
    <3>1. CASE Len(m.active) >= MaxLoras
      <4>1. Len(m.active) = MaxLoras /\ m.active # << >>
        BY <1>1, <3>1
      <4>2. /\ Head(m.active) \in Loras /\ Head(m.active) \in Range(m.active)
            /\ Head(m.active) \notin A
        BY <1>1, <1>3, <4>1, HeadIsOld
      <4>3. d = Deactivate(m, Head(m.active))
        BY <3>1 DEF MakeSlot
      <4> DEFINE h == Head(m.active)
      <4> HIDE DEF h, d
      <4>4. d = Deactivate(m, h) /\ h \in Loras /\ h \in Range(m.active) /\ h \notin A
        BY <4>2, <4>3 DEF h
      <4>5. /\ ManagerInv(d) /\ d.registered = m.registered
            /\ Range(d.active) = Range(m.active) \ {h}
            /\ Len(d.active) = Len(m.active) - 1
            /\ \A B : Newest(m.active, B) /\ h \notin B => Newest(d.active, B)
        BY <4>4, DeactivateKeeps
      <4>6. QED
        BY <1>1, <1>3, <4>1, <4>4, <4>5
    <3>2. CASE ~(Len(m.active) >= MaxLoras)
      BY <1>1, <1>3, <3>2 DEF MakeSlot
    <3>3. QED
      BY <3>1, <3>2
  <2>2. n = IntoFreeSlot(d, l)
    BY <1>3 DEF Activate
  <2> HIDE DEF d, n
  <2>3. l \in Range(d.registered)
    BY <2>1
  <2>4. /\ ManagerInv(n) /\ n.registered = d.registered
        /\ Newest(n.active, A \cup {l})
    BY <2>1, <2>2, <2>3, IntoFreeSlotKeeps
  <2>5. QED
    BY <1>3, <2>1, <2>4 DEF n
<1>4. QED
  BY <1>2, <1>3

\* The LoRA unloaded for another one is none of A.
LEMMA MakeRoomKeeps ==
    ASSUME NEW m, ManagerInv(m), NEW l \in Loras,
           NEW A, NewestInBoth(m, A), Cardinality(A \cup {l}) <= MaxLoras
    PROVE  LET r == MakeRoom(m, l)
           IN  /\ ManagerInv(r) /\ NewestInBoth(r, A)
               /\ l \in Range(m.registered) => r = m
               /\ l \notin Range(r.registered) => Len(r.registered) < MaxCpuLoras
<1>1. /\ m.registered \in Seq(Loras) /\ IsInjective(m.registered)
      /\ Len(m.registered) \in Nat /\ Len(m.registered) <= MaxCpuLoras
      /\ Newest(m.registered, A)
      /\ MaxLoras \in Nat \ {0} /\ MaxCpuLoras \in Nat /\ MaxCpuLoras >= MaxLoras
  BY LoraAssumption DEF ManagerInv, Managers, NewestInBoth
<1>2. CASE ~IsLoaded(m, l) /\ Len(m.registered) + 1 > MaxCpuLoras
  <2> DEFINE h == Head(m.registered)
  <2>1. l \notin Range(m.registered)
    BY <1>2 DEF IsLoaded
  <2>2. Len(m.registered) = MaxCpuLoras /\ m.registered # << >>
    BY <1>1, <1>2
  <2>3. h \in Loras /\ h \in Range(m.registered) /\ h \notin A
    <3>1. Cardinality(A \cup {l}) <= Len(m.registered)
      <4>1. Range(m.registered) \in SUBSET Loras /\ IsFiniteSet(Range(m.registered))
        BY <1>1, CardOfCache DEF Range
      <4>2. IsFiniteSet(A \cup {l})
        BY <1>1, <4>1, FS_Subset, FS_AddElement DEF Newest
      <4>3. Cardinality(A \cup {l}) \in Nat
        BY <4>2, FS_CardinalityType
      <4>4. QED
        BY <1>1, <2>2, <4>3
    <3>2. QED
      BY <1>1, <2>1, <2>2, <3>1, HeadIsOld
  <2>4. MakeRoom(m, l) = Unregister(m, h)
    BY <1>2 DEF MakeRoom
  <2> HIDE DEF h
  <2> DEFINE r == MakeRoom(m, l)
  <2> HIDE DEF r
  <2>5. r = Unregister(m, h)
    BY <2>4 DEF r
  <2>6. /\ ManagerInv(r) /\ Len(r.registered) = Len(m.registered) - 1
        /\ NewestInBoth(r, A)
    BY <2>3, <2>5, UnregisterKeeps
  <2>7. Len(r.registered) < MaxCpuLoras
    BY <1>1, <2>2, <2>6
  <2>8. QED
    BY <2>1, <2>6, <2>7 DEF r
<1>3. CASE ~(~IsLoaded(m, l) /\ Len(m.registered) + 1 > MaxCpuLoras)
  BY <1>1, <1>3 DEF MakeRoom, IsLoaded
<1>4. QED
  BY <1>2, <1>3

\* add_lora keeps the LoRAs of A in both caches, l becomes the newest of both,
\* and nothing moves when l was active.
LEMMA WithLoraKeeps ==
    ASSUME NEW m, ManagerInv(m), NEW l \in Loras,
           NEW A, NewestInBoth(m, A), Cardinality(A \cup {l}) <= MaxLoras
    PROVE  LET n == WithLora(m, l)
           IN  /\ ManagerInv(n) /\ NewestInBoth(n, A \cup {l})
               /\ l \in Range(m.active) =>
                    n.index = m.index /\ Range(n.active) = Range(m.active)
<1> DEFINE r == MakeRoom(m, l)
           t == [r EXCEPT !.registered = Touch(r.registered, l)]
           n == Activate(t, l)
<1>1. /\ ManagerInv(r) /\ NewestInBoth(r, A)
      /\ l \in Range(m.registered) => r = m
      /\ l \notin Range(r.registered) => Len(r.registered) < MaxCpuLoras
  BY MakeRoomKeeps
<1>2. WithLora(m, l) = n
  BY DEF WithLora
<1> HIDE DEF r, n, t
<1>3. /\ r \in Managers /\ r.registered \in Seq(Loras) /\ IsInjective(r.registered)
      /\ Len(r.registered) \in Nat /\ Len(r.registered) <= MaxCpuLoras
      /\ MaxCpuLoras \in Nat
  BY <1>1, LoraAssumption DEF ManagerInv, Managers
<1>4. /\ t.registered = Touch(r.registered, l) /\ t.active = r.active
      /\ t.index = r.index /\ t.buffers = r.buffers
  BY <1>3 DEF Managers, t
<1>5. /\ t.registered \in Seq(Loras) /\ IsInjective(t.registered)
      /\ Range(t.registered) = Range(r.registered) \cup {l}
      /\ Len(t.registered) = IF l \in Range(r.registered) THEN Len(r.registered)
                             ELSE Len(r.registered) + 1
      /\ Newest(t.registered, A \cup {l})
  <2> DEFINE reg == r.registered
  <2>1. reg \in Seq(Loras) /\ IsInjective(reg) /\ Newest(reg, A)
    BY <1>1, <1>3 DEF NewestInBoth
  <2>2. t.registered = Touch(reg, l)
    BY <1>4
  <2> HIDE DEF reg
  <2>3. LET u == Touch(reg, l)
        IN  /\ u \in Seq(Loras) /\ IsInjective(u) /\ Range(u) = Range(reg) \cup {l}
            /\ Len(u) = IF l \in Range(reg) THEN Len(reg) ELSE Len(reg) + 1
            /\ \A B : Newest(reg, B) => Newest(u, B \cup {l})
    BY <2>1, TouchKey
  <2>4. QED
    BY <2>1, <2>2, <2>3 DEF reg
<1>6. t \in Managers
  BY <1>3, <1>4, <1>5 DEF Managers, t
<1>7. ManagerInv(t)
  BY <1>1, <1>3, <1>4, <1>5, <1>6 DEF ManagerInv
<1>8. l \in Range(t.registered) /\ Newest(t.active, A)
  BY <1>1, <1>4, <1>5 DEF NewestInBoth
<1>9. /\ ManagerInv(n) /\ n.registered = t.registered
      /\ Newest(n.active, A \cup {l})
      /\ l \in Range(t.active) => n.index = t.index /\ Range(n.active) = Range(t.active)
  BY <1>7, <1>8, ActivateKeeps DEF n
<1>10. l \in Range(m.active) => r = m
  BY <1>1 DEF ManagerInv
<1>11. QED
  BY <1>2, <1>4, <1>5, <1>9, <1>10 DEF NewestInBoth
-----------------------------------------------------------------------------
(***************************************************************************)
(* The steps of the worker                                                 *)
(***************************************************************************)

\* The LoRAs of a mapping are finitely many, and its samples have tokens.
LEMMA MappingFacts ==
    ASSUME NEW b \in Mappings \cup {NoMapping}
    PROVE  /\ b.index \in Seq(Loras \cup {None}) /\ b.prompt \in Seq(Loras \cup {None})
           /\ Range(b.prompt) \subseteq Range(b.index)
           /\ LorasOf(b) \subseteq Loras /\ IsFiniteSet(LorasOf(b))
<1>1. /\ b.index \in Seq(Loras \cup {None}) /\ b.prompt \in Seq(Loras \cup {None})
      /\ Range(b.prompt) \subseteq Range(b.index)
  <2>1. CASE b \in Mappings
    <3>1. b \in LoraMapping /\ Range(b.prompt) \subseteq Range(b.index)
      BY <2>1, LoraAssumption
    <3>2. QED
      BY <3>1 DEF LoraMapping
  <2>2. CASE b = NoMapping
    BY <2>2 DEF NoMapping, Range
  <2>3. QED
    BY <2>1, <2>2
<1>2. LorasOf(b) \subseteq Loras
  BY <1>1 DEF LorasOf, Range
<1>3. IsFiniteSet(Range(b.index))
  <2>1. Len(b.index) \in Nat /\ Len(b.index) \in Int /\ 1 \in Int
    BY <1>1
  <2>2. IsFiniteSet(1..Len(b.index))
    BY <2>1, FS_Interval, Zenon
  <2>3. b.index \in Surjection(1..Len(b.index), Range(b.index))
    BY <1>1 DEF Surjection, Range
  <2>4. QED
    BY <2>2, <2>3, FS_Surjection
<1>4. QED
  BY <1>1, <1>2, <1>3, FS_Subset DEF LorasOf

\* One LoRA fits the slots.
LEMMA OneFits ==
    ASSUME NEW l
    PROVE  Cardinality({} \cup {l}) <= MaxLoras
<1>1. IsFiniteSet({}) /\ Cardinality({}) = 0
  BY FS_EmptySet
<1>2. Cardinality({} \cup {l}) = 0 + 1
  BY <1>1, FS_AddElement
<1>3. QED
  BY <1>2, LoraAssumption

\* Every id of a list of active LoRAs has a slot.
LEMMA IndicesAreSlots ==
    ASSUME ManagerInv(manager), NEW ids \in Seq(Loras \cup {None}),
           Range(ids) \ {None} \subseteq Range(manager.active)
    PROVE  Indices(ids) \in Seq(Slots \cup {NoSlot})
<1>1. ASSUME NEW i \in DOMAIN ids
      PROVE  SlotOf(ids[i]) \in Slots \cup {NoSlot}
  <2>1. CASE ids[i] = None
    BY <2>1 DEF SlotOf
  <2>2. CASE ids[i] # None
    <3> DEFINE slot == CHOOSE j \in Slots : manager.index[j] = ids[i]
    <3>1. ids[i] \in Range(manager.index)
      BY <2>2 DEF Range, ManagerInv
    <3>2. \E j \in Slots : manager.index[j] = ids[i]
      BY <3>1 DEF Range, ManagerInv, Managers
    <3>3. slot \in Slots
      BY <3>2
    <3>4. SlotOf(ids[i]) = slot
      BY <2>2 DEF SlotOf
    <3>5. QED
      BY <3>3, <3>4
  <2>3. QED
    BY <2>1, <2>2
<1>2. DOMAIN ids = 1..Len(ids) /\ Len(ids) \in Nat
  OBVIOUS
<1>3. Indices(ids) \in [1..Len(ids) -> Slots \cup {NoSlot}]
  BY <1>1, <1>2 DEF Indices
<1>4. QED
  BY <1>2, <1>3

\* The invariant holds initially: the last mapping has no LoRA, or remove_all_loras
\* was called since its indices were computed.
LEMMA InitLoraInv ==
    LoraInit => LoraInv
<1> SUFFICES ASSUME LoraInit
             PROVE  LoraInv
  OBVIOUS
<1>1. lastMapping \in Mappings \cup {NoMapping} /\ calls = (LorasOf(lastMapping) # {})
  BY DEF LoraInit, WarmUpMappings
<1>2. /\ lastMapping.index \in Seq(Loras \cup {None})
      /\ lastMapping.prompt \in Seq(Loras \cup {None})
      /\ Range(lastMapping.prompt) \subseteq Range(lastMapping.index)
  BY <1>1, MappingFacts
<1>3. PICK slot \in Injection(LorasOf(lastMapping), Slots) :
        /\ baseIndices = [i \in DOMAIN lastMapping.index |->
              IF lastMapping.index[i] = None THEN NoSlot ELSE slot[lastMapping.index[i]]]
        /\ samplerIndices = [i \in DOMAIN lastMapping.prompt |->
              IF lastMapping.prompt[i] = None THEN NoSlot ELSE slot[lastMapping.prompt[i]]]
  BY DEF LoraInit
<1>4. {baseIndices, samplerIndices} \subseteq Seq(Slots \cup {NoSlot})
  <2>1. slot \in [LorasOf(lastMapping) -> Slots]
    BY <1>3 DEF Injection
  <2>2. ASSUME NEW ids \in Seq(Loras \cup {None}), Range(ids) \subseteq Range(lastMapping.index)
        PROVE  [i \in DOMAIN ids |-> IF ids[i] = None THEN NoSlot ELSE slot[ids[i]]]
                 \in Seq(Slots \cup {NoSlot})
    <3>1. \A i \in DOMAIN ids : ids[i] # None => ids[i] \in LorasOf(lastMapping)
      BY <2>2 DEF LorasOf, Range
    <3>2. \A i \in DOMAIN ids :
            (IF ids[i] = None THEN NoSlot ELSE slot[ids[i]]) \in Slots \cup {NoSlot}
      BY <2>1, <3>1
    <3>3. DOMAIN ids = 1..Len(ids) /\ Len(ids) \in Nat
      BY <2>2
    <3>4. QED
      BY <3>2, <3>3
  <2>3. baseIndices \in Seq(Slots \cup {NoSlot})
    BY <1>2, <1>3, <2>2
  <2>4. samplerIndices \in Seq(Slots \cup {NoSlot})
    BY <1>2, <1>3, <2>2
  <2>5. QED
    BY <2>3, <2>4
<1>5. ManagerInv(manager)
  <2>1. << >> \in Seq(Loras) /\ IsInjective(<< >>) /\ Len(<< >>) = 0
    BY DEF IsInjective
  <2>2. /\ manager.registered = << >> /\ manager.active = << >>
        /\ manager.index = [i \in Slots |-> None] /\ manager \in Managers
    BY <2>1 DEF LoraInit, Managers
  <2>3. Range(manager.index) \ {None} = Range(manager.active)
    BY <2>2 DEF Range
  <2>4. QED
    BY <2>1, <2>2, <2>3, LoraAssumption DEF ManagerInv
<1>6. LoraTypeOK
  BY <1>1, <1>4, <1>5 DEF LoraInit, LoraTypeOK, ManagerInv, Managers
<1>7. IndicesInv
  <2>1. SUFFICES ASSUME LorasOf(lastMapping) = {}
                 PROVE  /\ baseIndices = Indices(lastMapping.index)
                        /\ samplerIndices = Indices(lastMapping.prompt)
    BY <1>1 DEF IndicesInv
  <2>2. /\ \A i \in DOMAIN lastMapping.index : lastMapping.index[i] = None
        /\ \A i \in DOMAIN lastMapping.prompt : lastMapping.prompt[i] = None
    BY <1>2, <2>1 DEF LorasOf, Range
  <2>3. QED
    BY <1>3, <2>2 DEF Indices, SlotOf
<1>8. QED
  BY <1>5, <1>6, <1>7 DEF LoraInit, LoraInv, ApplyInv, ExecuteInv

\* Calls between two batches.
LEMMA CallStep ==
    ASSUME LoraInv, NEW l \in Loras, AddLora(l) \/ AddLoraFails(l) \/ RemoveLora(l)
    PROVE  LoraInv'
<1>1. Newest(manager.registered, {}) /\ Newest(manager.active, {})
  BY DEF Newest
<1>2. NewestInBoth(manager, {}) /\ Cardinality({} \cup {l}) <= MaxLoras
  BY <1>1, OneFits DEF NewestInBoth
<1>3. ManagerInv(WithLora(manager, l)) /\ ManagerInv(MakeRoom(manager, l))
  BY <1>2, WithLoraKeeps, MakeRoomKeeps DEF LoraInv
<1>4. ManagerInv(Unregister(manager, l))
  BY UnregisterKeeps DEF LoraInv
<1>5. ManagerInv(manager')
  BY <1>3, <1>4 DEF AddLora, AddLoraFails, RemoveLora
<1>6. /\ pc = "idle" /\ calls' = TRUE
      /\ UNCHANGED <<lastMapping, baseIndices, samplerIndices, pc, batch, toApply>>
  BY DEF AddLora, AddLoraFails, RemoveLora, indexVars, batchVars
<1>7. LoraTypeOK'
  BY <1>5, <1>6 DEF LoraInv, LoraTypeOK, ManagerInv, Managers
<1>8. QED
  BY <1>5, <1>6, <1>7 DEF LoraInv, ApplyInv, IndicesInv, ExecuteInv

\* A batch starts with no LoRA added.
LEMMA StartBatchStep ==
    ASSUME LoraInv, NEW b \in Mappings, StartBatch(b)
    PROVE  LoraInv'
<1>1. /\ pc = "idle" /\ batch' = b /\ toApply' = LorasOf(b)
      /\ pc' = IF Cardinality(LorasOf(b)) > MaxLoras THEN "RuntimeError" ELSE "apply"
      /\ UNCHANGED <<manager, lastMapping, baseIndices, samplerIndices, calls>>
  BY DEF StartBatch, indexVars
<1>2. LorasOf(b) \subseteq Loras /\ IsFiniteSet(LorasOf(b))
  BY MappingFacts
<1>3. Cardinality(LorasOf(b)) \in Nat
  BY <1>2, FS_CardinalityType
<1>4. LoraTypeOK'
  BY <1>1, <1>2 DEF LoraInv, LoraTypeOK
<1>5. ManagerInv(manager)'
  BY <1>1 DEF LoraInv
<1>6. ApplyInv'
  <2>1. Applied' = {}
    BY <1>1 DEF Applied, LorasOf
  <2>2. Newest(manager.registered, {}) /\ Newest(manager.active, {})
    BY DEF Newest
  <2>3. NewestInBoth(manager', Applied')
    BY <1>1, <2>1, <2>2 DEF NewestInBoth
  <2>4. pc' = "apply" => Cardinality(LorasOf(b)) <= MaxLoras
    BY <1>1, <1>3, LoraAssumption
  <2>5. QED
    BY <1>1, <2>3, <2>4 DEF ApplyInv, LorasOf
<1>7. IndicesInv' /\ ExecuteInv'
  BY <1>1 DEF LoraInv, IndicesInv, ExecuteInv, LorasOf, Indices, SlotOf
<1>8. QED
  BY <1>4, <1>5, <1>6, <1>7 DEF LoraInv

\* A LoRA of the batch is added and evicts none that was added before it.
LEMMA ApplyLoraStep ==
    ASSUME LoraInv, NEW l \in Loras, ApplyLora(l)
    PROVE  LoraInv'
<1> DEFINE n == WithLora(manager, l)
<1>1. /\ pc = "apply" /\ l \in toApply /\ manager' = n /\ toApply' = toApply \ {l}
      /\ UNCHANGED <<lastMapping, baseIndices, samplerIndices, pc, batch, calls>>
  BY DEF ApplyLora, indexVars
<1>2. /\ Cardinality(LorasOf(batch)) <= MaxLoras /\ toApply \subseteq LorasOf(batch)
      /\ NewestInBoth(manager, Applied)
  BY <1>1 DEF LoraInv, ApplyInv
<1>3. Cardinality(Applied \cup {l}) <= MaxLoras
  <2>1. batch \in Mappings \cup {NoMapping}
    BY DEF LoraInv, LoraTypeOK
  <2>2. IsFiniteSet(LorasOf(batch))
    BY <2>1, MappingFacts
  <2>3. Applied \cup {l} \subseteq LorasOf(batch)
    BY <1>1, <1>2 DEF Applied
  <2>4. /\ Cardinality(Applied \cup {l}) <= Cardinality(LorasOf(batch))
        /\ Cardinality(Applied \cup {l}) \in Nat /\ Cardinality(LorasOf(batch)) \in Nat
    BY <2>2, <2>3, FS_Subset, FS_CardinalityType
  <2>5. QED
    BY <1>2, <2>4, LoraAssumption
<1>4. /\ ManagerInv(n) /\ NewestInBoth(n, Applied \cup {l})
      /\ l \in Range(manager.active) =>
           n.index = manager.index /\ Range(n.active) = Range(manager.active)
  BY <1>2, <1>3, WithLoraKeeps DEF LoraInv
<1> HIDE DEF n
<1>5. LoraTypeOK'
  BY <1>1, <1>4 DEF LoraInv, LoraTypeOK, ManagerInv, Managers
<1>6. ApplyInv'
  <2>1. Applied' = Applied \cup {l}
    BY <1>1, <1>2 DEF Applied, LorasOf
  <2>2. QED
    BY <1>1, <1>2, <1>4, <2>1 DEF ApplyInv, LorasOf
<1>7. IndicesInv'
  <2>1. SUFFICES ASSUME ~calls, batch = lastMapping
                 PROVE  IndicesInv'
    BY <1>1 DEF IndicesInv
  <2>2. /\ LorasOf(lastMapping) \subseteq Range(manager.active)
        /\ baseIndices = Indices(lastMapping.index)
        /\ samplerIndices = Indices(lastMapping.prompt)
    BY <1>1, <2>1 DEF LoraInv, IndicesInv
  <2>3. manager'.index = manager.index /\ Range(manager'.active) = Range(manager.active)
    BY <1>1, <1>2, <1>4, <2>1, <2>2
  <2>4. QED
    BY <1>1, <2>2, <2>3 DEF IndicesInv, LorasOf, Indices, SlotOf
<1>8. ExecuteInv' /\ ManagerInv(manager)'
  BY <1>1, <1>4 DEF ExecuteInv
<1>9. QED
  BY <1>5, <1>6, <1>7, <1>8 DEF LoraInv

\* A LoRA that cannot be loaded ends the engine, with the caches in order.
LEMMA ApplyLoraFailsStep ==
    ASSUME LoraInv, NEW l \in Loras, ApplyLoraFails(l)
    PROVE  LoraInv'
<1>1. Newest(manager.registered, {}) /\ Newest(manager.active, {})
  BY DEF Newest
<1>2. NewestInBoth(manager, {}) /\ Cardinality({} \cup {l}) <= MaxLoras
  BY <1>1, OneFits DEF NewestInBoth
<1>3. ManagerInv(MakeRoom(manager, l))
  BY <1>2, MakeRoomKeeps DEF LoraInv
<1>4. /\ ManagerInv(manager') /\ pc' = "RuntimeError"
      /\ UNCHANGED <<lastMapping, baseIndices, samplerIndices, batch, toApply, calls>>
  BY <1>3 DEF ApplyLoraFails, indexVars, batchVars
<1>5. LoraTypeOK'
  BY <1>4 DEF LoraInv, LoraTypeOK, ManagerInv, Managers
<1>6. QED
  BY <1>4, <1>5 DEF LoraInv, ApplyInv, IndicesInv, ExecuteInv

\* All LoRAs are active when the rows get their slots.
LEMMA SetLoraMappingStep ==
    ASSUME LoraInv, SetLoraMapping
    PROVE  LoraInv'
<1>1. /\ pc = "apply" /\ toApply = {} /\ pc' = "execute" /\ lastMapping' = batch
      /\ UNCHANGED <<manager, batch, toApply>>
  BY DEF SetLoraMapping, batchVars
<1>2. batch \in Mappings \cup {NoMapping}
  BY DEF LoraInv, LoraTypeOK
<1>3. LorasOf(batch) \subseteq Range(manager.active)
  BY <1>1 DEF LoraInv, ApplyInv, Applied, NewestInBoth, Newest
<1>4. /\ baseIndices' \in Seq(Slots \cup {NoSlot}) /\ samplerIndices' \in Seq(Slots \cup {NoSlot})
      /\ calls' \in BOOLEAN
      /\ ~calls' => /\ baseIndices' = Indices(batch.index)
                    /\ samplerIndices' = Indices(batch.prompt)
  <2>1. CASE lastMapping # batch
    <3>1. ConvertMapping
      BY <2>1 DEF SetLoraMapping
    <3>2. Range(batch.prompt) \ {None} \subseteq Range(manager.active)
      BY <1>2, <1>3, MappingFacts DEF LorasOf
    <3>3. /\ Indices(batch.index) \in Seq(Slots \cup {NoSlot})
          /\ Indices(batch.prompt) \in Seq(Slots \cup {NoSlot})
      BY <1>2, <1>3, <3>2, MappingFacts, IndicesAreSlots DEF LoraInv, LorasOf
    <3>4. QED
      BY <3>1, <3>3 DEF ConvertMapping
  <2>2. CASE lastMapping = batch
    <3>1. UNCHANGED <<baseIndices, samplerIndices, calls>>
      BY <2>2 DEF SetLoraMapping
    <3>2. ~calls => /\ baseIndices = Indices(batch.index)
                    /\ samplerIndices = Indices(batch.prompt)
      BY <1>1, <2>2 DEF LoraInv, IndicesInv
    <3>3. QED
      BY <3>1, <3>2 DEF LoraInv, LoraTypeOK
  <2>3. QED
    BY <2>1, <2>2
<1>5. LoraTypeOK'
  BY <1>1, <1>4 DEF LoraInv, LoraTypeOK
<1>6. ManagerInv(manager)' /\ ApplyInv'
  BY <1>1 DEF LoraInv, ApplyInv
<1>7. IndicesInv' /\ ExecuteInv'
  BY <1>1, <1>3, <1>4 DEF IndicesInv, ExecuteInv, LorasOf, Indices, SlotOf
<1>8. QED
  BY <1>5, <1>6, <1>7 DEF LoraInv

LEMMA EndBatchStep ==
    ASSUME LoraInv, EndBatch
    PROVE  LoraInv'
<1>1. /\ pc = "execute" /\ pc' = "idle"
      /\ UNCHANGED <<manager, lastMapping, baseIndices, samplerIndices, batch, toApply, calls>>
  BY DEF EndBatch, indexVars, batchVars
<1>2. QED
  BY <1>1 DEF LoraInv, LoraTypeOK, ApplyInv, IndicesInv, ExecuteInv, LorasOf, Indices, SlotOf

\* Every step of the worker keeps the invariant.
LEMMA NextLoraInv ==
    LoraInv /\ [LoraNext]_loraVars => LoraInv'
<1> SUFFICES ASSUME LoraInv, [LoraNext]_loraVars
             PROVE  LoraInv'
  OBVIOUS
<1>1. CASE Calls
  BY <1>1, CallStep DEF Calls
<1>2. CASE ExecuteModel
  BY <1>2, StartBatchStep, ApplyLoraStep, ApplyLoraFailsStep, SetLoraMappingStep,
     EndBatchStep DEF ExecuteModel
<1>3. CASE UNCHANGED loraVars
  BY <1>3 DEF loraVars, indexVars, batchVars, LoraInv, LoraTypeOK, ApplyInv, Applied,
     IndicesInv, ExecuteInv, LorasOf, Indices, SlotOf
<1>4. QED
  BY <1>1, <1>2, <1>3 DEF LoraNext
-----------------------------------------------------------------------------
LEMMA LoraInvariant ==
    LoraSpec => []LoraInv
BY InitLoraInv, NextLoraInv, PTL DEF LoraSpec

\* Through every mix of loads, evictions, failed loads and removals the two LRU
\* caches and the table of slots agree (activate_lora, deactivate_lora,
\* LoRALRUCache._on_remove).
THEOREM CachesAndSlotsAgree ==
    LoraSpec => []SlotsHoldTheirLoras
<1>1. LoraInv => SlotsHoldTheirLoras
  BY DEF LoraInv, ManagerInv, SlotsHoldTheirLoras
<1>2. QED
  BY <1>1, LoraInvariant, PTL

\* No LoRA of a batch is evicted for another one of it, and the indices kept
\* from an equal mapping are right (_apply_loras, set_lora_mapping).
THEOREM RowsUseTheirLoras ==
    LoraSpec => []BatchUsesItsLoras
<1>1. LoraInv => BatchUsesItsLoras
  BY DEF LoraInv, ExecuteInv, IndicesInv, BatchUsesItsLoras
<1>2. QED
  BY <1>1, LoraInvariant, PTL
=============================================================================
