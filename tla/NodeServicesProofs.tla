-------------------------- MODULE NodeServicesProofs --------------------------
(****************************************************************************)
(* Proofs about what a node runs beside the consensus, for any constants     *)
(* that meet the assumptions of its parts.                                   *)
(*                                                                           *)
(* The mempool: that a text is taken again only after it was forgotten is    *)
(* not inductive.  It needs that a text that waits is still remembered       *)
(* (PendingIsRemembered, since what is dropped is the oldest record and what *)
(* waits is the newest part), and that the counts of a text add up           *)
(* (RecordAddsUp).                                                           *)
(*                                                                           *)
(* The validators that are counted, the older engine, the Merkle trees and   *)
(* the data availability that rests on them, the locks, and last the node    *)
(* services together, each with its invariant.                               *)
(****************************************************************************)
EXTENDS NodeServices, SumTheorems, FiniteSetTheorems, TLAPS

\* What PendingIsRemembered says of any two sequences.
Suffix(p, s) == /\ Len(p) <= Len(s)
                /\ \A i \in 1..Len(p) : p[i] = s[Len(s) - Len(p) + i]
Distinct(s)  == \A i, j \in 1..Len(s) : s[i] = s[j] => i = j

LEMMA ElemsAppend ==
  ASSUME NEW S, NEW s \in Seq(S), NEW x \in S
  PROVE  Elems(Append(s, x)) = Elems(s) \cup {x}
<1>1. /\ DOMAIN Append(s, x) = 1..Len(s) + 1 /\ DOMAIN s = 1..Len(s) /\ Len(s) \in Nat
      /\ \A i \in 1..Len(s) : Append(s, x)[i] = s[i]
      /\ Append(s, x)[Len(s) + 1] = x
  OBVIOUS
<1>2. ASSUME NEW y \in Elems(Append(s, x)) PROVE y \in Elems(s) \cup {x}
  <2>1. PICK i \in 1..Len(s) + 1 : y = Append(s, x)[i]
    BY <1>1 DEF Elems
  <2>2. CASE i = Len(s) + 1
    BY <1>1, <2>1, <2>2
  <2>3. CASE i # Len(s) + 1
    <3>1. i \in 1..Len(s)
      BY <1>1, <2>3, SMT
    <3>. QED BY <1>1, <2>1, <3>1 DEF Elems
  <2>. QED BY <2>2, <2>3
<1>3. ASSUME NEW y \in Elems(s) PROVE y \in Elems(Append(s, x))
  <2>1. PICK i \in 1..Len(s) : y = s[i]
    BY <1>1 DEF Elems
  <2>2. i \in 1..Len(s) + 1
    BY <1>1, SMT
  <2>. QED BY <1>1, <2>1, <2>2 DEF Elems
<1>4. x \in Elems(Append(s, x))
  <2>1. Len(s) + 1 \in 1..Len(s) + 1
    BY <1>1, SMT
  <2>. QED BY <1>1, <2>1 DEF Elems
<1>. QED BY <1>2, <1>3, <1>4

\* The first element of distinct ones is not among the others.
LEMMA ElemsTail ==
  ASSUME NEW S, NEW s \in Seq(S), Len(s) # 0, Distinct(s)
  PROVE  Head(s) \in Elems(s) /\ Elems(Tail(s)) = Elems(s) \ {Head(s)}
<1>1. /\ DOMAIN Tail(s) = 1..Len(s) - 1 /\ DOMAIN s = 1..Len(s) /\ Len(s) \in Nat \ {0}
      /\ \A i \in 1..Len(s) - 1 : Tail(s)[i] = s[i + 1]
      /\ Head(s) = s[1]
  OBVIOUS
<1>2. Head(s) \in Elems(s)
  <2>1. 1 \in 1..Len(s)
    BY <1>1, SMT
  <2>. QED BY <1>1, <2>1 DEF Elems
<1>3. ASSUME NEW y \in Elems(Tail(s)) PROVE y \in Elems(s) /\ y # Head(s)
  <2>1. PICK i \in 1..Len(s) - 1 : y = Tail(s)[i]
    BY <1>1 DEF Elems
  <2>2. i + 1 \in 1..Len(s) /\ 1 \in 1..Len(s) /\ i + 1 # 1
    BY <1>1, SMT
  <2>3. y = s[i + 1]
    BY <1>1, <2>1
  <2>4. y # s[1]
    BY <2>2, <2>3 DEF Distinct
  <2>. QED BY <1>1, <2>2, <2>3, <2>4 DEF Elems
<1>4. ASSUME NEW y \in Elems(s), y # Head(s) PROVE y \in Elems(Tail(s))
  <2>1. PICK i \in 1..Len(s) : y = s[i]
    BY <1>1 DEF Elems
  <2>2. i - 1 \in 1..Len(s) - 1 /\ (i - 1) + 1 = i
    BY <1>1, <1>4, <2>1, SMT
  <2>3. Tail(s)[i - 1] = s[(i - 1) + 1]
    BY <1>1, <2>2
  <2>. QED BY <1>1, <2>1, <2>2, <2>3 DEF Elems
<1>. QED BY <1>2, <1>3, <1>4

\* What is left of distinct ones when the first n are taken.
LEMMA ElemsRest ==
  ASSUME NEW S, NEW s \in Seq(S), Distinct(s), NEW n \in 0..Len(s)
  PROVE  /\ SubSeq(s, n + 1, Len(s)) \in Seq(S)
         /\ \A y \in S : y \in Elems(SubSeq(s, n + 1, Len(s)))
                            <=> y \in Elems(s) /\ ~ \E i \in 1..n : s[i] = y
<1>0. n \in Nat /\ n <= Len(s) /\ Len(s) \in Nat
  <2>1. Len(s) \in Nat
    OBVIOUS
  <2> DEFINE k == Len(s)
  <2>2. n \in 0..k /\ k \in Nat
    BY <2>1
  <2> HIDE DEF k
  <2>3. n \in Nat /\ n <= k
    BY <2>2, SMT
  <2>. QED BY <2>1, <2>3 DEF k
<1> DEFINE r == SubSeq(s, n + 1, Len(s))
<1>1. /\ DOMAIN s = 1..Len(s) /\ Len(s) \in Nat
      /\ r \in Seq(S) /\ DOMAIN r = 1..Len(s) - n /\ Len(r) = Len(s) - n
      /\ \A i \in 1..Len(s) - n : r[i] = s[n + i]
  <2>1. /\ \A i \in n + 1..Len(s) : s[i] \in S
        /\ n + 1 \in Int /\ Len(s) \in Int
    BY SMT
  <2>. QED BY <2>1, SMT
<1> HIDE DEF r
<1>2. ASSUME NEW y \in Elems(r) PROVE y \in Elems(s) /\ ~ \E i \in 1..n : s[i] = y
  <2>1. PICK j \in 1..Len(s) - n : y = r[j]
    BY <1>1 DEF Elems
  <2>2. n + j \in 1..Len(s)
    BY <1>0, <1>1, <2>1, SMT
  <2>3. \A i \in 1..n : i \in 1..Len(s) /\ i # n + j
    BY <1>0, <1>1, <2>1, SMT
  <2>. QED BY <1>1, <2>1, <2>2, <2>3 DEF Elems, Distinct
<1>3. ASSUME NEW y \in Elems(s), ~ \E i \in 1..n : s[i] = y PROVE y \in Elems(r)
  <2>1. PICK j \in 1..Len(s) : y = s[j]
    BY <1>1 DEF Elems
  <2>2. j - n \in 1..Len(s) - n /\ n + (j - n) = j
    BY <1>0, <1>1, <1>3, <2>1, SMT
  <2>3. r[j - n] = s[n + (j - n)]
    BY <1>1, <2>2
  <2>. QED BY <1>1, <2>1, <2>2, <2>3 DEF Elems
<1>. QED BY <1>1, <1>2, <1>3 DEF r

LEMMA SuffixSubset ==
  ASSUME NEW S, NEW p \in Seq(S), NEW s \in Seq(S), Suffix(p, s), Distinct(s)
  PROVE  Elems(p) \subseteq Elems(s) /\ Distinct(p)
<1>1. /\ DOMAIN p = 1..Len(p) /\ DOMAIN s = 1..Len(s) /\ Len(p) \in Nat /\ Len(s) \in Nat
      /\ Len(p) <= Len(s)
  BY DEF Suffix
<1>2. \A i \in 1..Len(p) : Len(s) - Len(p) + i \in 1..Len(s) /\ p[i] = s[Len(s) - Len(p) + i]
  BY <1>1, SMT DEF Suffix
<1>3. Elems(p) \subseteq Elems(s)
  BY <1>1, <1>2 DEF Elems
<1>4. ASSUME NEW i \in 1..Len(p), NEW j \in 1..Len(p), p[i] = p[j] PROVE i = j
  <2>1. Len(s) - Len(p) + i = Len(s) - Len(p) + j
    BY <1>2, <1>4 DEF Distinct
  <2>. QED BY <1>1, <2>1, SMT
<1>. QED BY <1>3, <1>4 DEF Distinct

LEMMA SuffixAppend ==
  ASSUME NEW S, NEW p \in Seq(S), NEW s \in Seq(S), Suffix(p, s), NEW x \in S
  PROVE  Suffix(Append(p, x), Append(s, x))
<1>1. /\ Len(Append(p, x)) = Len(p) + 1 /\ Len(Append(s, x)) = Len(s) + 1
      /\ Len(p) \in Nat /\ Len(s) \in Nat /\ Len(p) <= Len(s)
      /\ \A i \in 1..Len(p) : Append(p, x)[i] = p[i] /\ p[i] = s[Len(s) - Len(p) + i]
      /\ \A i \in 1..Len(s) : Append(s, x)[i] = s[i]
      /\ Append(p, x)[Len(p) + 1] = x /\ Append(s, x)[Len(s) + 1] = x
  BY DEF Suffix
<1>2. ASSUME NEW i \in 1..Len(p) + 1
      PROVE  Append(p, x)[i] = Append(s, x)[(Len(s) + 1) - (Len(p) + 1) + i]
  <2>1. CASE i = Len(p) + 1
    <3>1. (Len(s) + 1) - (Len(p) + 1) + i = Len(s) + 1
      BY <1>1, <2>1, SMT
    <3>. QED BY <1>1, <2>1, <3>1
  <2>2. CASE i # Len(p) + 1
    <3>1. /\ i \in 1..Len(p) /\ Len(s) - Len(p) + i \in 1..Len(s)
          /\ (Len(s) + 1) - (Len(p) + 1) + i = Len(s) - Len(p) + i
      BY <1>1, <2>2, SMT
    <3>. QED BY <1>1, <3>1
  <2>. QED BY <2>1, <2>2
<1>3. Len(p) + 1 <= Len(s) + 1
  BY <1>1, SMT
<1>. QED BY <1>1, <1>2, <1>3 DEF Suffix

LEMMA SuffixTail ==
  ASSUME NEW S, NEW p \in Seq(S), NEW s \in Seq(S), Suffix(p, s), Len(p) < Len(s)
  PROVE  Suffix(p, Tail(s))
<1>1. /\ Len(p) \in Nat /\ Len(s) \in Nat /\ Len(s) # 0 /\ Len(Tail(s)) = Len(s) - 1
      /\ \A i \in 1..Len(s) - 1 : Tail(s)[i] = s[i + 1]
  BY SMT
<1>2. ASSUME NEW i \in 1..Len(p) PROVE p[i] = Tail(s)[Len(s) - 1 - Len(p) + i]
  <2>1. /\ Len(s) - 1 - Len(p) + i \in 1..Len(s) - 1
        /\ (Len(s) - 1 - Len(p) + i) + 1 = Len(s) - Len(p) + i
    BY <1>1, SMT
  <2>2. p[i] = s[Len(s) - Len(p) + i]
    BY DEF Suffix
  <2>. QED BY <1>1, <2>1, <2>2
<1>3. Len(p) <= Len(s) - 1
  BY <1>1, SMT
<1>. QED BY <1>1, <1>2, <1>3 DEF Suffix

LEMMA SuffixRest ==
  ASSUME NEW S, NEW p \in Seq(S), NEW s \in Seq(S), Suffix(p, s), NEW n \in 0..Len(p)
  PROVE  Suffix(SubSeq(p, n + 1, Len(p)), s)
<1> DEFINE r == SubSeq(p, n + 1, Len(p))
<1>1. /\ Len(p) \in Nat /\ Len(s) \in Nat /\ Len(p) <= Len(s)
      /\ Len(r) = Len(p) - n
      /\ \A i \in 1..Len(p) - n : r[i] = p[n + i]
  <2>1. /\ \A i \in n + 1..Len(p) : p[i] \in S
        /\ n + 1 \in Int /\ Len(p) \in Int
    BY SMT
  <2>. QED BY <2>1, SMT DEF Suffix
<1>2. ASSUME NEW i \in 1..Len(p) - n PROVE r[i] = s[Len(s) - (Len(p) - n) + i]
  <2>1. /\ n + i \in 1..Len(p)
        /\ Len(s) - Len(p) + (n + i) = Len(s) - (Len(p) - n) + i
    BY <1>1, SMT
  <2>2. p[n + i] = s[Len(s) - Len(p) + (n + i)]
    BY <2>1 DEF Suffix
  <2>. QED BY <1>1, <2>1, <2>2
<1>3. Len(p) - n <= Len(s)
  BY <1>1, SMT
<1>. QED BY <1>1, <1>2, <1>3 DEF Suffix

LEMMA DistinctAppend ==
  ASSUME NEW S, NEW s \in Seq(S), Distinct(s), NEW x \in S, x \notin Elems(s)
  PROVE  Distinct(Append(s, x))
<1>1. /\ Len(Append(s, x)) = Len(s) + 1 /\ Len(s) \in Nat /\ DOMAIN s = 1..Len(s)
      /\ \A i \in 1..Len(s) : Append(s, x)[i] = s[i]
      /\ Append(s, x)[Len(s) + 1] = x
  OBVIOUS
<1>2. \A i \in 1..Len(s) : s[i] # x
  BY <1>1 DEF Elems
<1>3. \A i \in 1..Len(s) + 1 : i \in 1..Len(s) \/ i = Len(s) + 1
  BY <1>1, SMT
<1>. QED BY <1>1, <1>2, <1>3 DEF Distinct

LEMMA DistinctTail ==
  ASSUME NEW S, NEW s \in Seq(S), Distinct(s), Len(s) # 0
  PROVE  Distinct(Tail(s))
<1>1. /\ Len(Tail(s)) = Len(s) - 1 /\ Len(s) \in Nat \ {0}
      /\ \A i \in 1..Len(s) - 1 : Tail(s)[i] = s[i + 1]
  OBVIOUS
<1>2. \A i \in 1..Len(s) - 1 : i + 1 \in 1..Len(s)
  BY <1>1, SMT
<1>3. ASSUME NEW i \in 1..Len(s) - 1, NEW j \in 1..Len(s) - 1, Tail(s)[i] = Tail(s)[j] PROVE i = j
  <2>1. i + 1 = j + 1
    BY <1>1, <1>2, <1>3 DEF Distinct
  <2>. QED BY <2>1, SMT
<1>. QED BY <1>1, <1>3 DEF Distinct

-----------------------------------------------------------------------------
(* The steps. *)

LEMMA RememberedParts ==
  PendingIsRemembered <=> Suffix(pending, seen) /\ Distinct(seen) /\ Len(seen) <= MAX_SEEN_TXS
BY DEF PendingIsRemembered, Suffix, Distinct

LEMMA RememberedPartsNext ==
  PendingIsRemembered' <=> Suffix(pending', seen') /\ Distinct(seen') /\ Len(seen') <= MAX_SEEN_TXS
BY DEF PendingIsRemembered, Suffix, Distinct

\* The record with room for one more: the whole, or without its oldest element.
Kept == IF Len(seen) >= MAX_SEEN_TXS THEN Tail(seen) ELSE seen

LEMMA AdmitKeepsRecord ==
  ASSUME PoolInv, NEW x \in Texts, Admits(x)
  PROVE  /\ Kept \in Seq(Texts) /\ Len(Kept) < MAX_SEEN_TXS
         /\ Suffix(pending, Kept) /\ Distinct(Kept)
         /\ Elems(Kept) \subseteq Elems(seen)
<1>1. /\ pending \in Seq(Texts) /\ seen \in Seq(Texts)
      /\ Suffix(pending, seen) /\ Distinct(seen) /\ Len(seen) <= MAX_SEEN_TXS
  BY RememberedParts DEF PoolInv, PoolTypeOK
<1>2. /\ Len(pending) \in Nat /\ Len(seen) \in Nat
      /\ Len(pending) < MAX_PENDING_TXS /\ MAX_PENDING_TXS <= MAX_SEEN_TXS
      /\ MAX_SEEN_TXS \in Nat \ {0} /\ MAX_PENDING_TXS \in Nat
  BY <1>1, LimitsAssumption DEF Admits
<1>3. CASE Len(seen) >= MAX_SEEN_TXS
  <2>1. Len(seen) = MAX_SEEN_TXS /\ Len(seen) # 0 /\ Len(pending) < Len(seen)
    BY <1>1, <1>2, <1>3, SMT
  <2>2. Kept = Tail(seen) /\ Tail(seen) \in Seq(Texts) /\ Len(Tail(seen)) = Len(seen) - 1
    BY <1>1, <1>3, <2>1 DEF Kept
  <2>3. Suffix(pending, Tail(seen)) /\ Distinct(Tail(seen))
    BY <1>1, <2>1, SuffixTail, DistinctTail
  <2>4. Elems(Tail(seen)) \subseteq Elems(seen)
    BY <1>1, <2>1, ElemsTail
  <2>5. Len(Tail(seen)) < MAX_SEEN_TXS
    BY <1>2, <2>1, <2>2, SMT
  <2>. QED BY <2>2, <2>3, <2>4, <2>5
<1>4. CASE ~(Len(seen) >= MAX_SEEN_TXS)
  <2>1. Kept = seen /\ Len(seen) < MAX_SEEN_TXS
    BY <1>2, <1>4, SMT DEF Kept
  <2>. QED BY <1>1, <2>1
<1>. QED BY <1>3, <1>4

LEMMA AdmitStep ==
  ASSUME PoolInv, NEW x \in Texts, Admits(x), Remember(x), pending' = Append(pending, x),
         UNCHANGED taken, arrivals' \in Nat, restarts' \in Nat
  PROVE  PoolInv'
<1>1. /\ pending \in Seq(Texts) /\ seen \in Seq(Texts)
      /\ taken \in [Texts -> Nat] /\ forgotten \in [Texts -> Nat]
      /\ Suffix(pending, seen) /\ Distinct(seen)
      /\ x \notin Elems(seen)
  BY RememberedParts DEF PoolInv, PoolTypeOK, Admits
<1>2. /\ Kept \in Seq(Texts) /\ Len(Kept) < MAX_SEEN_TXS
      /\ Suffix(pending, Kept) /\ Distinct(Kept)
      /\ Elems(Kept) \subseteq Elems(seen)
  BY AdmitKeepsRecord
<1>3. /\ seen' = Append(Kept, x)
      /\ forgotten' = [y \in Texts |-> forgotten[y] + IF Len(seen) >= MAX_SEEN_TXS /\ y = Head(seen) THEN 1 ELSE 0]
  BY DEF Remember, Kept
<1>4. PoolTypeOK'
  <2>1. pending' \in Seq(Texts) /\ seen' \in Seq(Texts)
    BY <1>1, <1>2, <1>3
  <2>2. forgotten' \in [Texts -> Nat]
    BY <1>1, <1>3
  <2>. QED BY <1>1, <2>1, <2>2 DEF PoolTypeOK
<1>5. PendingIsRemembered'
  <2>1. Suffix(pending', seen')
    BY <1>1, <1>2, <1>3, SuffixAppend
  <2>2. Distinct(seen')
    BY <1>1, <1>2, <1>3, DistinctAppend
  <2>3. Len(seen') <= MAX_SEEN_TXS
    <3>1. Len(seen') = Len(Kept) + 1 /\ Len(Kept) \in Nat
      BY <1>1, <1>2, <1>3
    <3>. QED BY <1>2, <3>1, LimitsAssumption, SMT
  <2>. QED BY <2>1, <2>2, <2>3, RememberedPartsNext
<1>6. RecordAddsUp'
  <2>1. Elems(pending') = Elems(pending) \cup {x} /\ Elems(seen') = Elems(Kept) \cup {x}
    BY <1>1, <1>2, <1>3, ElemsAppend
  <2>2. Elems(pending) \subseteq Elems(Kept)
    BY <1>1, <1>2, SuffixSubset
  <2>3. SUFFICES ASSUME NEW y \in Texts
                 PROVE  taken'[y] + (IF y \in Elems(pending') THEN 1 ELSE 0)
                          = forgotten'[y] + (IF y \in Elems(seen') THEN 1 ELSE 0)
    BY DEF RecordAddsUp
  <2>4. /\ taken[y] + (IF y \in Elems(pending) THEN 1 ELSE 0)
             = forgotten[y] + (IF y \in Elems(seen) THEN 1 ELSE 0)
        /\ taken[y] \in Nat /\ forgotten[y] \in Nat
    BY <1>1 DEF PoolInv, RecordAddsUp
  <2>5. taken'[y] = taken[y]
    BY <1>1
  <2>6. CASE Len(seen) >= MAX_SEEN_TXS
    <3>1. Len(seen) # 0
      BY <1>1, <2>6, LimitsAssumption, SMT
    <3>2. Head(seen) \in Elems(seen) /\ Elems(Kept) = Elems(seen) \ {Head(seen)}
      BY <1>1, <2>6, <3>1, ElemsTail DEF Kept
    <3>3. forgotten'[y] = forgotten[y] + IF y = Head(seen) THEN 1 ELSE 0
      BY <1>3, <2>6
    <3>4. CASE y = x
      BY <1>1, <1>2, <2>1, <2>2, <2>4, <2>5, <3>2, <3>3, <3>4
    <3>5. CASE y # x /\ y = Head(seen)
      BY <1>1, <1>2, <2>1, <2>2, <2>4, <2>5, <3>2, <3>3, <3>5
    <3>6. CASE y # x /\ y # Head(seen)
      BY <2>1, <2>4, <2>5, <3>2, <3>3, <3>6
    <3>. QED BY ONLY <3>4, <3>5, <3>6, Zenon
  <2>7. CASE ~(Len(seen) >= MAX_SEEN_TXS)
    <3>1. Kept = seen /\ forgotten'[y] = forgotten[y]
      BY <1>3, <2>4, <2>7 DEF Kept
    <3>. QED BY <1>1, <2>1, <2>2, <2>4, <2>5, <3>1
  <2>. QED BY <2>6, <2>7
<1>. QED BY <1>4, <1>5, <1>6 DEF PoolInv

\* Parts of the state that the invariant reads and an action leaves alone.
LEMMA FrameStep ==
  ASSUME PoolInv, UNCHANGED <<pending, seen, taken, forgotten>>, arrivals' \in Nat, restarts' \in Nat
  PROVE  PoolInv'
<1>1. PoolTypeOK'
  BY DEF PoolInv, PoolTypeOK
<1>2. PendingIsRemembered'
  BY DEF PoolInv, PendingIsRemembered
<1>3. RecordAddsUp'
  BY DEF PoolInv, RecordAddsUp
<1>. QED BY <1>1, <1>2, <1>3 DEF PoolInv

LEMMA AddStep ==
  ASSUME PoolInv, NEW x \in Texts, Arrive, add_transaction(x)
  PROVE  PoolInv'
<1>1. arrivals' \in Nat /\ restarts' \in Nat
  BY DEF PoolInv, PoolTypeOK, Arrive
<1>2. CASE Admits(x)
  BY <1>1, <1>2, AdmitStep DEF add_transaction
<1>3. CASE ~Admits(x)
  BY <1>1, <1>3, FrameStep DEF add_transaction
<1>. QED BY <1>2, <1>3

LEMMA TakeStep == PoolInv /\ TakePayload => PoolInv'
<1> SUFFICES ASSUME PoolInv, TakePayload PROVE PoolInv'
  OBVIOUS
<1> DEFINE n == IF Len(pending) < PayloadLimit THEN Len(pending) ELSE PayloadLimit
<1>1. /\ pending \in Seq(Texts) /\ seen \in Seq(Texts)
      /\ taken \in [Texts -> Nat] /\ forgotten \in [Texts -> Nat]
      /\ arrivals \in Nat /\ restarts \in Nat
      /\ Suffix(pending, seen) /\ Distinct(seen) /\ Len(seen) <= MAX_SEEN_TXS
  BY RememberedParts DEF PoolInv, PoolTypeOK
<1>2. n \in 0..Len(pending)
  BY <1>1, LimitsAssumption, SMT
<1>3. /\ taken' = [x \in Texts |-> taken[x] + IF \E i \in 1..n : pending[i] = x THEN 1 ELSE 0]
      /\ pending' = SubSeq(pending, n + 1, Len(pending))
      /\ UNCHANGED <<seen, forgotten, arrivals, restarts>>
  BY DEF TakePayload
<1>4. Elems(pending) \subseteq Elems(seen) /\ Distinct(pending)
  BY <1>1, SuffixSubset
<1> HIDE DEF n
<1>5. /\ pending' \in Seq(Texts)
      /\ \A y \in Texts : y \in Elems(pending')
                             <=> y \in Elems(pending) /\ ~ \E i \in 1..n : pending[i] = y
  <2>1. /\ SubSeq(pending, n + 1, Len(pending)) \in Seq(Texts)
        /\ \A y \in Texts : y \in Elems(SubSeq(pending, n + 1, Len(pending)))
                               <=> y \in Elems(pending) /\ ~ \E i \in 1..n : pending[i] = y
    BY <1>1, <1>2, <1>4, ElemsRest
  <2>. QED BY <1>3, <2>1
<1>6. PoolTypeOK'
  BY <1>1, <1>3, <1>5 DEF PoolTypeOK
<1>7. PendingIsRemembered'
  <2>1. Suffix(pending', seen)
    BY <1>1, <1>2, <1>3, SuffixRest
  <2>. QED BY <1>1, <1>3, <2>1, RememberedPartsNext
<1>8. RecordAddsUp'
  <2>1. SUFFICES ASSUME NEW y \in Texts
                 PROVE  taken'[y] + (IF y \in Elems(pending') THEN 1 ELSE 0)
                          = forgotten'[y] + (IF y \in Elems(seen') THEN 1 ELSE 0)
    BY DEF RecordAddsUp
  <2>2. /\ taken[y] + (IF y \in Elems(pending) THEN 1 ELSE 0)
             = forgotten[y] + (IF y \in Elems(seen) THEN 1 ELSE 0)
        /\ taken[y] \in Nat /\ forgotten[y] \in Nat
    BY <1>1 DEF PoolInv, RecordAddsUp
  <2>3. seen' = seen /\ forgotten' = forgotten
    BY <1>3
  <2>4. CASE \E i \in 1..n : pending[i] = y
    <3>1. y \in Elems(pending)
      <4>1. \A i \in 1..n : i \in 1..Len(pending)
        BY <1>1, <1>2, SMT
      <4>2. DOMAIN pending = 1..Len(pending)
        BY <1>1
      <4>. QED BY <2>4, <4>1, <4>2 DEF Elems
    <3>2. taken'[y] = taken[y] + 1 /\ y \notin Elems(pending')
      BY <1>3, <1>5, <2>4
    <3>. QED BY <2>2, <2>3, <3>1, <3>2
  <2>5. CASE ~ \E i \in 1..n : pending[i] = y
    <3>1. taken'[y] = taken[y] + 0 /\ (y \in Elems(pending') <=> y \in Elems(pending))
      BY <1>3, <1>5, <2>5
    <3>. QED BY <2>2, <2>3, <3>1
  <2>. QED BY <2>4, <2>5
<1>. QED BY <1>6, <1>7, <1>8 DEF PoolInv

LEMMA EmptyPool ==
  /\ <<>> \in Seq(Texts) /\ Len(<<>>) = 0 /\ Elems(<<>>) = {}
  /\ [x \in Texts |-> 0] \in [Texts -> Nat]
BY DEF Elems

LEMMA InitPool == PoolInit => PoolInv
<1> SUFFICES ASSUME PoolInit PROVE PoolInv
  OBVIOUS
<1>1. PoolTypeOK
  BY EmptyPool DEF PoolInit, PoolTypeOK
<1>2. PendingIsRemembered
  BY LimitsAssumption DEF PoolInit, PendingIsRemembered
<1>3. RecordAddsUp
  <2>1. Elems(pending) = {} /\ Elems(seen) = {} /\ \A x \in Texts : taken[x] = 0 /\ forgotten[x] = 0
    BY EmptyPool DEF PoolInit
  <2>. QED BY <2>1 DEF RecordAddsUp
<1>. QED BY <1>1, <1>2, <1>3 DEF PoolInv

LEMMA RestartStep == PoolInv /\ Restart => PoolInv'
<1> SUFFICES ASSUME PoolInv, Restart PROVE PoolInv'
  OBVIOUS
<1>1. PoolTypeOK'
  BY EmptyPool DEF PoolInv, Restart, PoolTypeOK
<1>2. PendingIsRemembered'
  BY LimitsAssumption DEF Restart, PendingIsRemembered
<1>3. RecordAddsUp'
  <2>1. /\ Elems(pending') = {} /\ Elems(seen') = {}
        /\ \A x \in Texts : taken'[x] = 0 /\ forgotten'[x] = 0
    BY EmptyPool DEF Restart
  <2>. QED BY <2>1 DEF RecordAddsUp
<1>. QED BY <1>1, <1>2, <1>3 DEF PoolInv

LEMMA NextPool == PoolInv /\ [PoolNext]_poolVars => PoolInv'
<1> SUFFICES ASSUME PoolInv, [PoolNext]_poolVars PROVE PoolInv'
  OBVIOUS
<1>1. CASE \E x \in Texts : SendTransaction(x) \/ GossipMessage(x) \/ TcpMessage(x)
  BY <1>1, AddStep DEF SendTransaction, GossipMessage, TcpMessage
<1>2. CASE TakePayload
  BY <1>2, TakeStep
<1>3. CASE Restart
  BY <1>3, RestartStep
<1>4. CASE UNCHANGED poolVars
  BY <1>4, FrameStep DEF poolVars, PoolInv, PoolTypeOK
<1>. QED BY <1>1, <1>2, <1>3, <1>4 DEF PoolNext

LEMMA PoolInvariant == PoolSpec => []PoolInv
BY InitPool, NextPool, PTL DEF PoolSpec

\* The types of the mempool: Mempool::add_transaction and get_pending_transactions.
THEOREM PoolTypes == PoolSpec => []PoolTypeOK
<1>1. PoolInv => PoolTypeOK
  BY DEF PoolInv
<1>. QED BY <1>1, PoolInvariant, PTL

\* The bound on the record never drops a transaction that still waits, whatever the two
\* bounds are: the record is at least as long as the queue.
THEOREM WaitingIsRemembered == PoolSpec => []PendingIsRemembered
<1>1. PoolInv => PendingIsRemembered
  BY DEF PoolInv
<1>. QED BY <1>1, PoolInvariant, PTL

LEMMA RecordExplains == PoolInv => TakenAgainOnlyIfForgotten
<1> SUFFICES ASSUME PoolInv, NEW x \in Texts PROVE taken[x] <= forgotten[x] + 1
  BY DEF TakenAgainOnlyIfForgotten
<1>1. /\ taken[x] + (IF x \in Elems(pending) THEN 1 ELSE 0)
           = forgotten[x] + (IF x \in Elems(seen) THEN 1 ELSE 0)
      /\ taken[x] \in Nat /\ forgotten[x] \in Nat
  BY DEF PoolInv, RecordAddsUp, PoolTypeOK
<1>. QED BY <1>1

-----------------------------------------------------------------------------
(* The validators that are counted.  A registration that ran was refused to  *)
(* no member, and whoever is on the native list is a member: so that the     *)
(* registrations that may write the native list are those that ran, and the  *)
(* newest of them, whose list the batch keeps, is the one that joined.       *)

LEMMA HookedJoin ==
  ASSUME NEW batch, NEW charged, NEW ran \in SUBSET {i \in charged : MayRun(batch[i])},
         CountedAreStaked
  PROVE  Hooked(batch, charged, ran)
           = {batch[i].sender : i \in Newest({j \in ran : batch[j].kind = "register_validator"})}
<1>1. {j \in ran : /\ batch[j].kind = "register_validator"
                   /\ batch[j].sender \notin DOMAIN weight}
        = {j \in ran : batch[j].kind = "register_validator"}
  BY DEF MayRun, CountedAreStaked
<1>. QED BY <1>1 DEF Hooked

LEMMA CountedNext == CountedAreStaked /\ [PayloadsNext]_payloadVars => CountedAreStaked'
<1> SUFFICES ASSUME CountedAreStaked, [PayloadsNext]_payloadVars PROVE CountedAreStaked'
  OBVIOUS
<1>1. CASE ExecuteBatch
  <2> DEFINE Members(batch, ran) ==
        {batch[i].sender : i \in Newest({j \in ran : batch[j].kind = "register_validator"})}
  <2>1. PICK batch \in Txs \X Txs :
          /\ batch[1].sender # batch[2].sender
          /\ \E charged \in SUBSET {i \in 1..2 : Admitted(batch[i]) /\ Payload(batch[i]) # Dropped} :
             \E ran \in SUBSET {i \in charged : MayRun(batch[i])} :
               /\ number' = [a \in Accounts |->
                               number[a] + IF a \in {batch[i].sender : i \in charged} THEN 1 ELSE 0]
               /\ joined' = joined \cup Members(batch, ran)
               /\ weight' = [v \in DOMAIN weight \cup Hooked(batch, charged, ran) |->
                               IF v \in DOMAIN weight THEN weight[v] ELSE InitialWeight]
    BY <1>1, Zenon DEF ExecuteBatch
  <2>2. PICK charged, ran :
               /\ ran \in SUBSET {i \in charged : MayRun(batch[i])}
               /\ joined' = joined \cup Members(batch, ran)
               /\ weight' = [v \in DOMAIN weight \cup Hooked(batch, charged, ran) |->
                               IF v \in DOMAIN weight THEN weight[v] ELSE InitialWeight]
    BY <2>1, Zenon
  <2>3. DOMAIN weight' = Hooked(batch, charged, ran) \cup DOMAIN weight
    BY <2>2
  <2>4. joined' = joined \cup Hooked(batch, charged, ran)
    BY <2>2, HookedJoin
  <2>. QED BY <2>3, <2>4 DEF CountedAreStaked
<1>2. CASE Slash
  BY <1>2 DEF Slash, CountedAreStaked
<1>3. CASE UNCHANGED payloadVars
  BY <1>3 DEF payloadVars, CountedAreStaked
<1>. QED BY <1>1, <1>2, <1>3 DEF PayloadsNext

LEMMA CountedInvariant == PayloadsSpec => []CountedAreStaked
<1>1. PayloadsInit => CountedAreStaked
  BY DEF PayloadsInit, CountedAreStaked
<1>. QED BY <1>1, CountedNext, PTL DEF PayloadsSpec

-----------------------------------------------------------------------------
(* The older engine.  A vote commits a block that is held when it brings the *)
(* stake to the quorum.  So that a block which comes after the quorum is not *)
(* forgotten, the node's own vote has to be new whenever it did not hold the *)
(* block before: its own vote is counted only for blocks it holds.           *)

BlocksSent == UNION {m.block : m \in broadcast}
HashesSent == {m.hash : m \in broadcast}

\* A message of a block carries its hash.
HashesFit == \A m \in broadcast : \A b \in m.block : b.hash = m.hash

EngineTypes ==
  /\ pending_proposals \in [SessionKeys -> SUBSET BlocksSent]
  /\ votes \in [SessionKeys -> SUBSET (HashesSent \X Validators)]
  /\ committed_blocks \in [SessionKeys -> Seq(BlocksSent)]

OwnVoteHeld ==
  \A n \in Validators : \A h \in HashesSent :
    <<h, n>> \in votes[n] => h \in {b.hash : b \in pending_proposals[n]}

EngineInv == HashesFit /\ EngineTypes /\ OwnVoteHeld /\ CommitsWhenComplete

LEMMA StakeNat ==
  ASSUME NEW counted, NEW hash
  PROVE  StakeOf(counted, hash) \in Nat /\ Quorum \in Nat
<1>1. \A T \in SUBSET Validators : SumFunctionOnSet(Weight, T) \in Nat
  <2>1. ASSUME NEW T \in SUBSET Validators PROVE SumFunctionOnSet(Weight, T) \in Nat
    <3>1. IsFiniteSet(T) /\ \A v \in T : Weight[v] \in Nat
      BY SimpleAssumption, FS_Subset
    <3>. QED BY <3>1, SumNat
  <2>. QED BY <2>1
<1>2. StakeOf(counted, hash) \in Nat
  BY <1>1 DEF StakeOf
<1>3. SumFunctionOnSet(Weight, Validators) \in Nat
  BY <1>1
<1>4. \A s \in Nat : (s * 2) \div 3 + 1 \in Nat
  BY SMT
<1>. QED BY <1>2, <1>3, <1>4 DEF Quorum

\* A vote counts for its own hash alone.
LEMMA OtherStake ==
  ASSUME NEW n, NEW h, NEW voter, NEW g, g # h
  PROVE  StakeOf(Counted(n, h, voter), g) = StakeOf(votes[n], g)
<1>1. {v \in Validators : <<g, v>> \in Counted(n, h, voter)}
        = {v \in Validators : <<g, v>> \in votes[n]}
  BY DEF Counted
<1>. QED BY <1>1 DEF StakeOf

LEMMA HashesAppend ==
  ASSUME NEW S, NEW s \in Seq(S), NEW b \in S
  PROVE  Hashes(Append(s, b)) = Hashes(s) \cup {b.hash}
<1>1. /\ DOMAIN Append(s, b) = 1..Len(s) + 1 /\ DOMAIN s = 1..Len(s) /\ Len(s) \in Nat
      /\ \A i \in 1..Len(s) : Append(s, b)[i] = s[i]
      /\ Append(s, b)[Len(s) + 1] = b
  OBVIOUS
<1>2. \A i \in 1..Len(s) + 1 : i \in 1..Len(s) \/ i = Len(s) + 1
  BY <1>1
<1>3. Len(s) + 1 \in 1..Len(s) + 1 /\ \A i \in 1..Len(s) : i \in 1..Len(s) + 1
  BY <1>1
<1>. QED BY <1>1, <1>2, <1>3 DEF Hashes

\* What handling a vote leaves, when the node holds the blocks of cached then.  Either the vote is
\* its own and of a block it has just cached, or it is of another and the node holds what it held.
LEMMA VoteStep ==
  ASSUME EngineInv, NEW n \in SessionKeys, NEW h, NEW voter, NEW cached,
         HandleVote(n, h, voter, cached),
         broadcast \subseteq broadcast', h \in HashesSent', cached \subseteq BlocksSent',
         pending_proposals' = [pending_proposals EXCEPT ![n] = cached],
         \/ voter # n /\ cached = pending_proposals[n]
         \/ /\ voter = n
            /\ {b.hash : b \in cached} = {b.hash : b \in pending_proposals[n]} \cup {h}
  PROVE  EngineTypes' /\ OwnVoteHeld' /\ CommitsWhenComplete'
<1> DEFINE C == Commits(n, h, voter, cached)
           W == Counted(n, h, voter)
<1>1. EngineTypes /\ OwnVoteHeld /\ CommitsWhenComplete
  BY DEF EngineInv
<1>2. BlocksSent \subseteq BlocksSent' /\ HashesSent \subseteq HashesSent'
  BY DEF BlocksSent, HashesSent
<1>3. /\ votes' = [votes EXCEPT ![n] = W]
      /\ committed_blocks' = IF C = {} THEN committed_blocks
                             ELSE [committed_blocks EXCEPT ![n] = Append(@, CHOOSE b \in C : TRUE)]
  BY Zenon DEF HandleVote
<1>4. W = votes[n] \cup (IF voter \in Validators THEN {<<h, voter>>} ELSE {})
  BY DEF Counted
<1>5. votes[n] \in SUBSET (HashesSent \X Validators) /\ committed_blocks[n] \in Seq(BlocksSent)
  BY <1>1 DEF EngineTypes
<1>6. /\ votes'[n] = W /\ pending_proposals'[n] = cached
      /\ \A m \in SessionKeys : m # n => /\ votes'[m] = votes[m]
                                         /\ pending_proposals'[m] = pending_proposals[m]
                                         /\ committed_blocks'[m] = committed_blocks[m]
  <2> HIDE DEF W, C
  <2>. QED BY <1>1, <1>3 DEF EngineTypes
<1>7. ASSUME C # {}
      PROVE  \E b \in cached : /\ b.hash = h /\ b \in C
                             /\ committed_blocks' = [committed_blocks EXCEPT ![n] = Append(@, b)]
  <2>1. PICK b : b = CHOOSE c \in C : TRUE
    OBVIOUS
  <2>2. b \in C
    BY <1>7, <2>1
  <2>3. b \in cached /\ b.hash = h
    BY <2>2 DEF Commits
  <2>. QED BY <1>3, <1>7, <2>1, <2>2, <2>3, Zenon
<1> HIDE DEF C, W
<1>8. EngineTypes'
  <2>1. pending_proposals' \in [SessionKeys -> SUBSET BlocksSent']
    BY <1>1, <1>2 DEF EngineTypes
  <2>2. votes' \in [SessionKeys -> SUBSET (HashesSent' \X Validators)]
    <3>1. W \in SUBSET (HashesSent' \X Validators)
      BY <1>2, <1>4, <1>5
    <3>2. votes \in [SessionKeys -> SUBSET (HashesSent' \X Validators)]
      BY <1>1, <1>2 DEF EngineTypes
    <3>. QED BY <1>3, <3>1, <3>2
  <2>3. committed_blocks' \in [SessionKeys -> Seq(BlocksSent')]
    <3>1. committed_blocks \in [SessionKeys -> Seq(BlocksSent')]
      <4>1. \A s \in Seq(BlocksSent) : s \in Seq(BlocksSent')
        BY <1>2
      <4>. QED BY <1>1, <4>1 DEF EngineTypes
    <3>2. CASE C = {}
      BY <1>3, <3>1, <3>2
    <3>3. CASE C # {}
      <4>1. PICK b \in BlocksSent' : committed_blocks' = [committed_blocks EXCEPT ![n] = Append(@, b)]
        BY <1>7, <3>3
      <4>. QED BY <3>1, <4>1
    <3>. QED BY <3>2, <3>3
  <2>. QED BY <2>1, <2>2, <2>3 DEF EngineTypes
<1>9. OwnVoteHeld'
  <2> SUFFICES ASSUME NEW m \in Validators, NEW g \in HashesSent', <<g, m>> \in votes'[m]
               PROVE  g \in {b.hash : b \in pending_proposals'[m]}
    BY DEF OwnVoteHeld
  <2>0. m \in SessionKeys
    BY SimpleAssumption
  <2>1. CASE <<g, m>> \in votes[m]
    <3>1. g \in HashesSent
      BY <1>1, <2>0, <2>1 DEF EngineTypes
    <3>2. g \in {b.hash : b \in pending_proposals[m]}
      BY <1>1, <2>1, <3>1 DEF OwnVoteHeld
    <3>3. {b.hash : b \in pending_proposals[m]} \subseteq {b.hash : b \in pending_proposals'[m]}
      BY <1>6, <2>0
    <3>. QED BY <3>2, <3>3
  <2>2. CASE <<g, m>> \notin votes[m]
    <3>1. m = n /\ g = h /\ voter = n
      BY <1>4, <1>6, <2>0, <2>2
    <3>. QED BY <1>6, <3>1
  <2>. QED BY <2>1, <2>2
<1>10. Hashes(committed_blocks[n]) \cup (IF C = {} THEN {} ELSE {h}) \subseteq Hashes(committed_blocks'[n])
  <2>1. CASE C = {}
    BY <1>3, <2>1
  <2>2. CASE C # {}
    <3>1. PICK b \in cached : b.hash = h /\ committed_blocks' = [committed_blocks EXCEPT ![n] = Append(@, b)]
      BY <1>7, <2>2
    <3>2. committed_blocks'[n] = Append(committed_blocks[n], b)
      BY <1>1, <3>1 DEF EngineTypes
    <3>3. committed_blocks[n] \in Seq(BlocksSent') /\ b \in BlocksSent'
      BY <1>2, <1>5
    <3>4. Hashes(committed_blocks'[n]) = Hashes(committed_blocks[n]) \cup {b.hash}
      BY <3>2, <3>3, HashesAppend
    <3>. QED BY <2>2, <3>1, <3>4
  <2>. QED BY <2>1, <2>2
<1>11. CommitsWhenComplete'
  <2> SUFFICES ASSUME NEW m \in Validators, NEW b \in pending_proposals'[m],
                      b.hash \notin Hashes(committed_blocks'[m])
               PROVE  StakeOf(votes'[m], b.hash) < Quorum
    BY DEF CommitsWhenComplete
  <2>0. m \in SessionKeys
    BY SimpleAssumption
  <2>1. ASSUME NEW g, g \in {c.hash : c \in pending_proposals[m]},
               g \notin Hashes(committed_blocks[m])
        PROVE  StakeOf(votes[m], g) < Quorum
    BY <1>1, <2>1 DEF CommitsWhenComplete
  <2>2. CASE m # n
    BY <1>6, <2>0, <2>1, <2>2
  <2>3. CASE m = n
    <3>1. b \in cached /\ b.hash \notin Hashes(committed_blocks[n]) /\ (C # {} => b.hash # h)
      BY <1>6, <1>10, <2>3
    <3>2. CASE b.hash # h
      <4>1. b.hash \in {c.hash : c \in pending_proposals[n]}
        BY <3>1, <3>2
      <4>2. StakeOf(votes[n], b.hash) < Quorum
        BY <2>1, <2>3, <3>1, <4>1
      <4>. QED BY <1>6, <2>3, <3>2, <4>2, OtherStake DEF W
    <3>3. CASE b.hash = h /\ W # votes[n]
      <4>1. C = {}
        BY <3>1, <3>3
      <4>2. ~(StakeOf(W, h) >= Quorum)
        BY <3>1, <3>3, <4>1 DEF C, W, Commits
      <4>3. StakeOf(W, h) \in Nat /\ Quorum \in Nat
        BY StakeNat
      <4>4. StakeOf(W, h) < Quorum
        BY <4>2, <4>3, SMT
      <4>. QED BY <1>6, <2>3, <3>3, <4>4
    <3>4. CASE b.hash = h /\ W = votes[n]
      <4>1. h \in {c.hash : c \in pending_proposals[n]}
        <5>1. CASE voter # n
          BY <3>1, <3>4, <5>1
        <5>2. CASE voter = n
          <6>1. <<h, n>> \in votes[n]
            BY <1>4, <2>3, <3>4, <5>2
          <6>2. h \in HashesSent
            BY <1>5, <6>1
          <6>. QED BY <1>1, <2>3, <6>1, <6>2 DEF OwnVoteHeld
        <5>. QED BY <5>1, <5>2
      <4>. QED BY <1>6, <2>1, <2>3, <3>1, <3>4, <4>1
    <3>. QED BY <3>2, <3>3, <3>4
  <2>. QED BY <2>2, <2>3
<1>. QED BY <1>8, <1>9, <1>11

LEMMA CacheHashes ==
  ASSUME NEW n, NEW block
  PROVE  {b.hash : b \in Cache(n, block)} = {b.hash : b \in pending_proposals[n]} \cup {block.hash}
BY DEF Cache

LEMMA ProposeStep ==
  ASSUME EngineInv, NEW n \in SessionKeys, ProposeBlock(n)
  PROVE  EngineInv'
<1> DEFINE chain == committed_blocks[n]
           hash0 == [parent   |-> IF chain = <<>> THEN <<>> ELSE <<chain[Len(chain)].hash>>,
                     height   |-> Len(chain), proposer |-> n]
           block0 == [hash |-> hash0, payload |-> proposed]
<1>1. PICK hash, block, p :
        /\ block.hash = hash
        /\ pending_proposals' = [pending_proposals EXCEPT ![n] = Cache(n, block)]
        /\ HandleVote(n, hash, n, Cache(n, block))
        /\ p.block = {block} /\ p.hash = hash
        /\ broadcast' = broadcast \cup {p, Voted(n, hash)}
  <2>1. /\ block0.hash = hash0
        /\ pending_proposals' = [pending_proposals EXCEPT ![n] = Cache(n, block0)]
        /\ HandleVote(n, hash0, n, Cache(n, block0))
        /\ broadcast' = broadcast \cup
             {[kind |-> "PROPOSAL", hash |-> hash0, from |-> n, block |-> {block0}], Voted(n, hash0)}
    BY DEF ProposeBlock
  <2> HIDE DEF hash0, block0
  <2>. QED BY <2>1
<1>2. Voted(n, hash).hash = hash /\ Voted(n, hash).block = {}
  BY DEF Voted
<1>3. HashesFit'
  BY <1>1, <1>2 DEF EngineInv, HashesFit
<1>4. broadcast \subseteq broadcast' /\ hash \in HashesSent' /\ block \in BlocksSent'
  BY <1>1 DEF HashesSent, BlocksSent
<1>5. Cache(n, block) \subseteq BlocksSent'
  BY <1>4 DEF Cache, EngineInv, EngineTypes, BlocksSent
<1>6. EngineTypes' /\ OwnVoteHeld' /\ CommitsWhenComplete'
  <2>1. {b.hash : b \in Cache(n, block)} = {b.hash : b \in pending_proposals[n]} \cup {hash}
    BY <1>1, CacheHashes
  <2> DEFINE cached == Cache(n, block)
  <2>2. /\ HandleVote(n, hash, n, cached) /\ cached \subseteq BlocksSent'
        /\ pending_proposals' = [pending_proposals EXCEPT ![n] = cached]
        /\ {b.hash : b \in cached} = {b.hash : b \in pending_proposals[n]} \cup {hash}
    BY <1>1, <1>5, <2>1
  <2> HIDE DEF cached
  <2>. QED BY <1>4, <2>2, VoteStep
<1>. QED BY <1>3, <1>6 DEF EngineInv

LEMMA ProposalStep ==
  ASSUME EngineInv, NEW n \in SessionKeys, NEW m \in broadcast, HandleProposal(n, m)
  PROVE  EngineInv'
<1>1. PICK block \in m.block :
        /\ pending_proposals' = [pending_proposals EXCEPT ![n] = Cache(n, block)]
        /\ HandleVote(n, m.hash, n, Cache(n, block))
        /\ broadcast' = broadcast \cup {Voted(n, m.hash)}
  BY Zenon DEF HandleProposal
<1>2. Voted(n, m.hash).block = {}
  BY DEF Voted
<1>3. HashesFit'
  BY <1>1, <1>2 DEF EngineInv, HashesFit
<1>4. broadcast \subseteq broadcast' /\ m.hash \in HashesSent' /\ block \in BlocksSent'
  BY <1>1 DEF HashesSent, BlocksSent
<1>5. Cache(n, block) \subseteq BlocksSent'
  BY <1>4 DEF Cache, EngineInv, EngineTypes, BlocksSent
<1>6. block.hash = m.hash
  BY DEF EngineInv, HashesFit
<1>7. EngineTypes' /\ OwnVoteHeld' /\ CommitsWhenComplete'
  <2> DEFINE cached == Cache(n, block)
  <2>1. {b.hash : b \in cached} = {b.hash : b \in pending_proposals[n]} \cup {m.hash}
    BY <1>6, CacheHashes
  <2>2. /\ HandleVote(n, m.hash, n, cached) /\ cached \subseteq BlocksSent'
        /\ pending_proposals' = [pending_proposals EXCEPT ![n] = cached]
    BY <1>1, <1>5
  <2> HIDE DEF cached
  <2>. QED BY <1>4, <2>1, <2>2, VoteStep
<1>. QED BY <1>3, <1>7 DEF EngineInv

LEMMA HeardVoteStep ==
  ASSUME EngineInv, NEW n \in SessionKeys, NEW m \in broadcast, m.from # n,
         HandleVote(n, m.hash, m.from, pending_proposals[n]),
         UNCHANGED <<pending_proposals, broadcast>>
  PROVE  EngineInv'
<1>1. /\ broadcast \subseteq broadcast' /\ m.hash \in HashesSent'
      /\ pending_proposals[n] \subseteq BlocksSent' /\ HashesFit'
      /\ pending_proposals' = [pending_proposals EXCEPT ![n] = pending_proposals[n]]
  BY DEF EngineInv, EngineTypes, BlocksSent, HashesSent, HashesFit
<1>2. EngineTypes' /\ OwnVoteHeld' /\ CommitsWhenComplete'
  BY <1>1, VoteStep
<1>. QED BY <1>1, <1>2 DEF EngineInv

LEMMA EngineNext == EngineInv /\ [SimpleNext]_simpleVars => EngineInv'
<1> SUFFICES ASSUME EngineInv, [SimpleNext]_simpleVars PROVE EngineInv'
  OBVIOUS
<1>1. ASSUME NEW n \in SessionKeys, ProposeBlock(n) PROVE EngineInv'
  BY <1>1, ProposeStep
<1>2. ASSUME NEW n \in SessionKeys, NEW m \in broadcast, Receive(n, m) PROVE EngineInv'
  BY <1>2, ProposalStep, HeardVoteStep DEF Receive
<1>3. CASE UNCHANGED simpleVars
  BY <1>3 DEF simpleVars, EngineInv, HashesFit, EngineTypes, BlocksSent, HashesSent,
              OwnVoteHeld, CommitsWhenComplete
<1>. QED BY <1>1, <1>2, <1>3 DEF SimpleNext

LEMMA EngineInvariant == SimpleSpec => []EngineInv
<1>1. SimpleInit => EngineInv
  <2> SUFFICES ASSUME SimpleInit PROVE EngineInv
    OBVIOUS
  <2>1. \A n \in SessionKeys : pending_proposals[n] = {} /\ votes[n] = {}
    BY DEF SimpleInit
  <2>2. HashesFit /\ EngineTypes
    BY DEF SimpleInit, HashesFit, EngineTypes
  <2>3. OwnVoteHeld /\ CommitsWhenComplete
    BY <2>1, SimpleAssumption DEF OwnVoteHeld, CommitsWhenComplete
  <2>. QED BY <2>2, <2>3 DEF EngineInv
<1>. QED BY <1>1, EngineNext, PTL DEF SimpleSpec

-----------------------------------------------------------------------------
(* Merkle trees: a proof as long as the tree is high binds the shard at an   *)
(* index.  The loops of the code are functions of the turn.                  *)

LEMMA LengthsTurn ==
  ASSUME NEW n \in Nat
  PROVE  /\ Lengths(n) \in [0..n -> Nat] /\ Lengths(n)[0] = n
         /\ \A k \in Nat : k + 1 <= n => Lengths(n)[k + 1] = (Lengths(n)[k] + 1) \div 2
<1> DEFINE F == [x \in Nat |-> (x + 1) \div 2]
           Eq(g) == g = [k \in 0..n |-> IF k = 0 THEN n ELSE (g[k - 1] + 1) \div 2]
<1>1. F \in [Nat -> Nat] /\ \A x \in Nat : F[x] = (x + 1) \div 2
  <2>1. \A x \in Nat : (x + 1) \div 2 \in Nat
    OBVIOUS
  <2>. QED BY <2>1
<1> HIDE DEF F
<1>2. PICK g \in [0..n -> Nat] : IsTurns(F, n, 0..n, g)
  BY <1>1, TurnsExist
<1>3. \A k \in 0..n : k # 0 => g[k - 1] \in Nat
  <2>1. \A k \in 0..n : k # 0 => k - 1 \in 0..n
    OBVIOUS
  <2>. QED BY <2>1
<1>4. Eq(g)
  BY <1>1, <1>2, <1>3 DEF IsTurns
<1>5. Lengths(n) = CHOOSE f : Eq(f)
  BY DEF Lengths
<1> HIDE DEF Eq
<1>6. Eq(Lengths(n))
  BY <1>4, <1>5
<1>7. PICK f : f = Lengths(n)
  OBVIOUS
<1>8. f = [k \in 0..n |-> IF k = 0 THEN n ELSE (f[k - 1] + 1) \div 2]
  BY <1>6, <1>7 DEF Eq
<1>9. f[0] = n
  BY <1>8
<1>10. ASSUME NEW k \in Nat, k + 1 <= n PROVE f[k + 1] = (f[k] + 1) \div 2
  <2>1. k + 1 \in 0..n /\ k + 1 # 0 /\ (k + 1) - 1 = k
    BY <1>10
  <2>. QED BY <1>8, <2>1
<1> DEFINE B == {k \in 0..n : f[k] \notin Nat}
<1>11. B = {}
  <2>1. B \subseteq Nat /\ 0 \notin B
    BY <1>9
  <2>2. ASSUME NEW k \in Nat, k + 1 \in B PROVE k \in B
    <3>1. k \in 0..n /\ k + 1 <= n
      BY <2>2
    <3>2. f[k] \in Nat => (f[k] + 1) \div 2 \in Nat
      BY SMT
    <3>. QED BY <1>10, <2>2, <3>1, <3>2
  <2> HIDE DEF B
  <2>. QED BY <2>1, <2>2, NoLeast
<1>12. f \in [0..n -> Nat]
  BY <1>8, <1>11
<1>. QED BY <1>7, <1>9, <1>10, <1>12

\* The levels grow shorter by at least a node until one has no more than one.
LEMMA HeightIs ==
  ASSUME NEW n \in Nat \ {0}
  PROVE  /\ Height(n) \in 0..n /\ Lengths(n)[Height(n)] = 1
<1>1. PICK f \in [0..n -> Nat] :
        /\ f = Lengths(n) /\ f[0] = n
        /\ \A k \in Nat : k + 1 <= n => f[k + 1] = (f[k] + 1) \div 2
  BY LengthsTurn
<1> DEFINE B == {k \in 0..n : ~ (f[k] >= 1 /\ (f[k] <= 1 \/ f[k] + k <= n))}
<1>2. B = {}
  <2>1. B \subseteq Nat /\ 0 \notin B
    BY <1>1
  <2>2. ASSUME NEW k \in Nat, k + 1 \in B PROVE k \in B
    <3>1. k \in 0..n /\ k + 1 <= n /\ f[k] \in Nat
      BY <2>2
    <3>2. f[k + 1] = (f[k] + 1) \div 2
      BY <1>1, <3>1
    <3>3. PICK x, y \in Nat : x = f[k] /\ y = (x + 1) \div 2 /\ y = f[k + 1]
      <4>1. (f[k] + 1) \div 2 \in Nat
        BY <3>1
      <4>. QED BY <3>1, <3>2, <4>1
    <3>4. ~ (y >= 1 /\ (y <= 1 \/ y + (k + 1) <= n))
      BY <2>2, <3>3
    <3>5. ~ (x >= 1 /\ (x <= 1 \/ x + k <= n))
      <4>1. 2 * y <= x + 1 /\ x + 1 <= 2 * y + 1
        <5>1. x \in Nat /\ y \in Nat /\ y = (x + 1) \div 2
          BY <3>3
        <5>. QED BY ONLY <5>1
      <4>2. x \in Nat /\ y \in Nat /\ k \in Nat /\ n \in Nat
        BY <3>3
      <4>. QED BY ONLY <3>4, <4>1, <4>2
    <3>. QED BY <3>1, <3>3, <3>5
  <2> HIDE DEF B
  <2>. QED BY <2>1, <2>2, NoLeast
<1>3. \A k \in 0..n : f[k] >= 1
  BY <1>2
<1> DEFINE T == {k \in 0..n : f[k] <= 1}
<1>4. n \in T
  <2>1. n \in 0..n
    OBVIOUS
  <2>2. f[n] >= 1 /\ (f[n] <= 1 \/ f[n] + n <= n) /\ f[n] \in Nat
    BY <1>2, <2>1
  <2>3. f[n] <= 1
    BY <2>2
  <2>. QED BY <2>1, <2>3
<1>5. PICK h \in T : \A k \in T : h <= k
  <2>1. T \subseteq Nat /\ T # {}
    BY <1>4
  <2> HIDE DEF T
  <2>. QED BY <2>1, LeastNatural
<1>6. f[h] <= 1 /\ \A k \in 0..h - 1 : f[k] > 1
  <2>1. ASSUME NEW k \in 0..h - 1 PROVE f[k] > 1
    <3>1. k \in 0..n /\ k < h
      OBVIOUS
    <3>2. k \notin T
      BY <1>5, <3>1
    <3>. QED BY <3>1, <3>2
  <2>. QED BY <2>1
<1>7. Height(n) \in 0..n /\ f[Height(n)] <= 1
  <2> DEFINE P(j) == f[j] <= 1 /\ \A k \in 0..j - 1 : f[k] > 1
  <2>1. Height(n) = CHOOSE j \in 0..n : P(j)
    BY <1>1, Zenon DEF Height
  <2>2. h \in 0..n /\ P(h)
    BY <1>6
  <2> HIDE DEF P
  <2>3. Height(n) \in 0..n /\ P(Height(n))
    BY <2>1, <2>2
  <2>. QED BY <2>3 DEF P
<1>. QED BY <1>1, <1>3, <1>7

\* The way up stays within the levels: it ends at the only node of the last.
LEMMA WayUpTurn ==
  ASSUME NEW index \in Nat, NEW h \in Nat
  PROVE  /\ WayUp(index, h) \in [0..h -> Nat] /\ WayUp(index, h)[0] = index
         /\ \A k \in Nat : k + 1 <= h => WayUp(index, h)[k + 1] = WayUp(index, h)[k] \div 2
<1> DEFINE F == [x \in Nat |-> x \div 2]
           Eq(g) == g = [k \in 0..h |-> IF k = 0 THEN index ELSE g[k - 1] \div 2]
<1>1. F \in [Nat -> Nat] /\ \A x \in Nat : F[x] = x \div 2
  <2>1. \A x \in Nat : x \div 2 \in Nat
    OBVIOUS
  <2>. QED BY <2>1
<1> HIDE DEF F
<1>2. PICK g \in [0..h -> Nat] : IsTurns(F, index, 0..h, g)
  BY <1>1, TurnsExist
<1>3. \A k \in 0..h : k # 0 => g[k - 1] \in Nat
  <2>1. \A k \in 0..h : k # 0 => k - 1 \in 0..h
    OBVIOUS
  <2>. QED BY <2>1
<1>4. Eq(g)
  BY <1>1, <1>2, <1>3 DEF IsTurns
<1>5. WayUp(index, h) = CHOOSE f : Eq(f)
  BY DEF WayUp
<1> HIDE DEF Eq
<1>6. Eq(WayUp(index, h))
  BY <1>4, <1>5
<1>7. PICK f : f = WayUp(index, h)
  OBVIOUS
<1>8. f = [k \in 0..h |-> IF k = 0 THEN index ELSE f[k - 1] \div 2]
  BY <1>6, <1>7 DEF Eq
<1>9. f[0] = index
  BY <1>8
<1>10. ASSUME NEW k \in Nat, k + 1 <= h PROVE f[k + 1] = f[k] \div 2
  <2>1. k + 1 \in 0..h /\ k + 1 # 0 /\ (k + 1) - 1 = k
    BY <1>10
  <2>. QED BY <1>8, <2>1
<1> DEFINE B == {k \in 0..h : f[k] \notin Nat}
<1>11. B = {}
  <2>1. B \subseteq Nat /\ 0 \notin B
    BY <1>9
  <2>2. ASSUME NEW k \in Nat, k + 1 \in B PROVE k \in B
    <3>1. k \in 0..h /\ k + 1 <= h
      BY <2>2
    <3>2. f[k] \in Nat => f[k] \div 2 \in Nat
      BY SMT
    <3>. QED BY <1>10, <2>2, <3>1, <3>2
  <2> HIDE DEF B
  <2>. QED BY <2>1, <2>2, NoLeast
<1>12. f \in [0..h -> Nat]
  BY <1>8, <1>11
<1>. QED BY <1>7, <1>9, <1>10, <1>12

LEMMA WayUpInside ==
  ASSUME NEW n \in Nat \ {0}, NEW index \in 0..n - 1, NEW h \in 0..n
  PROVE  \A k \in 0..h : WayUp(index, h)[k] < Lengths(n)[k]
<1>1. PICK f \in [0..n -> Nat] :
        /\ f = Lengths(n) /\ f[0] = n
        /\ \A k \in Nat : k + 1 <= n => f[k + 1] = (f[k] + 1) \div 2
  BY LengthsTurn
<1>2. PICK g \in [0..h -> Nat] :
        /\ g = WayUp(index, h) /\ g[0] = index
        /\ \A k \in Nat : k + 1 <= h => g[k + 1] = g[k] \div 2
  <2>1. h \in Nat /\ index \in Nat
    OBVIOUS
  <2>2. /\ WayUp(index, h) \in [0..h -> Nat] /\ WayUp(index, h)[0] = index
        /\ \A k \in Nat : k + 1 <= h => WayUp(index, h)[k + 1] = WayUp(index, h)[k] \div 2
    BY <2>1, WayUpTurn
  <2>. QED BY <2>2
<1> DEFINE B == {k \in 0..h : ~ (g[k] < f[k])}
<1>3. B \subseteq Nat /\ 0 \notin B
  <2>1. g[0] < f[0]
    <3>1. g[0] = index /\ f[0] = n /\ index < n
      BY <1>1, <1>2
    <3>. QED BY <3>1
  <2>2. B \subseteq Nat
    OBVIOUS
  <2>. QED BY <2>1, <2>2
<1>4. ASSUME NEW k \in Nat, k + 1 \in B PROVE k \in B
  <2>1. k \in 0..h /\ k \in 0..n /\ k + 1 <= h /\ k + 1 <= n /\ k + 1 \in 0..n /\ k + 1 \in 0..h
    BY <1>4
  <2>2. PICK x, y, z, w \in Nat : x = g[k] /\ y = f[k] /\ z = g[k + 1] /\ w = f[k + 1]
    BY <2>1
  <2>3. z = x \div 2 /\ w = (y + 1) \div 2 /\ ~ (z < w)
    BY <1>1, <1>2, <1>4, <2>1, <2>2
  <2>4. x \in Nat /\ y \in Nat /\ z \in Nat /\ w \in Nat
    OBVIOUS
  <2>5. ~ (x < y)
    BY ONLY <2>3, <2>4
  <2>. QED BY <2>1, <2>2, <2>5
<1>5. B = {}
  <2> HIDE DEF B
  <2>. QED BY <1>3, <1>4, NoLeast
<1>. QED BY <1>1, <1>2, <1>5

LEMMA LenOfFunction ==
  ASSUME NEW m \in Nat, NEW f, f = [i \in 1..m |-> f[i]]
  PROVE  Len(f) = m
<1> DEFINE S == {f[i] : i \in 1..m}
<1>1. f \in [1..m -> S]
  OBVIOUS
<1>2. f \in Seq(S) /\ DOMAIN f = 1..m
  BY <1>1
<1> HIDE DEF S
<1>3. Len(f) \in Nat /\ DOMAIN f = 1..Len(f)
  BY <1>2
<1>. QED BY <1>2, <1>3

\* The levels of a tree, each made of the one below.
LEMMA LevelsTurn ==
  ASSUME NEW n \in Nat \ {0}, NEW s, s = [i \in 1..n |-> s[i]]
  PROVE  /\ Levels(s)[0] = [i \in 1..n |-> <<s[i]>>]
         /\ \A k \in Nat : k + 1 <= Height(n) => Levels(s)[k + 1] = NextLevel(Levels(s)[k])
<1>0. Len(s) = n /\ DOMAIN s = 1..n /\ Height(n) \in Nat
  BY LenOfFunction, HeightIs
<1> DEFINE leaves == [i \in 1..n |-> <<s[i]>>]
           Eq(m, g) == g = [k \in 0..m |-> IF k = 0 THEN leaves ELSE NextLevel(g[k - 1])]
           B == {m \in Nat : ~ \E g : Eq(m, g)}
<1>1. 0 \notin B
  <2>1. Eq(0, [k \in 0..0 |-> leaves])
    OBVIOUS
  <2>. QED BY <2>1
<1>2. ASSUME NEW m \in Nat, NEW g, Eq(m, g) PROVE \E h : Eq(m + 1, h)
  <2> DEFINE h == [k \in 0..m + 1 |-> IF k <= m THEN g[k] ELSE NextLevel(g[m])]
  <2> HIDE DEF leaves
  <2>1. ASSUME NEW k \in 0..m + 1 PROVE h[k] = IF k = 0 THEN leaves ELSE NextLevel(h[k - 1])
    <3>1. CASE k = 0
      BY <1>2, <3>1
    <3>2. CASE k # 0
      <4>1. k - 1 \in 0..m + 1 /\ k - 1 <= m
        BY <3>2
      <4>2. h[k - 1] = g[k - 1]
        BY <4>1
      <4>3. h[k] = IF k <= m THEN g[k] ELSE NextLevel(g[m])
        OBVIOUS
      <4>4. k <= m \/ k - 1 = m
        OBVIOUS
      <4>5. k <= m => g[k] = NextLevel(g[k - 1])
        BY <1>2, <3>2
      <4> HIDE DEF h
      <4>. QED BY <3>2, <4>2, <4>3, <4>4, <4>5
    <3>. QED BY <3>1, <3>2
  <2>. QED BY <2>1
<1>3. B = {}
  <2>1. \A m \in Nat : m + 1 \in B => m \in B
    <3> SUFFICES ASSUME NEW m \in Nat, m \notin B PROVE m + 1 \notin B
      OBVIOUS
    <3>1. PICK g : Eq(m, g)
      OBVIOUS
    <3> HIDE DEF Eq
    <3>. QED BY <1>2, <3>1
  <2>2. B \subseteq Nat
    OBVIOUS
  <2> HIDE DEF B
  <2>. QED BY <1>1, <2>1, <2>2, NoLeast
<1>4. Levels(s) = CHOOSE g : Eq(Height(n), g)
  BY <1>0 DEF Levels
<1> HIDE DEF Eq
<1>5. Eq(Height(n), Levels(s))
  BY <1>0, <1>3, <1>4
<1>6. PICK f, h : f = Levels(s) /\ h = Height(n)
  OBVIOUS
<1>7. f = [k \in 0..h |-> IF k = 0 THEN leaves ELSE NextLevel(f[k - 1])] /\ h \in Nat
  BY <1>0, <1>5, <1>6 DEF Eq
<1> HIDE DEF leaves
<1>8. f[0] = leaves
  BY <1>7
<1>9. ASSUME NEW k \in Nat, k + 1 <= h PROVE f[k + 1] = NextLevel(f[k])
  <2>1. k + 1 \in 0..h /\ k + 1 # 0 /\ (k + 1) - 1 = k
    BY <1>7, <1>9
  <2>. QED BY <1>7, <2>1
<1>. QED BY <1>6, <1>8, <1>9 DEF leaves

\* The hashes on the way up, each of the one below and the next of the proof.
GoesUp(U, shard, proof, at) ==
  /\ U[0] = <<shard>>
  /\ \A k \in Nat : k + 1 <= Len(proof) =>
       U[k + 1] = IF at[k] % 2 = 0 THEN hash_pair(U[k], proof[k + 1]) ELSE hash_pair(proof[k + 1], U[k])

LEMMA UpwardsTurn ==
  ASSUME NEW shard, NEW proof, NEW index, NEW n \in Nat, Len(proof) = n
  PROVE  GoesUp(Upwards(shard, proof, index), shard, proof, WayUp(index, n))
<1>0. PICK at : at = WayUp(index, n)
  OBVIOUS
<1> DEFINE Turn(k, x) == IF at[k - 1] % 2 = 0 THEN hash_pair(x, proof[k]) ELSE hash_pair(proof[k], x)
           Eq(m, g) == g = [k \in 0..m |-> IF k = 0 THEN <<shard>> ELSE Turn(k, g[k - 1])]
           B == {m \in Nat : ~ \E g : Eq(m, g)}
<1>1. Upwards(shard, proof, index) = CHOOSE g : Eq(n, g)
  BY <1>0 DEF Upwards
<1> HIDE DEF Turn
<1>2. 0 \notin B
  <2>1. Eq(0, [k \in 0..0 |-> <<shard>>])
    OBVIOUS
  <2>. QED BY <2>1
<1>3. ASSUME NEW m \in Nat, NEW g, Eq(m, g) PROVE \E h : Eq(m + 1, h)
  <2> DEFINE h == [k \in 0..m + 1 |-> IF k <= m THEN g[k] ELSE Turn(k, g[m])]
  <2>1. ASSUME NEW k \in 0..m + 1 PROVE h[k] = IF k = 0 THEN <<shard>> ELSE Turn(k, h[k - 1])
    <3>1. CASE k = 0
      BY <1>3, <3>1
    <3>2. CASE k # 0
      <4>1. k - 1 \in 0..m + 1 /\ k - 1 <= m
        BY <3>2
      <4>2. h[k - 1] = g[k - 1]
        BY <4>1
      <4>3. h[k] = IF k <= m THEN g[k] ELSE Turn(k, g[m])
        OBVIOUS
      <4>4. k <= m \/ k - 1 = m
        OBVIOUS
      <4>5. k <= m => g[k] = Turn(k, g[k - 1])
        BY <1>3, <3>2
      <4> HIDE DEF h
      <4>. QED BY <3>2, <4>2, <4>3, <4>4, <4>5
    <3>. QED BY <3>1, <3>2
  <2>. QED BY <2>1
<1>4. B = {}
  <2>1. \A m \in Nat : m + 1 \in B => m \in B
    <3> SUFFICES ASSUME NEW m \in Nat, m \notin B PROVE m + 1 \notin B
      OBVIOUS
    <3>1. PICK g : Eq(m, g)
      OBVIOUS
    <3> HIDE DEF Eq
    <3>. QED BY <1>3, <3>1
  <2>2. B \subseteq Nat
    OBVIOUS
  <2> HIDE DEF B
  <2>. QED BY <1>2, <2>1, <2>2, NoLeast
<1> HIDE DEF Eq
<1>5. Eq(n, Upwards(shard, proof, index))
  BY <1>1, <1>4
<1>6. PICK f : f = Upwards(shard, proof, index)
  OBVIOUS
<1>7. f = [k \in 0..n |-> IF k = 0 THEN <<shard>> ELSE Turn(k, f[k - 1])]
  BY <1>5, <1>6 DEF Eq
<1>8. f[0] = <<shard>>
  BY <1>7
<1>9. ASSUME NEW k \in Nat, k + 1 <= n
      PROVE  f[k + 1] = IF at[k] % 2 = 0 THEN hash_pair(f[k], proof[k + 1])
                                         ELSE hash_pair(proof[k + 1], f[k])
  <2>1. k + 1 \in 0..n /\ k + 1 # 0 /\ (k + 1) - 1 = k
    BY <1>9
  <2>2. f[k + 1] = Turn(k + 1, f[k])
    BY <1>7, <2>1
  <2>. QED BY <2>1, <2>2 DEF Turn
<1>. QED BY <1>0, <1>6, <1>8, <1>9 DEF GoesUp

LEMMA LevelShape ==
  ASSUME NEW n \in Nat \ {0}, NEW s, s = [i \in 1..n |-> s[i]]
  PROVE  \A k \in 0..Height(n) : Len(Levels(s)[k]) = Lengths(n)[k]
<1>1. PICK f \in [0..n -> Nat] :
        /\ f = Lengths(n) /\ f[0] = n
        /\ \A k \in Nat : k + 1 <= n => f[k + 1] = (f[k] + 1) \div 2
  BY LengthsTurn
<1>2. PICK h \in 0..n : h = Height(n)
  BY HeightIs
<1>3. PICK L : L = Levels(s)
  OBVIOUS
<1>4. /\ L[0] = [i \in 1..n |-> <<s[i]>>]
      /\ \A k \in Nat : k + 1 <= h => L[k + 1] = NextLevel(L[k])
  <2>1. /\ Levels(s)[0] = [i \in 1..n |-> <<s[i]>>]
        /\ \A k \in Nat : k + 1 <= Height(n) => Levels(s)[k + 1] = NextLevel(Levels(s)[k])
    BY LevelsTurn
  <2>. QED BY <1>2, <1>3, <2>1
<1> DEFINE B == {k \in 0..h : Len(L[k]) # f[k]}
<1>5. 0 \notin B
  <2>1. L[0] = [i \in 1..n |-> L[0][i]]
    BY <1>4
  <2>2. Len(L[0]) = n
    BY <2>1, LenOfFunction
  <2>. QED BY <1>1, <2>2
<1>6. ASSUME NEW k \in Nat, k + 1 \in B PROVE k \in B
  <2>1. k \in 0..h /\ k + 1 <= h /\ k + 1 <= n /\ k \in 0..n
    BY <1>6
  <2>2. SUFFICES ASSUME Len(L[k]) = f[k] PROVE Len(L[k + 1]) = f[k + 1]
    BY <1>6, <2>1
  <2>3. f[k + 1] = (f[k] + 1) \div 2 /\ f[k + 1] \in Nat
    BY <1>1, <2>1
  <2>4. L[k + 1] = NextLevel(L[k])
    BY <1>4, <2>1
  <2>5. L[k + 1] = [i \in 1..f[k + 1] |-> L[k + 1][i]]
    BY <2>2, <2>3, <2>4 DEF NextLevel
  <2>. QED BY <2>3, <2>5, LenOfFunction
<1>7. B = {}
  <2>1. B \subseteq Nat
    OBVIOUS
  <2> HIDE DEF B
  <2>. QED BY <1>5, <1>6, <2>1, NoLeast
<1>. QED BY <1>1, <1>2, <1>3, <1>7

\* A pair is the node of the level above that its two halves are at.
LEMMA NodeAbove ==
  ASSUME NEW level, NEW l \in Nat, Len(level) = l, NEW at \in Nat, at < l
  PROVE  /\ at \div 2 + 1 \in 1..(l + 1) \div 2
         /\ at % 2 = 0 => \E x : NextLevel(level)[at \div 2 + 1] = hash_pair(level[at + 1], x)
         /\ at % 2 # 0 => \E x : NextLevel(level)[at \div 2 + 1] = hash_pair(x, level[at + 1])
<1>1. PICK p \in Nat : p = at \div 2
  BY SMT
<1>2. /\ p + 1 \in 1..(l + 1) \div 2
      /\ at % 2 = 0 => at = 2 * p
      /\ at % 2 # 0 => at = 2 * p + 1
  BY <1>1, SMT
<1>3. NextLevel(level)[p + 1]
        = hash_pair(level[2 * (p + 1) - 1],
                    level[IF 2 * (p + 1) <= l THEN 2 * (p + 1) ELSE 2 * (p + 1) - 1])
  BY <1>2 DEF NextLevel
<1>4. CASE at % 2 = 0
  <2>1. 2 * (p + 1) - 1 = at + 1
    BY <1>2, <1>4
  <2>. QED BY <1>1, <1>2, <1>3, <1>4, <2>1
<1>5. CASE at % 2 # 0
  <2>1. 2 * (p + 1) = at + 1 /\ 2 * (p + 1) <= l
    BY <1>2, <1>5
  <2>. QED BY <1>1, <1>2, <1>3, <1>5, <2>1
<1>. QED BY <1>4, <1>5, <1>1, <1>2

\* What a proof of the right length leads to under the root is the shard that the tree was
\* made of: from the root down, each hash on the way is the node of the tree at its place.
LEMMA MerkleBinds ==
  ASSUME NEW n \in Nat \ {0}, NEW s, s = [i \in 1..n |-> s[i]], NEW index \in 0..n - 1,
         NEW shard, NEW proof, Len(proof) = Height(n),
         verify_proof(shard, proof, MerkleRoot(s), index)
  PROVE  shard = s[index + 1]
<1>1. PICK h \in 0..n : h = Height(n) /\ Lengths(n)[h] = 1
  BY HeightIs
<1>2. PICK f \in [0..n -> Nat] : f = Lengths(n)
  BY LengthsTurn
<1>3. PICK at \in [0..h -> Nat] :
        /\ at = WayUp(index, h) /\ at[0] = index
        /\ \A k \in Nat : k + 1 <= h => at[k + 1] = at[k] \div 2
  <2>1. h \in Nat /\ index \in Nat
    OBVIOUS
  <2>2. /\ WayUp(index, h) \in [0..h -> Nat] /\ WayUp(index, h)[0] = index
        /\ \A k \in Nat : k + 1 <= h => WayUp(index, h)[k + 1] = WayUp(index, h)[k] \div 2
    BY <2>1, WayUpTurn
  <2>. QED BY <2>2
<1>4. \A k \in 0..h : at[k] < f[k]
  BY <1>2, <1>3, WayUpInside
<1>5. PICK U : U = Upwards(shard, proof, index)
  OBVIOUS
<1>6. /\ U[0] = <<shard>>
      /\ \A k \in Nat : k + 1 <= h =>
           U[k + 1] = IF at[k] % 2 = 0 THEN hash_pair(U[k], proof[k + 1])
                                       ELSE hash_pair(proof[k + 1], U[k])
  <2>1. h \in Nat /\ Len(proof) = h
    BY <1>1
  <2>2. GoesUp(U, shard, proof, at)
    BY <1>3, <1>5, <2>1, UpwardsTurn, Zenon
  <2>. QED BY <2>1, <2>2 DEF GoesUp
<1>7. PICK L : L = Levels(s)
  OBVIOUS
<1>8. /\ L[0] = [i \in 1..n |-> <<s[i]>>]
      /\ \A k \in Nat : k + 1 <= h => L[k + 1] = NextLevel(L[k])
  <2>1. /\ Levels(s)[0] = [i \in 1..n |-> <<s[i]>>]
        /\ \A k \in Nat : k + 1 <= Height(n) => Levels(s)[k + 1] = NextLevel(Levels(s)[k])
    BY LevelsTurn
  <2>. QED BY <1>1, <1>7, <2>1
<1>9. \A k \in 0..h : Len(L[k]) = f[k]
  BY <1>1, <1>2, <1>7, LevelShape
<1>10. U[h] = L[h][at[h] + 1]
  <2>1. Len(s) = n
    BY LenOfFunction
  <2>2. U[h] = L[h][1]
    BY <1>1, <1>5, <1>7, <2>1 DEF verify_proof, MerkleRoot
  <2>3. at[h] \in Nat /\ at[h] < 1
    BY <1>1, <1>2, <1>4
  <2>4. at[h] + 1 = 1
    BY <2>3
  <2>. QED BY <2>2, <2>4
<1>11. ASSUME NEW k \in Nat, k + 1 <= h, U[k + 1] = L[k + 1][at[k + 1] + 1]
       PROVE  U[k] = L[k][at[k] + 1]
  <2>1. k \in 0..h /\ at[k] \in Nat /\ at[k + 1] = at[k] \div 2 /\ L[k + 1] = NextLevel(L[k])
    BY <1>3, <1>8, <1>11
  <2>2. f[k] \in Nat /\ Len(L[k]) = f[k] /\ at[k] < f[k]
    BY <1>2, <1>4, <1>9, <2>1
  <2>3. /\ at[k] % 2 = 0 => \E x : L[k + 1][at[k + 1] + 1] = hash_pair(L[k][at[k] + 1], x)
        /\ at[k] % 2 # 0 => \E x : L[k + 1][at[k + 1] + 1] = hash_pair(x, L[k][at[k] + 1])
    <3>1. PICK level, l, a : level = L[k] /\ l = f[k] /\ a = at[k]
      OBVIOUS
    <3>2. l \in Nat /\ Len(level) = l /\ a \in Nat /\ a < l
      BY <2>1, <2>2, <3>1
    <3>3. /\ a % 2 = 0 => \E x : NextLevel(level)[a \div 2 + 1] = hash_pair(level[a + 1], x)
          /\ a % 2 # 0 => \E x : NextLevel(level)[a \div 2 + 1] = hash_pair(x, level[a + 1])
      BY ONLY <3>2, NodeAbove
    <3>. QED BY <2>1, <3>1, <3>3
  <2>4. CASE at[k] % 2 = 0
    <3>1. U[k + 1] = hash_pair(U[k], proof[k + 1])
      BY <1>6, <1>11, <2>4
    <3>. QED BY <1>11, <2>3, <2>4, <3>1 DEF hash_pair
  <2>5. CASE at[k] % 2 # 0
    <3>1. U[k + 1] = hash_pair(proof[k + 1], U[k])
      BY <1>6, <1>11, <2>5
    <3>. QED BY <1>11, <2>3, <2>5, <3>1 DEF hash_pair
  <2>. QED BY <2>4, <2>5
<1> DEFINE B == {j \in 0..h : U[h - j] # L[h - j][at[h - j] + 1]}
<1>12. B = {}
  <2>1. B \subseteq Nat /\ 0 \notin B
    BY <1>10
  <2>2. ASSUME NEW j \in Nat, j + 1 \in B PROVE j \in B
    <3>1. j + 1 \in 0..h /\ U[h - (j + 1)] # L[h - (j + 1)][at[h - (j + 1)] + 1]
      BY Zenon, <2>2
    <3>2. PICK k : k = h - (j + 1)
      OBVIOUS
    <3>3. k \in Nat /\ h - j = k + 1 /\ k + 1 <= h /\ j \in 0..h
      BY ONLY h \in Nat, j \in Nat, <3>1, <3>2
    <3>4. U[k] # L[k][at[k] + 1]
      BY Zenon, <3>1, <3>2
    <3>. QED BY <1>11, <3>3, <3>4
  <2> HIDE DEF B
  <2>. QED BY <2>1, <2>2, NoLeast
<1>13. U[0] = L[0][at[0] + 1]
  <2>1. h \in 0..h /\ h - h = 0
    OBVIOUS
  <2>. QED BY <1>12, <2>1
<1>14. <<shard>> = <<s[index + 1]>>
  <2>1. index + 1 \in 1..n
    OBVIOUS
  <2>. QED BY <1>3, <1>6, <1>8, <1>13, <2>1
<1>. QED BY <1>14

-----------------------------------------------------------------------------
(* Data availability.  A node takes a shard only under a root it has, and    *)
(* has only roots of batches made in that epoch; so what a proof of the      *)
(* right length leads to is that shard of that batch.                        *)

\* What a node may have on disk when the batches of M were made.
ShardsOf(M) == {[of |-> m.batch, id |-> i] : m \in M, i \in Ids}
RootsOf(M)  == {MerkleRoot(Shards(m.batch)) : m \in M}
DiskOf(M)   == [shard : [Epochs -> [Ids -> {Absent} \cup ShardsOf(M)]],
                commitment : [Epochs -> {Absent} \cup RootsOf(M)], meta : SUBSET Nat]

ShardsMade(d, M) ==
  \A e \in Epochs, i \in Ids : d.shard[e][i] # Absent =>
    \E m \in M : m.epoch = e /\ d.shard[e][i] = [of |-> m.batch, id |-> i]
RootsMade(d, M) ==
  \A e \in Epochs : d.commitment[e] # Absent =>
    \E m \in M : m.epoch = e /\ d.commitment[e] = MerkleRoot(Shards(m.batch))

KeepsMade(d, M) == d \in DiskOf(M) /\ ShardsMade(d, M) /\ RootsMade(d, M)

\* What a node has still to put belongs to a batch it made in its epoch.
Items == {<<"shard", i>> : i \in Ids} \cup {<<"commitment", 0>>, <<"meta", 0>>}
PutsOne(w, e, M) ==
  w # Idle =>
    /\ [batch |-> w.batch, epoch |-> e] \in M
    /\ w = [batch |-> w.batch, left |-> w.left]
    /\ w.left \in Seq(Items) /\ Len(w.left) # 0
PutsMade == \A n \in Keepers : PutsOne(writing[n], epoch[n], made)

AnswersFit ==
  \A r \in responses : r.epoch \in Epochs /\ r.id \in Ids /\ Len(r.proof) = Height(NumShards)

MemoryTypes ==
  /\ epoch \in [Keepers -> Nat] /\ assigned \in [Keepers -> SUBSET Ids]
  /\ writing = [n \in Keepers |-> writing[n]]

DisksKept ==
  disk = [n \in Keepers |-> disk[n]] /\ \A n \in Keepers : KeepsMade(disk[n], made)

DisksInv == DisksKept /\ MemoryTypes /\ PutsMade /\ AnswersFit

\* No more was found than the sampled shards that are there.
SampleInv ==
  /\ sampling \in [node : Keepers \cup {Absent}, epoch : Epochs \cup {0}, sampled : SUBSET Ids,
                   drawn : Nat, found : Nat, verdict : {"none", "pass", "fail"}]
  /\ sampling.node = Absent => sampling.verdict = "none"
  /\ sampling.node # Absent =>
       /\ sampling.node \in Keepers /\ sampling.epoch \in Epochs
       /\ sampling.found <=
            Cardinality({i \in sampling.sampled : disk[sampling.node].shard[sampling.epoch][i] # Absent})
       /\ sampling.verdict = "pass" => 4 * sampling.found >= 3 * SampleSize

\* Every shard that d has, d1 has, or another in its place.
HasAllOf(d1, d) ==
  \A e \in Epochs, i \in Ids : d.shard[e][i] # Absent => d1.shard[e][i] # Absent

WithShard(d, m, i) == [d EXCEPT !.shard[m.epoch][i] = [of |-> m.batch, id |-> i]]
WithRoot(d, m)     == [d EXCEPT !.commitment[m.epoch] = MerkleRoot(Shards(m.batch))]

LEMMA ShardIsThere == \A b, i : [of |-> b, id |-> i] # Absent
BY DEF Absent

LEMMA KeepsMore ==
  ASSUME NEW M, NEW N, M \subseteq N, NEW d, KeepsMade(d, M)
  PROVE  KeepsMade(d, N)
<1>1. ShardsOf(M) \subseteq ShardsOf(N) /\ RootsOf(M) \subseteq RootsOf(N)
  BY DEF ShardsOf, RootsOf
<1>2. d \in DiskOf(N)
  BY <1>1 DEF KeepsMade, DiskOf
<1>3. ShardsMade(d, N)
  BY DEF KeepsMade, ShardsMade
<1>4. RootsMade(d, N)
  BY DEF KeepsMade, RootsMade
<1>. QED BY <1>2, <1>3, <1>4 DEF KeepsMade

LEMMA StoreShard ==
  ASSUME NEW M, NEW d, KeepsMade(d, M), NEW m \in M, NEW i \in Ids
  PROVE  KeepsMade(WithShard(d, m, i), M) /\ HasAllOf(WithShard(d, m, i), d)
<1>0. PICK d1 : d1 = WithShard(d, m, i)
  OBVIOUS
<1>1. PICK x : x = [of |-> m.batch, id |-> i]
  OBVIOUS
<1>2. x \in {Absent} \cup ShardsOf(M) /\ x # Absent
  BY <1>1, ShardIsThere DEF ShardsOf
<1>3. PICK e : e = m.epoch
  OBVIOUS
<1>4. PICK D, R : D = {Absent} \cup ShardsOf(M) /\ R = {Absent} \cup RootsOf(M)
  OBVIOUS
<1>5. d \in [shard : [Epochs -> [Ids -> D]], commitment : [Epochs -> R], meta : SUBSET Nat]
  BY <1>4 DEF KeepsMade, DiskOf
<1>6. d1 = [d EXCEPT !.shard[e][i] = x]
  BY <1>0, <1>1, <1>3 DEF WithShard
<1>7. /\ d1 \in [shard : [Epochs -> [Ids -> D]], commitment : [Epochs -> R], meta : SUBSET Nat]
      /\ d1.commitment = d.commitment
      /\ \A f \in Epochs, j \in Ids : d1.shard[f][j] = IF f = e /\ j = i THEN x ELSE d.shard[f][j]
  <2>1. x \in D
    BY <1>2, <1>4
  <2>. QED BY ONLY <1>5, <1>6, <2>1
<1>8. d1 \in DiskOf(M)
  BY <1>4, <1>7 DEF DiskOf
<1>9. ShardsMade(d1, M)
  <2> SUFFICES ASSUME NEW f \in Epochs, NEW j \in Ids, d1.shard[f][j] # Absent
               PROVE  \E c \in M : c.epoch = f /\ d1.shard[f][j] = [of |-> c.batch, id |-> j]
    BY DEF ShardsMade
  <2>1. CASE f = e /\ j = i
    <3>1. d1.shard[f][j] = x
      BY <1>7, <2>1
    <3>. QED BY ONLY <1>1, <1>3, <2>1, <3>1, m \in M
  <2>2. CASE ~(f = e /\ j = i)
    <3>1. d1.shard[f][j] = d.shard[f][j]
      BY <1>7, <2>2
    <3>. QED BY <3>1 DEF KeepsMade, ShardsMade
  <2>. QED BY <2>1, <2>2
<1>10. RootsMade(d1, M)
  BY <1>7 DEF KeepsMade, RootsMade
<1>11. HasAllOf(d1, d)
  BY <1>2, <1>7 DEF HasAllOf
<1>. QED BY <1>0, <1>8, <1>9, <1>10, <1>11 DEF KeepsMade

LEMMA StoreRoot ==
  ASSUME NEW M, NEW d, KeepsMade(d, M), NEW m \in M
  PROVE  KeepsMade(WithRoot(d, m), M) /\ HasAllOf(WithRoot(d, m), d)
<1>0. PICK d1 : d1 = WithRoot(d, m)
  OBVIOUS
<1>1. PICK x, e : x = MerkleRoot(Shards(m.batch)) /\ e = m.epoch
  OBVIOUS
<1>2. PICK D, R : D = [Epochs -> [Ids -> {Absent} \cup ShardsOf(M)]] /\ R = {Absent} \cup RootsOf(M)
  OBVIOUS
<1>3. x \in R /\ d \in [shard : D, commitment : [Epochs -> R], meta : SUBSET Nat]
  BY <1>1, <1>2 DEF KeepsMade, DiskOf, RootsOf
<1>4. /\ d1 \in [shard : D, commitment : [Epochs -> R], meta : SUBSET Nat]
      /\ d1.shard = d.shard
      /\ \A f \in Epochs : d1.commitment[f] = IF f = e THEN x ELSE d.commitment[f]
  <2>1. d1 = [d EXCEPT !.commitment[e] = x]
    BY <1>0, <1>1 DEF WithRoot
  <2>. QED BY ONLY <1>3, <2>1
<1>5. d1 \in DiskOf(M)
  BY <1>2, <1>4 DEF DiskOf
<1>6. RootsMade(d1, M)
  <2> SUFFICES ASSUME NEW f \in Epochs, d1.commitment[f] # Absent
               PROVE  \E c \in M : c.epoch = f /\ d1.commitment[f] = MerkleRoot(Shards(c.batch))
    BY DEF RootsMade
  <2>1. CASE f = e
    <3>1. d1.commitment[f] = x
      BY <1>4, <2>1
    <3>. QED BY <1>1, <2>1, <3>1
  <2>2. CASE f # e
    <3>1. d1.commitment[f] = d.commitment[f]
      BY <1>4, <2>2
    <3>. QED BY <3>1 DEF KeepsMade, RootsMade
  <2>. QED BY <2>1, <2>2
<1>7. ShardsMade(d1, M)
  BY <1>4 DEF KeepsMade, ShardsMade
<1>. QED BY <1>0, <1>4, <1>5, <1>6, <1>7 DEF KeepsMade, HasAllOf

LEMMA StoreMeta ==
  ASSUME NEW M, NEW d, KeepsMade(d, M), NEW e \in Nat, NEW d1, d1 = [d EXCEPT !.meta = @ \cup {e}]
  PROVE  KeepsMade(d1, M) /\ HasAllOf(d1, d)
<1>1. PICK D, R : /\ D = [Epochs -> [Ids -> {Absent} \cup ShardsOf(M)]]
                  /\ R = [Epochs -> {Absent} \cup RootsOf(M)]
  OBVIOUS
<1>2. d \in [shard : D, commitment : R, meta : SUBSET Nat]
  BY <1>1 DEF KeepsMade, DiskOf
<1>3. /\ d1 \in [shard : D, commitment : R, meta : SUBSET Nat]
      /\ d1.shard = d.shard /\ d1.commitment = d.commitment
  BY ONLY <1>2, d1 = [d EXCEPT !.meta = @ \cup {e}], e \in Nat
<1>4. d1 \in DiskOf(M)
  BY <1>1, <1>3 DEF DiskOf
<1>5. ShardsMade(d1, M) /\ RootsMade(d1, M)
  BY <1>3 DEF KeepsMade, ShardsMade, RootsMade
<1>. QED BY <1>3, <1>4, <1>5 DEF KeepsMade, HasAllOf

LEMMA SetToSeqIs ==
  ASSUME NEW S, IsFiniteSet(S)
  PROVE  SetToSeq(S) \in Seq(S)
<1>1. Cardinality(S) \in Nat /\ ExistsBijection(1..Cardinality(S), S)
  BY FS_CardinalityType
<1>2. \E f \in [1..Cardinality(S) -> S] : IsInjective(f)
  BY <1>1 DEF ExistsBijection, Bijection, Injection
<1>3. SetToSeq(S) \in [1..Cardinality(S) -> S]
  BY <1>2 DEF SetToSeq
<1>. QED BY <1>1, <1>3

LEMMA BatchItems ==
  ASSUME NEW A \in SUBSET Ids, NEW q,
         q = SetToSeq({<<"shard", i>> : i \in A}) \o <<<<"commitment", 0>>, <<"meta", 0>>>>
  PROVE  q \in Seq(Items) /\ Len(q) # 0
<1> DEFINE T == {<<"shard", i>> : i \in A}
           f == [i \in A |-> <<"shard", i>>]
           r == <<<<"commitment", 0>>, <<"meta", 0>>>>
<1>1. IsFiniteSet(A)
  <2>1. NumShards - 1 \in Int
    BY DAAssumption
  <2>2. IsFiniteSet(Ids)
    BY <2>1, FS_Interval DEF Ids
  <2>. QED BY <2>2, FS_Subset
<1>2. IsFiniteSet(T)
  <2>1. f \in Surjection(A, T)
    BY DEF Surjection
  <2> HIDE DEF T, f
  <2>. QED BY <1>1, <2>1, FS_Surjection
<1>3. T \subseteq Items
  BY DEF Items
<1> HIDE DEF T
<1>4. SetToSeq(T) \in Seq(Items)
  <2>1. SetToSeq(T) \in Seq(T)
    BY <1>2, SetToSeqIs
  <2>. QED BY <1>3, <2>1
<1>5. r \in Seq(Items) /\ Len(r) = 2
  BY DEF Items
<1> HIDE DEF r
<1>6. PICK s : s = SetToSeq(T)
  OBVIOUS
<1>7. s \o r \in Seq(Items) /\ Len(s \o r) # 0
  BY ONLY <1>4, <1>5, <1>6
<1>. QED BY <1>6, <1>7 DEF T, r

\* What is on disk stays there, though another of the kind may take its place.
NothingLost ==
  \A n \in Keepers, e \in Epochs, i \in Ids :
    disk[n].shard[e][i] # Absent => disk'[n].shard[e][i] # Absent

\* What every step that puts something on the disk of a node does.
Stores(n, d1) ==
  /\ disk' = [disk EXCEPT ![n] = d1] /\ made' = made
  /\ KeepsMade(d1, made) /\ HasAllOf(d1, disk[n])

LEMMA DiskStep ==
  ASSUME DisksInv, NEW n \in Keepers, NEW d1, Stores(n, d1)
  PROVE  DisksKept' /\ NothingLost
<1>1. disk = [m \in Keepers |-> disk[m]] /\ \A m \in Keepers : KeepsMade(disk[m], made)
  BY DEF DisksInv, DisksKept
<1>2. /\ \A m \in Keepers : disk'[m] = IF m = n THEN d1 ELSE disk[m]
      /\ disk' = [m \in Keepers |-> disk'[m]]
  BY <1>1 DEF Stores
<1>3. made' = made /\ KeepsMade(d1, made) /\ HasAllOf(d1, disk[n])
  BY DEF Stores
<1>4. \A m \in Keepers : KeepsMade(disk'[m], made')
  BY <1>1, <1>2, <1>3
<1>. QED BY <1>2, <1>3, <1>4 DEF DisksKept, NothingLost, HasAllOf

LEMMA CreateStep ==
  ASSUME DisksInv, NEW n \in Keepers, CreateBatch(n)
  PROVE  DisksInv' /\ NothingLost
<1>1. PICK b, q, e, w :
        /\ w = [batch |-> b, left |-> q] /\ e = epoch[n] + 1
        /\ q = SetToSeq({<<"shard", i>> : i \in assigned[n]}) \o <<<<"commitment", 0>>, <<"meta", 0>>>>
        /\ epoch' = [epoch EXCEPT ![n] = e] /\ made' = made \cup {[batch |-> b, epoch |-> e]}
        /\ writing' = [writing EXCEPT ![n] = w]
        /\ UNCHANGED <<disk, assigned, responses>>
  BY DEF CreateBatch
<1>2. MemoryTypes
  BY DEF DisksInv
<1>3. q \in Seq(Items) /\ Len(q) # 0
  <2>1. assigned[n] \in SUBSET Ids
    BY <1>2 DEF MemoryTypes
  <2>. QED BY <1>1, <2>1, BatchItems
<1>4. w.batch = b /\ w.left = q /\ e \in Nat
  <2>1. epoch[n] \in Nat
    BY <1>2 DEF MemoryTypes
  <2>. QED BY ONLY <1>1, <2>1
<1>5. epoch'[n] = e /\ \A m \in Keepers : m # n => epoch'[m] = epoch[m]
  BY <1>1, <1>2 DEF MemoryTypes
<1>6. writing'[n] = w /\ \A m \in Keepers : m # n => writing'[m] = writing[m]
  BY <1>1, <1>2 DEF MemoryTypes
<1>7. MemoryTypes'
  BY <1>1, <1>2, <1>4 DEF MemoryTypes
<1>8. PutsMade'
  <2>1. PutsOne(w, e, made')
    BY <1>1, <1>3, <1>4 DEF PutsOne
  <2>2. \A m \in Keepers : m # n => PutsOne(writing[m], epoch[m], made')
    <3>1. made \subseteq made'
      BY <1>1
    <3>. QED BY <3>1 DEF DisksInv, PutsMade, PutsOne
  <2>. QED BY <1>5, <1>6, <2>1, <2>2 DEF PutsMade
<1>9. \A m \in Keepers : KeepsMade(disk'[m], made')
  <2>1. made \subseteq made' /\ disk' = disk
    BY <1>1
  <2>. QED BY <2>1, KeepsMore DEF DisksInv, DisksKept
<1>10. AnswersFit' /\ NothingLost /\ disk' = [m \in Keepers |-> disk'[m]]
  BY <1>1 DEF DisksInv, DisksKept, AnswersFit, NothingLost
<1>. QED BY <1>7, <1>8, <1>9, <1>10 DEF DisksInv, DisksKept

LEMMA MemoryStep ==
  ASSUME DisksInv, NEW n \in Keepers, UpdateValidators(n) \/ Crash(n)
  PROVE  DisksInv' /\ NothingLost
<1>1. UNCHANGED <<disk, responses, made>>
  BY DEF UpdateValidators, Crash
<1>2. MemoryTypes' /\ PutsMade'
  <2>1. CASE UpdateValidators(n)
    <3>1. UNCHANGED <<epoch, writing>>
      BY <2>1 DEF UpdateValidators
    <3>2. PICK S \in SUBSET Ids : assigned' = [assigned EXCEPT ![n] = S]
      BY <2>1 DEF UpdateValidators
    <3>. QED BY <1>1, <3>1, <3>2 DEF DisksInv, MemoryTypes, PutsMade
  <2>2. CASE Crash(n)
    <3>1. /\ epoch' = [epoch EXCEPT ![n] = 0] /\ assigned' = [assigned EXCEPT ![n] = {}]
          /\ writing' = [writing EXCEPT ![n] = Idle]
      BY <2>2 DEF Crash
    <3>2. MemoryTypes'
      BY <3>1 DEF DisksInv, MemoryTypes
    <3>3. \A m \in Keepers : m # n => epoch'[m] = epoch[m] /\ writing'[m] = writing[m]
      BY <3>1 DEF DisksInv, MemoryTypes
    <3>4. writing'[n] = Idle
      BY <3>1 DEF DisksInv, MemoryTypes
    <3>. QED BY <1>1, <3>2, <3>3, <3>4 DEF DisksInv, PutsMade, PutsOne
  <2>. QED BY <2>1, <2>2
<1>. QED BY <1>1, <1>2 DEF DisksInv, DisksKept, AnswersFit, NothingLost

LEMMA PutStep ==
  ASSUME DisksInv, NEW n \in Keepers, Put(n)
  PROVE  DisksInv' /\ NothingLost
<1> DEFINE w == writing[n]
           e == epoch[n]
           d == disk[n]
           k == Head(w.left)
           d1 == CASE k[1] = "shard"      -> [d EXCEPT !.shard[e][k[2]] = Shards(w.batch)[k[2] + 1]]
                   [] k[1] = "commitment" -> [d EXCEPT !.commitment[e] = MerkleRoot(Shards(w.batch))]
                   [] k[1] = "meta"       -> [d EXCEPT !.meta = @ \cup {e}]
           w1 == IF Len(w.left) = 1 THEN Idle ELSE [w EXCEPT !.left = Tail(w.left)]
<1>1. /\ w # Idle
      /\ disk' = [disk EXCEPT ![n] = d1] /\ writing' = [writing EXCEPT ![n] = w1]
      /\ UNCHANGED <<epoch, assigned, responses, made>>
  <2>1. w # Idle /\ UNCHANGED <<epoch, assigned, responses, made>>
    BY DEF Put
  <2>2. disk' = [disk EXCEPT ![n] = d1]
    BY DEF Put
  <2>3. writing' = [writing EXCEPT ![n] = w1]
    BY DEF Put
  <2>. QED BY <2>1, <2>2, <2>3
<1> HIDE DEF d1, w1
<1>2. PICK m : m = [batch |-> w.batch, epoch |-> e]
  OBVIOUS
<1>3. m \in made /\ w.left \in Seq(Items) /\ Len(w.left) # 0
  BY <1>1, <1>2 DEF DisksInv, PutsMade, PutsOne
<1>4. m.batch = w.batch /\ m.epoch = e
  BY <1>2
<1>5. e \in Nat /\ KeepsMade(d, made)
  BY DEF DisksInv, DisksKept, MemoryTypes
<1>6. k \in Items
  BY <1>3
<1>7. /\ KeepsMade(d1, made)
      /\ HasAllOf(d1, d)
  <2>1. CASE k \in {<<"shard", i>> : i \in Ids}
    <3>1. PICK i \in Ids : k = <<"shard", i>>
      BY <2>1
    <3>2. i \in Int /\ 0 <= i /\ i + 1 \in 1..NumShards
      BY DAAssumption DEF Ids
    <3>3. Shards(w.batch)[i + 1] = [of |-> m.batch, id |-> i]
      BY <1>4, <3>2 DEF Shards
    <3>4. d1 = [d EXCEPT !.shard[m.epoch][i] = Shards(w.batch)[i + 1]]
      BY <1>4, <3>1 DEF d1
    <3>5. d1 = WithShard(d, m, i)
      BY <3>3, <3>4 DEF WithShard
    <3>6. KeepsMade(WithShard(d, m, i), made) /\ HasAllOf(WithShard(d, m, i), d)
      BY <1>3, <1>5, StoreShard
    <3>. QED BY <3>5, <3>6
  <2>2. CASE k = <<"commitment", 0>>
    <3>1. d1 = WithRoot(d, m)
      BY <1>4, <2>2 DEF d1, WithRoot
    <3>2. KeepsMade(WithRoot(d, m), made) /\ HasAllOf(WithRoot(d, m), d)
      BY <1>3, <1>5, StoreRoot
    <3>. QED BY <3>1, <3>2
  <2>3. CASE k = <<"meta", 0>>
    <3>1. d1 = [d EXCEPT !.meta = @ \cup {e}]
      BY <2>3 DEF d1
    <3>. QED BY <1>5, <3>1, StoreMeta
  <2>. QED BY <1>6, <2>1, <2>2, <2>3 DEF Items
<1>8. DisksKept' /\ NothingLost
  <2>1. Stores(n, d1)
    BY <1>1, <1>7 DEF Stores
  <2>. QED BY <2>1, DiskStep
<1>9. writing'[n] = w1 /\ \A c \in Keepers : c # n => writing'[c] = writing[c]
  BY <1>1 DEF DisksInv, MemoryTypes
<1>10. MemoryTypes'
  BY <1>1 DEF DisksInv, MemoryTypes
<1>11. PutsOne(w1, e, made)
  <2>1. PICK q : q = w.left
    OBVIOUS
  <2>2. q \in Seq(Items) /\ Len(q) \in Nat /\ Len(q) # 0
    BY <1>3, <2>1
  <2>3. Len(q) # 1 => Tail(q) \in Seq(Items) /\ Len(Tail(q)) # 0
    BY ONLY <2>2
  <2>4. w1 = IF Len(q) = 1 THEN Idle ELSE [w EXCEPT !.left = Tail(q)]
    BY <2>1 DEF w1
  <2>5. w = [batch |-> w.batch, left |-> w.left] /\ [batch |-> w.batch, epoch |-> e] \in made
    BY <1>1 DEF DisksInv, PutsMade, PutsOne
  <2>6. PICK v : v = w
    OBVIOUS
  <2>7. /\ v = [batch |-> v.batch, left |-> v.left] /\ [batch |-> v.batch, epoch |-> e] \in made
        /\ w1 = IF Len(q) = 1 THEN Idle ELSE [v EXCEPT !.left = Tail(q)]
    BY <2>4, <2>5, <2>6
  <2>. QED BY ONLY <2>3, <2>7 DEF PutsOne
<1>12. PutsMade'
  <2>1. UNCHANGED <<epoch, made>>
    BY <1>1
  <2>. QED BY <1>9, <1>11, <2>1 DEF DisksInv, PutsMade
<1>13. AnswersFit'
  BY <1>1 DEF DisksInv, AnswersFit
<1>. QED BY <1>8, <1>10, <1>12, <1>13 DEF DisksInv

LEMMA AnnounceStep ==
  ASSUME DisksInv, NEW n \in Keepers, NEW m \in made, HearAnnouncement(n, m)
  PROVE  DisksInv' /\ NothingLost
<1>1. UNCHANGED <<epoch, assigned, writing, responses, made>>
  BY DEF HearAnnouncement
<1>2. disk' = [disk EXCEPT ![n] = WithRoot(disk[n], m)]
  <2>1. disk' = [disk EXCEPT ![n].commitment[m.epoch] = MerkleRoot(Shards(m.batch))]
    BY DEF HearAnnouncement
  <2>. QED BY <2>1 DEF WithRoot
<1>3. KeepsMade(WithRoot(disk[n], m), made) /\ HasAllOf(WithRoot(disk[n], m), disk[n])
  <2>1. KeepsMade(disk[n], made)
    BY DEF DisksInv, DisksKept
  <2>. QED BY <2>1, StoreRoot
<1>4. DisksKept' /\ NothingLost
  <2>1. Stores(n, WithRoot(disk[n], m))
    BY <1>1, <1>2, <1>3 DEF Stores
  <2>. QED BY <2>1, DiskStep
<1>. QED BY <1>1, <1>4 DEF DisksInv, MemoryTypes, PutsMade, AnswersFit

LEMMA AnswerStep ==
  ASSUME DisksInv, NEW n \in Keepers, NEW e \in Epochs, NEW i \in Fetched, AnswerRequest(n, e, i)
  PROVE  DisksInv' /\ NothingLost
<1>1. UNCHANGED <<disk, epoch, assigned, writing, made>>
  BY DEF AnswerRequest
<1>2. PICK s : s = Found(n, e)
  OBVIOUS
<1>3. PICK p : p = get_proof(s, i)
  OBVIOUS
<1>4. Len(p) = Height(NumShards)
  <2>1. NumShards \in Nat \ {0} /\ Height(NumShards) \in Nat
    <3>1. NumShards \in Nat \ {0}
      BY DAAssumption
    <3>. QED BY <3>1, HeightIs
  <2>2. Len(s) = NumShards
    <3>1. s = [j \in 1..NumShards |-> s[j]]
      BY <1>2 DEF Found
    <3>. QED BY <2>1, <3>1, LenOfFunction
  <2>3. p = [k \in 1..Height(Len(s)) |-> p[k]]
    BY <1>3 DEF get_proof
  <2>. QED BY <2>1, <2>2, <2>3, LenOfFunction
<1>5. AnswersFit'
  <2>1. responses' = responses \cup {[from |-> n, epoch |-> e, id |-> i, data |-> s[i + 1], proof |-> p]}
    BY <1>2, <1>3 DEF AnswerRequest
  <2>2. i \in Ids
    BY DAAssumption
  <2>3. \A r \in responses : r.epoch \in Epochs /\ r.id \in Ids /\ Len(r.proof) = Height(NumShards)
    BY DEF DisksInv, AnswersFit
  <2>4. \A r \in responses' : r.epoch \in Epochs /\ r.id \in Ids /\ Len(r.proof) = Height(NumShards)
    BY ONLY e \in Epochs, <1>4, <2>1, <2>2, <2>3
  <2>. QED BY <2>4 DEF AnswersFit
<1>. QED BY <1>1, <1>5 DEF DisksInv, DisksKept, MemoryTypes, PutsMade, NothingLost

LEMMA ResponseStep ==
  ASSUME DisksInv, NEW n \in Keepers, NEW r \in responses, HearResponse(n, r)
  PROVE  DisksInv' /\ NothingLost
<1>1. UNCHANGED <<epoch, assigned, writing, responses, made>>
  BY DEF HearResponse
<1>2. r.epoch \in Epochs /\ r.id \in Ids /\ Len(r.proof) = Height(NumShards)
  BY DEF DisksInv, AnswersFit
<1>3. PICK m \in made : /\ m.epoch = r.epoch
                        /\ disk[n].commitment[r.epoch] = MerkleRoot(Shards(m.batch))
  <2>1. disk[n].commitment[r.epoch] # Absent
    BY DEF HearResponse, Takes
  <2>2. RootsMade(disk[n], made)
    BY DEF DisksInv, DisksKept, KeepsMade
  <2>. QED BY <1>2, <2>1, <2>2 DEF RootsMade
<1>4. r.data = [of |-> m.batch, id |-> r.id]
  <2>1. PICK s : s = Shards(m.batch)
    OBVIOUS
  <2>2. PICK i : i = r.id
    OBVIOUS
  <2>3. NumShards \in Nat \ {0} /\ i \in 0..NumShards - 1 /\ i \in Int /\ i + 1 \in 1..NumShards
    BY <1>2, <2>2, DAAssumption DEF Ids
  <2>4. s = [j \in 1..NumShards |-> s[j]] /\ s[i + 1] = [of |-> m.batch, id |-> i]
    BY <2>1, <2>3 DEF Shards
  <2>5. verify_proof(r.data, r.proof, MerkleRoot(s), i)
    BY <1>3, <2>1, <2>2 DEF HearResponse, Takes
  <2>6. r.data = s[i + 1]
    BY <1>2, <2>3, <2>4, <2>5, MerkleBinds
  <2>. QED BY <2>2, <2>4, <2>6
<1>5. disk' = [disk EXCEPT ![n] = WithShard(disk[n], m, r.id)]
  <2>1. disk' = [disk EXCEPT ![n].shard[r.epoch][r.id] = r.data]
    BY DEF HearResponse
  <2>. QED BY <1>3, <1>4, <2>1 DEF WithShard
<1>6. KeepsMade(WithShard(disk[n], m, r.id), made) /\ HasAllOf(WithShard(disk[n], m, r.id), disk[n])
  <2>1. KeepsMade(disk[n], made)
    BY DEF DisksInv, DisksKept
  <2>. QED BY <1>2, <2>1, StoreShard
<1>7. DisksKept' /\ NothingLost
  <2>1. Stores(n, WithShard(disk[n], m, r.id))
    BY <1>1, <1>5, <1>6 DEF Stores
  <2>. QED BY <2>1, DiskStep
<1>. QED BY <1>1, <1>7 DEF DisksInv, MemoryTypes, PutsMade, AnswersFit

LEMMA SampleKept ==
  ASSUME SampleInv, NothingLost, UNCHANGED sampling
  PROVE  SampleInv'
<1> DEFINE There == {i \in sampling.sampled : disk[sampling.node].shard[sampling.epoch][i] # Absent}
<1>1. ASSUME sampling.node # Absent
      PROVE  sampling.found <= Cardinality(There')
  <2>1. /\ sampling.node \in Keepers /\ sampling.epoch \in Epochs /\ sampling.sampled \subseteq Ids
        /\ sampling.found \in Nat /\ sampling.found <= Cardinality(There)
    BY <1>1 DEF SampleInv
  <2>2. There \subseteq There' /\ There' \subseteq Ids
    BY <2>1 DEF NothingLost
  <2>3. IsFiniteSet(There')
    <3>1. NumShards - 1 \in Int
      BY DAAssumption
    <3>2. IsFiniteSet(Ids)
      BY <3>1, FS_Interval DEF Ids
    <3>. QED BY <2>2, <3>2, FS_Subset
  <2> HIDE DEF There
  <2>4. Cardinality(There) <= Cardinality(There') /\ Cardinality(There) \in Nat /\ Cardinality(There') \in Nat
    BY <2>2, <2>3, FS_Subset, FS_CardinalityType
  <2>. QED BY <2>1, <2>4
<1>. QED BY <1>1 DEF SampleInv

LEMMA StartStep ==
  ASSUME SampleInv, NEW n \in Keepers, NEW e \in Epochs, StartSampling(n, e)
  PROVE  SampleInv'
<1>1. sampling' = [node |-> n, epoch |-> e, sampled |-> {}, drawn |-> 0, found |-> 0, verdict |-> "none"]
  BY DEF StartSampling, NoClient
<1>2. 0 <= Cardinality({i \in sampling'.sampled : disk'[n].shard[e][i] # Absent})
  <2>1. {i \in sampling'.sampled : disk'[n].shard[e][i] # Absent} = {}
    BY <1>1
  <2>. QED BY <2>1, FS_EmptySet
<1>. QED BY <1>1, <1>2 DEF SampleInv

LEMMA SampleStep ==
  ASSUME SampleInv, NEW i \in Ids, SampleShard(i)
  PROVE  SampleInv'
<1> DEFINE Here(j) == disk[sampling.node].shard[sampling.epoch][j] # Absent
           There   == {j \in sampling.sampled : Here(j)}
<1>1. PICK there, found, drawn :
        /\ there = Here(i) /\ found = sampling.found + (IF there THEN 1 ELSE 0)
        /\ drawn = sampling.drawn + 1
  OBVIOUS
<1>2. /\ sampling.node # Absent /\ sampling.verdict = "none" /\ i \notin sampling.sampled
      /\ UNCHANGED disk
      /\ sampling' = [sampling EXCEPT !.sampled = @ \cup {i}, !.drawn = drawn, !.found = found,
           !.verdict = IF drawn < SampleSize THEN "none"
                       ELSE IF 4 * found >= 3 * SampleSize THEN "pass" ELSE "fail"]
  BY <1>1 DEF SampleShard, Draw
<1>3. /\ sampling \in [node : Keepers \cup {Absent}, epoch : Epochs \cup {0}, sampled : SUBSET Ids,
                       drawn : Nat, found : Nat, verdict : {"none", "pass", "fail"}]
      /\ sampling.node \in Keepers /\ sampling.epoch \in Epochs
      /\ sampling.found <= Cardinality(There)
  BY <1>2 DEF SampleInv
<1>4. found \in Nat /\ drawn \in Nat
  <2>1. sampling.found \in Nat /\ sampling.drawn \in Nat
    BY <1>3
  <2>. QED BY <1>1, <2>1
<1>5. IsFiniteSet(There) /\ i \notin There /\ Cardinality(There) \in Nat
  <2>1. NumShards - 1 \in Int
    BY DAAssumption
  <2>2. IsFiniteSet(Ids)
    BY <2>1, FS_Interval DEF Ids
  <2>3. sampling.sampled \subseteq Ids
    BY <1>3
  <2>4. There \subseteq Ids /\ i \notin There
    BY <1>2, <2>3
  <2> HIDE DEF There
  <2>. QED BY <2>2, <2>4, FS_Subset, FS_CardinalityType
<1> DEFINE Now == {j \in sampling.sampled \cup {i} : Here(j)}
<1>6. Now = IF Here(i) THEN There \cup {i} ELSE There
  OBVIOUS
<1>7. Now = {j \in sampling'.sampled : disk'[sampling'.node].shard[sampling'.epoch][j] # Absent}
  BY <1>2, <1>3
<1> HIDE DEF Here, There, Now
<1>8. found <= Cardinality(Now)
  <2>1. CASE there
    <3>1. Now = There \cup {i}
      BY <1>1, <1>6, <2>1
    <3>2. Cardinality(Now) = Cardinality(There) + 1
      BY <1>5, <3>1, FS_AddElement
    <3>3. sampling.found <= Cardinality(There) /\ sampling.found \in Nat /\ found = sampling.found + 1
      BY <1>1, <1>3, <2>1
    <3>. QED BY <1>5, <3>2, <3>3
  <2>2. CASE ~there
    <3>1. Now = There
      BY <1>1, <1>6, <2>2
    <3>2. sampling.found <= Cardinality(There) /\ sampling.found \in Nat /\ found = sampling.found + 0
      BY <1>1, <1>3, <2>2
    <3>. QED BY <3>1, <3>2
  <2>. QED BY <2>1, <2>2
<1>9. /\ sampling' \in [node : Keepers \cup {Absent}, epoch : Epochs \cup {0}, sampled : SUBSET Ids,
                        drawn : Nat, found : Nat, verdict : {"none", "pass", "fail"}]
      /\ sampling'.node = sampling.node /\ sampling'.epoch = sampling.epoch
      /\ sampling'.found = found
      /\ sampling'.verdict = "pass" => 4 * found >= 3 * SampleSize
  BY <1>2, <1>3, <1>4
<1>. QED BY <1>2, <1>3, <1>8, <1>7, <1>9 DEF SampleInv

LEMMA AvailabilityNext == DisksInv /\ SampleInv /\ [DANext]_daVars => DisksInv' /\ SampleInv'
<1> SUFFICES ASSUME DisksInv, SampleInv, [DANext]_daVars PROVE DisksInv' /\ SampleInv'
  OBVIOUS
<1>1. ASSUME DisksInv' /\ NothingLost, UNCHANGED sampling PROVE DisksInv' /\ SampleInv'
  BY <1>1, SampleKept
<1>2. ASSUME NEW n \in Proposers, UpdateValidators(n) \/ CreateBatch(n) \/ Put(n) \/ Crash(n)
      PROVE  DisksInv' /\ SampleInv'
  <2>1. n \in Keepers
    BY DAAssumption
  <2>2. DisksInv' /\ NothingLost
    BY <1>2, <2>1, MemoryStep, CreateStep, PutStep
  <2>3. UNCHANGED sampling
    BY <1>2 DEF UpdateValidators, CreateBatch, Put, Crash
  <2>. QED BY <1>1, <2>2, <2>3
<1>3. ASSUME NEW n \in Keepers, NEW m \in made, HearAnnouncement(n, m)
      PROVE  DisksInv' /\ SampleInv'
  <2>1. UNCHANGED sampling
    BY <1>3 DEF HearAnnouncement
  <2>. QED BY <1>1, <1>3, <2>1, AnnounceStep
<1>4. ASSUME NEW n \in Keepers, NEW e \in Epochs, NEW i \in Fetched, AnswerRequest(n, e, i)
      PROVE  DisksInv' /\ SampleInv'
  <2>1. UNCHANGED sampling
    BY <1>4 DEF AnswerRequest
  <2>. QED BY <1>1, <1>4, <2>1, AnswerStep
<1>5. ASSUME NEW n \in Keepers, NEW r \in responses, HearResponse(n, r)
      PROVE  DisksInv' /\ SampleInv'
  <2>1. UNCHANGED sampling
    BY <1>5 DEF HearResponse
  <2>. QED BY <1>1, <1>5, <2>1, ResponseStep
<1>6. ASSUME NEW n \in Keepers, NEW e \in Epochs, StartSampling(n, e)
      PROVE  DisksInv' /\ SampleInv'
  <2>1. UNCHANGED <<disk, epoch, assigned, writing, responses, made>>
    BY <1>6 DEF StartSampling
  <2>2. DisksInv'
    BY <2>1 DEF DisksInv, DisksKept, MemoryTypes, PutsMade, AnswersFit
  <2>. QED BY <1>6, <2>2, StartStep
<1>7. ASSUME NEW i \in Ids, SampleShard(i)
      PROVE  DisksInv' /\ SampleInv'
  <2>1. UNCHANGED <<disk, epoch, assigned, writing, responses, made>>
    BY <1>7 DEF SampleShard
  <2>2. DisksInv'
    BY <2>1 DEF DisksInv, DisksKept, MemoryTypes, PutsMade, AnswersFit
  <2>. QED BY <1>7, <2>2, SampleStep
<1>8. CASE UNCHANGED daVars
  <2>1. UNCHANGED <<disk, epoch, assigned, writing, responses, made, sampling>>
    BY <1>8 DEF daVars
  <2>2. DisksInv' /\ NothingLost
    BY <2>1 DEF DisksInv, DisksKept, MemoryTypes, PutsMade, AnswersFit, NothingLost
  <2>. QED BY <1>1, <2>1, <2>2
<1>. QED BY <1>2, <1>3, <1>4, <1>5, <1>6, <1>7, <1>8 DEF DANext

LEMMA AvailabilityInit == DAInit => DisksInv /\ SampleInv
<1> SUFFICES ASSUME DAInit PROVE DisksInv /\ SampleInv
  OBVIOUS
<1>1. KeepsMade(Empty, made)
  BY DEF KeepsMade, DiskOf, ShardsMade, RootsMade, Empty
<1>2. DisksKept
  <2>1. disk = [n \in Keepers |-> Empty]
    BY DEF DAInit
  <2>. QED BY <1>1, <2>1 DEF DisksKept
<1>3. MemoryTypes /\ PutsMade /\ AnswersFit
  BY DEF DAInit, MemoryTypes, PutsMade, PutsOne, AnswersFit
<1>4. SampleInv
  BY DEF DAInit, SampleInv, NoClient
<1>. QED BY <1>2, <1>3, <1>4 DEF DisksInv

LEMMA AvailabilityInvariant == DASpec => [](DisksInv /\ SampleInv)
BY AvailabilityInit, AvailabilityNext, PTL DEF DASpec

LEMMA DisksAreMade == DisksInv => ShardsAreCommitted
BY DEF DisksInv, DisksKept, KeepsMade, ShardsMade, ShardsAreCommitted

\* Enough shards were found and are still there; when one batch was made in the epoch they
\* are all of that batch.
LEMMA EnoughIsThere == DisksInv /\ SampleInv => PassedIsDecodable
<1> SUFFICES ASSUME DisksInv, SampleInv, sampling.verdict = "pass", OneBatch(sampling.epoch)
             PROVE  Decodable(sampling.node, sampling.epoch)
  BY DEF PassedIsDecodable
<1> DEFINE d       == disk[sampling.node].shard[sampling.epoch]
           Here(j) == d[j] # Absent
           There   == {j \in sampling.sampled : Here(j)}
           All     == {j \in Ids : Here(j)}
<1>1. /\ sampling.sampled \subseteq Ids /\ sampling.found \in Nat
      /\ sampling.found <= Cardinality(There) /\ 4 * sampling.found >= 3 * SampleSize
      /\ sampling.node \in Keepers /\ sampling.epoch \in Epochs
  BY DEF SampleInv
<1>2. IsFiniteSet(All) /\ There \subseteq All
  <2>1. NumShards - 1 \in Int
    BY DAAssumption
  <2>2. IsFiniteSet(Ids)
    BY <2>1, FS_Interval DEF Ids
  <2>. QED BY <1>1, <2>2, FS_Subset
<1>3. \A j \in All : \E m \in made : m.epoch = sampling.epoch /\ d[j] = [of |-> m.batch, id |-> j]
  BY <1>1, DisksAreMade DEF ShardsAreCommitted
<1> HIDE DEF There, All, Here
<1>4. Cardinality(There) <= Cardinality(All) /\ Cardinality(There) \in Nat /\ Cardinality(All) \in Nat
  BY <1>2, FS_Subset, FS_CardinalityType
<1>5. SampleSize \in Nat /\ DataShards \in Nat /\ DataShards > 0
  BY DAAssumption
<1>6. Cardinality(All) >= DataShards
  BY <1>1, <1>4, <1>5, SamplingAssumption
<1>7. PICK j \in All : TRUE
  BY <1>5, <1>6, FS_EmptySet
<1>8. PICK m \in made : m.epoch = sampling.epoch /\ d[j] = [of |-> m.batch, id |-> j]
  BY <1>3
<1>9. \A i \in All : d[i] = [of |-> m.batch, id |-> i]
  BY <1>3, <1>8 DEF OneBatch
<1>10. KeptOf(sampling.node, sampling.epoch, m.batch) = All
  <2>1. \A b, i : [of |-> b, id |-> i] # Absent
    BY DEF Absent
  <2>. QED BY <1>9, <2>1 DEF KeptOf, All, Here
<1>. QED BY <1>6, <1>8, <1>10 DEF Decodable

-----------------------------------------------------------------------------
(* The locks.  Every operation but /get_network_info takes its locks upwards in one order,  *)
(* and gives back what it takes.                                                            *)

Locks == {"consensus", "ordering", "da_sequencer", "mempool", "block_execution", "dag", "batches",
          "peers", "round_index"}

OpNames == {"idle", "tick", "sync", "tx", "vertex", "da_commit", "getStatus", "getDag",
            "get_network_info"}

\* The order, with "none" below all locks.
LockRank(lock) ==
  CASE lock = "consensus" -> 1
    [] lock \in {"ordering", "da_sequencer", "mempool", "block_execution"} -> 2
    [] lock \in {"dag", "batches", "peers"} -> 3
    [] lock = "round_index" -> 4
    [] OTHER -> 0
Precedes(lock, other) == LockRank(lock) < LockRank(other)

Modes     == {"read", "write"}
LockSteps == [do : {"take", "pass", "drop"}, lock : Locks, mode : Modes]

IsDrop(x, lock, mode) == x.do = "drop" /\ x.lock = lock /\ x.mode = mode

\* What is taken on a path is dropped later on it.
Returned(s) ==
  \A j \in 1..Len(s) : s[j].do = "take" =>
    \E i \in j + 1..Len(s) : IsDrop(s[i], s[j].lock, s[j].mode)

\* What is taken while another is held ranks above it.
Climbs(s) ==
  \A j, i \in 1..Len(s) : j < i /\ s[j].do = "take" /\ s[i].do # "drop" =>
    \/ \E k \in j + 1..i - 1 : IsDrop(s[k], s[j].lock, s[j].mode)
    \/ Precedes(s[j].lock, s[i].lock)

Above(outer, s) == \A i \in 1..Len(s) : s[i].do # "drop" => Precedes(outer, s[i].lock)

\* A path that can be taken under a lock.
Under(outer, s) == s \in Seq(LockSteps) /\ Returned(s) /\ Climbs(s) /\ Above(outer, s)

LEMMA RanksAreNumbers == \A lock : LockRank(lock) \in 0..4
BY DEF LockRank

LEMMA NothingUnder ==
  ASSUME NEW outer
  PROVE  Under(outer, <<>>)
BY DEF Under, Returned, Climbs, Above

LEMMA LockUnder ==
  ASSUME NEW outer, NEW lock \in Locks, Precedes(outer, lock)
  PROVE  Under(outer, Lock(lock))
<1>1. PICK x \in LockSteps : x = Step("pass", lock, "write")
  BY DEF Step, LockSteps, Modes
<1>2. x.do = "pass" /\ x.lock = lock
  BY <1>1 DEF Step
<1>3. Lock(lock) = <<x>>
  BY <1>1 DEF Lock
<1>. QED BY <1>2, <1>3 DEF Under, Returned, Climbs, Above

\* One path after another.
LEMMA ThenUnder ==
  ASSUME NEW outer, NEW a, NEW b, Under(outer, a), Under(outer, b)
  PROVE  Under(outer, a \o b)
<1> DEFINE m == Len(a)  n == Len(b)  s == a \o b
<1>1. a \in Seq(LockSteps) /\ b \in Seq(LockSteps)
  BY DEF Under
<1>2. m \in Nat /\ n \in Nat /\ s \in Seq(LockSteps) /\ Len(s) = m + n
  BY <1>1
<1>3. \A i \in 1..m : s[i] = a[i]
  BY <1>1
<1>4. \A i \in 1..n : s[m + i] = b[i]
  BY <1>1
<1>5. \A i \in 1..m + n : i \in 1..m \/ \E j \in 1..n : i = m + j
  <2> SUFFICES ASSUME NEW i \in 1..m + n, i \notin 1..m PROVE \E j \in 1..n : i = m + j
    OBVIOUS
  <2>1. i - m \in 1..n /\ i = m + (i - m)
    BY <1>2
  <2>. QED BY <2>1
<1> HIDE DEF m, n, s
<1>6. Returned(s)
  <2> SUFFICES ASSUME NEW j \in 1..m + n, s[j].do = "take"
               PROVE  \E i \in j + 1..m + n : IsDrop(s[i], s[j].lock, s[j].mode)
    BY <1>2 DEF Returned
  <2>1. CASE j \in 1..m
    <3>1. PICK i \in j + 1..m : IsDrop(a[i], a[j].lock, a[j].mode)
      BY <1>3, <2>1 DEF Under, Returned, m
    <3>2. i \in 1..m /\ i \in j + 1..m + n
      BY <1>2, <2>1
    <3>. QED BY <1>3, <2>1, <3>1, <3>2
  <2>2. ASSUME NEW l \in 1..n, j = m + l PROVE \E i \in j + 1..m + n : IsDrop(s[i], s[j].lock, s[j].mode)
    <3>1. PICK k \in l + 1..n : IsDrop(b[k], b[l].lock, b[l].mode)
      BY <1>4, <2>2 DEF Under, Returned, n
    <3>2. k \in 1..n /\ m + k \in j + 1..m + n
      BY <1>2, <2>2
    <3>3. IsDrop(s[m + k], s[j].lock, s[j].mode)
      BY <1>4, <2>2, <3>1, <3>2
    <3>. QED BY <3>2, <3>3
  <2>. QED BY <1>5, <2>1, <2>2
<1>7. Climbs(s)
  <2> SUFFICES ASSUME NEW j \in 1..m + n, NEW i \in 1..m + n, j < i, s[j].do = "take", s[i].do # "drop"
               PROVE  \/ \E k \in j + 1..i - 1 : IsDrop(s[k], s[j].lock, s[j].mode)
                      \/ Precedes(s[j].lock, s[i].lock)
    BY <1>2 DEF Climbs
  <2>1. CASE j \in 1..m /\ i \in 1..m
    <3>1. \/ \E k \in j + 1..i - 1 : IsDrop(a[k], a[j].lock, a[j].mode)
          \/ Precedes(a[j].lock, a[i].lock)
      BY <1>3, <2>1 DEF Under, Climbs, m
    <3>2. \A k \in j + 1..i - 1 : k \in 1..m
      BY <1>2, <2>1
    <3>. QED BY <1>3, <2>1, <3>1, <3>2
  <2>2. ASSUME j \in 1..m, NEW l \in 1..n, i = m + l
        PROVE  \E k \in j + 1..i - 1 : IsDrop(s[k], s[j].lock, s[j].mode)
    <3>1. PICK k \in j + 1..m : IsDrop(a[k], a[j].lock, a[j].mode)
      BY <1>3, <2>2 DEF Under, Returned, m
    <3>2. k \in 1..m /\ k \in j + 1..i - 1
      BY <1>2, <2>2
    <3>. QED BY <1>3, <2>2, <3>1, <3>2
  <2>3. ASSUME NEW l \in 1..n, j = m + l, NEW q \in 1..n, i = m + q
        PROVE  \/ \E k \in j + 1..i - 1 : IsDrop(s[k], s[j].lock, s[j].mode)
               \/ Precedes(s[j].lock, s[i].lock)
    <3>1. l < q /\ s[j] = b[l] /\ s[i] = b[q]
      BY <1>2, <1>4, <2>3
    <3>2. \/ \E k \in l + 1..q - 1 : IsDrop(b[k], b[l].lock, b[l].mode)
          \/ Precedes(b[l].lock, b[q].lock)
      BY <3>1 DEF Under, Climbs, n
    <3>3. ASSUME NEW k \in l + 1..q - 1, IsDrop(b[k], b[l].lock, b[l].mode)
          PROVE  \E e \in j + 1..i - 1 : IsDrop(s[e], s[j].lock, s[j].mode)
      <4>1. k \in 1..n /\ m + k \in j + 1..i - 1
        BY <1>2, <2>3
      <4>2. IsDrop(s[m + k], s[j].lock, s[j].mode)
        BY <1>4, <3>1, <3>3, <4>1
      <4>. QED BY <4>1, <4>2
    <3>. QED BY <3>1, <3>2, <3>3
  <2>4. CASE i \in 1..m /\ j \notin 1..m
    BY <1>2, <2>4
  <2>. QED BY <1>5, <2>1, <2>2, <2>3, <2>4
<1>8. Above(outer, s)
  <2> SUFFICES ASSUME NEW i \in 1..m + n, s[i].do # "drop" PROVE Precedes(outer, s[i].lock)
    BY <1>2 DEF Above
  <2>1. CASE i \in 1..m
    BY <1>3, <2>1 DEF Under, Above, m
  <2>2. ASSUME NEW l \in 1..n, i = m + l PROVE Precedes(outer, s[i].lock)
    BY <1>4, <2>2 DEF Under, Above, n
  <2>. QED BY <1>5, <2>1, <2>2
<1>. QED BY <1>2, <1>6, <1>7, <1>8 DEF Under, s

\* The steps of Within.
Wraps(s, lock, mode, b) ==
  /\ s \in Seq(LockSteps) /\ Len(b) \in Nat /\ Len(s) = Len(b) + 2
  /\ s[1] = Step("take", lock, mode) /\ s[Len(b) + 2] = Step("drop", lock, mode)
  /\ \A i \in 1..Len(b) : s[i + 1] = b[i]

LEMMA WithinSteps ==
  ASSUME NEW lock \in Locks, NEW mode \in Modes, NEW b \in Seq(LockSteps)
  PROVE  Wraps(Within(lock, mode, b), lock, mode, b)
<1> DEFINE s == Within(lock, mode, b)  n == Len(b)
<1>1. PICK x \in LockSteps : x = Step("take", lock, mode)
  BY DEF Step, LockSteps
<1>2. PICK y \in LockSteps : y = Step("drop", lock, mode)
  BY DEF Step, LockSteps
<1>3. s = (<<x>> \o b) \o <<y>>
  BY <1>1, <1>2 DEF Within
<1>4. PICK a \in Seq(LockSteps) : a = <<x>> \o b
  <2>1. <<x>> \in Seq(LockSteps)
    OBVIOUS
  <2>2. <<x>> \o b \in Seq(LockSteps)
    BY <2>1
  <2>. QED BY <2>2
<1>5. n \in Nat /\ Len(a) = n + 1 /\ a[1] = x /\ \A i \in 1..n : a[i + 1] = b[i]
  BY <1>4
<1>6. /\ s \in Seq(LockSteps) /\ Len(s) = (n + 1) + 1 /\ s[(n + 1) + 1] = y
      /\ \A i \in 1..n + 1 : s[i] = a[i]
  BY <1>3, <1>4, <1>5
<1> HIDE DEF s, n
<1>7. 1 \in 1..n + 1 /\ (\A i \in 1..n : i + 1 \in 1..n + 1) /\ (n + 1) + 1 = n + 2
  BY <1>5
<1>8. \A i \in 1..n : s[i + 1] = b[i]
  BY <1>5, <1>6, <1>7
<1>. QED BY <1>1, <1>2, <1>5, <1>6, <1>7, <1>8 DEF Wraps, s, n

LEMMA WithinReturned ==
  ASSUME NEW lock \in Locks, NEW mode \in Modes, NEW b \in Seq(LockSteps), Returned(b)
  PROVE  Within(lock, mode, b) \in Seq(LockSteps) /\ Returned(Within(lock, mode, b))
<1>1. PICK s : s = Within(lock, mode, b)
  OBVIOUS
<1>2. PICK n : n = Len(b)
  OBVIOUS
<1>3. /\ n \in Nat /\ s \in Seq(LockSteps) /\ Len(s) = n + 2
      /\ s[1] = Step("take", lock, mode) /\ s[n + 2] = Step("drop", lock, mode)
      /\ \A i \in 1..n : s[i + 1] = b[i]
  BY <1>1, <1>2, WithinSteps DEF Wraps
<1>4. ASSUME NEW j \in 1..n + 2, s[j].do = "take"
      PROVE  \E i \in j + 1..n + 2 : IsDrop(s[i], s[j].lock, s[j].mode)
  <2>1. CASE j = 1
    <3>1. n + 2 \in j + 1..n + 2
      BY <1>3, <2>1
    <3>2. IsDrop(s[n + 2], s[1].lock, s[1].mode)
      BY <1>3 DEF Step, IsDrop
    <3>. QED BY <2>1, <3>1, <3>2
  <2>2. CASE j = n + 2
    BY <1>3, <1>4, <2>2 DEF Step
  <2>3. CASE j # 1 /\ j # n + 2
    <3>1. PICK l \in 1..n : j = l + 1
      <4>1. j - 1 \in 1..n /\ j = (j - 1) + 1
        BY <1>3, <2>3
      <4>. QED BY <4>1
    <3>2. PICK k \in l + 1..n : IsDrop(b[k], b[l].lock, b[l].mode)
      BY <1>2, <1>3, <1>4, <3>1 DEF Returned
    <3>3. k \in 1..n /\ k + 1 \in j + 1..n + 2
      BY <1>3, <3>1
    <3>4. IsDrop(s[k + 1], s[j].lock, s[j].mode)
      BY <1>3, <3>1, <3>2, <3>3
    <3>. QED BY <3>3, <3>4
  <2>. QED BY <2>1, <2>2, <2>3
<1>. QED BY <1>1, <1>3, <1>4 DEF Returned

\* A path under a lock that ranks below all of it.
LEMMA WithinUnder ==
  ASSUME NEW outer, NEW lock \in Locks, NEW mode \in Modes, NEW b,
         Precedes(outer, lock), Under(lock, b)
  PROVE  Under(outer, Within(lock, mode, b))
<1>1. PICK s : s = Within(lock, mode, b)
  OBVIOUS
<1>2. PICK n : n = Len(b)
  OBVIOUS
<1>3. b \in Seq(LockSteps) /\ Returned(b) /\ Climbs(b) /\ Above(lock, b)
  BY DEF Under
<1>4. /\ n \in Nat /\ s \in Seq(LockSteps) /\ Len(s) = n + 2
      /\ s[1] = Step("take", lock, mode) /\ s[n + 2] = Step("drop", lock, mode)
      /\ \A i \in 1..n : s[i + 1] = b[i]
  BY <1>1, <1>2, <1>3, WithinSteps DEF Wraps
<1>5. Returned(s)
  BY <1>1, <1>3, WithinReturned
<1>6. s[1].lock = lock /\ s[n + 2].do = "drop"
  BY <1>4 DEF Step
<1>7. \A i \in 1..n + 2 : i # 1 /\ i # n + 2 => \E l \in 1..n : i = l + 1
  <2> SUFFICES ASSUME NEW i \in 1..n + 2, i # 1, i # n + 2 PROVE \E l \in 1..n : i = l + 1
    OBVIOUS
  <2>1. i - 1 \in 1..n /\ i = (i - 1) + 1
    BY <1>4
  <2>. QED BY <2>1
<1>8. \A l \in 1..n : b[l].do # "drop" => Precedes(lock, b[l].lock)
  BY <1>2, <1>3 DEF Above
<1>9. Climbs(s)
  <2> SUFFICES ASSUME NEW j \in 1..n + 2, NEW i \in 1..n + 2, j < i, s[j].do = "take", s[i].do # "drop"
               PROVE  \/ \E k \in j + 1..i - 1 : IsDrop(s[k], s[j].lock, s[j].mode)
                      \/ Precedes(s[j].lock, s[i].lock)
    BY <1>4 DEF Climbs
  <2>1. PICK q \in 1..n : i = q + 1
    <3>1. i # 1 /\ i # n + 2
      BY <1>4, <1>6
    <3>. QED BY <1>7, <3>1
  <2>2. s[i] = b[q]
    BY <1>4, <2>1
  <2>3. CASE j = 1
    BY <1>6, <1>8, <2>2, <2>3
  <2>4. CASE j # 1
    <3>1. PICK l \in 1..n : j = l + 1
      <4>1. j # n + 2
        BY <1>4
      <4>. QED BY <1>7, <2>4, <4>1
    <3>2. l < q /\ s[j] = b[l]
      BY <1>4, <2>1, <3>1
    <3>3. \/ \E k \in l + 1..q - 1 : IsDrop(b[k], b[l].lock, b[l].mode)
          \/ Precedes(b[l].lock, b[q].lock)
      BY <1>2, <1>3, <2>2, <3>2 DEF Climbs
    <3>4. ASSUME NEW k \in l + 1..q - 1, IsDrop(b[k], b[l].lock, b[l].mode)
          PROVE  \E e \in j + 1..i - 1 : IsDrop(s[e], s[j].lock, s[j].mode)
      <4>1. k \in 1..n /\ k + 1 \in j + 1..i - 1
        BY <1>4, <2>1, <3>1
      <4>2. IsDrop(s[k + 1], s[j].lock, s[j].mode)
        BY <1>4, <3>2, <3>4, <4>1
      <4>. QED BY <4>1, <4>2
    <3>. QED BY <2>2, <3>2, <3>3, <3>4
  <2>. QED BY <2>3, <2>4
<1>10. Above(outer, s)
  <2> SUFFICES ASSUME NEW i \in 1..n + 2, s[i].do # "drop" PROVE Precedes(outer, s[i].lock)
    BY <1>4 DEF Above
  <2>1. CASE i = 1
    BY <1>6, <2>1
  <2>2. CASE i # 1
    <3>1. PICK l \in 1..n : i = l + 1
      BY <1>6, <1>7, <2>2
    <3>2. Precedes(lock, s[i].lock)
      BY <1>4, <1>8, <3>1
    <3>. QED BY <3>2, RanksAreNumbers DEF Precedes
  <2>. QED BY <2>1, <2>2
<1>. QED BY <1>1, <1>4, <1>5, <1>9, <1>10 DEF Under

\* Every operation gives back what it takes, and all but /get_network_info climb.
LEMMA OperationsClimb ==
  ASSUME NEW t \in Threads, NEW o \in Operations(t)
  PROVE  /\ o[1] \in OpNames \ {"idle"} /\ o[2] \in Seq(LockSteps) /\ Returned(o[2])
         /\ o[1] # "get_network_info" => Climbs(o[2])
<1>1. /\ Locks = {"consensus", "ordering", "da_sequencer", "mempool", "block_execution", "dag",
                  "batches", "peers", "round_index"}
      /\ "read" \in Modes /\ "write" \in Modes
  BY DEF Locks, Modes
<1>2. /\ \A lock \in Locks : Precedes("none", lock)
      /\ \A lock \in Locks \ {"consensus"} : Precedes("consensus", lock)
      /\ Precedes("ordering", "dag") /\ Precedes("dag", "round_index")
      /\ Precedes("da_sequencer", "batches") /\ Precedes("da_sequencer", "peers")
  BY DEF Locks, Precedes, LockRank
<1>3. /\ {"tick", "sync", "tx", "vertex", "da_commit", "getStatus", "getDag"}
        \subseteq OpNames \ {"idle"}
      /\ "get_network_info" \in OpNames \ {"idle"}
  BY DEF OpNames
<1> HIDE DEF Locks
<1>4. Under("consensus", DagAndIndex) /\ Under("ordering", DagAndIndex)
  <2>1. Under("dag", Lock("round_index"))
    BY <1>1, <1>2, LockUnder
  <2>. QED BY <1>1, <1>2, <2>1, WithinUnder DEF DagAndIndex, Hold
<1>5. Under("consensus", PublishBatch)
  <2>1. Under("da_sequencer", Lock("batches")) /\ Under("da_sequencer", Lock("peers"))
    BY <1>1, <1>2, LockUnder
  <2>2. Under("da_sequencer", Lock("batches") \o Lock("peers"))
    BY <2>1, ThenUnder
  <2>. QED BY <1>1, <1>2, <2>2, WithinUnder DEF PublishBatch, Hold
<1>6. /\ Under("consensus", Lock("dag")) /\ Under("consensus", Lock("block_execution")) /\ Under("consensus", Lock("ordering"))
      /\ Under("consensus", Lock("peers")) /\ Under("consensus", Lock("mempool")) /\ Under("consensus", Lock("round_index"))
  BY <1>1, <1>2, LockUnder
<1>7. Under("consensus", ExecuteCommitted) /\ Under("consensus", Maintain)
  <2>1. Under("consensus", Lock("dag") \o Lock("block_execution")) /\ Under("consensus", Lock("ordering") \o DagAndIndex)
    BY <1>4, <1>6, ThenUnder
  <2>. QED BY <1>5, <1>6, <2>1, ThenUnder DEF ExecuteCommitted, Maintain
<1>8. \A v \in AddVertex : Under("consensus", v)
  <2> DEFINE stored == DagAndIndex \o Hold("ordering", DagAndIndex)
             committed == stored \o ExecuteCommitted
  <2>1. Under("consensus", Hold("ordering", DagAndIndex))
    BY <1>1, <1>2, <1>4, WithinUnder DEF Hold
  <2>2. Under("consensus", stored)
    BY <1>4, <2>1, ThenUnder
  <2> HIDE DEF stored
  <2>3. Under("consensus", committed)
    BY <1>7, <2>2, ThenUnder
  <2> HIDE DEF committed
  <2>4. Under("consensus", committed \o Maintain)
    BY <1>7, <2>3, ThenUnder
  <2>5. AddVertex = {DagAndIndex, stored, committed, committed \o Maintain}
    BY DEF AddVertex, stored, committed
  <2>. QED BY <1>4, <2>2, <2>3, <2>4, <2>5
<1>9. \A v \in TryCreateVertex : Under("consensus", v)
  <2> DEFINE look == Lock("round_index") \o Lock("peers")
  <2>1. Under("consensus", look)
    BY <1>6, ThenUnder
  <2> HIDE DEF look
  <2>2. Under("consensus", look \o Lock("mempool"))
    BY <1>6, <2>1, ThenUnder
  <2>3. ASSUME NEW v \in AddVertex PROVE Under("consensus", ((look \o Lock("mempool")) \o v) \o Lock("peers"))
    <3>1. Under("consensus", (look \o Lock("mempool")) \o v)
      BY <1>8, <2>2, ThenUnder
    <3>. QED BY <1>6, <3>1, ThenUnder
  <2>. QED BY <2>1, <2>3 DEF TryCreateVertex, look
<1> DEFINE Shown(e) == /\ e[1] \in OpNames \ {"idle"} /\ e[2] \in Seq(LockSteps) /\ Returned(e[2])
                       /\ e[1] # "get_network_info" => Climbs(e[2])
<1>10. ASSUME NEW name \in OpNames \ {"idle"}, NEW x, Under("none", x) PROVE Shown(<<name, x>>)
  <2>1. <<name, x>>[1] = name /\ <<name, x>>[2] = x
    OBVIOUS
  <2>. QED BY <1>10, <2>1 DEF Under
<1> HIDE DEF Shown
<1>11. ASSUME t = "ticker" PROVE Shown(o)
  <2>1. o \in Named("tick", {Hold("consensus", v) : v \in TryCreateVertex})
    BY <1>11, ThreadsAssumption DEF Operations
  <2>2. PICK v \in TryCreateVertex : o = <<"tick", Hold("consensus", v)>>
    BY <2>1 DEF Named
  <2>3. Under("none", Hold("consensus", v))
    BY <1>1, <1>2, <1>9, WithinUnder DEF Hold
  <2>. QED BY <1>10, <1>3, <2>2, <2>3
<1>12. ASSUME t = "sync" PROVE Shown(o)
  <2>1. o \in SyncFromPeers
    BY <1>12, ThreadsAssumption DEF Operations
  <2>2. PICK reload \in {<<>>, Lock("consensus")} :
          o = <<"sync", (Lock("peers") \o Lock("block_execution")) \o reload>>
    BY <2>1 DEF SyncFromPeers, Named
  <2>3. /\ Under("none", Lock("peers")) /\ Under("none", Lock("block_execution")) /\ Under("none", Lock("consensus"))
        /\ Under("none", <<>>)
    BY <1>1, <1>2, LockUnder, NothingUnder
  <2>4. Under("none", Lock("peers") \o Lock("block_execution"))
    BY <2>3, ThenUnder
  <2>5. Under("none", reload)
    BY <2>3
  <2>6. Under("none", (Lock("peers") \o Lock("block_execution")) \o reload)
    BY <2>4, <2>5, ThenUnder
  <2>. QED BY <1>10, <1>3, <2>2, <2>6
<1>13. ASSUME t \in Readers PROVE Shown(o)
  <2>1. o \in HandleMessage
    BY <1>13, ThreadsAssumption DEF Operations
  <2>2. \/ o = <<"tx", Within("consensus", "read", Lock("mempool"))>>
        \/ \E v \in AddVertex : o = <<"vertex", Hold("consensus", v)>>
        \/ o = <<"da_commit", Hold("da_sequencer", Lock("batches"))>>
    BY <2>1 DEF HandleMessage, Named
  <2>3. \A v \in AddVertex : Under("none", Hold("consensus", v))
    BY <1>1, <1>2, <1>8, WithinUnder DEF Hold
  <2>4. Under("none", Within("consensus", "read", Lock("mempool")))
    BY <1>1, <1>2, <1>6, WithinUnder
  <2>5. Under("none", Hold("da_sequencer", Lock("batches")))
    <3>1. Under("da_sequencer", Lock("batches"))
      BY <1>1, <1>2, LockUnder
    <3>. QED BY <1>1, <1>2, <3>1, WithinUnder DEF Hold
  <2>. QED BY <1>10, <1>3, <2>2, <2>3, <2>4, <2>5
<1>14. ASSUME t \in Workers PROVE Shown(o)
  <2>1. o \in Requests
    BY <1>14, ThreadsAssumption DEF Operations
  <2>2. \/ o = <<"getStatus", Within("consensus", "read", Lock("peers"))>>
        \/ o = <<"getDag", Within("consensus", "read", Lock("dag"))>>
        \/ o = <<"get_network_info", Hold("peers", Within("consensus", "read", <<>>))>>
    BY <2>1 DEF Requests, Named
  <2>3. /\ Under("none", Within("consensus", "read", Lock("peers")))
        /\ Under("none", Within("consensus", "read", Lock("dag")))
    BY <1>1, <1>2, <1>6, WithinUnder
  <2>4. PICK w : w = Within("consensus", "read", <<>>)
    OBVIOUS
  <2>5. w \in Seq(LockSteps) /\ Returned(w)
    <3>1. Under("none", <<>>)
      BY NothingUnder
    <3>2. <<>> \in Seq(LockSteps) /\ Returned(<<>>)
      BY <3>1 DEF Under
    <3>. QED BY <1>1, <2>4, <3>2, WithinReturned
  <2>6. Hold("peers", w) \in Seq(LockSteps) /\ Returned(Hold("peers", w))
    BY <1>1, <2>5, WithinReturned DEF Hold
  <2>7. Shown(<<"get_network_info", Hold("peers", w)>>)
    <3>1. PICK x : x = Hold("peers", w)
      OBVIOUS
    <3>2. <<"get_network_info", x>>[1] = "get_network_info" /\ <<"get_network_info", x>>[2] = x
      OBVIOUS
    <3>. QED BY <1>3, <2>6, <3>1, <3>2 DEF Shown
  <2>. QED BY <1>10, <1>3, <2>2, <2>3, <2>4, <2>7
<1>15. Shown(o)
  BY <1>11, <1>12, <1>13, <1>14 DEF Threads
<1>. QED BY <1>15 DEF Shown

\* What a thread holds it has still to drop.
ToReturn(h, s) == \A p \in h : \E i \in 1..Len(s) : IsDrop(s[i], p[1], p[2])

\* What it takes while it holds a lock ranks above that one.
Below(h, s) ==
  \A p \in h, i \in 1..Len(s) : s[i].do # "drop" =>
    \/ \E k \in 1..i - 1 : IsDrop(s[k], p[1], p[2])
    \/ Precedes(p[1], s[i].lock)

HeldLocks == SUBSET (Locks \X Modes)

ThreadInv(o, s, h) ==
  /\ o \in OpNames /\ s \in Seq(LockSteps) /\ h \in HeldLocks
  /\ o = "idle" => s = <<>>
  /\ Returned(s) /\ ToReturn(h, s)
  /\ o # "get_network_info" => Climbs(s) /\ Below(h, s)

LocksInv ==
  /\ op \in [Threads -> OpNames] /\ todo \in [Threads -> Seq(LockSteps)]
  /\ held \in [Threads -> HeldLocks]
  /\ \A t \in Threads : ThreadInv(op[t], todo[t], held[t])

\* One step of a path, and what is left of it.
LEMMA RestOfPath ==
  ASSUME NEW s \in Seq(LockSteps), s # <<>>
  PROVE  /\ Head(s) = s[1] /\ s[1] \in LockSteps /\ Len(s) \in Nat /\ Len(s) # 0
         /\ Tail(s) \in Seq(LockSteps) /\ Len(Tail(s)) = Len(s) - 1
         /\ \A i \in 1..Len(s) - 1 : Tail(s)[i] = s[i + 1]
  OBVIOUS

LEMMA RestClimbs ==
  ASSUME NEW s \in Seq(LockSteps), s # <<>>
  PROVE  /\ Returned(s) => Returned(Tail(s))
         /\ Climbs(s) => Climbs(Tail(s))
<1> DEFINE n == Len(s)
<1>1. PICK r : r = Tail(s)
  OBVIOUS
<1>2. n \in Nat /\ n # 0 /\ Len(r) = n - 1 /\ \A i \in 1..n - 1 : r[i] = s[i + 1]
  BY <1>1, RestOfPath
<1> HIDE DEF n
<1>3. \A i \in 1..n - 1 : i + 1 \in 1..n
  BY <1>2
<1>4. ASSUME NEW j \in 1..n - 1, NEW e, NEW k \in (j + 1) + 1..e, e \in 1..n, NEW lock, NEW mode,
             IsDrop(s[k], lock, mode)
      PROVE  \E i \in j + 1..e - 1 : IsDrop(r[i], lock, mode)
  <2>1. k - 1 \in j + 1..e - 1 /\ k - 1 \in 1..n - 1 /\ (k - 1) + 1 = k
    BY <1>2, <1>4
  <2>. QED BY <1>2, <1>4, <2>1
<1>5. ASSUME Returned(s) PROVE Returned(r)
  <2> SUFFICES ASSUME NEW j \in 1..n - 1, r[j].do = "take"
               PROVE  \E i \in j + 1..n - 1 : IsDrop(r[i], r[j].lock, r[j].mode)
    BY <1>2 DEF Returned
  <2>1. j + 1 \in 1..n /\ r[j] = s[j + 1] /\ n \in 1..n
    BY <1>2, <1>3
  <2>2. PICK k \in (j + 1) + 1..n : IsDrop(s[k], s[j + 1].lock, s[j + 1].mode)
    BY <1>5, <2>1 DEF Returned, n
  <2>. QED BY <1>4, <2>1, <2>2
<1>6. ASSUME Climbs(s) PROVE Climbs(r)
  <2> SUFFICES ASSUME NEW j \in 1..n - 1, NEW i \in 1..n - 1, j < i, r[j].do = "take", r[i].do # "drop"
               PROVE  \/ \E k \in j + 1..i - 1 : IsDrop(r[k], r[j].lock, r[j].mode)
                      \/ Precedes(r[j].lock, r[i].lock)
    BY <1>2 DEF Climbs
  <2>1. /\ j + 1 \in 1..n /\ r[j] = s[j + 1] /\ i + 1 \in 1..n /\ r[i] = s[i + 1] /\ j + 1 < i + 1
        /\ (i + 1) - 1 = i /\ i \in 1..n
    BY <1>2, <1>3
  <2>2. \/ \E k \in (j + 1) + 1..i : IsDrop(s[k], s[j + 1].lock, s[j + 1].mode)
        \/ Precedes(s[j + 1].lock, s[i + 1].lock)
    BY <1>6, <2>1 DEF Climbs, n
  <2>3. CASE \E k \in (j + 1) + 1..i : IsDrop(s[k], s[j + 1].lock, s[j + 1].mode)
    BY <1>4, <2>1, <2>3
  <2>. QED BY <2>1, <2>2, <2>3
<1>. QED BY <1>1, <1>5, <1>6

\* What is held stays below the rest unless the first step drops it.
LEMMA RestIsAbove ==
  ASSUME NEW s \in Seq(LockSteps), s # <<>>, NEW h, NEW g \in SUBSET h,
         \A p \in g : ~IsDrop(s[1], p[1], p[2])
  PROVE  /\ ToReturn(h, s) => ToReturn(g, Tail(s))
         /\ Below(h, s) => Below(g, Tail(s))
<1> DEFINE n == Len(s)
<1>1. PICK r : r = Tail(s)
  OBVIOUS
<1>2. n \in Nat /\ n # 0 /\ Len(r) = n - 1 /\ \A i \in 1..n - 1 : r[i] = s[i + 1]
  BY <1>1, RestOfPath
<1> HIDE DEF n
<1>3. ASSUME NEW p \in g, NEW e \in 1..n, NEW k \in 1..e, IsDrop(s[k], p[1], p[2])
      PROVE  \E i \in 1..e - 1 : IsDrop(r[i], p[1], p[2])
  <2>1. k # 1
    BY <1>3
  <2>2. k - 1 \in 1..e - 1 /\ k - 1 \in 1..n - 1 /\ (k - 1) + 1 = k
    BY <1>2, <2>1
  <2>. QED BY <1>2, <1>3, <2>2
<1>4. ASSUME ToReturn(h, s) PROVE ToReturn(g, r)
  <2> SUFFICES ASSUME NEW p \in g PROVE \E i \in 1..n - 1 : IsDrop(r[i], p[1], p[2])
    BY <1>2 DEF ToReturn
  <2>1. PICK k \in 1..n : IsDrop(s[k], p[1], p[2])
    BY <1>4 DEF ToReturn, n
  <2>2. n \in 1..n
    BY <1>2
  <2>. QED BY <1>3, <2>1, <2>2
<1>5. ASSUME Below(h, s) PROVE Below(g, r)
  <2> SUFFICES ASSUME NEW p \in g, NEW i \in 1..n - 1, r[i].do # "drop"
               PROVE  \/ \E k \in 1..i - 1 : IsDrop(r[k], p[1], p[2])
                      \/ Precedes(p[1], r[i].lock)
    BY <1>2 DEF Below
  <2>1. i + 1 \in 1..n /\ r[i] = s[i + 1] /\ (i + 1) - 1 = i /\ i \in 1..n
    BY <1>2
  <2>2. \/ \E k \in 1..i : IsDrop(s[k], p[1], p[2])
        \/ Precedes(p[1], s[i + 1].lock)
    BY <1>5, <2>1 DEF Below, n
  <2>. QED BY <1>3, <2>1, <2>2
<1>. QED BY <1>1, <1>4, <1>5

\* A thread takes one step of its path, and is idle after the last.
LEMMA PathStep ==
  ASSUME NEW o, NEW s \in Seq(LockSteps), s # <<>>, NEW h \in HeldLocks, ThreadInv(o, s, h),
         NEW g \in SUBSET h, \A p \in g : ~IsDrop(s[1], p[1], p[2])
  PROVE  ThreadInv(IF Tail(s) = <<>> THEN "idle" ELSE o, Tail(s), g)
<1>1. PICK q : q = IF Tail(s) = <<>> THEN "idle" ELSE o
  OBVIOUS
<1>2. /\ o \in OpNames /\ Returned(s) /\ ToReturn(h, s)
      /\ o # "get_network_info" => Climbs(s) /\ Below(h, s)
  BY DEF ThreadInv
<1>3. PICK r : r = Tail(s)
  OBVIOUS
<1>4. r \in Seq(LockSteps) /\ Returned(r) /\ ToReturn(g, r) /\ g \in HeldLocks
  BY <1>2, <1>3, RestOfPath, RestClimbs, RestIsAbove DEF HeldLocks
<1>5. "idle" \in OpNames /\ "idle" # "get_network_info"
  BY DEF OpNames
<1>6. q \in OpNames
  BY <1>1, <1>2, <1>5
<1>7. Climbs(<<>>) /\ Below(g, <<>>)
  BY DEF Climbs, Below
<1>8. ASSUME q # "get_network_info" PROVE Climbs(r) /\ Below(g, r)
  <2>1. CASE r = <<>>
    BY <1>7, <2>1
  <2>2. CASE r # <<>>
    <3>1. o # "get_network_info"
      BY <1>1, <1>3, <1>8, <2>2
    <3>. QED BY <1>2, <1>3, <3>1, RestClimbs, RestIsAbove
  <2>. QED BY <2>1, <2>2
<1>9. q = "idle" => r = <<>>
  <2>1. o = "idle" => s = <<>>
    BY DEF ThreadInv
  <2>. QED BY <1>1, <1>3, <2>1
<1>. QED BY <1>1, <1>3, <1>4, <1>6, <1>8, <1>9 DEF ThreadInv

\* It takes a lock: what it holds ranks below, and the path gives the lock back.
LEMMA PathTakes ==
  ASSUME NEW o, NEW s \in Seq(LockSteps), s # <<>>, NEW h \in HeldLocks, ThreadInv(o, s, h),
         s[1].do = "take"
  PROVE  ThreadInv(IF Tail(s) = <<>> THEN "idle" ELSE o, Tail(s), h \cup {<<s[1].lock, s[1].mode>>})
<1>1. PICK q : q = IF Tail(s) = <<>> THEN "idle" ELSE o
  OBVIOUS
<1>2. PICK r : r = Tail(s)
  OBVIOUS
<1>3. PICK x : x = s[1]
  OBVIOUS
<1>4. PICK z : z = <<x.lock, x.mode>>
  OBVIOUS
<1>5. x \in LockSteps /\ x.do = "take" /\ z[1] = x.lock /\ z[2] = x.mode
  BY <1>3, <1>4, RestOfPath
<1>6. z \in Locks \X Modes
  BY <1>4, <1>5 DEF LockSteps
<1>7. ThreadInv(q, r, h)
  <2>1. \A p \in h : ~IsDrop(s[1], p[1], p[2])
    BY <1>3, <1>5 DEF IsDrop
  <2>. QED BY <1>1, <1>2, <2>1, PathStep
<1>8. PICK n : n = Len(s)
  OBVIOUS
<1>9. n \in Nat /\ n # 0 /\ Len(r) = n - 1 /\ \A i \in 1..n - 1 : r[i] = s[i + 1]
  BY <1>2, <1>8, RestOfPath
<1>10. 1 \in 1..n
  BY <1>9
<1>11. ASSUME NEW e \in 1..n, NEW k \in 1 + 1..e, IsDrop(s[k], z[1], z[2])
       PROVE  \E i \in 1..e - 1 : IsDrop(r[i], z[1], z[2])
  <2>1. k - 1 \in 1..e - 1 /\ k - 1 \in 1..n - 1 /\ (k - 1) + 1 = k
    BY <1>9, <1>11
  <2>. QED BY <1>9, <1>11, <2>1
<1>12. \E i \in 1..n - 1 : IsDrop(r[i], z[1], z[2])
  <2>1. PICK k \in 1 + 1..n : IsDrop(s[k], z[1], z[2])
    <3>1. Returned(s)
      BY DEF ThreadInv
    <3>. QED BY <1>3, <1>5, <1>8, <1>10, <3>1 DEF Returned
  <2>2. n \in 1..n
    BY <1>9
  <2>. QED BY <1>11, <2>1, <2>2
<1>13. ToReturn(h \cup {z}, r)
  <2>1. ToReturn(h, r)
    BY <1>7 DEF ThreadInv
  <2>. QED BY <1>9, <1>12, <2>1 DEF ToReturn
<1>14. ASSUME q # "get_network_info" PROVE Below(h \cup {z}, r)
  <2>1. Below(h, r)
    BY <1>7, <1>14 DEF ThreadInv
  <2>2. ASSUME NEW i \in 1..n - 1, r[i].do # "drop"
        PROVE  \/ \E k \in 1..i - 1 : IsDrop(r[k], z[1], z[2])
               \/ Precedes(z[1], r[i].lock)
    <3>1. i + 1 \in 1..n /\ r[i] = s[i + 1] /\ (i + 1) - 1 = i /\ i \in 1..n /\ 1 < i + 1
      BY <1>9
    <3>2. Climbs(s)
      <4>1. o # "get_network_info"
        <5>1. r # <<>>
          BY <1>9
        <5>. QED BY <1>1, <1>2, <1>14, <5>1
      <4>. QED BY <4>1 DEF ThreadInv
    <3>3. \/ \E k \in 1 + 1..i : IsDrop(s[k], z[1], z[2])
          \/ Precedes(z[1], s[i + 1].lock)
      BY <1>3, <1>5, <1>8, <1>10, <2>2, <3>1, <3>2 DEF Climbs
    <3>. QED BY <1>11, <3>1, <3>3
  <2>. QED BY <1>9, <2>1, <2>2 DEF Below
<1>15. h \cup {z} \in HeldLocks
  BY <1>6 DEF HeldLocks
<1>16. ThreadInv(q, r, h \cup {z})
  BY <1>7, <1>13, <1>14, <1>15 DEF ThreadInv
<1>. QED BY <1>1, <1>2, <1>3, <1>4, <1>16

\* An idle thread holds nothing, and begins an operation.
LEMMA PathBegins ==
  ASSUME NEW s, NEW h, ThreadInv("idle", s, h), NEW t \in Threads, NEW o \in Operations(t)
  PROVE  ThreadInv(o[1], o[2], h)
<1>1. Len(s) = 0 /\ ToReturn(h, s) /\ h \in HeldLocks
  BY DEF ThreadInv
<1>2. h = {}
  BY <1>1 DEF ToReturn
<1>3. ToReturn(h, o[2]) /\ Below(h, o[2])
  BY <1>2 DEF ToReturn, Below
<1>4. o[1] \in OpNames /\ o[1] # "idle"
  BY OperationsClimb
<1>. QED BY <1>1, <1>3, <1>4, OperationsClimb DEF ThreadInv

\* A step of one thread leaves the others as they are.
LEMMA OneThread ==
  ASSUME LocksInv, NEW t \in Threads, NEW o, NEW s, NEW h, ThreadInv(o, s, h),
         op' = [op EXCEPT ![t] = o], todo' = [todo EXCEPT ![t] = s], held' = [held EXCEPT ![t] = h]
  PROVE  LocksInv'
<1>1. o \in OpNames /\ s \in Seq(LockSteps) /\ h \in HeldLocks
  BY DEF ThreadInv
<1>2. /\ op' \in [Threads -> OpNames] /\ todo' \in [Threads -> Seq(LockSteps)]
      /\ held' \in [Threads -> HeldLocks]
  BY <1>1 DEF LocksInv
<1>3. ASSUME NEW u \in Threads PROVE ThreadInv(op'[u], todo'[u], held'[u])
  <2>1. CASE u = t
    <3>1. op'[u] = o /\ todo'[u] = s /\ held'[u] = h
      BY <2>1 DEF LocksInv
    <3>. QED BY <3>1
  <2>2. CASE u # t
    <3>1. op'[u] = op[u] /\ todo'[u] = todo[u] /\ held'[u] = held[u]
      BY <2>2 DEF LocksInv
    <3>. QED BY <3>1 DEF LocksInv
  <2>. QED BY <2>1, <2>2
<1>. QED BY <1>2, <1>3 DEF LocksInv, ThreadInv, Returned, Climbs, ToReturn, Below

LEMMA LocksNext == LocksInv /\ [LockNext]_lockVars => LocksInv'
<1> SUFFICES ASSUME LocksInv, [LockNext]_lockVars PROVE LocksInv'
  OBVIOUS
<1>1. ASSUME NEW t \in Threads, Begin(t) PROVE LocksInv'
  <2>1. PICK o \in Operations(t) :
          op' = [op EXCEPT ![t] = o[1]] /\ todo' = [todo EXCEPT ![t] = o[2]]
    BY <1>1 DEF Begin
  <2>2. op[t] = "idle" /\ held' = [held EXCEPT ![t] = held[t]]
    BY <1>1 DEF Begin, LocksInv
  <2>3. ThreadInv("idle", todo[t], held[t])
    BY <2>2 DEF LocksInv
  <2>4. ThreadInv(o[1], o[2], held[t])
    BY <2>3, PathBegins
  <2>. QED BY <2>1, <2>2, <2>4, OneThread
<1>2. ASSUME NEW t \in Threads, NEW h, Advance(t), held' = [held EXCEPT ![t] = h],
             ThreadInv(IF Tail(todo[t]) = <<>> THEN "idle" ELSE op[t], Tail(todo[t]), h)
      PROVE  LocksInv'
  <2>1. PICK s : s = Tail(todo[t])
    OBVIOUS
  <2>2. PICK o : o = IF Tail(todo[t]) = <<>> THEN "idle" ELSE op[t]
    OBVIOUS
  <2>3. op' = [op EXCEPT ![t] = o] /\ todo' = [todo EXCEPT ![t] = s]
    BY <1>2, <2>1, <2>2 DEF Advance, LocksInv
  <2>4. ThreadInv(o, s, h)
    BY <1>2, <2>1, <2>2
  <2>. QED BY <1>2, <2>3, <2>4, OneThread
<1>3. ASSUME NEW t \in Threads, Acquire(t) PROVE LocksInv'
  <2>1. todo[t] # <<>> /\ Head(todo[t]).do # "drop" /\ Advance(t)
    BY <1>3 DEF Acquire
  <2>2. /\ todo[t] \in Seq(LockSteps) /\ held[t] \in HeldLocks
        /\ ThreadInv(op[t], todo[t], held[t])
    BY DEF LocksInv
  <2>3. PICK x : x = todo[t][1]
    OBVIOUS
  <2>4. x \in LockSteps /\ x.do # "drop" /\ Head(todo[t]) = x
    BY <2>1, <2>2, <2>3, RestOfPath
  <2>5. held' = [held EXCEPT ![t] = IF x.do = "pass" THEN held[t] ELSE held[t] \cup {<<x.lock, x.mode>>}]
    BY <1>3, <2>4 DEF Acquire, LocksInv
  <2>6. CASE x.do = "pass"
    <3>1. \A p \in held[t] : ~IsDrop(todo[t][1], p[1], p[2])
      BY <2>3, <2>4 DEF IsDrop
    <3>2. held[t] \in SUBSET held[t]
      OBVIOUS
    <3>3. ThreadInv(IF Tail(todo[t]) = <<>> THEN "idle" ELSE op[t], Tail(todo[t]), held[t])
      BY <2>1, <2>2, <3>1, <3>2, PathStep
    <3>4. held' = [held EXCEPT ![t] = held[t]]
      BY <2>5, <2>6
    <3>. QED BY <1>2, <2>1, <3>3, <3>4
  <2>7. CASE x.do # "pass"
    <3>1. x.do = "take"
      BY <2>4, <2>7 DEF LockSteps
    <3>2. ThreadInv(IF Tail(todo[t]) = <<>> THEN "idle" ELSE op[t], Tail(todo[t]),
                    held[t] \cup {<<x.lock, x.mode>>})
      BY <2>1, <2>2, <2>3, <3>1, PathTakes
    <3>3. held' = [held EXCEPT ![t] = held[t] \cup {<<x.lock, x.mode>>}]
      BY <2>5, <2>7
    <3>. QED BY <1>2, <2>1, <3>2, <3>3
  <2>. QED BY <2>6, <2>7
<1>4. ASSUME NEW t \in Threads, Release(t) PROVE LocksInv'
  <2>1. todo[t] # <<>> /\ Head(todo[t]).do = "drop" /\ Advance(t)
    BY <1>4 DEF Release
  <2>2. /\ todo[t] \in Seq(LockSteps) /\ held[t] \in HeldLocks
        /\ ThreadInv(op[t], todo[t], held[t])
    BY DEF LocksInv
  <2>3. PICK x : x = todo[t][1]
    OBVIOUS
  <2>4. x \in LockSteps /\ Head(todo[t]) = x
    BY <2>1, <2>2, <2>3, RestOfPath
  <2>5. PICK g : g = held[t] \ {<<x.lock, x.mode>>}
    OBVIOUS
  <2>6. held' = [held EXCEPT ![t] = g]
    BY <1>4, <2>4, <2>5 DEF Release, LocksInv
  <2>7. \A p \in g : ~IsDrop(todo[t][1], p[1], p[2])
    <3>1. \A p \in g : p \in Locks \X Modes /\ p # <<x.lock, x.mode>>
      BY <2>2, <2>5 DEF HeldLocks
    <3>2. \A p \in Locks \X Modes : p = <<p[1], p[2]>>
      OBVIOUS
    <3>. QED BY <2>3, <3>1, <3>2 DEF IsDrop
  <2>8. g \in SUBSET held[t]
    BY <2>5
  <2>9. ThreadInv(IF Tail(todo[t]) = <<>> THEN "idle" ELSE op[t], Tail(todo[t]), g)
    BY <2>1, <2>2, <2>7, <2>8, PathStep
  <2>. QED BY <1>2, <2>1, <2>6, <2>9
<1>5. ASSUME UNCHANGED lockVars PROVE LocksInv'
  BY <1>5 DEF LocksInv, lockVars, ThreadInv, Returned, Climbs, ToReturn, Below
<1>. QED BY <1>1, <1>3, <1>4, <1>5 DEF LockNext

LEMMA LocksInit == LockInit => LocksInv
<1> SUFFICES ASSUME LockInit PROVE LocksInv
  OBVIOUS
<1>1. "idle" \in OpNames /\ {} \in HeldLocks /\ <<>> \in Seq(LockSteps)
  BY DEF OpNames, HeldLocks
<1>2. /\ op \in [Threads -> OpNames] /\ todo \in [Threads -> Seq(LockSteps)]
      /\ held \in [Threads -> HeldLocks]
  BY <1>1 DEF LockInit
<1>3. ThreadInv("idle", <<>>, {})
  BY <1>1 DEF ThreadInv, Returned, Climbs, ToReturn, Below
<1>. QED BY <1>2, <1>3 DEF LocksInv, LockInit

LEMMA LocksInvariant == LockSpec => []LocksInv
BY LocksInit, LocksNext, PTL DEF LockSpec

\* A thread that waits, while it is not in /get_network_info, wants a lock above all it holds.
LEMMA WantsAbove ==
  ASSUME LocksInv, NEW u \in Threads, todo[u] # <<>>, Head(todo[u]).do # "drop",
         op[u] # "get_network_info", NEW lock, Holds(u, lock)
  PROVE  Precedes(lock, Head(todo[u]).lock)
<1>1. todo[u] \in Seq(LockSteps) /\ Below(held[u], todo[u])
  BY DEF LocksInv, ThreadInv
<1>2. PICK mode \in {"read", "write"} : <<lock, mode>> \in held[u]
  BY DEF Holds
<1>3. PICK p : p = <<lock, mode>>
  OBVIOUS
<1>4. p \in held[u] /\ p[1] = lock
  BY <1>2, <1>3
<1>5. Head(todo[u]) = todo[u][1] /\ 1 \in 1..Len(todo[u])
  BY <1>1, RestOfPath
<1>6. \/ \E k \in 1..1 - 1 : IsDrop(todo[u][k], p[1], p[2])
      \/ Precedes(p[1], todo[u][1].lock)
  BY <1>1, <1>4, <1>5 DEF Below
<1>. QED BY <1>4, <1>5, <1>6

\* In a set of waiting threads without /get_network_info there is always one that wants a
\* lock of higher rank: the one that holds what the other wants.
LEMMA WaitsClimb ==
  ASSUME LocksInv
  PROVE  WaitsOnlyForNetworkInfo
<1> SUFFICES ASSUME NEW S \in CircularWaits, \A t \in S : op[t] # "get_network_info"
             PROVE  FALSE
  BY DEF WaitsOnlyForNetworkInfo
<1> DEFINE Wants(t) == Head(todo[t]).lock
<1>1. /\ S # {} /\ S \subseteq Threads
      /\ \A t \in S : \E u \in S : KeepsFrom(u, t)
  BY DEF CircularWaits
<1>2. \A t \in S : todo[t] # <<>> /\ Head(todo[t]).do # "drop"
  BY <1>1 DEF KeepsFrom
<1>3. ASSUME NEW t \in S, NEW u \in S, Holds(u, Wants(t)) PROVE Precedes(Wants(t), Wants(u))
  <2>1. u \in Threads /\ op[u] # "get_network_info"
    BY <1>1
  <2>. QED BY <1>2, <1>3, <2>1, WantsAbove
<1>4. ASSUME NEW t \in S, NEW u \in S, KeepsFrom(u, t), ~Holds(u, Wants(t))
      PROVE  Wants(u) = Wants(t) /\ Head(todo[u]).mode = "write"
  BY <1>4 DEF KeepsFrom, Holds, Step
<1>5. ASSUME NEW t \in S PROVE \E u \in S : Precedes(Wants(t), Wants(u))
  <2>1. PICK u \in S : KeepsFrom(u, t)
    BY <1>1
  <2>2. CASE Holds(u, Wants(t))
    BY <1>3, <2>2
  <2>3. CASE ~Holds(u, Wants(t))
    <3>1. Wants(u) = Wants(t) /\ Head(todo[u]).mode = "write"
      BY <1>4, <2>1, <2>3
    <3>2. PICK w \in S : KeepsFrom(w, u)
      BY <1>1
    <3>3. Holds(w, Wants(u))
      BY <3>1, <3>2 DEF KeepsFrom, Holds
    <3>. QED BY <1>3, <3>1, <3>3
  <2>. QED BY <2>2, <2>3
<1> DEFINE B == {4 - LockRank(Wants(t)) : t \in S}
<1>6. B \subseteq Nat /\ B # {}
  BY <1>1, RanksAreNumbers
<1>7. ASSUME NEW b \in B PROVE \E c \in B : c < b
  <2>1. PICK t \in S : b = 4 - LockRank(Wants(t))
    OBVIOUS
  <2>2. PICK u \in S : LockRank(Wants(t)) < LockRank(Wants(u))
    BY <1>5 DEF Precedes
  <2>3. 4 - LockRank(Wants(u)) \in B /\ 4 - LockRank(Wants(u)) < b
    BY <2>1, <2>2, RanksAreNumbers
  <2>. QED BY <2>3
<1> HIDE DEF B
<1>8. PICK b \in B : \A c \in B : b <= c
  BY <1>6, LeastNatural
<1>9. PICK c \in B : c < b
  BY <1>7
<1>10. b \in Nat /\ c \in Nat /\ b <= c
  BY <1>6, <1>8
<1>. QED BY <1>9, <1>10

-----------------------------------------------------------------------------
(* The parts side by side: only one is awake, so a behaviour of them all is  *)
(* a behaviour of each.                                                      *)

LEMMA ServicesBehave == Spec => PoolSpec /\ DASpec /\ LockSpec /\ PayloadsSpec /\ SimpleSpec
<1>1. Init => PoolInit /\ DAInit /\ LockInit /\ PayloadsInit /\ SimpleInit
  BY DEF Init
<1>2. [Next]_<<awake, serviceVars>> =>
        /\ [PoolNext]_poolVars /\ [DANext]_daVars /\ [LockNext]_lockVars
        /\ [PayloadsNext]_payloadVars /\ [SimpleNext]_simpleVars
  BY DEF Next, serviceVars
<1>. QED BY <1>1, <1>2, PTL DEF Spec, PoolSpec, DASpec, LockSpec, PayloadsSpec, SimpleSpec

\* main.rs: whatever tasks and requests wait for each other for ever, a /get_network_info is
\* among them, for any number of connections and of threads that serve requests.
THEOREM WaitsForNetworkInfo == Spec => []WaitsOnlyForNetworkInfo
<1>. QED BY WaitsClimb, LocksInvariant, ServicesBehave, PTL

\* Mempool: a process hands a transaction to a vertex again only if it forgot it in between,
\* whatever the bounds on the queue and on the record are.
THEOREM NotTakenTwice == Spec => []TakenAgainOnlyIfForgotten
<1>. QED BY RecordExplains, PoolInvariant, ServicesBehave, PTL

\* handle_p2p_message: a shard that a node keeps is the shard of that index of a batch of that
\* epoch, for any number of shards, whoever crashes, and whatever comes late or again.
THEOREM KeptShardsAreOfTheBatch == Spec => []ShardsAreCommitted
<1>1. DisksInv /\ SampleInv => ShardsAreCommitted
  BY DisksAreMade
<1>. QED BY <1>1, AvailabilityInvariant, ServicesBehave, PTL

\* DASampler::sample: a node that passes the sampling of an epoch of one batch holds as many
\* shards of that batch as decoding takes, while three quarters of the samples are more than
\* one shard too few to decode.
THEOREM SamplingSuffices == Spec => []PassedIsDecodable
<1>1. DisksInv /\ SampleInv => PassedIsDecodable
  BY EnoughIsThere
<1>. QED BY <1>1, AvailabilityInvariant, ServicesBehave, PTL

\* Executor and slashing: whoever is on the list of weights is one whose stake the contract
\* holds, for any payloads, refusals of the VM, order of the parallel writes and slashes.
THEOREM CountedHaveStake == Spec => []CountedAreStaked
<1>. QED BY CountedInvariant, ServicesBehave, PTL

\* SimpleConsensus: an engine that holds a block and the stake to commit it has committed it,
\* for any validators and weights, in whatever order the block and the votes came.
THEOREM EngineCommitsInTime == Spec => []CommitsWhenComplete
<1>1. EngineInv => CommitsWhenComplete
  BY DEF EngineInv
<1>. QED BY <1>1, EngineInvariant, ServicesBehave, PTL

=============================================================================
